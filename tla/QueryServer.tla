---------------------------- MODULE QueryServer ----------------------------
(***************************************************************************)
(* The HTTP server: concurrent /search and /ingest requests that share one *)
(* embedding subprocess, guarded by the mutex of Embedder, and the Qdrant  *)
(* collection.  A handler embeds its texts one at a time: the query of a   *)
(* search, the passages of a document.                                     *)
(***************************************************************************)
EXTENDS Indexer

CONSTANTS
    Server,         \* the process
    Request,        \* requests, one handler goroutine each
    Input,          \* what a request that passes the checks may carry
    Invalid,        \* the wrong method, an undecodable body or an empty field
    Free,           \* nobody holds the mutex
    defaultTopK, maxTopK, defaultChunkSize

ASSUME ServerAssumption ==
    /\ Server \in Process /\ Free \notin Request
    /\ maxTopK \in Nat /\ defaultTopK \in 1 .. maxTopK
    /\ defaultChunkSize \in Nat \ {0}

VARIABLES
    mu,         \* the holder of the embedder's mutex
    sub,        \* the subprocess: is it alive, lines to it and from it
    handler,    \* the handler of each request
    before      \* history: the requests answered when this one came in

serverVars == <<mu, sub, handler, before>>

NewHandler == [pc |-> "new", in |-> Invalid, chunks |-> <<>>, k |-> 1,
               status |-> "none", vector |-> <<>>, hits |-> {}]

ServerInit ==
    /\ mu = Free
    /\ sub = [alive |-> TRUE, stdin |-> <<>>, stdout |-> <<>>]
    /\ handler = [h \in Request |-> NewHandler]
    /\ before = [h \in Request |-> {}]

IsOp(h, o) == handler[h].in # Invalid /\ handler[h].in.op = o

\* The text to embed next.
Current(h) == handler[h].chunks[handler[h].k]

-----------------------------------------------------------------------------
(* A request comes in: checks and defaults                                 *)

\* Mutant: only the upper bound is applied.
TopKAtMost(k) == Min({k, maxTopK})

TopK(k) == IF k <= 0 THEN defaultTopK ELSE Min({k, maxTopK})

ChunkSizeOf(n) == IF n <= 0 THEN defaultChunkSize ELSE n

\* What is to be embedded; a text of white space has no words.
ToEmbed(in) ==
    IF in.op = "search" THEN <<[text |-> in.query]>>
    ELSE Chunks(in.doc, in.text, ChunkSizeOf(in.chunkSize))

ASSUME InputAssumption ==
    \A in \in Input :
        /\ in.op = "search" => in.topK \in Int
        /\ in.op = "ingest" =>
             /\ Len(in.text) \in Nat /\ in.chunkSize \in Int
             /\ \A k \in DOMAIN ToEmbed(in) : ToEmbed(in)[k].id \in ChunkId

\* A connection brings a request; net/http starts a goroutine for it.
Arrive(h) ==
    /\ started[Server] = "up" /\ handler[h].pc = "new"
    /\ before' = [before EXCEPT ![h] =
                    {g \in Request : handler[g].pc = "answered"}]
    /\ UNCHANGED <<mu, sub, storeVars>>

Answer(h, status) ==
    handler' = [handler EXCEPT ![h].pc = "answered", ![h].status = status]

Reject(h) == Arrive(h) /\ Answer(h, "invalid")

Accept(h, in, pc, status) ==
    handler' = [handler EXCEPT ![h] =
        [@ EXCEPT !.pc = pc, !.status = status, !.in = in, !.chunks = ToEmbed(in)]]

handleHealthz(h, in) ==
    /\ Arrive(h) /\ in.op = "healthz"
    /\ handler' = [handler EXCEPT ![h] =
                      [@ EXCEPT !.pc = "answered", !.status = "ok", !.in = in]]

handleSearch(h, in) ==
    Arrive(h) /\ in.op = "search" /\ Accept(h, in, "embed", "none")

handleIngest(h, in) ==
    /\ Arrive(h) /\ in.op = "ingest"
    /\ IF ToEmbed(in) = <<>> THEN Accept(h, in, "answered", "error")
       ELSE Accept(h, in, "embed", "none")

Receive(h) ==
    \/ Reject(h)
    \/ \E in \in Input :
         handleHealthz(h, in) \/ handleSearch(h, in) \/ handleIngest(h, in)

-----------------------------------------------------------------------------
(* Embed: the request line is written and one line read under the mutex    *)

\* Mutant: the mutex covers only the writing.
UnlockAfterWrite(h) == Free

LockedBy(h) == h

Write(h) ==
    /\ handler[h].pc = "embed" /\ mu = Free
    /\ sub.alive
    /\ mu' = LockedBy(h)
    /\ sub' = [sub EXCEPT !.stdin = Append(@, Current(h).text)]
    /\ handler' = [handler EXCEPT ![h].pc = "read"]
    /\ UNCHANGED <<before, storeVars>>

WriteFails(h) ==
    /\ handler[h].pc = "embed" /\ mu = Free
    /\ ~sub.alive
    /\ Answer(h, "error")
    /\ UNCHANGED <<mu, sub, before, storeVars>>

\* Whose response the line is, is not looked at.
Read(h) ==
    /\ handler[h].pc = "read" /\ sub.stdout # <<>>
    /\ handler' = [handler EXCEPT ![h].pc = "embedded",
                                  ![h].vector = Head(sub.stdout)]
    /\ sub' = [sub EXCEPT !.stdout = Tail(@)]
    /\ mu' = Free
    /\ UNCHANGED <<before, storeVars>>

\* Mutant: the mutex is not given back on the error path.
StillLocked == mu

Unlocked == Free

\* Nothing comes any more, or the line that came cannot be decoded.
ReadFails(h) ==
    /\ handler[h].pc = "read"
    /\ \/ sub.stdout = <<>> /\ ~sub.alive /\ UNCHANGED <<sub, faults>>
       \/ sub.stdout # <<>> /\ Fault /\ sub' = [sub EXCEPT !.stdout = Tail(@)]
    /\ Answer(h, "error")
    /\ mu' = Unlocked
    /\ UNCHANGED <<before, started, collection, points, late>>

\* The subprocess answers the lines in order, with the vector of the text.
Respond ==
    /\ sub.alive /\ sub.stdin # <<>>
    /\ sub' = [sub EXCEPT !.stdin = Tail(@),
                          !.stdout = Append(@, Embedding(Head(sub.stdin)))]
    /\ UNCHANGED <<mu, handler, before, storeVars>>

\* It ends for good; what it has written can still be read.
Die ==
    /\ sub.alive /\ Fault
    /\ sub' = [sub EXCEPT !.alive = FALSE, !.stdin = <<>>]
    /\ UNCHANGED <<mu, handler, before, started, collection, points, late>>

-----------------------------------------------------------------------------
(* The rest of IngestDocument and of Search                                *)

NextChunk(h) ==
    LET r == handler[h] IN
    handler' = [handler EXCEPT ![h] =
        IF r.k < Len(r.chunks) THEN [r EXCEPT !.pc = "embed", !.k = @ + 1]
        ELSE [r EXCEPT !.pc = "answered", !.status = "ok"]]

IngestChunk(h) ==
    /\ handler[h].pc = "embedded" /\ IsOp(h, "ingest")
    /\ UpsertChunk(Current(h), handler[h].vector)
    /\ NextChunk(h)
    /\ UNCHANGED <<mu, sub, before>>

\* Mutant: the failed chunk is skipped.
SkipChunk(h) == NextChunk(h)

\* The chunks before this one stay written.
AbandonIngest(h) == Answer(h, "error")

IngestFails(h) ==
    /\ handler[h].pc = "embedded" /\ IsOp(h, "ingest")
    /\ UpsertFails(Current(h), handler[h].vector)
    /\ AbandonIngest(h)
    /\ UNCHANGED <<mu, sub, before>>

\* Qdrant returns the nearest points, as many as the limit allows: those
\* with the very vector of the query come first.
Nearest(vector, limit) ==
    LET exact == {p \in DOMAIN points : points[p].vector = vector}
        n == Min({limit, Cardinality(DOMAIN points)})
    IN  {S \in SUBSET DOMAIN points :
           Cardinality(S) = n /\ (exact \subseteq S \/ S \subseteq exact)}

Search(h) ==
    /\ handler[h].pc = "embedded" /\ IsOp(h, "search")
    /\ \E S \in Nearest(handler[h].vector, TopK(handler[h].in.topK)) :
         handler' = [handler EXCEPT ![h].pc = "answered", ![h].status = "ok",
                                    ![h].hits = {points[p] : p \in S}]
    /\ UNCHANGED <<mu, sub, before, storeVars>>

SearchFails(h) ==
    /\ handler[h].pc = "embedded" /\ IsOp(h, "search") /\ Fault
    /\ Answer(h, "error")
    /\ UNCHANGED <<mu, sub, before, started, collection, points, late>>

-----------------------------------------------------------------------------
Handle(h) ==
    \/ Write(h) \/ WriteFails(h) \/ Read(h) \/ ReadFails(h)
    \/ IngestChunk(h) \/ IngestFails(h) \/ Search(h) \/ SearchFails(h)

ServerNext ==
    \/ \E h \in Request : Handle(h) \/ Receive(h)
    \/ Respond \/ Die

-----------------------------------------------------------------------------
(* Properties                                                              *)

\* Did request g try to write text as the chunk?
Ingests(g, id, text) ==
    IsOp(g, "ingest") /\ \E k \in DOMAIN handler[g].chunks :
        handler[g].chunks[k].id = id /\ handler[g].chunks[k].text = text

Acknowledged(h, o) == IsOp(h, o) /\ handler[h].status = "ok"

\* g can have written after h did: it was not through when h came in, or its
\* writes were given up and may come late.
MayFollow(g, h) == g \notin before[h] \/ handler[g].status # "ok"

\* A request that was received is answered, also when the subprocess dies
\* under it or under the request that holds the mutex.
Answered ==
    \A h \in Request :
        handler[h].pc # "new" ~> handler[h].pc = "answered"
=============================================================================
