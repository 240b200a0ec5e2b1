------------------------------ MODULE IndexInv ------------------------------
(***************************************************************************)
(* The inductive invariant behind the safety properties of Index.          *)
(***************************************************************************)
EXTENDS Index

CorpusChunk == Range(CorpusChunks)

-----------------------------------------------------------------------------
(* The batch path                                                          *)

\* Ids are drawn one after the other; what is in the queue was drawn, and a
\* result is only recorded for a task that is in the queue.
QueueInv ==
    /\ payload \in Seq(CorpusChunk) /\ DOMAIN payload \subseteq Task
    /\ order \in Seq(DOMAIN payload)
    /\ outcomes \in [Task -> SUBSET Result]
    /\ \A t \in Task : Done(t) => t \in Submitted
    /\ \A cmd \in proposed :
         /\ cmd.id \in DOMAIN payload
         /\ \/ cmd = SubmitCmd(cmd.id)
            \/ cmd.data \in Result /\ cmd = CompleteCmd(cmd.id, cmd.data)

\* A worker that is busy holds a task of the queue, and the vector it is about
\* to write is that of the task's chunk.
WorkInv ==
    /\ lent \in [Worker -> Submitted \cup {None}]
    /\ DOMAIN work = Worker
    /\ \A w \in Worker :
         \/ work[w] = Idle
         \/ /\ lent[w] \in Submitted
            /\ \/ work[w] = [pc |-> "embed"]
               \/ work[w] = [pc |-> "upsert", vector |-> Embedding(Chunk(w).text)]
               \/ \E r \in Result : work[w] = Report(r)

\* A success that a worker is about to report, that has been proposed or that
\* has been recorded is about a chunk that is stored.
SuccessInv ==
    /\ \A t \in DOMAIN payload :
         "success" \in outcomes[t] \/ CompleteCmd(t, "success") \in proposed
             => IsStored(payload[t])
    /\ \A w \in Worker : work[w] = Report("success") => IsStored(Chunk(w))

\* The k-th id the producer keeps is that of the k-th chunk, or empty; once it
\* waits it has one for every chunk, and those it waits for no more are done.
ProducerInv ==
    LET id == DOMAIN payload \cup {NoId}
        ids == producer.taskIDs
    IN  /\ producer \in [pc : {"submit", "failed", "wait", "done"}, taskIDs : Seq(id),
                         pending : SUBSET id, hop : id]
        /\ Len(ids) <= Len(CorpusChunks)
        /\ \A k \in DOMAIN ids : ids[k] # NoId => payload[ids[k]] = CorpusChunks[k]
        /\ producer.hop # NoId => payload[producer.hop] = CorpusChunks[Len(ids) + 1]
        /\ producer.pc \in {"wait", "done"} =>
             /\ Len(ids) = Len(CorpusChunks)
             /\ \A k \in DOMAIN ids :
                  ids[k] \in producer.pending \/ (ids[k] \in Task /\ Done(ids[k]))
        /\ producer.pc = "done" => producer.pending = {}

-----------------------------------------------------------------------------
(* The query server                                                        *)

Busy(h) == handler[h].pc \in {"embed", "read", "embedded"}

\* A handler embeds and writes the texts of its own request, one after the
\* other; requests answered before another came in are still answered.
HandlerInv ==
    /\ DOMAIN handler = Request /\ before \in [Request -> SUBSET Request]
    /\ \A h \in Request :
         LET r == handler[h] IN
         /\ r = [pc |-> r.pc, in |-> r.in, chunks |-> r.chunks, k |-> r.k,
                 status |-> r.status, vector |-> r.vector, hits |-> r.hits]
         /\ \/ r.pc = "new" /\ r = NewHandler
            \/ Busy(h) /\ r.status = "none" /\ r.k \in 1 .. Len(r.chunks)
            \/ r.pc = "answered" /\ r.status \in {"ok", "error", "invalid"}
         /\ \A o \in {"search", "ingest"} :
              IsOp(h, o) => r.in \in Input /\ r.chunks = ToEmbed(r.in)
         /\ \A g \in before[h] : handler[g].pc = "answered"

\* At most one text is in the pipes, that of the handler that holds the mutex:
\* it is still to be read by the subprocess, or its vector is there, or both
\* are gone with the subprocess.
PipeInv ==
    /\ sub = [alive |-> sub.alive, stdin |-> sub.stdin, stdout |-> sub.stdout]
    /\ mu \in Request \cup {Free}
    /\ \A h \in Request : handler[h].pc = "read" <=> mu = h
    /\ IF mu = Free THEN sub.stdin = <<>> /\ sub.stdout = <<>>
       ELSE \/ sub.alive /\ sub.stdin = <<Current(mu).text>> /\ sub.stdout = <<>>
            \/ sub.stdin = <<>> /\ sub.stdout = <<Embedding(Current(mu).text)>>
            \/ ~sub.alive /\ sub.stdin = <<>> /\ sub.stdout = <<>>

-----------------------------------------------------------------------------
(* The collection                                                          *)

\* Vectors are those of the texts they are stored with, or will be.
VectorInv ==
    /\ IsFiniteSet(DOMAIN points)
    /\ OwnVector
    /\ \A u \in late : u.vector = Embedding(u.chunk.text)
    /\ \A h \in Request :
         handler[h].pc = "embedded" => handler[h].vector = Embedding(Current(h).text)

\* Every point is that of one chunk id, and says which document it is from.
PointInv ==
    \A p \in DOMAIN points :
        \E id \in ChunkId :
            /\ p = ChunkIDToUUID(id)
            /\ points[p] = [doc |-> id[1], text |-> points[p].text,
                            vector |-> points[p].vector]

\* The request whose chunk it is.
ChunkOf(c, g) ==
    IsOp(g, "ingest") /\ \E k \in DOMAIN handler[g].chunks : handler[g].chunks[k] = c

\* An upsert that may come late is the batch path's or that of a request that
\* was answered with an error.
LateInv ==
    \A u \in late :
        \/ u.chunk \in CorpusChunk
        \/ \E g \in Request : ChunkOf(u.chunk, g) /\ handler[g].status = "error"

\* Where a chunk of ingest h belongs stands a text that h wrote, or somebody
\* who may have written after it.
Stands(h, id) ==
    /\ ChunkIDToUUID(id) \in DOMAIN points
    /\ \/ \E g \in WrittenBy(id, TextAt(id)) : g = h \/ MayFollow(g, h)
       \/ InCorpus(id, TextAt(id))

\* This holds of every chunk that an ingest has got through, also while it is
\* still busy with the next one.
IngestInv ==
    \A h \in Request : IsOp(h, "ingest") =>
        \A k \in DOMAIN handler[h].chunks :
            handler[h].status = "ok" \/ (Busy(h) /\ k < handler[h].k)
                => Stands(h, handler[h].chunks[k].id)

\* The inductive invariant of batch path and query server: together these are
\* kept by every step of producer, workers, brokers, handlers, subprocess and
\* Qdrant.  A success stands for a stored chunk all the way from the worker
\* through Complete to the brokers' tables, what is in the pipes belongs to the
\* holder of the mutex, and an ingest's chunks stand one by one.
IInv ==
    /\ QueueInv /\ WorkInv /\ SuccessInv /\ ProducerInv
    /\ HandlerInv /\ PipeInv /\ VectorInv /\ PointInv /\ LateInv /\ IngestInv
    /\ SearchSeesIngest
=============================================================================
