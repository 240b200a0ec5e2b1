------------------------------ MODULE Indexer ------------------------------
(***************************************************************************)
(* internal/indexer and the Qdrant collection it writes to, shared by the  *)
(* workers and the query server, and the start of those processes.  A text *)
(* is a sequence of words.  Qdrant and the embedding model are external.   *)
(***************************************************************************)
EXTENDS Integers, Sequences, FiniteSetsExt

CONSTANTS
    Process,    \* processes that write to Qdrant: workers and the query server
    ChunkId,    \* chunk ids in use: <<document id, number of the passage>>
    Hash,       \* fnv64 on them
    Embedding(_), \* the model: text -> vector; texts may share a vector
    MaxFaults   \* bound: how often something outside the program fails

\* The properties are about the documents: no two chunk ids in use collide.
ASSUME IndexerAssumption ==
    /\ \A c, d \in ChunkId : Hash[c] = Hash[d] => c = d
    /\ MaxFaults \in Nat

VARIABLES
    started,    \* how far each process has come in its start
    collection, \* does the Qdrant collection exist?
    points,     \* point id -> [doc, text, vector]
    late,       \* upserts reported as failed that may still take effect
    faults      \* how often something has failed

storeVars == <<started, collection, points, late, faults>>

StoreInit ==
    /\ started = [p \in Process |-> "get"]
    /\ collection = FALSE
    /\ points = <<>>
    /\ late = {}
    /\ faults = 0

Fault == faults < MaxFaults /\ faults' = faults + 1

-----------------------------------------------------------------------------
(* Chunks and points                                                       *)

ChunkText(words, maxWords) ==
    LET n == Len(words)
        m == IF maxWords <= 0 THEN n ELSE maxWords
    IN  IF n = 0 THEN <<>>
        ELSE [k \in 1 .. ((n + m - 1) \div m) |->
                SubSeq(words, (k - 1) * m + 1, Min({k * m, n}))]

\* The decimal number follows the last "-": pairs and ids are one to one.
ChunkID(doc, k) == <<doc, k - 1>>

\* Mutant: the passage number does not enter the point id.
PointPerDocument(id) == Hash[<<id[1], 0>>]

ChunkIDToUUID(id) == Hash[id]

\* The passages of a document as chunks, numbered from 0.
Chunks(doc, words, size) ==
    LET passages == ChunkText(words, size) IN
    [k \in DOMAIN passages |->
        [id |-> ChunkID(doc, k), doc |-> doc, text |-> passages[k]]]

\* The points after an upsert of the chunk.
Stored(c, vector) ==
    LET p == ChunkIDToUUID(c.id) IN
    [q \in DOMAIN points \cup {p} |->
        IF q = p THEN [doc |-> c.doc, text |-> c.text, vector |-> vector]
        ELSE points[q]]

UpsertChunk(c, vector) ==
    /\ points' = Stored(c, vector)
    /\ UNCHANGED <<started, collection, late, faults>>

\* Qdrant fails or its answer comes too late: the write may still happen.
UpsertFails(c, vector) ==
    /\ Fault
    /\ late' = late \cup {[chunk |-> c, vector |-> vector]}
    /\ UNCHANGED <<started, collection, points>>

LateUpsert ==
    \E u \in late :
        /\ points' = Stored(u.chunk, u.vector)
        /\ late' = late \ {u}
        /\ UNCHANGED <<started, collection, faults>>

-----------------------------------------------------------------------------
(* The start of a process: EnsureCollection, then the embedding subprocess *)

StartStep(p, from, to) ==
    /\ started[p] = from
    /\ started' = [started EXCEPT ![p] = to]
    /\ UNCHANGED <<points, late>>

\* Any error of Get counts as "missing".
GetCollection(p) ==
    /\ \/ collection /\ StartStep(p, "get", "spawn") /\ UNCHANGED faults
       \/ ~collection /\ StartStep(p, "get", "create") /\ UNCHANGED faults
       \/ StartStep(p, "get", "create") /\ Fault
    /\ UNCHANGED collection

\* Qdrant refuses to create a collection that exists.
CreateCollection(p) ==
    \/ /\ ~collection /\ StartStep(p, "create", "spawn")
       /\ collection' = TRUE
       /\ UNCHANGED faults
    \/ /\ StartStep(p, "create", "exited")
       /\ IF collection THEN UNCHANGED faults ELSE Fault
       /\ UNCHANGED collection

EmbedderStart(p) ==
    /\ \/ StartStep(p, "spawn", "up") /\ UNCHANGED faults
       \/ StartStep(p, "spawn", "exited") /\ Fault
    /\ UNCHANGED collection

StartUp(p) == GetCollection(p) \/ CreateCollection(p) \/ EmbedderStart(p)

-----------------------------------------------------------------------------
(* Properties                                                              *)

\* "Safe to call from every process that might be the first to touch Qdrant":
\* while nothing has failed, no process has given up.
EverybodyStarts ==
    faults = 0 => \A p \in Process : started[p] # "exited"

\* Whoever wrote a point, embedding its text and storing it in several steps,
\* and however often: the vector stored with a text is the vector of that text.
OwnVector ==
    \A p \in DOMAIN points : points[p].vector = Embedding(points[p].text)
=============================================================================
