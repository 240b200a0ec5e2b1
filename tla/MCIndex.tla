------------------------------ MODULE MCIndex ------------------------------
(***************************************************************************)
(* Batch path and query server on small instances, for TLC, and ChunkText  *)
(* against its loop and against what it is for.                            *)
(***************************************************************************)
EXTENDS IndexInv, TLC

\* Two passages, then a line that cannot be decoded, which hides the rest.
MCCorpus == <<[id |-> "a", words |-> <<"u", "v", "w">>], Malformed,
              [id |-> "b", words |-> <<"u">>]>>

MCChunkId == {"a", "b"} \X (0 .. 1)
MCHash == [c \in MCChunkId |-> (IF c[1] = "a" THEN 0 ELSE 2) + c[2]]

\* A model that looks at the first word only: different texts share a vector.
MCEmbedding(text) == SubSeq(text, 1, 1)

Ingest(d, words) == [op |-> "ingest", doc |-> d, text |-> words, chunkSize |-> 0]
Find(words, k) == [op |-> "search", query |-> words, topK |-> k]

\* Two versions of document a, the second shorter; a document that the corpus
\* does not reach, with passages that share a vector; white space; searches with
\* too small and too large a top_k.
MCInput == {Ingest("a", <<"x", "y", "z">>), Ingest("a", <<"v">>),
            Ingest("b", <<"x", "y", "x">>), Ingest("b", <<>>),
            Find(<<"x", "y">>, 0), Find(<<"v">>, 60), [op |-> "healthz"]}

\* One of the workers, and the server.
WorkerAndServer == {CHOOSE w \in Worker : TRUE, Server}

Running(P) == started = [p \in Process |-> IF p \in P THEN "up" ELSE "exited"]

Producer(pc, ids) ==
    producer = [pc |-> pc, taskIDs |-> ids, pending |-> {}, hop |-> NoId]

\* One worker and the server start at once and the other worker is gone; the
\* producer could not open its corpus.
InitStart ==
    /\ started = [p \in Process |-> IF p \in WorkerAndServer THEN "get" ELSE "exited"]
    /\ collection = FALSE /\ points = <<>> /\ late = {} /\ faults = 0
    /\ QueueInit /\ proposed = {} /\ payload = <<>>
    /\ work = [w \in Worker |-> Idle]
    /\ Producer("failed", <<>>)
    /\ ServerInit

\* The first chunk was submitted, embedded and stored, and its result is in.
Halfway ==
    /\ collection = TRUE /\ late = {} /\ faults = 0
    /\ LET c == CorpusChunks[1] IN
         /\ points = (ChunkIDToUUID(c.id) :>
                        [doc |-> c.doc, text |-> c.text, vector |-> Embedding(c.text)])
         /\ payload = <<c>>
    /\ proposed = {} /\ order = <<1>>
    /\ outcomes = [t \in Task |-> IF t = 1 THEN {"success"} ELSE {}]
    /\ lent = [w \in Worker |-> None]
    /\ work = [w \in Worker |-> Idle]
    /\ ServerInit

\* Only the batch path: the second chunk is to be submitted.
InitBatch == Running(Worker) /\ Halfway /\ Producer("submit", <<1>>)

\* The producer has given up; requests replace what the batch path wrote, and
\* a worker that is lent the first task again may write it once more.
InitServe ==
    /\ Running(WorkerAndServer)
    /\ Halfway /\ Producer("failed", <<1>>)

-----------------------------------------------------------------------------
(* ChunkText                                                               *)

\* The loop of the code: i runs over the words in steps of maxWords.
ChunkLoop(words, maxWords) ==
    LET n == Len(words)
        from[i \in Nat] ==
            IF i >= n THEN <<>>
            ELSE <<SubSeq(words, i + 1, Min({i + maxWords, n}))>> \o from[i + maxWords]
    IN  IF n = 0 THEN <<>> ELSE IF maxWords <= 0 THEN <<words>> ELSE from[0]

\* The passages are the text, cut after every maxWords words.
ASSUME ChunkTextAssumption ==
    \A words \in BoundedSeq({"u", "v"}, 5), maxWords \in -1 .. 6 :
        LET passages == ChunkText(words, maxWords) IN
        /\ passages = ChunkLoop(words, maxWords)
        /\ FlattenSeq(passages) = words
        /\ \A k \in DOMAIN passages :
             IF k < Len(passages) THEN Len(passages[k]) = maxWords
             ELSE passages[k] # <<>> /\ (maxWords > 0 => Len(passages[k]) <= maxWords)

-----------------------------------------------------------------------------
SpecIndex ==
    /\ InitStart \/ InitBatch \/ InitServe
    /\ [][Next]_vars /\ Fairness

SpecServe == InitServe /\ [][Next]_vars
=============================================================================
