------------------------------ MODULE Pipeline ------------------------------
(***************************************************************************)
(* The batch path: a producer that submits every chunk of a corpus and     *)
(* waits for the results, and workers that embed chunks and write them to  *)
(* Qdrant, over the task queue that the brokers implement.                 *)
(***************************************************************************)
EXTENDS TaskQueue, Indexer, SequencesExt

CONSTANTS
    Corpus,     \* the lines of the corpus: articles [id, words] or Malformed
    Malformed,
    ChunkSize,
    NoId        \* the empty task id

VARIABLES
    producer,   \* phase, taskIDs so far, pending ids, id of the current hop
    payload,    \* task id -> the chunk submitted under it
    work        \* where each worker is with the task it holds

batchVars == <<queueVars, producer, payload, work>>

\* Decoding ends at the end of the file or at the first malformed line.
CorpusChunks ==
    LET bad == {k \in DOMAIN Corpus : Corpus[k] = Malformed}
        last == IF bad = {} THEN Len(Corpus) ELSE Min(bad) - 1
        chunksOf(a) == Chunks(a.id, a.words, ChunkSize)
    IN  FlattenSeq([k \in 1 .. last |-> chunksOf(Corpus[k])])

ASSUME CorpusAssumption ==
    /\ Corpus \in Seq(Range(Corpus)) /\ ChunkSize \in Int
    /\ \A k \in DOMAIN Corpus :
         Corpus[k] # Malformed => Len(Corpus[k].words) \in Nat
    /\ \A k \in DOMAIN CorpusChunks : CorpusChunks[k].id \in ChunkId

\* Task bounds how often Submit reaches a leader, each time under a fresh id.
ASSUME PipelineAssumption ==
    /\ Task = 1 .. Cardinality(Task)
    /\ Cardinality(Task) >= Len(CorpusChunks) + MaxFaults
    /\ Result = {"success", "error"}
    /\ Worker \subseteq Process /\ NoId \notin Task

Idle == [pc |-> "poll"]

BatchInit ==
    /\ QueueInit /\ proposed = {}
    /\ producer = [pc |-> "submit", taskIDs |-> <<>>, pending |-> {},
                   hop |-> NoId]
    /\ payload = <<>>
    /\ work = [w \in Worker |-> Idle]

-----------------------------------------------------------------------------
(* The producer                                                            *)

Submitting ==
    /\ producer.pc = "submit"
    /\ Len(producer.taskIDs) < Len(CorpusChunks)

\* A hop of Client.Submit reaches a leader, which draws an id and proposes it;
\* earlier hops of the same call may have done so as well.
SubmitHop ==
    LET t == Len(payload) + 1 IN
    /\ Submitting /\ t \in Task
    /\ Propose(SubmitCmd(t))
    /\ payload' = Append(payload, CorpusChunks[Len(producer.taskIDs) + 1])
    /\ producer' = [producer EXCEPT !.hop = t]
    /\ IF producer.hop = NoId THEN UNCHANGED faults ELSE Fault
    /\ UNCHANGED <<work, started, collection, points, late>>

\* Client.Submit returns an id with a nil error.
SubmitReturns(id) ==
    /\ Submitting
    /\ producer' = [producer EXCEPT !.taskIDs = Append(@, id), !.hop = NoId]
    /\ UNCHANGED <<queueVars, payload, work, started, collection, points, late>>

SubmitOk ==
    producer.hop \in Submitted /\ SubmitReturns(producer.hop) /\ UNCHANGED faults

\* The broker refuses and knows no leader: an empty id and no error.
SubmitRefused == SubmitReturns(NoId) /\ Fault

SubmitFails ==
    /\ Submitting /\ Fault
    /\ producer' = [producer EXCEPT !.pc = "failed"]
    /\ UNCHANGED <<queueVars, payload, work, started, collection, points, late>>

Waiting(pending) ==
    producer' = [producer EXCEPT !.pc = IF pending = {} THEN "done" ELSE "wait",
                                 !.pending = pending]

AllSubmitted ==
    /\ producer.pc = "submit" /\ ~Submitting
    /\ Waiting(Range(producer.taskIDs))
    /\ UNCHANGED <<queueVars, payload, work, storeVars>>

\* Mutant: a failed GetResult is taken for an answer.
AnyAnswer(id) == TRUE

\* Mutant: a task counts as done only if it succeeded.
SuccessIsIn(id) == id \in Task /\ "success" \in outcomes[id]

\* Some replica answers done; until it does, or when the call fails, the id
\* stays pending.  An empty id is never done.
ResultIsIn(id) == id \in Task /\ Done(id)

GetResult(id) ==
    /\ producer.pc = "wait" /\ id \in producer.pending
    /\ ResultIsIn(id)
    /\ Waiting(producer.pending \ {id})
    /\ UNCHANGED <<queueVars, payload, work, storeVars>>

Produce ==
    \/ SubmitHop \/ SubmitOk \/ SubmitRefused \/ SubmitFails
    \/ AllSubmitted
    \/ \E id \in producer.pending : GetResult(id)

-----------------------------------------------------------------------------
(* A worker                                                                *)

Chunk(w) == payload[lent[w]]

At(w, pc) == started[w] = "up" /\ work[w].pc = pc

Goto(w, next) == work' = [work EXCEPT ![w] = next]

\* Neither done nor, as far as the leader knows, in the hands of a worker.
Pending(t) == ~Done(t) /\ \A w \in Worker : lent[w] # t

\* The leader lends another task only if it takes a working worker for
\* stalled or has not applied the result yet.
Poll(w, t) ==
    /\ At(w, "poll") /\ Lend(w, t)
    /\ Goto(w, [pc |-> "embed"])
    /\ IF Pending(t) THEN UNCHANGED faults ELSE Fault
    /\ UNCHANGED <<producer, payload, started, collection, points, late>>

Embed(w) ==
    /\ At(w, "embed")
    /\ Goto(w, [pc |-> "upsert", vector |-> Embedding(Chunk(w).text)])
    /\ UNCHANGED <<queueVars, producer, payload, storeVars>>

Report(r) == [pc |-> "report", result |-> r]

\* The payload cannot be decoded, or the subprocess is gone.
EmbedFails(w) ==
    /\ At(w, "embed") /\ Fault
    /\ Goto(w, Report("error"))
    /\ UNCHANGED <<queueVars, producer, payload, started, collection, points, late>>

\* Mutant: the error of the upsert is not looked at.
IgnoreUpsertError == "success"

FailedUpsert == "error"

Upsert(w) ==
    /\ At(w, "upsert")
    /\ \/ UpsertChunk(Chunk(w), work[w].vector) /\ Goto(w, Report("success"))
       \/ UpsertFails(Chunk(w), work[w].vector) /\ Goto(w, Report(FailedUpsert))
    /\ UNCHANGED <<queueVars, producer, payload>>

Completion(w) == CompleteCmd(lent[w], work[w].result)

\* A hop of Client.Complete reaches a leader.
CompleteHop(w) ==
    /\ At(w, "report") /\ Completion(w) \notin proposed
    /\ Propose(Completion(w))
    /\ UNCHANGED <<producer, payload, work, storeVars>>

\* Complete has returned, with whatever answer: a worker that succeeded goes
\* on, one that failed ends.
Completed(w) ==
    /\ At(w, "report")
    /\ IF Recorded(Completion(w)) THEN UNCHANGED faults ELSE Fault
    /\ lent' = [lent EXCEPT ![w] = None]
    /\ Goto(w, Idle)
    /\ started' = [started EXCEPT ![w] = IF work[w].result = "success"
                                         THEN @ ELSE "exited"]
    /\ UNCHANGED <<proposed, order, outcomes, producer, payload, collection,
                   points, late>>

\* The worker process dies at any point.
Crash(w) ==
    /\ started[w] # "exited" /\ Fault
    /\ started' = [started EXCEPT ![w] = "exited"]
    /\ lent' = [lent EXCEPT ![w] = None]
    /\ Goto(w, Idle)
    /\ UNCHANGED <<proposed, order, outcomes, producer, payload, collection,
                   points, late>>

Work(w) ==
    \/ Embed(w) \/ EmbedFails(w) \/ Upsert(w)
    \/ CompleteHop(w) \/ Completed(w)

CommitStep(cmd) ==
    Commit(cmd) /\ UNCHANGED <<producer, payload, work, storeVars>>

BatchNext ==
    \/ Produce
    \/ \E cmd \in proposed : CommitStep(cmd)
    \/ \E w \in Worker : Work(w) \/ Crash(w) \/ \E t \in Task : Poll(w, t)
=============================================================================
