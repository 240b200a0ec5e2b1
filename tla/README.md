# A TLA+ verification of the distributed embedding pipeline

The repository indexes a corpus: a *producer* submits text chunks to a *broker
cluster*, *workers* poll for them, embed them and upsert the vectors into Qdrant,
and report completion. The broker is three processes that replicate the task
table with their own Raft implementation. A *query server* answers searches on
the same Qdrant collection and ingests single documents into it. This directory holds TLA+ models of
the parts in which concurrency, failure and ordering decide whether the program
is right, TLC configurations that check them, and TLAPS proofs.

## Inventory

| Component | State | Operations | Talks to | What makes it correct |
|---|---|---|---|---|
| `raft/raft.go` | term, vote, role, log, commit and apply indices; a leader's `nextIndex`/`matchIndex` | `startElection` (timer), `RequestVote`, `AppendEntries`, vote and append reply goroutines, `Start`, `sendHeartbeats`, `applyLoop` | peers by gRPC; the broker through `Start`, `GetState`, `commitCh` | one leader per term, committed entries stay, the same commands in the same order on every node, progress under a stable leader |
| `internal/log/log.go` | the entries | `Append`, `At`, `Truncate`, `Entries`, `LastIndex`, `LastTerm` | Raft | indices are positions (otherwise `Append` panics) |
| `broker/main.go` | replicated: submitted tasks, results; leader-local: `inflight`, `wasLeader`; per call: `pendingOps` | `Submit`, `Complete` (via `proposeAndWait`), `Poll`, `Heartbeat`, `GetResult`, `applyLoop`, `checkStalledTasks`, `refreshLeaderState` | Raft; clients by gRPC | an acknowledged command is committed, replicas agree, no task is stranded, a finished task stays finished |
| `internal/brokerclient` | `current` address, connections | `call` (hop loop), one method per RPC | brokers | finds the leader, reports failure as failure, may be shared by goroutines |
| `worker` | the task in hand | start, poll, embed, upsert, complete, exit on an error; heartbeat goroutine | client, embedder, Qdrant | what is reported done is stored; heartbeats while working |
| `producer` | ids not done yet | decode, chunk and submit all, poll results | client | every chunk it reports is stored or failed; it comes to an end |
| `internal/indexer` | none of its own; the points in Qdrant | `ChunkText`, `ChunkIDToUUID`, `EnsureCollection`, `UpsertChunk`, `IngestDocument` | Qdrant, embedder | one point per chunk, the same one every time; safe to start from several processes |
| `internal/embedder` | the subprocess, its two pipes, a mutex | `Start`, `Embed`, `Close` | subprocess | a text gets its own vector; the mutex is given back |
| `queryserver`, `internal/retrieval` | handlers under way | `/search`, `/ingest`, `/healthz` | embedder, Qdrant | an acknowledged document is stored and found; every request is answered |
| `query` | none | one search | embedder, Qdrant | |
| `config`, `proto` | constants, generated code | | | |

The hard behaviours: every Raft RPC runs in its own goroutine, so requests and
replies overtake each other and are applied to a state that has moved on; a
leader learns late that it is deposed; broker handlers release their lock
between reading Raft's state and using it; calls wait for log indices that a
later leader may fill; calls are repeated although the first attempt took
effect; workers die with a task half done; an upsert that was reported as failed
happens later; HTTP handlers share one subprocess that may die; nothing is
persisted. `PROJECT.json` lists these hazards
with their lines and the properties aimed at them.

## Modules

| Module | Role |
|---|---|
| `RaftLog` | the log as operators on sequences; `Merge`, the effect of the loop in `AppendEntries`, in closed form |
| `Raft` | the consensus core: one action per critical section under `rf.mu` |
| `ReplicatedLog` | abstract: one growing log, delivered in order to every node |
| `RaftRefinement` | the mapping under which Raft implements it: `Committed` is the longest committed prefix of any node, `delivered` is `applied` |
| `RaftInv`, `RaftLogInv` | the inductive invariants of the proofs: ballots; logs, acknowledgements and commits |
| `RaftLogProofs` | lemmas on the operators of `RaftLog`, and on `Min` and `Max` |
| `RaftProofs` | theorems: types, elections, votes |
| `RaftLogSafety` | chains of entries; theorems on logs |
| `RaftCommitProofs` | theorems on commits; Raft implements `ReplicatedLog` |
| `MergeLoop` | the merge loop run entry by entry against `Merge`, over all small logs, and the merge of a whole log: assumptions that TLC evaluates in the broker's runs |
| `MCRaft` | starting points, views, symmetry for TLC |
| `RaftAtomic` | Raft as the broker sees it, each RPC exchange in one step |
| `Broker` | the broker process on each node, on top of `RaftAtomic` |
| `BrokerInv` | the inductive invariants of the proofs |
| `BrokerRaftProofs` | lemmas: what the broker may rely on in `RaftAtomic` |
| `BrokerProofs` | theorems: tables, calls, handed-out tasks; Broker implements `TaskQueue` |
| `TaskQueue` | abstract: what the brokers promise together, one list of submitted tasks and the outcomes reported for them, and tasks lent to workers |
| `BrokerRefinement` | the mapping under which Broker implements it: what has taken effect is what the replica that is furthest ahead has applied |
| `MCBroker` | starting points, view, symmetry for TLC |
| `BrokerClient` | the client's hop loop, its connections and the brokers' redirects, over terms and leaderships only |
| `BrokerClientProofs` | theorem: types of the client, for any number of goroutines |
| `MCBrokerClient` | starting point and bound for TLC |
| `Indexer` | chunks, point ids, the Qdrant collection, and the start of the processes that use it |
| `Pipeline` | producer and workers over `TaskQueue` and `Indexer` |
| `QueryServer` | HTTP handlers, embedder and subprocess over `Indexer` |
| `Index` | `Pipeline` and `QueryServer` on one collection |
| `IndexInv` | the inductive invariant of the proofs |
| `IndexProofs` | theorems: the safety properties of `Index` |
| `MCIndex` | starting points for TLC; `ChunkText` against its loop and against what it is for, over small texts |

### How Raft's state and actions correspond to the code

Variables keep the names of the fields of `Raft`. `votes` is the set behind the
counter that the goroutines of one election share. `applied` is what has been
written to `commitCh`. The code before an RPC and the code after it are
different critical sections, so a call is a request in `voteReqs` or `appReqs`,
then a reply in `voteReps` or `appReps`; what the sending goroutine remembers
across the call (`term`, `sentTerm`, `newMatch`) travels with the reply. A
request is handled at most once, after any delay; a reply is processed at most
once or never (`RPCTimeout`). A lost message is one that is never taken.
`sendAppendEntries` loops after a rejection or a commit; the next turn is just
another `SendAppendEntries`, which a heartbeat could cause as well. Each call has
a number from `Call`, which bounds how many are in flight: reusing a number
loses the older call, as a time-out does. Timers have no clock: an election may
start whenever the node is not leader.

### How the broker's state and actions correspond to the code

`errors` has the ids of `done` as its domain (the code writes both maps
together). `inflight` keeps, per task, whether a heartbeat came within
`TaskTimeout`; `Lapse` is the passing of that time. `op` follows `proposeAndWait`
of each Submit and Complete call through Start, registration, waiting, and the
two ways out; `handler` follows Poll, Heartbeat and `checkStalledTasks` through
reading Raft's state, updating `wasLeader`, and the work. A call on a node that
is not leader is answered with a redirect and changes nothing, so it is no
action. A worker is whoever holds a task: it may complete it, more than once and
on any node, or drop it at any time. `RaftAtomic` replaces the message level of
`Raft` by whole exchanges; it keeps what the broker can notice: deposed leaders
that go on, elections that only depose (`Campaign`), overwritten entries,
lagging nodes.

### How the client's state and actions correspond to the code

`call` follows `Client.call` of each goroutine: it reads `current`, looks the address
up in `conns`, dials and stores a connection if there is none, the broker
answers (`Replies` has the five handlers), and the answer is a success, a
redirect or an error. `c.current = (c.current + 1) % len` is a read and a store,
two steps, and so is the use of the map, because goroutines share the client
without a lock. A leader that commits a Submit or Complete may still answer
`Ok=false`, with its own address, when the wake-up is lost (finding 1), and as
`rpcTimeout` is `commitTimeout` the client may have given up by then: both are
possible at any time, also in a cluster that has settled. A Heartbeat is
cancelled when its task is finished. An answer that is neither an error nor a
redirect ends the call with nil, also the refusal of a broker that knows no
leader (`refused`). `Uses` says which methods a goroutine calls. `ended` is
history: the last call that ended, and how. `leaderID` is recorded after Raft's
`AppendEntries` has released its lock; `accepted` is what is still to be
recorded, in any order. Raft is reduced to terms and to who believes itself
leader, with deposed leaders that go on. `Settle` marks the moment after which
crashes, elections and losses stop.

### How the batch path's state and actions correspond to the code

`Pipeline` sees the brokers as the `TaskQueue` that `BrokerRefinement` shows them
to implement. A call of `Client.Submit` is a number of hops, each of which may
reach a leader that draws a fresh id and proposes it (`SubmitHop`); `hop` is the
id of the last one, and the ids of earlier hops may be committed all the same,
now or later. The call returns that id, an empty one (`SubmitRefused`) or an
error, which ends the producer. `payload` gives the chunk behind each id.
`GetResult` reads `outcomes`; as the code looks only at `done`, any outcome
counts. A worker's steps are the code between two external effects: the poll,
the embedding, the upsert, the hop of `Complete`, the end of `Complete`. A result
other than success ends the worker. A worker embeds alone, so its subprocess is
part of `Embed`. Heartbeats are in `Broker`; here their effect is that a task in
hand is lent again only as a fault.

`faults` counts what goes wrong outside the program: crashes, a hop that is
repeated, an upsert reported as failed, a task lent again or a result that is
reported without being committed, a subprocess that does not start or dies.
A failed upsert goes to `late` and takes effect at any later time or never.
Chunk ids are pairs: the decimal number follows the last `-`, so the strings
are one to one with them. `Hash` is `fnv64` on the ids in use, assumed without
collisions (`IndexerAssumption`); the code assumes the same.

### How the query server's state and actions correspond to the code

A handler embeds a list of texts, one for a search, one per chunk for an ingest. `Write` is `Embed`
up to the flush, with the lock taken; `Read` and `ReadFails` (the pipe is closed, or the line cannot
be decoded) are the rest, with the deferred unlock. Responses are lines in order; nothing matches
them with requests. `Die` is the end of the subprocess: lines that it has written can still be read,
lines it has not read are gone. An ingest upserts after each embedding and stops at the first error;
what it has written stays. `before` is history: who had been answered when a request came in, so
that properties can speak of later requests. Titles are left out: they are copied. The model is any
function of the text, `Embedding`, a parameter: texts may share a vector, as they do under a model
that ignores case or truncates.

## Runs

| Run | Shows |
|---|---|
| `raft_safety` | from boot: `ElectionSafety`, `OneVotePerTerm`, the inductive invariant `ElectionInv`; from a deposed leader that does not know it, through a third election: log and state machine safety, leader completeness, `VoteStands`, `LeaderAppendOnly`, refinement of `ReplicatedLog`; with two AppendEntries calls at once, reordered and lost: `LogIndexed` (no panic), `AppliedFromLog`, `RequestCoversCommit`, `MatchIndexSound`, `NextIndexInLog`, `CommittedStands`. Every property is checked in all three parts |
| `raft_convergence` | liveness: an undisturbed leader brings every node to its log |
| `broker_calls` | two Submits through a change of leader, and on a node that leads again and reuses the index at which an earlier call is registered: `AckDurable`, `ReplicasAgree`, `RegisteredIsOpen` |
| `broker_tasks` | a task lent and completed through two leaders: `CompletedWasSubmitted`, `InflightNotDone`, and refinement of `TaskQueue` (`ImplementsTaskQueue`) |
| `broker_stranded` | liveness: a node that regains leadership strands no task |
| `broker_wakeup` | violated: a call may register after its entry was applied and is then never woken |
| `client_leader` | two goroutines: `ClientTypeOK` of the index they store over each other; liveness: after a second election, with crashes, stale redirects, late records and lost wake-ups, calls reach the leader once the cluster has settled and they do not overlap |
| `client_concurrent` | violated: one goroutine is in the map of connections while another writes to it |
| `client_orphan` | violated: Submit returns without an error although nobody has taken the task |
| `index` | batch path and query server: `DoneIsIndexed`, `AllAccounted`, `Reexecutable`, `ProducerEnds` of the batch path; `IngestStands`, `SearchSeesIngest`, `Answered` of the server; `OwnVector` of both; the inductive invariant `IInv` |
| `reexecution` | violated: a task executed again changes the collection, if its document was ingested in between |
| `ensure_collection` | violated: of two processes that start together on an empty Qdrant one may exit |

**Bounds.** Three nodes, the deployed size, throughout. `MaxElections` and `MaxTerm` bound the
elections: two make a deposed leader, a third is needed for votes decided by diverging logs and for
a node that leads twice. `raft_safety` has three parts, told apart by the number of elections
(`Budget`): up to three elections from boot, without AppendEntries; a state with a deposed leader,
reachable from boot (`InitFailover`), with two calls and no further election, so that requests and
replies overtake each other; and the same state with one more election and one call in flight. At
most two committed entries wait for `applyLoop`, over the nodes (`Backlog`): a node may lag behind
the others, but not all of them at once. Logs reach three entries, enough for a conflict, a back-up
of `nextIndex` and an append. `broker_calls` starts after three terms, either without a leader so
far (`InitBoot`) or with a node that led twice, is deposed and has a call waiting at index 3
(`InitDeposed`): two more terms let it lead again and register another call there, which the first
one's time-out removes. The broker runs use one or two tasks, one worker where workers matter, and
one Complete call; `Checking` limits the nodes whose stall checker is watched, because its three
steps interleave with everything. `broker_tasks` starts with a task that only the leader has,
`broker_stranded` with a node that led before and left assignments behind. Views leave out replies
that would be ignored (`LiveView`) and what is left of answered calls (`WorkView`); symmetry is used
where the starting point allows it and never with a liveness property. The Raft runs and
`broker_calls` do not check deadlock: once the bounded elections and calls are spent without a
leader, nothing is left to do. The other broker runs check it.

`client_leader` starts with an elected leader known to all, an arbitrary `current`, and one
connection or all; as the addresses are walked in a ring, which broker leads first does not matter.
Two goroutines of a worker use the client: one sends heartbeats, the other polls, completes and, as
a producer would, asks for results. A majority stays up, and one broker of three advertises an
address that the client does not know. `Bound` keeps the state space small: calls overlap while the
cluster is as it was at the start (messages may be lost all the same); after that there is one call
at a time, while there is no leader and once the cluster has settled. What overlapping calls leave
behind is the value of `current`, which is arbitrary at the start anyway. Submit is answered as
Complete is. `client_concurrent` has the start of `client_leader`; `client_orphan` starts from the
very beginning.

`index` has two workers, the server and two concurrent requests, a corpus whose readable part has
two chunks, and two faults, so that any two of a crash, a repeated call, a late write and a dead
subprocess come together; `Task` has an id for every hop these allow (`PipelineAssumption`), so the
bound on ids never decides. Requests carry two versions of a document of the corpus, the second
shorter, a document outside it with passages that share a vector, a text without words, and searches
with `top_k` below and above its limits. The model of TLC looks at the first word of a text only.
The whole has three starting points: the start of one worker and the server on an empty Qdrant, with
requests once the server is up and a producer that could not open its corpus (`InitStart`); the
batch path halfway through the corpus, with its workers up (`InitBatch`); and the server after a
producer that gave up, with one worker that may be lent the finished task again and write it over a
newer ingest (`InitServe`). Each is a state the composed system can be in. Deadlock is not checked:
everybody may be done. `reexecution` has the last of them alone. With two requests there is no late
third writer beside an acknowledged ingest and a search; that case is the theorems'.
`ensure_collection` starts from the very beginning, without faults.

**Fairness.** `Fairness` of Raft: `applyLoop` and the heartbeats of the leader are goroutines that
run while they have work (weak), and an RPC repeated for ever is handled, and answered, again and
again (strong; a network that loses every message gives nothing). It names one leader and says
nothing of timers. Fairness of Broker: goroutines of a node run, a worker without a task asks every
node again and again (the client goes round the addresses), the ticker of `reEnqueueStalled` fires,
and `TaskTimeout` passes for a task nobody works on. `NeverStranded` is conditional on a node that
stays leader. Fairness of BrokerClient: leaders send heartbeats, handlers and the hop loop go on
(weak), and calls of one method that reach the leader again and again are not all timed out or
cancelled (strong): a wake-up is lost when an entry is applied in the moment before the
registration, not every time. Nobody is obliged to call; `FindsLeader` is about methods that are
called again and again, in a cluster that settles, by goroutines whose calls do not overlap. Without
that last condition it is false: two goroutines that get redirects under an address the client does
not know can each advance `current` past the leader, again and again. Fairness of Index is weak
throughout: goroutines and processes go on, the subprocess answers or dies, a waiting task is lent
to a worker that polls (`NeverStranded`), and a command is committed while its caller keeps at it
(`FindsLeader`, `Converges`). Commands whose callers have given up may never be. A subprocess that
hangs without dying is excluded; nothing in the code bounds that wait. `ProducerEnds` is conditional
on a worker that keeps running and on Submit never returning an empty id.

**Why the own-term rule does not show.** `advanceCommitIndex` refuses entries of
earlier terms. Dropping that test breaks nothing here: `becomeLeader` appends its
no-op under the same lock, before anything is sent, so whatever a peer
acknowledges reaches the no-op (`MatchReachesOwnTerm`). The property states the
fact the rule protects.

## Findings

1. `proposeAndWait` registers after `Start`; an entry applied in between is never
   reported, and a committed command is answered as failed after five seconds
   (`broker_wakeup`).
2. `Client.call` takes an answer without error and redirect for a success. A broker
   that knows no leader gives one, so Submit returns an empty id and no error, the
   chunk is lost, and the producer waits for the empty id without end
   (`client_orphan`).
3. `EnsureCollection` asks and creates in two calls and passes on the error of the
   second, so a process that loses the race exits (`ensure_collection`).
4. `Client` is "safe for concurrent use" by its comment, but reads and writes its map of
   connections without a lock. A worker's heartbeat goroutine and its poll loop
   meet there when either first turns to another broker; the Go runtime ends a
   process in which it sees that (`client_concurrent`).
5. The repository's README concludes from identical point ids and vectors that the
   collection "ends up in the same state whether a chunk was embedded once or twice" and that
   batch path and `/ingest` "coexist without interference". Executed a second
   time after a newer text of the document was ingested and acknowledged, a task puts the old
   text back (`reexecution`). What does hold is `Reexecutable`: as long as nobody
   else has a text for the chunk, the point stays identical. `IngestStands` and
   `SearchSeesIngest` let the corpus' text through for this reason.

Observations without a run of their own:

- `raft/raft.go:106` claims `matchIndex[i] < nextIndex[i]` always; a rejection that
  arrives after a later success makes them equal. Entries are sent again.
- `refreshLeaderState` reads leadership outside its lock; a stale `false` makes the
  leader wipe live assignments and lend a task twice without any time-out. The
  at-least-once design absorbs it as far as `Reexecutable` goes.
- Nothing is persisted, so "the two facts that must survive a crash" survive it
  only while the process does not come back under its old id.
- The producer's last line counts every chunk as indexed, also those whose task
  failed; `AllAccounted` has the failed ones as its second case.
- Two ingests of one document at once may leave a mixture of both; a shorter version
  leaves the old tail.
- `becomeLeader` is reached only from the reply of a peer: a cluster configured with
  one node never elects a leader. The deployed ones have three.
- Two goroutines that share a client and get redirects to an unknown address can
  each advance `current` past the leader, so that calls which overlap for ever need
  not find it; `FindsLeader` is about calls that do not.

## Proofs

All theorems hold for every finite set of nodes, every set of commands, tasks, workers and results,
and every bound. What is assumed of the constants: Raft's nodes are finitely many
(`ServerAssumption`) and there is at least one (`ClusterAssumption`, for the refinement), the bounds
are naturals (`BoundAssumption`); the broker's cluster is finite and not empty, and the sets that
name calls, workers and nodes are apart where the model tells their members apart by them
(`BrokerAssumption`); raft's own command "noop" is not the encoding of an operation
(`NoopAssumption`). The client's is `ClientAssumption`. For `Index`: the embedding model is any
function of the text; no two chunk ids in use collide (`IndexerAssumption`); what a line of the
corpus or a request carries has the types that decoding gives it, and its chunk ids are among those
in use (`CorpusAssumption`, `InputAssumption`); the limits of the server are those of the code,
`1 <= defaultTopK <= maxTopK` (`ServerAssumption`); the results are `success` and `error`, and the
empty id is no task's (`PipelineAssumption`). The number of faults, requests, workers and chunks is
arbitrary.

The SMT backend takes `DOMAIN s = 1 .. Len(s)` for granted of any `s`, although it
holds of sequences only; the invariants and lemmas state of each sequence they measure
that it is one.

### Raft

**Types and elections** (`RaftProofs`).
`TypeCorrect`: `TypeOK` is not inductive alone: `prevLogIndex` is
`nextIndex - 1`, so the invariant adds that a leader's `nextIndex` is positive
(`TypeInv`). `ElectionInvariant`, `ElectionSafe`, `VotesOnce`: the invariant is
about *ballots* `Ballot(j, t, c)`: node j's vote for c in term t, whether it is
in a reply in flight, counted by candidate c, or the candidate's own. A ballot is
of a term its voter has reached (`BallotTerms`); in the voter's current term
`votedFor` remembers it (`BallotsRemembered`); hence a voter has one ballot per
term (`BallotsUnique`); a leader holds a majority of ballots (`LeaderElected`).
Two majorities meet, and the common voter has one ballot. `ElectionSafety` alone
is not inductive because nothing in it forbids two votes on their way.
`VotesStandAlways` is the action property `VoteStands`, from the types. Each
action has its lemma; actions that do not touch ballots go through `QuietStep` or
`AdoptStep`.

**Logs** (`RaftLogSafety`). `LogMatching` says nothing of
requests in flight, which carry entries that may be in no log any more. The
invariant therefore speaks of *links*: an entry, its position, and the term of the
entry before it, wherever they are, in a log or in a request. `LinksUnique`: position and term
determine the link; `LinksRun`: the entries of one term are consecutive;
`LinksOrdered`: entries carry their index and terms do not decrease. So two
chains with a common entry are equal up to it. Only one node can add a link of a
term: its winner. `Won(c, t)` says so without any history: c leads t or is past
it, and a majority has left t or voted for c and shows no ballot for another
(`LinksWon`); and the leader of a term holds every link of it that exists
(`LeaderHasTerm`), so what it appends is new. `LogInvariant` proves this and, with it,
what peers have acknowledged (`AckInv`): the peer holds it while it stays in the
term, and the leader holds it. From it follow `LogsNeverFork`, `TermsOrderedAlways`,
`AppendNeverPanics`, `MatchIndexAlwaysSound`, `MatchReachesOwnTermAlways`,
`NextIndexAlwaysInLog`, and the action property `LeadersOnlyAppend`.

**Commits** (`RaftCommitProofs`). `LeaderCompleteness` speaks of entries that are
committed; the danger comes earlier, while a majority *may still* acknowledge an
entry and another node is being elected. `ChoosableSecured`: whenever every
member of a majority has acknowledged the entry of term t at n or is still in a
term up to t (`MayAck`), every link of a later term already sits on top of
that entry (`Carried`), and so does the log of every candidate that a member who
has moved on has voted for (`Kept`). It is vacuous when a term starts and
has to be shown again whenever a node moves to a later term with a vote: there
the vote's log comparison is used, with what the request said of the candidate's log
(`VoteLogInv`). What is committed is below an entry that a majority holds for good
(`Fixed`); that holds also of the commit index in a request (`CommitsFixed`).
`CommitInvariant` gives `AppliedAlwaysFromLog`, `RequestsCoverCommit`,
`LeadersComplete`, `StateMachinesAgree` and the action property `CommitsStand`.

The own-term rule of `advanceCommitIndex` is not needed by name: an
acknowledgement reaches an entry of the leader's term (`MatchReachesOwnTermAlways`),
which is what the proof uses.

**Refinement** (`RaftCommitProofs`). `RaftImplementsReplicatedLog`: the initial
states map to the initial state, and every step is a Commit, a Deliver or a
stutter. A step moves at most one commit index, committed entries stand, and
two nodes agree on what both have committed, so `Committed` grows by a suffix
or not at all.

### Broker

**The cluster** (`BrokerRaftProofs`). `RaftAtomic` has whole exchanges for steps,
and its invariant `ClusterInv` is simpler: logs with an entry of one term at some
place agree up to it (`LogsAgree`), every entry's term has been reached by a majority
(`EntriesReached`), a leader has all entries of its term and is the only leader of
it (`LeaderLog`), and what a node has committed is held by a majority and by
every log with an entry of a later term (`CommitsProtected`). `ClusterKept` shows
that each kind of step keeps it; `CommitsAgree` and `CommitsStay` are what the broker
uses: two nodes agree on what both have committed, and no step changes that.

**Tables, calls and tasks** (`BrokerProofs`). `BrokerInvariant` proves `BrokerSafe`:

- `TablesMade`: the tables of a node are those that its first `applied` entries
  make, in closed form: the tasks submitted there, in the order of their first
  submission, and for each completed task the last result. Two replicas are
  then compared through their logs: `ReplicasAlwaysAgree`.
- `CallInv`: no other command has, or will have, the term and index of a call
  (`OpEntry`: the term has been reached, and its leader is past the index), and
  a call that was woken was told the term of the entry that its node has applied
  there (`OpWoken`). Hence `AcksAreDurable`. `RegisteredIsOpen` is inductive
  together with it: `RegisteredAlwaysOpen`.
- `TaskInv`: what a worker holds some node has committed (`HeldCommitted`), and
  a completion in any log comes after the submission or is *dead*
  (`CompletesFollow`). Dead is the interesting case: a deposed leader may lack
  the submission of a task that its successor has committed and lent out, and
  still append the completion. Some node has then committed an entry of a later
  term, which passes that place by, and a dead entry is never committed
  (`DeadStays`, `CommittedNotDead`). Hence `CompletedAlwaysSubmitted`.
- `SchedulingTypes` and `InflightNotDone`: a poll hands out a task that the node
  does not know to be done, and `applyLoop` drops the assignment with the
  completion: `InflightNeverDone`. `BrokerTypes` collects the types.

**Refinement** (`BrokerProofs`). `BrokerImplementsTaskQueue`: the
abstract list and outcomes are those of the replica that is furthest ahead, so they
can change only when some `applyLoop` passes it, by one entry (`QueueMoves`).
That entry is a no-op, a command that has taken effect before, or the command of a
call that takes effect now (`CommitRefines`); it can be nothing else because
whatever is in a log some call has proposed (`EntriesProposed`), and a
completion cannot be first because `CompletedWasSubmitted` holds of the next state.
In all other steps a call is made, a task is lent or given up, or nothing shows
(`QuietRefines`). A poll may read a replica that lags; its list is a prefix of
the furthest one's (`ReplicaIsPrefix`), so what it lends the queue has, and the
worker that polls holds nothing (`PollersFree`). `QueueInvariant` proves the
three facts that `BrokerSafe` does not have.

### Client

`ClientTypeCorrect` (`BrokerClientProofs`): the index that goroutines share and the connections stay
within the address list and no call exceeds `maxHops`. `ClientTypeOK` is not inductive alone: an
index that a goroutine has computed and not stored yet must be one of the list too, the replies
under way must be replies, and leaders accepted but not recorded must be brokers (`ClientInv`). The
run has two goroutines; the theorem has any number.

### Batch path and query server

`IndexInvariant` (`IndexProofs`) proves `IInv` of `IndexInv`, the conjunction of

- `QueueInv`, `WorkInv`: ids are drawn one after the other and a result is only
  recorded of a task in the queue; a busy worker holds a task, and the vector it is
  about to write is that of the task's chunk.
- `SuccessInv`: `DoneIsIndexed` speaks of recorded results; between the upsert and
  the record lie a worker about to report, a proposal that may be committed
  long after its worker died, and a second execution. So the invariant says that the chunk is
  stored as soon as a success is about to be reported or is proposed.
- `ProducerInv`: the k-th id the producer keeps is that of the k-th chunk or
  empty, earlier hops of a Submit notwithstanding, and ids it no longer waits for are done.
- `HandlerInv`, `PipeInv`: a handler works on the texts of its own request; at
  most one text is in the pipes, that of the handler that holds the mutex,
  either unread or answered, or both are gone with the subprocess. Responses
  are not matched with requests, so this is what makes `Read` return the
  handler's own vector.
- `VectorInv`, `LateInv`: the vectors stored, held by handlers and waiting in
  `late` are those of their texts; what is late is a chunk of the corpus or of a
  request that was answered with an error.
- `PointInv`: every point is that of one chunk id in use, and its document is that id's.
- `IngestInv`: `IngestStands` speaks of acknowledged requests; the invariant says
  it of every chunk an ingest has got through, while it is still busy with the next.
- `SearchSeesIngest`, which at the step of a search follows from `IngestInv`: the point is
  there with the text asked for, its vector is that of the query, and the limit is
  at least one; so the search returns it, or only others with the same vector.

All steps change the collection in one of two ways (`StoreSteps`): a chunk of the corpus
or of a request that is still writing or was answered with an error is written
(`WritesNow`), or an upsert is given up (`GivesUp`). Handlers only move forward (`Keeps`),
the queue only grows (`QueueGrows`). With these three facts what is stored stays stored
(`StoredStays`) and what stands stands (`StandsStays`): a writer that was
acknowledged before h came in can not write again, so whoever writes over h may
follow it. From `IInv` follow `VectorsAreOwn`, `SuccessIsIndexed`,
`CorpusIsAccounted`, `IngestsStand`, `SearchesSeeIngests` and the action property
`TasksAreReexecutable`. For the last, `SuccessInv`, `VectorInv` and `PointInv` determine
the whole point of a task that has succeeded while its chunk is undisputed (`PointIs`), and whoever
writes there writes that very point (`OnlySource`).

The proof of `DoneIsIndexed` showed what it depends on: with two articles of the
same id in the corpus, one replaces the other's chunks. `IsStored` allows that and
says so; TLC's corpus has no such pair.

### Model-checked only

Liveness, which is out of the prover's reach: `Converges`, `NeverStranded`,
`FindsLeader`, `ProducerEnds`, `Answered`. What a recursive definition computes on
every input: `MergeLoop`, and `ChunkText` against its loop and as a partition of the
text; the proofs use only that chunks are numbered in order. Every safety property
of a passing run is proved.

## Not modelled

Test hooks (`Kill`, `NewPaused`, `SetPeerClient`), `InstallSnapshot` (answers and
changes nothing), logging, configuration and generated code; a broker that is
started again (nothing in the repository does it, and it would have lost its
log); the query CLI, which makes one search and ends.
The score and the order of search results are Qdrant's; a search is taken to
return points with the very vector of the query before any other.

## Plan

What was planned is modelled, and its safety is proved. What is left is outside it:
a list of addresses without the leader's ("any subset"), which never reaches it.
