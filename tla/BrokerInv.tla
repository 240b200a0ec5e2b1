----------------------------- MODULE BrokerInv -----------------------------
(***************************************************************************)
(* The inductive invariants behind the theorems of BrokerProofs.  They     *)
(* are stated here, apart from the proofs, so that TLC can check them too. *)
(***************************************************************************)
EXTENDS Broker

-----------------------------------------------------------------------------
(* The logs of RaftAtomic *)

Cmd == {Noop} \cup [op : {"submit"}, id : Task]
              \cup [op : {"complete"}, id : Task, data : Result]

LogEntry == [term : Nat, cmd : Cmd]

RaftTypes ==
    /\ term \in [Node -> Nat]
    /\ leading \in [Node -> BOOLEAN]
    /\ log \in [Node -> Seq(LogEntry)]
    /\ commit \in [Node -> Nat]

\* The log l has an entry of term t at n.
Holds(l, n, t) == Has(l, n) /\ l[n].term = t

\* The two logs are the same up to n.
SameUpTo(l, r, n) == \A k \in 1..n : l[k] = r[k]

\* Terms do not decrease along a log and none is ahead of its node's.
TermsUp ==
    \A i \in Node : \A n \in DOMAIN log[i] :
        /\ log[i][n].term <= term[i]
        /\ \A m \in 1..n : log[i][m].term <= log[i][n].term

\* Of two entries of one term, the earlier one is in both logs, and so is all
\* that precedes it.
LogsAgree ==
    \A i, j \in Node : \A n \in DOMAIN log[i], m \in DOMAIN log[j] :
        m <= n /\ log[i][n].term = log[j][m].term
            => SameUpTo(log[i], log[j], m)

\* A majority has reached the term.
Reached(t) ==
    \E Q \in SUBSET Node : IsMajority(Q) /\ \A q \in Q : term[q] >= t

\* Every entry is of a term that a majority has reached.
EntriesReached ==
    \A i \in Node : \A n \in DOMAIN log[i] : Reached(log[i][n].term)

\* A leader has all entries of its term, its log ends with one, and it is the
\* only leader of the term.
LeaderLog ==
    \A i \in Node : leading[i] =>
        /\ Holds(log[i], Len(log[i]), term[i])
        /\ \A j \in Node :
             /\ \A n \in DOMAIN log[j] :
                  log[j][n].term = term[i] => n <= Len(log[i])
             /\ leading[j] /\ term[j] = term[i] => j = i

\* The majority Q holds the entry of term t at n, and every log with an entry
\* of a later term holds it too.
Protected(n, t, Q) ==
    /\ IsMajority(Q)
    /\ \A q \in Q : Holds(log[q], n, t)
    /\ \A j \in Node : \A k \in DOMAIN log[j] :
           log[j][k].term > t => Holds(log[j], n, t)

\* What a node has committed is protected.
CommitsProtected ==
    \A i \in Node :
        /\ commit[i] <= Len(log[i])
        /\ commit[i] # 0 =>
             \E Q \in SUBSET Node :
                 Protected(commit[i], log[i][commit[i]].term, Q)

ClusterInv ==
    RaftTypes /\ TermsUp /\ LogsAgree /\ EntriesReached /\ LeaderLog
        /\ CommitsProtected

-----------------------------------------------------------------------------
(* The calls *)

OpRecord ==
    [pc : {"proposed", "waiting", "ok", "failed"}, node : Node, cmd : Cmd,
     term : Nat, index : Nat \ {0}, opTerm : Nat, closed : BOOLEAN]

\* What a call proposed is the only entry of its term at its index, now and
\* later: the term is reached, and its leader is past the index.
OpEntry(o) ==
    /\ Reached(o.term)
    /\ \A j \in Node :
         /\ Holds(log[j], o.index, o.term)
              => log[j][o.index] = [term |-> o.term, cmd |-> o.cmd]
         /\ leading[j] /\ term[j] = o.term => o.index <= Len(log[j])

\* A call that was woken was told the term of the entry its node has applied.
OpWoken(o) ==
    o.closed => /\ o.index <= applied[o.node]
                /\ log[o.node][o.index].term = o.opTerm

\* A call is open until it waits, and Ok only if its own entry committed.
OpFlags(o) ==
    /\ o.pc = "proposed" => ~o.closed
    /\ o.pc = "ok" => o.closed /\ o.opTerm = o.term

OpOK(o) == o.pc # "idle" => OpEntry(o) /\ OpWoken(o) /\ OpFlags(o)

OpsOK ==
    /\ op \in [Op -> {IdleOp} \cup OpRecord]
    /\ \A c \in Op : OpOK(op[c])

PendingTypes ==
    /\ DOMAIN pendingOps = Node
    /\ \A i \in Node : /\ DOMAIN pendingOps[i] \subseteq Nat \ {0}
                       /\ pendingOps[i] \in [DOMAIN pendingOps[i] -> Op]

CallInv == OpsOK /\ PendingTypes /\ RegisteredIsOpen

-----------------------------------------------------------------------------
(* The tables *)

IsSubmit(e, t) == decodeCommand(e.cmd) = "submit" /\ e.cmd.id = t
IsComplete(e, t) == decodeCommand(e.cmd) = "complete" /\ e.cmd.id = t

\* The tasks submitted in the first n entries of l.
SubmittedIn(l, n) == {t \in Task : \E k \in 1..n : IsSubmit(l[k], t)}

\* The tasks completed there, and the result that the last entry gives t.
CompletedIn(l, n) == {t \in Task : \E k \in 1..n : IsComplete(l[k], t)}
LastResult(l, n, t, r) ==
    \E k \in 1..n : /\ IsComplete(l[k], t) /\ l[k].cmd.data = r
                    /\ \A m \in (k + 1)..n : ~IsComplete(l[m], t)

\* submittedOrder lists them by their first submission: at place k is the task
\* whose first submission makes the number of submitted tasks k.
OrderOf(s, l, n) ==
    /\ Range(s) = SubmittedIn(l, n)
    /\ Len(s) = Cardinality(SubmittedIn(l, n))
    /\ \A k \in 1..Len(s) : \E p \in 1..n :
         /\ IsSubmit(l[p], s[k])
         /\ s[k] \notin SubmittedIn(l, p - 1)
         /\ Cardinality(SubmittedIn(l, p)) = k

\* The order s and the results e are those that the first n entries of l make.
MadeFrom(s, e, l, n) ==
    /\ OrderOf(s, l, n)
    /\ e \in [CompletedIn(l, n) -> Result]
    /\ \A t \in DOMAIN e : LastResult(l, n, t, e[t])

\* The tables of a node are made from the entries it has applied.
TablesMade ==
    /\ applied \in [Node -> Nat]
    /\ submittedOrder \in [Node -> Seq(Task)]
    /\ DOMAIN errors = Node
    /\ \A i \in Node :
         /\ applied[i] <= commit[i]
         /\ MadeFrom(submittedOrder[i], errors[i], log[i], applied[i])

HandlerRecord ==
    [pc : {"read", "work"}, call : {"Poll", "Heartbeat", "checkStalledTasks"},
     node : Node, isLeader : BOOLEAN, task : Task \cup {None}]

SchedulingTypes ==
    /\ DOMAIN inflight = Node
    /\ \A i \in Node : /\ DOMAIN inflight[i] \subseteq Task
                       /\ inflight[i] \in [DOMAIN inflight[i] -> BOOLEAN]
    /\ wasLeader \in [Node -> BOOLEAN]
    /\ holding \in [Worker -> Task \cup {None}]
    /\ handler \in [Thread -> {IdleHandler} \cup HandlerRecord]

-----------------------------------------------------------------------------
(* Completions come after submissions *)

\* The entry of term u at n is in no log that will ever be committed so far.
Dead(n, u) ==
    \E i \in Node : /\ commit[i] # 0 /\ log[i][commit[i]].term > u
                    /\ ~(n <= commit[i] /\ log[i][n].term = u)

CompletesFollow ==
    \A i \in Node : \A n \in DOMAIN log[i] : \A t \in Task :
        IsComplete(log[i][n], t) =>
            t \in SubmittedIn(log[i], n) \/ Dead(n, log[i][n].term)

\* What a worker holds some node has committed.
HeldCommitted ==
    \A w \in Worker : holding[w] # None =>
        \E i \in Node : holding[w] \in SubmittedIn(log[i], commit[i])

TaskInv == CompletesFollow /\ HeldCommitted

-----------------------------------------------------------------------------
(* What the abstract queue sees *)

\* A worker that polls has no task.
PollersFree ==
    \A w \in Worker :
        handler[w].pc # "idle" /\ handler[w].call = "Poll" => holding[w] = None

\* What is in a log, the no-ops aside, some call has proposed.
EntriesProposed ==
    \A i \in Node : \A n \in DOMAIN log[i] :
        log[i][n].cmd # Noop =>
            \E c \in Op : op[c].pc # "idle" /\ op[c].cmd = log[i][n].cmd

\* No call proposes a no-op.
CallsReal == \A c \in Op : op[c].pc # "idle" => op[c].cmd # Noop

QueueInv == PollersFree /\ EntriesProposed /\ CallsReal
=============================================================================
