------------------------------- MODULE Broker -------------------------------
(***************************************************************************)
(* The broker process on every node of the cluster: the replicated task    *)
(* table that applyLoop builds, the RPC handlers that wait for a log entry  *)
(* to commit, and the leader's table of handed-out tasks.  A handler gives *)
(* up its lock between reading the raft state, updating wasLeader and       *)
(* doing its work, so each of these is a step of its own.                   *)
(***************************************************************************)
EXTENDS RaftAtomic, Sequences, Functions, SequencesExt

CONSTANTS
    Submission,     \* Submit calls, each named by the task id it draws
    Completion,     \* Complete calls
    Worker,         \* worker processes
    Result,         \* what Complete may report: success or an error
    None,
    Checking        \* bound: the nodes whose reEnqueueStalled is watched

ASSUME BrokerAssumption ==
    /\ IsFiniteSet(Node) /\ Node # {}
    /\ MaxTerm \in Nat
    /\ Submission \cap Completion = {}
    /\ Worker \cap Node = {} /\ Checking \subseteq Node

VARIABLES
    applied,        \* entries applyLoop has taken from commitCh
    submittedOrder, \* task ids in commit order
    errors,         \* task id -> result, for the ids in done
    inflight,       \* task id -> has it been heard of within TaskTimeout?
    wasLeader,
    pendingOps,     \* log index -> the call waiting for it
    op,             \* proposeAndWait of each Submit and Complete call
    handler,        \* Poll, Heartbeat or checkStalledTasks under way
    holding         \* the task a worker is working on

tables == <<applied, submittedOrder, errors>>
scheduling == <<inflight, wasLeader>>
calls == <<pendingOps, op>>
vars == <<raftVars, tables, scheduling, calls, handler, holding>>

Task == Submission
Op == Submission \cup Completion
Thread == Worker \cup Checking      \* a node's own thread is reEnqueueStalled

IdleOp == [pc |-> "idle"]
IdleHandler == [pc |-> "idle"]

Done(i) == DOMAIN errors[i]

Init ==
    /\ RaftInit
    /\ applied = [i \in Node |-> 0]
    /\ submittedOrder = [i \in Node |-> <<>>]
    /\ errors = [i \in Node |-> <<>>]
    /\ inflight = [i \in Node |-> <<>>]
    /\ wasLeader = [i \in Node |-> FALSE]
    /\ pendingOps = [i \in Node |-> <<>>]
    /\ op = [c \in Op |-> IdleOp]
    /\ handler = [h \in Thread |-> IdleHandler]
    /\ holding = [w \in Worker |-> None]

\* f with x taken out of, or put into, its domain.
Without(f, X) == Restrict(f, DOMAIN f \ X)
With(f, x, y) == [z \in DOMAIN f \cup {x} |-> IF z = x THEN y ELSE f[z]]

-----------------------------------------------------------------------------
(* applyLoop                                                               *)

SubmitCmd(t) == [op |-> "submit", id |-> t]
CompleteCmd(t, r) == [op |-> "complete", id |-> t, data |-> r]

\* Raft's own command, "noop", is no encoded command ...
ASSUME NoopAssumption ==
    \A t \in Task : /\ Noop # SubmitCmd(t)
                    /\ \A r \in Result : Noop # CompleteCmd(t, r)

\* ... and decodes to no operation.
decodeCommand(cmd) == IF cmd = Noop THEN "" ELSE cmd.op

ApplySubmit(i, cmd) ==
    /\ decodeCommand(cmd) = "submit"
    /\ submittedOrder' =
         IF cmd.id \in Range(submittedOrder[i]) THEN submittedOrder
         ELSE [submittedOrder EXCEPT ![i] = Append(@, cmd.id)]
    /\ UNCHANGED <<errors, inflight>>

\* Mutant: the assignment of a completed task is kept.
KeepAssignment(i, t) == inflight

DropAssignment(i, t) == [inflight EXCEPT ![i] = Without(@, {t})]

ApplyComplete(i, cmd) ==
    /\ decodeCommand(cmd) = "complete"
    /\ errors' = [errors EXCEPT ![i] = With(@, cmd.id, cmd.data)]
    /\ inflight' = DropAssignment(i, cmd.id)
    /\ UNCHANGED submittedOrder

\* Mutant: the registration is kept.
WakeOnly(i, index, t) ==
    IF index \in DOMAIN pendingOps[i]
    THEN /\ op' = [op EXCEPT ![pendingOps[i][index]].opTerm = t,
                             ![pendingOps[i][index]].closed = TRUE]
         /\ UNCHANGED pendingOps
    ELSE UNCHANGED calls

\* The call registered at the index is told the term and its channel closed.
WakePending(i, index, t) ==
    IF index \in DOMAIN pendingOps[i]
    THEN /\ op' = [op EXCEPT ![pendingOps[i][index]].opTerm = t,
                             ![pendingOps[i][index]].closed = TRUE]
         /\ pendingOps' = [pendingOps EXCEPT ![i] = Without(@, {index})]
    ELSE UNCHANGED calls

\* Mutant: entries are delivered as soon as they are in the log.
AnyEntryIsNext(i) == applied[i] < LastIndex(log[i])

\* raft sends the next entry on commitCh once it is committed.
NextOnCommitCh(i) == applied[i] < commit[i]

ApplyLoop(i) ==
    LET index == applied[i] + 1 IN
    /\ NextOnCommitCh(i)
    /\ applied' = [applied EXCEPT ![i] = index]
    /\ LET e == log[i][index] IN
         /\ \/ ApplySubmit(i, e.cmd)
            \/ ApplyComplete(i, e.cmd)
            \/ /\ decodeCommand(e.cmd) = ""
               /\ UNCHANGED <<submittedOrder, errors, inflight>>
         /\ WakePending(i, index, e.term)
    /\ UNCHANGED <<raftVars, wasLeader, handler, holding>>

-----------------------------------------------------------------------------
(* proposeAndWait                                                          *)

\* Start has appended the command; the call is not registered yet.
Propose(c, i, cmd) ==
    /\ op[c].pc = "idle"
    /\ StartOn(i, cmd)
    /\ op' = [op EXCEPT ![c] =
                [pc |-> "proposed", node |-> i, cmd |-> cmd, term |-> term[i],
                 index |-> LastIndex(log'[i]), opTerm |-> term[i],
                 closed |-> FALSE]]
    /\ UNCHANGED <<pendingOps, tables, scheduling, handler, holding>>

\* A node that is not leader answers at once and changes nothing: no action.
Submit(c, i) == c \in Submission /\ Propose(c, i, SubmitCmd(c))

\* A worker reports on the task it holds; it may do so more than once.
Complete(c, w, i, r) ==
    /\ c \in Completion /\ holding[w] # None
    /\ Propose(c, i, CompleteCmd(holding[w], r))

\* The slot takes whatever was registered at that index.
Register(c) ==
    /\ op[c].pc = "proposed"
    /\ pendingOps' = [pendingOps EXCEPT ![op[c].node] = With(@, op[c].index, c)]
    /\ op' = [op EXCEPT ![c].pc = "waiting"]
    /\ UNCHANGED <<raftVars, tables, scheduling, handler, holding>>

\* Mutant: any entry at that index will do.
AnyEntry(o) == TRUE

\* Is the entry that committed at the index the one this call proposed?
SameEntry(o) == o.opTerm = o.term

Woken(c) ==
    /\ op[c].pc = "waiting" /\ op[c].closed
    /\ op' = [op EXCEPT ![c].pc = IF SameEntry(op[c]) THEN "ok" ELSE "failed"]
    /\ UNCHANGED <<raftVars, pendingOps, tables, scheduling, handler, holding>>

\* commitTimeout: whatever is registered at the index is removed.
TimedOut(c) ==
    /\ op[c].pc = "waiting"
    /\ pendingOps' = [pendingOps EXCEPT ![op[c].node] =
                        Without(@, {op[c].index})]
    /\ op' = [op EXCEPT ![c].pc = "failed"]
    /\ UNCHANGED <<raftVars, tables, scheduling, handler, holding>>

-----------------------------------------------------------------------------
(* Poll, Heartbeat, checkStalledTasks                                      *)

\* refreshLeaderState first asks raft ...
GetState(h, call, i) ==
    /\ handler[h].pc = "idle"
    /\ \/ h \in Worker /\ call = "Poll" /\ holding[h] = None
       \/ h \in Worker /\ call = "Heartbeat" /\ holding[h] # None
       \/ h = i /\ call = "checkStalledTasks"
    /\ handler' = [handler EXCEPT ![h] =
                     [pc |-> "read", call |-> call, node |-> i,
                      isLeader |-> leading[i],
                      task |-> IF call = "Heartbeat" THEN holding[h]
                               ELSE None]]
    /\ UNCHANGED <<raftVars, tables, scheduling, calls, holding>>

\* A leadership that starts makes the node forget what it had handed out.
MustWipe(i, isLeader) == isLeader /\ ~wasLeader[i]

\* ... and then, under the lock, acts on what raft had answered.
refreshLeaderState(h) ==
    LET i == handler[h].node
        isLeader == handler[h].isLeader
    IN
    /\ handler[h].pc = "read"
    /\ inflight' = IF MustWipe(i, isLeader)
                   THEN [inflight EXCEPT ![i] = <<>>] ELSE inflight
    /\ wasLeader' = [wasLeader EXCEPT ![i] = isLeader]
    /\ handler' = [handler EXCEPT ![h] =
                     IF isLeader THEN [@ EXCEPT !.pc = "work"] ELSE IdleHandler]
    /\ UNCHANGED <<raftVars, tables, calls, holding>>

Working(h, call) == handler[h].pc = "work" /\ handler[h].call = call

Finish(h) == handler' = [handler EXCEPT ![h] = IdleHandler]

\* "Pending" is derived: submitted, not done and not in flight.
Available(i) == {t \in Task : t \notin Done(i) /\ t \notin DOMAIN inflight[i]}

\* The places of submittedOrder where the scan of Poll stops.
Pending(i) ==
    {n \in DOMAIN submittedOrder[i] : submittedOrder[i][n] \in Available(i)}

Poll(w) ==
    LET i == handler[w].node
        t == submittedOrder[i][Min(Pending(i))]
    IN
    /\ Working(w, "Poll")
    /\ IF Pending(i) = {} THEN UNCHANGED <<inflight, holding>>
       ELSE /\ inflight' = [inflight EXCEPT ![i] = With(@, t, TRUE)]
            /\ holding' = [holding EXCEPT ![w] = t]
    /\ Finish(w)
    /\ UNCHANGED <<raftVars, tables, wasLeader, calls>>

Heartbeat(w) ==
    LET i == handler[w].node
        t == handler[w].task
    IN
    /\ Working(w, "Heartbeat")
    /\ inflight' = IF t \in DOMAIN inflight[i]
                   THEN [inflight EXCEPT ![i][t] = TRUE] ELSE inflight
    /\ Finish(w)
    /\ UNCHANGED <<raftVars, tables, wasLeader, calls, holding>>

\* Mutant: nothing is ever re-enqueued.
NeverStalled(i) == {}

Stalled(i) == {t \in DOMAIN inflight[i] : ~inflight[i][t]}

checkStalledTasks(i) ==
    /\ Working(i, "checkStalledTasks")
    /\ inflight' = [inflight EXCEPT ![i] = Without(@, Stalled(i))]
    /\ Finish(i)
    /\ UNCHANGED <<raftVars, tables, wasLeader, calls, holding>>

\* TaskTimeout passes on node i without a heartbeat for t.
Lapse(i, t) ==
    /\ i \in Checking      \* nothing else looks at the time
    /\ t \in DOMAIN inflight[i] /\ inflight[i][t]
    /\ inflight' = [inflight EXCEPT ![i][t] = FALSE]
    /\ UNCHANGED <<raftVars, tables, wasLeader, calls, handler, holding>>

\* A worker is through with its task, or crashes, or never got the answer.
Release(w) ==
    /\ holding[w] # None
    /\ holding' = [holding EXCEPT ![w] = None]
    /\ UNCHANGED <<raftVars, tables, scheduling, calls, handler>>

-----------------------------------------------------------------------------
RaftStep ==
    /\ RaftNext
    /\ UNCHANGED <<tables, scheduling, calls, handler, holding>>

Next ==
    \/ RaftStep
    \/ \E i \in Node :
         \/ ApplyLoop(i)
         \/ i \in Checking /\ GetState(i, "checkStalledTasks", i)
         \/ i \in Checking /\ checkStalledTasks(i)
         \/ \E t \in Task : Lapse(i, t)
         \/ \E c \in Submission : Submit(c, i)
         \/ \E c \in Completion, w \in Worker, r \in Result :
                Complete(c, w, i, r)
         \/ \E w \in Worker, call \in {"Poll", "Heartbeat"} :
                GetState(w, call, i)
    \/ \E c \in Op : Register(c) \/ Woken(c) \/ TimedOut(c)
    \/ \E h \in Thread : refreshLeaderState(h)
    \/ \E w \in Worker : Poll(w) \/ Heartbeat(w) \/ Release(w)

Spec == Init /\ [][Next]_vars

\* No goroutine of a node stops for good, a worker without a task keeps
\* asking every node, and TaskTimeout passes for a task nobody works on.
Fairness ==
    /\ \A i \in Node : WF_vars(ApplyLoop(i))
    /\ \A h \in Thread : WF_vars(refreshLeaderState(h))
    /\ \A w \in Worker : /\ WF_vars(Poll(w) \/ Heartbeat(w))
                         /\ \A i \in Node : SF_vars(GetState(w, "Poll", i))
    /\ \A i \in Checking : WF_vars(\/ GetState(i, "checkStalledTasks", i)
                                   \/ checkStalledTasks(i))
    /\ \A i \in Node, t \in Task :
         WF_vars(/\ Lapse(i, t)
                 /\ \A w \in Worker : holding[w] # t)

-----------------------------------------------------------------------------
(* Properties                                                              *)

\* Every table of the broker is of the shape the Go types give it, and no
\* table runs ahead of what raft has committed on its node.
BrokerTypeOK ==
    /\ \A i \in Node :
         /\ applied[i] \in 0 .. commit[i] /\ commit[i] <= LastIndex(log[i])
         /\ submittedOrder[i] \in Seq(Task)
         /\ Done(i) \subseteq Task /\ Range(errors[i]) \subseteq Result
         /\ DOMAIN inflight[i] \subseteq Task
         /\ wasLeader[i] \in BOOLEAN
         /\ DOMAIN pendingOps[i] \subseteq Nat \ {0}
         /\ Range(pendingOps[i]) \subseteq Op
    /\ \A c \in Op : op[c].pc \in {"idle", "proposed", "waiting", "ok", "failed"}
    /\ \A h \in Thread : handler[h].pc \in {"idle", "read", "work"}

\* A call that was answered Ok has its own command, and not one that took its
\* place, in the committed log (proposeAndWait: "true only if the entry that
\* committed at the returned index is the one this call submitted").
AckDurable ==
    \A c \in Op : op[c].pc = "ok" =>
        /\ op[c].index <= Len(CommittedLog)
        /\ CommittedLog[op[c].index] = [term |-> op[c].term, cmd |-> op[c].cmd]

\* Replicas whose applyLoop has come equally far hold the same task tables,
\* and the order of one replica's tasks is never contradicted by another's.
ReplicasAgree ==
    \A i, j \in Node : applied[i] <= applied[j] =>
        /\ IsPrefix(submittedOrder[i], submittedOrder[j])
        /\ Done(i) \subseteq Done(j)
        /\ applied[i] = applied[j] => errors[i] = errors[j]

\* No replica records a result for a task that it has not seen submitted,
\* whichever node lent it and whichever node took the Complete.
CompletedWasSubmitted ==
    \A i \in Node : Done(i) \subseteq Range(submittedOrder[i])

\* A task that a node knows to be done never sits in its inflight table, so
\* no later scan, heartbeat or time-out can bring it back.
InflightNotDone == \A i \in Node : DOMAIN inflight[i] \cap Done(i) = {}

\* What is registered in pendingOps is a call still waiting for that very
\* index on that very node, with its channel open: applyLoop never closes a
\* channel twice (a panic), although calls overwrite and remove each other's
\* registrations.
RegisteredIsOpen ==
    \A i \in Node : \A n \in DOMAIN pendingOps[i] :
        LET o == op[pendingOps[i][n]] IN
        /\ o.pc = "waiting" /\ ~o.closed
        /\ o.node = i /\ o.index = n

\* If some node whose stalled tasks are checked stays leader for good, a task
\* that it has applied is, until it is done, handed out again and again,
\* whatever workers crash with it and whatever assignments an earlier
\* leadership left behind (refreshLeaderState, checkStalledTasks).
NeverStranded ==
    \A i \in Checking, t \in Task :
        <>[](leading[i] /\ t \in Range(submittedOrder[i])) =>
            []<>(\/ t \in Done(i)
                 \/ \E w \in Worker : holding[w] = t)

\* "closed when the entry commits": a call that waits with its channel open
\* waits for an index its node has not applied yet.
WaitingIsUnapplied ==
    \A c \in Op : op[c].pc = "waiting" /\ ~op[c].closed =>
        applied[op[c].node] < op[c].index
=============================================================================
