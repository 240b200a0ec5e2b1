----------------------------- MODULE TaskQueue -----------------------------
(***************************************************************************)
(* What the broker cluster promises to producers and workers: one list of  *)
(* submitted tasks and the outcomes reported for them, both only growing;  *)
(* tasks lent to workers, possibly several times.  A command proposed by a *)
(* Submit or Complete call takes effect at once, later or, if it is lost   *)
(* with the leader that took it, never.                                    *)
(***************************************************************************)
EXTENDS Sequences, Functions

CONSTANTS
    Task,       \* ids that brokers draw
    Worker,
    Result,     \* what Complete may report
    None

VARIABLES
    proposed,   \* commands in some log, not applied anywhere yet
    order,      \* the ids submitted, in commit order
    outcomes,   \* per id, every result recorded for it so far
    lent        \* the task each worker holds

queueVars == <<proposed, order, outcomes, lent>>

SubmitCmd(t) == [op |-> "submit", id |-> t]
CompleteCmd(t, r) == [op |-> "complete", id |-> t, data |-> r]

Submitted == Range(order)
Done(t) == outcomes[t] # {}

\* Has this command, or the same one from an earlier call, taken effect?
Recorded(cmd) ==
    IF cmd.op = "submit" THEN cmd.id \in Submitted
    ELSE cmd.data \in outcomes[cmd.id]

\* Calls may be under way already; nothing is committed.
QueueInit ==
    /\ proposed \in SUBSET {SubmitCmd(t) : t \in Task}
    /\ order = <<>>
    /\ outcomes = [t \in Task |-> {}]
    /\ lent = [w \in Worker |-> None]

Propose(cmd) ==
    /\ ~Recorded(cmd)
    /\ proposed' = proposed \cup {cmd}
    /\ UNCHANGED <<order, outcomes, lent>>

Commit(cmd) ==
    /\ cmd \in proposed
    /\ proposed' = proposed \ {cmd}
    /\ \/ /\ cmd.op = "submit"
          /\ order' = Append(order, cmd.id)
          /\ UNCHANGED outcomes
       \/ /\ cmd.op = "complete" /\ cmd.id \in Submitted
          /\ outcomes' = [outcomes EXCEPT ![cmd.id] = @ \cup {cmd.data}]
          /\ UNCHANGED order
    /\ UNCHANGED lent

\* A stalled task is lent again, a lagging leader may even lend one that is done.
Lend(w, t) ==
    /\ lent[w] = None /\ t \in Submitted
    /\ lent' = [lent EXCEPT ![w] = t]
    /\ UNCHANGED <<proposed, order, outcomes>>

Release(w) ==
    /\ lent[w] # None
    /\ lent' = [lent EXCEPT ![w] = None]
    /\ UNCHANGED <<proposed, order, outcomes>>

\* GetResult, Heartbeat and refused calls leave the queue as it is.
Ask == UNCHANGED queueVars

QueueNext ==
    \/ Ask
    \/ \E t \in Task : Propose(SubmitCmd(t))
    \/ \E w \in Worker, r \in Result :
         lent[w] # None /\ Propose(CompleteCmd(lent[w], r))
    \/ \E cmd \in proposed : Commit(cmd)
    \/ \E w \in Worker : Release(w) \/ \E t \in Task : Lend(w, t)

QueueSpec == QueueInit /\ [][QueueNext]_queueVars
=============================================================================
