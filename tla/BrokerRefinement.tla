-------------------------- MODULE BrokerRefinement --------------------------
(***************************************************************************)
(* The brokers together implement one TaskQueue: what has taken effect is  *)
(* what the replica that is furthest ahead has applied.                    *)
(***************************************************************************)
EXTENDS Broker

Ahead == CHOOSE i \in Node : \A j \in Node : applied[j] <= applied[i]

AppliedCmds == LET i == Ahead IN {log[i][n].cmd : n \in 1 .. applied[i]}

\* What calls have proposed and no broker has applied.
Unapplied ==
    LET past == AppliedCmds
        called == {c \in Op : op[c].pc # "idle" /\ op[c].cmd \notin past}
    IN  {op[c].cmd : c \in called}

Outcomes ==
    LET past == AppliedCmds IN
    [t \in Task |-> {r \in Result : CompleteCmd(t, r) \in past}]

Queue == INSTANCE TaskQueue WITH
    proposed <- Unapplied,
    order    <- submittedOrder[Ahead],
    outcomes <- Outcomes,
    lent     <- holding

\* The tables that brokers apply, the calls they answer and the tasks they
\* hand out are those of a single queue, through changes of leader, entries
\* that are overwritten and handlers that act on leadership they have lost.
ImplementsTaskQueue == Queue!QueueSpec
=============================================================================
