------------------------------ MODULE MCBroker ------------------------------
(* The broker on small instances, for TLC.                                 *)
EXTENDS BrokerRefinement, MergeLoop

CONSTANTS
    First,      \* the leader in the states SpecLed and FairRegain start from
    Earlier     \* the leader before it, in FairRegain

Symmetry ==
    Permutations(Node) \cup Permutations(Submission)
        \cup Permutations(Completion) \cup Permutations(Worker)

SymmetryLed ==
    Permutations(Node \ {First}) \cup Permutations(Submission)
        \cup Permutations(Completion) \cup Permutations(Worker)

\* All but what is left of calls that have been answered.
WorkView ==
    <<raftVars, tables, scheduling, pendingOps, handler, holding,
      [c \in Op |-> IF op[c].pc \in {"ok", "failed"} THEN op[c].cmd ELSE op[c]]>>

order == SetToSeq(Submission)

\* The log of the node that led in term 1 once every task is submitted to it,
\* and the Submit calls, answered as pc says.
entries ==
    <<[term |-> 1, cmd |-> Noop]>> \o
    [k \in 1 .. Len(order) |-> [term |-> 1, cmd |-> SubmitCmd(order[k])]]

SubmittedTo(i, pc) ==
    op = [c \in Op |->
            IF c \in Completion THEN IdleOp
            ELSE LET k == CHOOSE k \in 1 .. Len(order) : order[k] = c IN
                 [pc |-> pc, node |-> i, cmd |-> SubmitCmd(c), term |-> 1,
                  index |-> k + 1, opTerm |-> 1, closed |-> pc = "ok"]]

\* First leads, all have applied what is committed, nothing is under way.
Quiet ==
    /\ leading = [i \in Node |-> i = First]
    /\ applied = commit
    /\ errors = [i \in Node |-> <<>>]
    /\ pendingOps = [i \in Node |-> <<>>]
    /\ handler = [h \in Thread |-> IdleHandler]
    /\ holding = [w \in Worker |-> None]

\* The tasks were submitted to First, but nobody else has them and the calls
\* have timed out.
InitLed ==
    /\ term = [i \in Node |-> 1]
    /\ log = [i \in Node |-> IF i = First THEN entries ELSE SubSeq(entries, 1, 1)]
    /\ commit = [i \in Node |-> 1]
    /\ submittedOrder = [i \in Node |-> <<>>]
    /\ SubmittedTo(First, "failed")
    /\ inflight = [i \in Node |-> <<>>]
    /\ wasLeader = [i \in Node |-> FALSE]
    /\ Quiet

\* Node Earlier led in term 1, when the tasks were submitted and committed, and
\* lent them all to workers that are gone; it may or may not have looked at
\* its own leadership since First was elected in term 2.
InitRegain ==
    /\ term = [i \in Node |-> 2]
    /\ log = [i \in Node |-> Append(entries, [term |-> 2, cmd |-> Noop])]
    /\ commit = [i \in Node |-> Len(entries) + 1]
    /\ submittedOrder = [i \in Node |-> order]
    /\ SubmittedTo(Earlier, "ok")
    /\ inflight = [i \in Node |-> IF i = Earlier THEN [t \in Task |-> TRUE]
                                  ELSE <<>>]
    /\ \E looked \in BOOLEAN :
         wasLeader = [i \in Node |-> i = Earlier /\ ~looked]
    /\ Quiet

\* Three terms have passed.  Either nobody won an election in them ...
InitBoot ==
    /\ term = [i \in Node |-> 3]
    /\ leading = [i \in Node |-> FALSE]
    /\ log = [i \in Node |-> <<>>]
    /\ op = [c \in Op |-> IdleOp]
    /\ pendingOps = [i \in Node |-> <<>>]

\* ... or node i won the first, was deposed by a campaign in the second and won
\* the third, but replicated nothing.  It does not know that j was elected in
\* term 4, and a Submit waits on it for index 3: if i takes over j's log and
\* leads once more it will use that index again.
InitDeposed ==
    \E i, j \in Node, c \in Submission :
        /\ i # j
        /\ term = [k \in Node |-> IF k = i THEN 3 ELSE 4]
        /\ leading = [k \in Node |-> k \in {i, j}]
        /\ log = [k \in Node |->
                     IF k = i THEN <<[term |-> 1, cmd |-> Noop], [term |-> 3, cmd |-> Noop],
                                     [term |-> 3, cmd |-> SubmitCmd(c)]>>
                     ELSE IF k = j THEN <<[term |-> 4, cmd |-> Noop]>>
                     ELSE <<>>]
        /\ op = [d \in Op |->
                    IF d # c THEN IdleOp
                    ELSE [pc |-> "waiting", node |-> i, cmd |-> SubmitCmd(c),
                          term |-> 3, index |-> 3, opTerm |-> 3, closed |-> FALSE]]
        /\ pendingOps = [k \in Node |-> IF k = i THEN (3 :> c) ELSE <<>>]

InitCalls ==
    /\ InitBoot \/ InitDeposed
    /\ commit = [i \in Node |-> 0]
    /\ applied = [i \in Node |-> 0]
    /\ submittedOrder = [i \in Node |-> <<>>]
    /\ errors = [i \in Node |-> <<>>]
    /\ inflight = [i \in Node |-> <<>>]
    /\ wasLeader = [i \in Node |-> FALSE]
    /\ handler = [h \in Thread |-> IdleHandler]
    /\ holding = [w \in Worker |-> None]

SpecCalls == InitCalls /\ [][Next]_vars

SpecLed == InitLed /\ [][Next]_vars

FairRegain == InitRegain /\ [][Next]_vars /\ Fairness
=============================================================================
