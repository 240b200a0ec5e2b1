----------------------------- MODULE RaftAtomic -----------------------------
(***************************************************************************)
(* Raft as the broker process sees it through Start, GetState and          *)
(* commitCh, with every RPC exchange in one step: elections, replication   *)
(* of a leader's whole log, commitment.  Leaders that do not know yet that *)
(* they are deposed, entries that are overwritten, and nodes that lag are  *)
(* all there; delays inside an exchange are the subject of module Raft.    *)
(***************************************************************************)
EXTENDS RaftLog, FiniteSets

CONSTANTS
    Node,       \* the cluster
    Noop,       \* the command becomeLeader appends
    MaxTerm     \* bound: the highest term

VARIABLES
    term,       \* currentTerm of each node
    leading,    \* does the node believe that it is leader?
    log,        \* its log, of records [term, cmd]
    commit      \* its commitIndex

raftVars == <<term, leading, log, commit>>

RaftInit ==
    /\ term = [i \in Node |-> 0]
    /\ leading = [i \in Node |-> FALSE]
    /\ log = [i \in Node |-> <<>>]
    /\ commit = [i \in Node |-> 0]

IsMajority(Q) == 2 * Cardinality(Q) > Cardinality(Node)

\* Is the log of i at least as up to date as that of j?
AtLeast(i, j) ==
    \/ LastTerm(log[i]) > LastTerm(log[j])
    \/ /\ LastTerm(log[i]) = LastTerm(log[j])
       /\ LastIndex(log[i]) >= LastIndex(log[j])

\* The nodes of Q elect i in a new term; those outside hear nothing of it.
Elect(i, Q) ==
    LET t == Max({term[j] : j \in Q}) + 1 IN
    /\ i \in Q /\ IsMajority(Q) /\ ~leading[i]
    /\ \A j \in Q : AtLeast(i, j)
    /\ t <= MaxTerm
    /\ term' = [j \in Node |-> IF j \in Q THEN t ELSE term[j]]
    /\ log' = [log EXCEPT ![i] = Append(@, [term |-> t, cmd |-> Noop])]
    /\ leading' = [j \in Node |-> j = i \/ (j \notin Q /\ leading[j])]
    /\ UNCHANGED commit

\* Node j times out, perhaps repeatedly, and wins no election, but leader i
\* hears of its term and steps down.
Campaign(j, i) ==
    LET t == Max({term[i], term[j]}) + 1 IN
    /\ leading[i] /\ ~leading[j] /\ t <= MaxTerm
    /\ term' = [term EXCEPT ![i] = t, ![j] = t]
    /\ leading' = [leading EXCEPT ![i] = FALSE]
    /\ UNCHANGED <<log, commit>>

\* Start(cmd) on a leader.
StartOn(i, cmd) ==
    /\ leading[i]
    /\ log' = [log EXCEPT ![i] = Append(@, [term |-> term[i], cmd |-> cmd])]
    /\ UNCHANGED <<term, leading, commit>>

\* Node j accepts the log of leader i, and the commit index i has now.
Replicate(i, j) ==
    /\ i # j /\ leading[i] /\ term[i] >= term[j]
    /\ log[j] # log[i] \/ commit[j] < commit[i] \/ term[j] < term[i]
    /\ term' = [term EXCEPT ![j] = term[i]]
    /\ leading' = [leading EXCEPT ![j] = FALSE]
    /\ log' = [log EXCEPT ![j] = log[i]]
    /\ commit' = [commit EXCEPT ![j] = Max({@, commit[i]})]

\* A leader that a node of a newer term has answered steps down.
StepDown(i, j) ==
    /\ leading[i] /\ term[j] > term[i]
    /\ leading' = [leading EXCEPT ![i] = FALSE]
    /\ term' = [term EXCEPT ![i] = term[j]]
    /\ UNCHANGED <<log, commit>>

\* Leader i learns that a majority holds its log up to entry n.
CommitUpTo(i, n) ==
    /\ leading[i]
    /\ n \in (commit[i] + 1) .. LastIndex(log[i])
    /\ log[i][n].term = term[i]
    /\ IsMajority({j \in Node : /\ term[j] = term[i]
                                /\ Has(log[j], n) /\ log[j][n] = log[i][n]})
    /\ commit' = [commit EXCEPT ![i] = n]
    /\ UNCHANGED <<term, leading, log>>

RaftNext ==
    \/ \E i \in Node, Q \in SUBSET Node : Elect(i, Q)
    \/ \E i, j \in Node : Campaign(j, i) \/ Replicate(i, j) \/ StepDown(i, j)
    \/ \E i \in Node, n \in 1 .. Max({LastIndex(log[j]) : j \in Node}) :
           CommitUpTo(i, n)

\* The entries that some node knows to be committed.
CommittedLog ==
    LET i == CHOOSE i \in Node : \A j \in Node : commit[j] <= commit[i]
    IN  SubSeq(log[i], 1, commit[i])
=============================================================================
