--------------------------- MODULE ReplicatedLog ---------------------------
(***************************************************************************)
(* What the broker relies on from Raft: one log, shared by the cluster,    *)
(* that only ever grows, and every node's state machine fed from it, one   *)
(* entry at a time, in order, without a gap and without a repetition       *)
(* (the contract of commitCh in raft/raft.go and of applyCommitted in      *)
(* broker/main.go).  Nodes, terms, votes and messages do not appear.       *)
(***************************************************************************)
EXTENDS Integers, Sequences, SequencesExt

CONSTANT Node

VARIABLES
    committed,   \* the entries that are committed, whoever knows it
    delivered    \* what each node's commitCh has carried

RLInit == committed = <<>> /\ delivered = [i \in Node |-> <<>>]

\* One or more entries become committed, for ever.
Commit ==
    /\ IsStrictPrefix(committed, committed')
    /\ UNCHANGED delivered

\* Node i is handed the next committed entry.
Deliver(i) ==
    /\ Len(delivered[i]) < Len(committed)
    /\ delivered' = [delivered EXCEPT
                        ![i] = Append(@, committed[Len(@) + 1])]
    /\ UNCHANGED committed

RLNext == Commit \/ \E i \in Node : Deliver(i)

RLSpec == RLInit /\ [][RLNext]_<<committed, delivered>>
=============================================================================
