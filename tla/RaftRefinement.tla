--------------------------- MODULE RaftRefinement ---------------------------
(***************************************************************************)
(* Raft implements ReplicatedLog: the abstract log is the committed prefix *)
(* of a node whose commitIndex is highest.  A leader's advanceCommitIndex  *)
(* is the abstract Commit, a turn of applyLoop is Deliver, and every other *)
(* step, the followers' commit index included, changes nothing.            *)
(***************************************************************************)
EXTENDS Raft

\* There is a node: an empty cluster has no committed prefix.
ASSUME ClusterAssumption == Server # {}

\* The prefix that is committed on the node that has committed most.
Committed ==
    LET i == CHOOSE i \in Server :
                 \A j \in Server : commitIndex[j] <= commitIndex[i]
    IN  SubSeq(log[i], 1, commitIndex[i])

RL == INSTANCE ReplicatedLog
          WITH Node <- Server, committed <- Committed, delivered <- applied

\* Clients of commitCh see one growing log: no leader change, lost call or
\* late reply ever makes two brokers apply different commands at an index.
ImplementsReplicatedLog == RL!RLSpec
=============================================================================
