------------------------------ MODULE RaftInv ------------------------------
(***************************************************************************)
(* The inductive invariants behind the theorems of RaftProofs.  They are   *)
(* stated here, apart from the proofs, so that TLC checks them too.        *)
(***************************************************************************)
EXTENDS Raft

\* A leader's nextIndex is at least 1: prevLogIndex is never negative.
LeaderNextPositive ==
    \A i, j \in Server : state[i] = Leader => nextIndex[i][j] >= 1

TypeInv == TypeOK /\ LeaderNextPositive

(***************************************************************************)
(* j has voted for c in term t, as far as anything in the system shows it: *)
(* j's own memory, a reply on its way, or c's count in that election.      *)
(***************************************************************************)
Ballot(j, t, c) ==
    \/ currentTerm[j] = t /\ votedFor[j] = c
    \/ \E m \in voteReps : /\ m.voteGranted
                           /\ m.from = j /\ m.to = c /\ m.reqTerm = t
    \/ /\ currentTerm[c] = t
       /\ state[c] \in {Candidate, Leader}
       /\ j \in votes[c]

\* The terms in which there can be a ballot.
BallotTerms ==
    {currentTerm[i] : i \in Server} \cup {m.reqTerm : m \in voteReps}

\* A ballot is of a term its voter has reached, and the voter remembers it
\* for as long as that term lasts.
BallotsRemembered ==
    \A j, c \in Server : \A t \in BallotTerms :
        Ballot(j, t, c) => /\ t <= currentTerm[j]
                           /\ t = currentTerm[j] => votedFor[j] = c

\* No voter is behind two candidates in a term.
BallotsUnique ==
    \A j, c, d \in Server : \A t \in BallotTerms :
        Ballot(j, t, c) /\ Ballot(j, t, d) => c = d

\* A leader has a majority of ballots.
LeaderElected ==
    \A i \in Server : state[i] = Leader => Majority(votes[i])

\* A vote is granted in the term it was asked for.
GrantedInTerm == \A m \in voteReps : m.voteGranted => m.term = m.reqTerm

ElectionInv ==
    BallotsRemembered /\ BallotsUnique /\ LeaderElected /\ GrantedInTerm
=============================================================================
