------------------------------- MODULE MCRaft -------------------------------
(***************************************************************************)
(* Raft for TLC.  Besides the boot of the cluster there is a later         *)
(* starting point, reachable from it, from which replication is looked at  *)
(* without enumerating again every way to elect a leader.                  *)
(***************************************************************************)
EXTENDS RaftRefinement, RaftInv, TLC

CONSTANTS
    First,    \* the leader deposed in InitFailover
    Second    \* the leader elected in its place

ASSUME StartAssumption == First \in Server /\ Second \in Server \ {First}

\* Calls are only compared.
Symmetry == Permutations(Call)

(***************************************************************************)
(* A reply that its receiver would ignore is ignored for ever: terms grow, *)
(* and a node is candidate or leader of a term once.  States that differ   *)
(* in such replies only are one state.                                     *)
(***************************************************************************)
LiveVoteReps ==
    {m \in voteReps : \/ m.term > currentTerm[m.to]
                      \/ VoteCurrent(m) /\ m.voteGranted}
LiveAppReps ==
    {m \in appReps : m.term > currentTerm[m.to] \/ ReplyCurrent(m)}
LiveView == <<elections, electionVars, logVars, applyVars, leaderVars,
              voteReqs, LiveVoteReps, appReqs, LiveAppReps>>

NoopEntry(n, t) == [index |-> n, term |-> t, command |-> Noop]

\* After n elections: node a had run in vain in all terms before term n - 1,
\* which it led.  It replicated its no-op to b, whose reply is lost or still on
\* its way, and appended a second entry.  Then the other nodes elected b in
\* term n, which a has not heard of: it still leads.  The third node has no
\* entry yet.
InitFailover(a, b, n, pending) ==
    /\ elections = n
    /\ currentTerm = [i \in Server |-> IF i = a THEN n - 1 ELSE n]
    /\ votedFor = [i \in Server |-> IF i = a THEN a ELSE b]
    /\ state = [i \in Server |-> IF i \in {a, b} THEN Leader ELSE Follower]
    /\ votes = [i \in Server |-> CASE i = a -> {a, b}
                                   [] i = b -> Server \ {a}
                                   [] OTHER -> {}]
    /\ \E cmd \in Command :
         log = [i \in Server |->
                  CASE i = a -> <<NoopEntry(1, n - 1),
                                  [index |-> 2, term |-> n - 1, command |-> cmd]>>
                    [] i = b -> <<NoopEntry(1, n - 1), NoopEntry(2, n)>>
                    [] OTHER -> <<>>]
    /\ commitIndex = [i \in Server |-> 0]
    /\ lastApplied = [i \in Server |-> 0]
    /\ applied = [i \in Server |-> <<>>]
    /\ nextIndex = [i \in Server |-> [j \in Server |->
                       CASE i = a -> 1 [] i = b -> 2 [] OTHER -> 0]]
    /\ matchIndex = [i \in Server |-> [j \in Server |-> 0]]
    /\ voteReqs = {} /\ voteReps = {}
    /\ appReqs = {}
    /\ \E k \in Call :
         appReps = {m \in {[call |-> k, from |-> b, to |-> a, term |-> n - 1,
                            success |-> TRUE, sentTerm |-> n - 1,
                            newMatch |-> 1]} : pending}

(***************************************************************************)
(* Bound: three parts of the state space, told apart by the number of      *)
(* elections.  Up to Elections from the boot, without AppendEntries; after *)
(* Overlap elections none, but calls that overlap; after Failover          *)
(* elections one more, and one call at a time.  At most two committed      *)
(* entries wait for applyLoop, over the nodes.                             *)
(***************************************************************************)
Elections == 3
Overlap == Elections + 2
Failover == Overlap + 2

InFlight == {m.call : m \in appReqs \cup LiveAppReps}

Backlog == {<<i, n>> \in Server \X (1 .. MaxLogLen) :
                lastApplied[i] < n /\ n <= commitIndex[i]}

Budget ==
    /\ Cardinality(Backlog) <= 2
    /\ \/ /\ elections <= Elections /\ InFlight = {}
          /\ \A i \in Server : \A n \in DOMAIN log[i] : log[i][n].command = Noop
       \/ elections = Overlap
       \/ /\ elections >= Failover /\ Cardinality(InFlight) <= 1
          /\ \A i \in Server : \A n \in DOMAIN log[i] :
               n > 2 => log[i][n].command = Noop

SpecSafety ==
    /\ \/ Init
       \/ InitFailover(First, Second, Overlap, FALSE)
       \/ InitFailover(First, Second, Failover, TRUE)
    /\ [][Next]_vars

FairFailover ==
    InitFailover(First, Second, 2, FALSE) /\ [][Next]_vars /\ Fairness(Second)

Converges == Convergence(Second)
=============================================================================
