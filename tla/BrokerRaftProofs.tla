-------------------------- MODULE BrokerRaftProofs --------------------------
(***************************************************************************)
(* Proofs about the logs under the brokers: whatever the brokers and the   *)
(* cluster do, no committed entry is lost.                                 *)
(***************************************************************************)
EXTENDS BrokerInv, RaftLogProofs

-----------------------------------------------------------------------------
(* Majorities and logs *)

\* Two majorities share a node.
LEMMA MajoritiesMeet ==
    ASSUME NEW Q \in SUBSET Node, NEW R \in SUBSET Node,
           IsMajority(Q), IsMajority(R)
    PROVE  \E q \in Node : q \in Q /\ q \in R
<1>1. /\ IsFiniteSet(Node) /\ Cardinality(Node) \in Nat
      /\ Cardinality(Q) \in Nat /\ Cardinality(R) \in Nat
  BY BrokerAssumption, FS_CardinalityType, FS_Subset
<1>2. Cardinality(Q) + Cardinality(R) > Cardinality(Node)
  BY <1>1 DEF IsMajority
<1> QED
  BY <1>1, <1>2, FS_MajoritiesIntersect

\* What an entry of a log is.
LEMMA EntryFacts ==
    ASSUME RaftTypes, NEW i \in Node
    PROVE  /\ log[i] \in Seq(LogEntry) /\ Len(log[i]) \in Nat
           /\ DOMAIN log[i] = 1..Len(log[i]) /\ term[i] \in Nat
           /\ commit[i] \in Nat
           /\ \A n \in 1..Len(log[i]) : /\ log[i][n] \in LogEntry
                                        /\ log[i][n].term \in Nat
<1>1. log[i] \in Seq(LogEntry) /\ term[i] \in Nat /\ commit[i] \in Nat
  BY DEF RaftTypes
<1>2. \A n \in 1..Len(log[i]) : log[i][n] \in LogEntry
  BY <1>1
<1> QED
  BY <1>1, <1>2 DEF LogEntry

\* The last entry has the greatest term.
LEMMA LastTermIs ==
    ASSUME RaftTypes, TermsUp, NEW i \in Node
    PROVE  /\ LastTerm(log[i]) \in Nat
           /\ log[i] = <<>> => LastTerm(log[i]) = 0
           /\ \A n \in 1..Len(log[i]) :
                /\ Holds(log[i], Len(log[i]), LastTerm(log[i]))
                /\ log[i][n].term <= LastTerm(log[i])
<1>1. /\ log[i] \in Seq(LogEntry) /\ Len(log[i]) \in Nat
      /\ DOMAIN log[i] = 1..Len(log[i])
      /\ \A n \in 1..Len(log[i]) : log[i][n].term \in Nat
  BY EntryFacts
<1>2. CASE log[i] = <<>>
  BY <1>2 DEF LastTerm
<1>3. CASE log[i] # <<>>
  <2>1. Len(log[i]) \in 1..Len(log[i])
    BY <1>1, <1>3
  <2>2. LastTerm(log[i]) = log[i][Len(log[i])].term
    BY <1>3 DEF LastTerm
  <2>3. \A n \in 1..Len(log[i]) : log[i][n].term <= log[i][Len(log[i])].term
    BY <1>1, <2>1 DEF TermsUp
  <2> QED
    BY <1>1, <1>3, <2>1, <2>2, <2>3 DEF Holds, Has
<1> QED
  BY <1>2, <1>3

\* Two entries of one term, once more.
LEMMA AgreeAt ==
    ASSUME RaftTypes, LogsAgree, NEW i \in Node, NEW j \in Node,
           NEW n \in Nat, NEW m \in Nat, NEW t,
           Holds(log[i], n, t), Holds(log[j], m, t), m <= n
    PROVE  SameUpTo(log[i], log[j], m) /\ Holds(log[i], m, t)
<1>1. /\ DOMAIN log[i] = 1..Len(log[i]) /\ DOMAIN log[j] = 1..Len(log[j])
      /\ Len(log[i]) \in Nat /\ Len(log[j]) \in Nat
  BY EntryFacts
<1>2. /\ n \in 1..Len(log[i]) /\ m \in 1..Len(log[j]) /\ m \in 1..Len(log[i])
      /\ log[i][n].term = t /\ log[j][m].term = t
  BY <1>1 DEF Holds, Has
<1>3. SameUpTo(log[i], log[j], m)
  BY <1>1, <1>2 DEF LogsAgree
<1>4. log[i][m] = log[j][m]
  BY <1>2, <1>3 DEF SameUpTo
<1> QED
  BY <1>2, <1>3, <1>4 DEF Holds, Has

-----------------------------------------------------------------------------
(* Steps that leave the logs alone *)

\* Terms only grow, and who leads has led before in the same term.
CalmStep ==
    /\ log' = log /\ commit' = commit
    /\ \A i \in Node : /\ term'[i] \in Nat /\ term'[i] >= term[i]
                       /\ leading'[i] => leading[i] /\ term'[i] = term[i]

\* A term that was reached stays reached.
LEMMA ReachedStays ==
    ASSUME NEW t \in Nat, Reached(t), RaftTypes,
           \A i \in Node : term'[i] \in Nat /\ term'[i] >= term[i]
    PROVE  Reached(t)'
<1>1. PICK Q \in SUBSET Node : IsMajority(Q) /\ \A q \in Q : term[q] >= t
  BY DEF Reached
<1>2. \A q \in Q : term'[q] >= t
  BY <1>1 DEF RaftTypes
<1>3. IsMajority(Q)'
  BY <1>1 DEF IsMajority
<1> QED
  BY <1>2, <1>3 DEF Reached

\* Such a step keeps the invariant.
LEMMA CalmKeeps ==
    ASSUME ClusterInv, RaftTypes', CalmStep
    PROVE  ClusterInv'
<1>1. RaftTypes /\ TermsUp /\ LogsAgree /\ EntriesReached /\ LeaderLog
        /\ CommitsProtected
  BY DEF ClusterInv
<1>2. LogsAgree' /\ CommitsProtected'
  BY <1>1 DEF CalmStep, LogsAgree, CommitsProtected, Protected, Holds,
              IsMajority, SameUpTo
<1>3. TermsUp'
  <2>1. ASSUME NEW i \in Node, NEW n \in DOMAIN log[i]
        PROVE  /\ log[i][n].term <= term'[i]
               /\ \A m \in 1..n : log[i][m].term <= log[i][n].term
    <3>1. /\ log[i][n].term <= term[i] /\ log[i][n].term \in Nat
          /\ term[i] \in Nat
          /\ \A m \in 1..n : log[i][m].term <= log[i][n].term
      BY <1>1, <2>1, EntryFacts DEF TermsUp
    <3> QED
      BY <3>1 DEF CalmStep
  <2> QED
    BY <2>1 DEF CalmStep, TermsUp
<1>4. EntriesReached'
  <2>1. ASSUME NEW i \in Node, NEW n \in DOMAIN log[i]
        PROVE  Reached(log[i][n].term)'
    <3>1. log[i][n].term \in Nat /\ Reached(log[i][n].term)
      BY <1>1, <2>1, EntryFacts DEF EntriesReached
    <3>2. PICK t \in Nat : t = log[i][n].term
      BY <3>1
    <3>3. Reached(t)'
      BY <1>1, <3>1, <3>2, ReachedStays DEF CalmStep
    <3>4. t = log'[i][n].term
      BY <3>2 DEF CalmStep
    <3> QED
      BY <3>3, <3>4 DEF Reached
  <2> QED
    BY <2>1 DEF CalmStep, EntriesReached
<1>5. LeaderLog'
  <2>1. ASSUME NEW i \in Node, leading'[i]
        PROVE  /\ leading[i] /\ term'[i] = term[i]
               /\ \A j \in Node : leading'[j] /\ term'[j] = term'[i] => j = i
    BY <1>1, <2>1 DEF CalmStep, LeaderLog
  <2> QED
    BY <1>1, <2>1 DEF CalmStep, LeaderLog, Holds
<1> QED
  BY <1>2, <1>3, <1>4, <1>5 DEF ClusterInv

-----------------------------------------------------------------------------
(* Steps that append an entry *)

\* Node i appends e; terms only grow.
AppendStep(i, e) ==
    /\ i \in Node /\ e \in LogEntry
    /\ log' = [log EXCEPT ![i] = Append(@, e)]
    /\ commit' = commit
    /\ \A j \in Node : term'[j] \in Nat /\ term'[j] >= term[j]
    /\ e.term >= term[i] /\ term'[i] = e.term

\* The entries of the new one's term, if any, are in i's log, at its end.
EndsTerm(i, t) ==
    \A j \in Node : \A m \in DOMAIN log[j] :
        log[j][m].term = t => /\ m <= Len(log[i])
                              /\ Holds(log[i], Len(log[i]), t)

\* What the logs are after an append.
LEMMA AppendLogs ==
    ASSUME RaftTypes, NEW i, NEW e, AppendStep(i, e), NEW j \in Node
    PROVE  /\ log'[j] \in Seq(LogEntry) /\ Len(log'[j]) \in Nat
           /\ DOMAIN log'[j] = 1..Len(log'[j])
           /\ \A k \in 1..Len(log[j]) : log'[j][k] = log[j][k]
           /\ j # i => log'[j] = log[j]
           /\ j = i => /\ Len(log'[j]) = Len(log[j]) + 1
                       /\ log'[j][Len(log[j]) + 1] = e
<1>1. /\ log \in [Node -> Seq(LogEntry)] /\ log[j] \in Seq(LogEntry)
      /\ e \in LogEntry /\ i \in Node
  BY DEF RaftTypes, AppendStep
<1>2. CASE j # i
  <2>1. log'[j] = log[j]
    BY <1>1, <1>2 DEF AppendStep
  <2> QED
    BY <1>1, <1>2, <2>1
<1>3. CASE j = i
  <2>1. log'[j] = Append(log[j], e)
    BY <1>1, <1>3 DEF AppendStep
  <2> QED
    BY <1>1, <1>3, <2>1
<1> QED
  BY <1>2, <1>3

\* What a log holds it holds after an append.
LEMMA AppendHolds ==
    ASSUME RaftTypes, NEW i, NEW e, AppendStep(i, e), NEW j \in Node,
           NEW n \in Nat, NEW t, Holds(log[j], n, t)
    PROVE  Holds(log'[j], n, t)
<1>1. n \in 1..Len(log[j]) /\ Len(log[j]) \in Nat /\ log[j][n].term = t
  BY EntryFacts DEF Holds, Has
<1>2. /\ Len(log'[j]) \in Nat
      /\ \A k \in 1..Len(log[j]) : log'[j][k] = log[j][k]
      /\ Len(log'[j]) >= Len(log[j])
  BY <1>1, AppendLogs
<1> QED
  BY <1>1, <1>2 DEF Holds, Has

\* An entry after an append is an old one or the new one.
LEMMA AppendEntry ==
    ASSUME RaftTypes, NEW i, NEW e, AppendStep(i, e), NEW j \in Node,
           NEW n \in DOMAIN log'[j]
    PROVE  \/ n \in 1..Len(log[j]) /\ log'[j][n] = log[j][n]
           \/ j = i /\ n = Len(log[i]) + 1 /\ log'[j][n] = e
<1>1. /\ Len(log[j]) \in Nat /\ Len(log'[j]) \in Nat
      /\ n \in 1..Len(log'[j])
      /\ \A k \in 1..Len(log[j]) : log'[j][k] = log[j][k]
      /\ j # i => log'[j] = log[j]
      /\ j = i => /\ Len(log'[j]) = Len(log[j]) + 1
                  /\ log'[j][Len(log[j]) + 1] = e
  BY EntryFacts, AppendLogs
<1> QED
  BY <1>1

\* An append keeps terms in order.
LEMMA AppendTermsUp ==
    ASSUME RaftTypes, TermsUp, NEW i, NEW e, AppendStep(i, e)
    PROVE  TermsUp'
<1> SUFFICES ASSUME NEW j \in Node, NEW n \in DOMAIN log'[j]
             PROVE  /\ log'[j][n].term <= term'[j]
                    /\ \A m \in 1..n : log'[j][m].term <= log'[j][n].term
  BY DEF TermsUp
<1>1. /\ Len(log[j]) \in Nat /\ DOMAIN log[j] = 1..Len(log[j])
      /\ term[j] \in Nat /\ term'[j] \in Nat /\ term'[j] >= term[j]
      /\ \A k \in 1..Len(log[j]) : log[j][k].term \in Nat
      /\ \A k \in 1..Len(log[j]) : log'[j][k] = log[j][k]
      /\ \A k \in 1..Len(log[j]) : log[j][k].term <= term[j]
  BY EntryFacts, AppendLogs DEF AppendStep, TermsUp
<1>2. CASE n \in 1..Len(log[j]) /\ log'[j][n] = log[j][n]
  <2>1. \A m \in 1..n : m \in 1..Len(log[j]) /\ log[j][m].term <= log[j][n].term
    BY <1>1, <1>2 DEF TermsUp
  <2> QED
    BY <1>1, <1>2, <2>1
<1>3. CASE j = i /\ n = Len(log[i]) + 1 /\ log'[j][n] = e
  <2>1. e.term \in Nat /\ e.term >= term[j] /\ term'[j] = e.term
    BY <1>3 DEF AppendStep, LogEntry
  <2>2. ASSUME NEW m \in 1..n
        PROVE  log'[j][m].term <= e.term
    <3>1. CASE m = n
      BY <1>3, <2>1, <3>1
    <3>2. CASE m # n
      <4>1. m \in 1..Len(log[j])
        BY <1>1, <1>3, <3>2
      <4> QED
        BY <1>1, <2>1, <4>1
    <3> QED
      BY <3>1, <3>2
  <2> QED
    BY <1>3, <2>1, <2>2
<1> QED
  BY <1>2, <1>3, AppendEntry

\* An append keeps the logs in agreement: all entries of the new one's term
\* are in the log it is appended to.
LEMMA AppendAgrees ==
    ASSUME RaftTypes, LogsAgree, NEW i, NEW e, AppendStep(i, e),
           EndsTerm(i, e.term)
    PROVE  LogsAgree'
<1> SUFFICES ASSUME NEW g \in Node, NEW j \in Node, NEW n \in DOMAIN log'[g],
                    NEW m \in DOMAIN log'[j], m <= n,
                    log'[g][n].term = log'[j][m].term
             PROVE  SameUpTo(log'[g], log'[j], m)
  BY DEF LogsAgree, SameUpTo
<1> DEFINE Old(h, k) == k \in 1..Len(log[h]) /\ log'[h][k] = log[h][k]
           New(h, k) == h = i /\ k = Len(log[i]) + 1 /\ log'[h][k] = e
<1>1. i \in Node /\ (Old(g, n) \/ New(g, n)) /\ (Old(j, m) \/ New(j, m))
  <2>1. i \in Node
    BY DEF AppendStep
  <2>2. Old(g, n) \/ New(g, n)
    BY AppendEntry
  <2>3. Old(j, m) \/ New(j, m)
    BY AppendEntry
  <2> QED
    BY <2>1, <2>2, <2>3
<1>2. /\ Len(log[g]) \in Nat /\ Len(log[j]) \in Nat /\ Len(log[i]) \in Nat
      /\ DOMAIN log[g] = 1..Len(log[g]) /\ DOMAIN log[j] = 1..Len(log[j])
      /\ \A k \in 1..Len(log[g]) : log'[g][k] = log[g][k]
      /\ \A k \in 1..Len(log[j]) : log'[j][k] = log[j][k]
  BY <1>1, EntryFacts, AppendLogs
<1>3. ASSUME SameUpTo(log[g], log[j], m), m \in 1..Len(log[g]),
             m \in 1..Len(log[j])
      PROVE  SameUpTo(log'[g], log'[j], m)
  <2>1. \A k \in 1..m : k \in 1..Len(log[g]) /\ k \in 1..Len(log[j])
    BY <1>2, <1>3
  <2> QED
    BY <1>2, <1>3, <2>1 DEF SameUpTo
<1>4. CASE Old(g, n) /\ Old(j, m)
  <2>1. SameUpTo(log[g], log[j], m) /\ m \in 1..Len(log[g])
    BY <1>2, <1>4 DEF LogsAgree
  <2> QED
    BY <1>3, <1>4, <2>1
<1>5. CASE New(g, n) /\ Old(j, m)
  <2>1. log[j][m].term = e.term /\ m \in DOMAIN log[j]
    BY <1>2, <1>5
  <2>2. m <= Len(log[g]) /\ Holds(log[g], Len(log[g]), e.term)
    BY <1>5, <2>1 DEF EndsTerm
  <2>3. m \in Nat /\ Holds(log[j], m, e.term)
    BY <1>2, <2>1 DEF Holds, Has
  <2>4. SameUpTo(log[g], log[j], m)
    BY <1>2, <2>2, <2>3, AgreeAt
  <2>5. m \in 1..Len(log[g])
    BY <1>2, <1>5, <2>2
  <2> QED
    BY <1>3, <1>5, <2>4, <2>5
<1>6. CASE Old(g, n) /\ New(j, m)
  <2>1. log[g][n].term = e.term /\ n \in DOMAIN log[g]
    BY <1>2, <1>6
  <2>2. n <= Len(log[i])
    BY <2>1 DEF EndsTerm
  <2> QED
    BY <1>2, <1>6, <2>2
<1>7. CASE New(g, n) /\ New(j, m)
  BY <1>7 DEF SameUpTo
<1> QED
  BY <1>1, <1>4, <1>5, <1>6, <1>7

\* An append to a log that holds the protected entry, if the new one is of a
\* later term, protects it still.
LEMMA AppendProtects ==
    ASSUME RaftTypes, NEW i, NEW e, AppendStep(i, e),
           NEW n \in Nat, NEW t \in Nat, NEW Q \in SUBSET Node,
           Protected(n, t, Q), e.term > t => Holds(log[i], n, t)
    PROVE  Protected(n, t, Q)'
<1>1. IsMajority(Q)' /\ i \in Node
  BY DEF Protected, IsMajority, AppendStep
<1>2. \A q \in Q : Holds(log'[q], n, t)
  BY AppendHolds DEF Protected
<1>3. ASSUME NEW j \in Node, NEW k \in DOMAIN log'[j], log'[j][k].term > t
      PROVE  Holds(log'[j], n, t)
  <2>1. Holds(log[j], n, t)
    <3>1. CASE k \in 1..Len(log[j]) /\ log'[j][k] = log[j][k]
      <4>1. k \in DOMAIN log[j]
        BY <3>1, EntryFacts
      <4> QED
        BY <1>3, <3>1, <4>1 DEF Protected
    <3>2. CASE j = i /\ k = Len(log[i]) + 1 /\ log'[j][k] = e
      BY <1>3, <3>2
    <3> QED
      BY <1>3, <3>1, <3>2, AppendEntry
  <2> QED
    BY <2>1, AppendHolds
<1>4. (\A q \in Q : Holds(log[q], n, t))'
  BY <1>2 DEF Holds
<1>5. (\A j \in Node : \A k \in DOMAIN log[j] :
           log[j][k].term > t => Holds(log[j], n, t))'
  BY <1>3 DEF Holds
<1> QED
  BY <1>1, <1>4, <1>5 DEF Protected

\* An append to a log that holds what is protected before the new entry's
\* term keeps all but the leaders' part of the invariant.
LEMMA AppendKeeps ==
    ASSUME ClusterInv, RaftTypes', NEW i, NEW e, AppendStep(i, e),
           EndsTerm(i, e.term), Reached(e.term)',
           \A n \in Nat, t \in Nat, Q \in SUBSET Node :
               Protected(n, t, Q) /\ e.term > t => Holds(log[i], n, t)
    PROVE  TermsUp' /\ LogsAgree' /\ EntriesReached' /\ CommitsProtected'
<1>1. RaftTypes /\ TermsUp /\ LogsAgree /\ EntriesReached /\ CommitsProtected
  BY DEF ClusterInv
<1>2. TermsUp' /\ LogsAgree'
  BY <1>1, AppendTermsUp, AppendAgrees
<1>3. EntriesReached'
  <2> SUFFICES ASSUME NEW j \in Node, NEW n \in DOMAIN log'[j]
               PROVE  Reached(log[j][n].term)'
    BY DEF EntriesReached
  <2>1. CASE n \in 1..Len(log[j]) /\ log'[j][n] = log[j][n]
    <3>1. log[j][n].term \in Nat /\ Reached(log[j][n].term)
      BY <1>1, <2>1, EntryFacts DEF EntriesReached
    <3>2. PICK t \in Nat : t = log[j][n].term
      BY <3>1
    <3>3. Reached(t)'
      BY <1>1, <3>1, <3>2, ReachedStays DEF AppendStep
    <3> QED
      BY <2>1, <3>2, <3>3 DEF Reached
  <2>2. CASE log'[j][n] = e
    BY <2>2 DEF Reached
  <2> QED
    BY <1>1, <2>1, <2>2, AppendEntry
<1>4. CommitsProtected'
  <2> SUFFICES ASSUME NEW j \in Node
               PROVE  /\ commit[j] <= Len(log'[j])
                      /\ commit[j] # 0 =>
                           \E Q \in SUBSET Node :
                               Protected(commit[j], log[j][commit[j]].term, Q)'
    BY DEF CommitsProtected, AppendStep
  <2>1. /\ commit[j] \in Nat /\ Len(log[j]) \in Nat /\ Len(log'[j]) \in Nat
        /\ commit[j] <= Len(log[j]) /\ Len(log'[j]) >= Len(log[j])
    BY <1>1, EntryFacts, AppendLogs DEF CommitsProtected
  <2>2. ASSUME commit[j] # 0
        PROVE  \E Q \in SUBSET Node :
                   Protected(commit[j], log[j][commit[j]].term, Q)'
    <3> DEFINE c == commit[j]
    <3>1. c \in 1..Len(log[j])
      BY <2>1, <2>2
    <3>2. log[j][c].term \in Nat /\ log'[j][c] = log[j][c] /\ commit'[j] = c
      BY <1>1, <3>1, EntryFacts, AppendLogs DEF AppendStep
    <3>3. PICK Q \in SUBSET Node : Protected(c, log[j][c].term, Q)
      BY <1>1, <2>2 DEF CommitsProtected
    <3>4. PICK n \in Nat, t \in Nat : n = c /\ t = log[j][c].term
      BY <2>1, <3>2
    <3>5. Protected(n, t, Q)'
      BY <1>1, <3>3, <3>4, AppendProtects
    <3> QED
      BY <3>2, <3>4, <3>5 DEF Protected
  <2> QED
    BY <2>1, <2>2
<1> QED
  BY <1>2, <1>3, <1>4

-----------------------------------------------------------------------------
(* Elections *)

\* A non-empty finite set of naturals has a largest element, which Max
\* returns: of the sets of elements above one of them, one is minimal.
LEMMA MaxOfFinite ==
    ASSUME NEW S, S \subseteq Nat, IsFiniteSet(S), S # {}
    PROVE  Max(S) \in S /\ \A y \in S : Max(S) >= y
<1> DEFINE Above(x) == {k \in S : k > x}
           T == {Above(x) : x \in S}
<1>1. T \subseteq FiniteSubsetsOf(Nat) /\ T # {}
  <2>1. ASSUME NEW x \in S
        PROVE  Above(x) \in FiniteSubsetsOf(Nat)
    <3>1. Above(x) \subseteq S /\ Above(x) \subseteq Nat
      OBVIOUS
    <3>2. IsFiniteSet(Above(x))
      BY <3>1, FS_Subset
    <3> QED
      BY <3>1, <3>2 DEF FiniteSubsetsOf
  <2> QED
    BY <2>1
<1>2. PICK u \in T : \A v \in T : ~(<<v, u>> \in StrictSubsetOrdering(Nat))
  BY <1>1, FS_StrictSubsetOrderingWellFounded, WFMin, Zenon
<1>3. PICK x \in S : u = Above(x)
  OBVIOUS
<1>4. ASSUME NEW y \in S, ~(x >= y)
      PROVE  FALSE
  <2>1. Above(y) \subseteq Above(x) /\ Above(y) # Above(x)
    <3>1. x \in Nat /\ y \in Nat /\ y > x
      BY <1>4
    <3>2. y \in Above(x) /\ y \notin Above(y)
      BY <3>1, <1>4
    <3>3. ASSUME NEW k \in Above(y)
          PROVE  k \in Above(x)
      <4>1. k \in S /\ k \in Nat /\ k > y
        OBVIOUS
      <4> QED
        BY <3>1, <4>1
    <3> QED
      BY <3>2, <3>3
  <2>2. <<Above(y), Above(x)>> \in StrictSubsetOrdering(Nat)
    BY <2>1, <1>4 DEF StrictSubsetOrdering
  <2> QED
    BY <2>2, <1>2, <1>3, <1>4
<1>5. \A y \in S : x >= y
  BY <1>4
<1> QED
  BY <1>5 DEF Max

\* The larger of two naturals.
LEMMA MaxOfTwo ==
    ASSUME NEW a \in Nat, NEW b \in Nat
    PROVE  /\ Max({a, b}) \in Nat /\ Max({a, b}) \in {a, b}
           /\ Max({a, b}) >= a /\ Max({a, b}) >= b
<1>1. a \in Int /\ b \in Int
  OBVIOUS
<1>2. /\ Max({a, b}) \in {a, b}
      /\ Max({a, b}) >= a /\ Max({a, b}) >= b
  BY <1>1, MinMaxPair, Zenon
<1> QED
  BY <1>2

\* Node i is elected by Q in term t.
Elected(i, Q, t) ==
    /\ i \in Q /\ Q \subseteq Node /\ t \in Nat /\ IsMajority(Q)
    /\ \A q \in Q : term[q] < t /\ AtLeast(i, q)
    /\ AppendStep(i, [term |-> t, cmd |-> Noop])
    /\ \A j \in Node :
         /\ term'[j] = IF j \in Q THEN t ELSE term[j]
         /\ leading'[j] <=> j = i \/ (j \notin Q /\ leading[j])

\* That is what Elect does, for a term that is new to all of Q.
LEMMA ElectIs ==
    ASSUME RaftTypes, NEW i \in Node, NEW Q \in SUBSET Node, Elect(i, Q)
    PROVE  \E t \in Nat : Elected(i, Q, t)
<1> DEFINE S == {term[j] : j \in Q}
           t == Max(S) + 1
<1>1. S \subseteq Nat /\ S # {} /\ IsFiniteSet(S)
  <2>1. IsFiniteSet(Q) /\ i \in Q
    BY BrokerAssumption, FS_Subset DEF Elect
  <2>2. S \subseteq Nat /\ S # {}
    BY <2>1 DEF RaftTypes
  <2>3. [j \in Q |-> term[j]] \in Surjection(Q, S)
    BY DEF Surjection
  <2> QED
    BY <2>1, <2>2, <2>3, FS_Surjection
<1>2. Max(S) \in Nat /\ \A q \in Q : Max(S) >= term[q]
  BY <1>1, MaxOfFinite
<1>3. t \in Nat /\ \A q \in Q : term[q] \in Nat /\ term[q] < t
  <2> HIDE DEF S
  <2>1. \A q \in Q : term[q] \in Nat
    BY DEF RaftTypes
  <2> QED
    BY <1>2, <2>1
<1>4. /\ term' = [j \in Node |-> IF j \in Q THEN t ELSE term[j]]
      /\ log' = [log EXCEPT ![i] = Append(@, [term |-> t, cmd |-> Noop])]
      /\ leading' = [j \in Node |-> j = i \/ (j \notin Q /\ leading[j])]
      /\ commit' = commit
      /\ i \in Q /\ IsMajority(Q) /\ \A q \in Q : AtLeast(i, q)
  BY DEF Elect
<1> HIDE DEF t
<1>5. [term |-> t, cmd |-> Noop] \in LogEntry
  BY <1>3 DEF LogEntry, Cmd
<1>6. AppendStep(i, [term |-> t, cmd |-> Noop])
  <2>1. \A j \in Node : term'[j] \in Nat /\ term'[j] >= term[j]
    BY <1>3, <1>4 DEF RaftTypes
  <2>2. term'[i] = t /\ t >= term[i]
    BY <1>3, <1>4
  <2> QED
    BY <1>4, <1>5, <2>1, <2>2 DEF AppendStep
<1> QED
  BY <1>3, <1>4, <1>6 DEF Elected

\* No log has an entry of a term that is new to a majority.
LEMMA NewTerm ==
    ASSUME RaftTypes, EntriesReached, NEW Q \in SUBSET Node, IsMajority(Q),
           NEW t \in Nat, \A q \in Q : term[q] < t,
           NEW j \in Node, NEW n \in DOMAIN log[j]
    PROVE  log[j][n].term \in Nat /\ log[j][n].term < t
<1>1. log[j][n].term \in Nat /\ Reached(log[j][n].term)
  BY EntryFacts DEF EntriesReached
<1>2. PICK R \in SUBSET Node :
          IsMajority(R) /\ \A r \in R : term[r] >= log[j][n].term
  BY <1>1 DEF Reached
<1>3. PICK q \in Node : q \in Q /\ q \in R
  BY <1>2, MajoritiesMeet
<1> QED
  BY <1>1, <1>2, <1>3 DEF RaftTypes

\* Who wins a majority's votes holds whatever is protected.
LEMMA WinnerHolds ==
    ASSUME RaftTypes, TermsUp, LogsAgree, NEW i \in Node,
           NEW Q \in SUBSET Node, IsMajority(Q), \A q \in Q : AtLeast(i, q),
           NEW n \in Nat, NEW s \in Nat, NEW R \in SUBSET Node,
           Protected(n, s, R)
    PROVE  Holds(log[i], n, s)
<1>1. PICK q \in Node : q \in Q /\ q \in R
  BY MajoritiesMeet DEF Protected
<1>2. Holds(log[q], n, s) /\ AtLeast(i, q)
  BY <1>1 DEF Protected
<1>3. /\ Len(log[i]) \in Nat /\ Len(log[q]) \in Nat
      /\ DOMAIN log[i] = 1..Len(log[i])
      /\ log[i] \in Seq(LogEntry)
  BY EntryFacts
<1>4. n \in 1..Len(log[q]) /\ log[q][n].term = s
  BY <1>2, <1>3 DEF Holds, Has
<1>5. LastTerm(log[q]) \in Nat /\ LastTerm(log[q]) >= s
  BY <1>4, LastTermIs
<1>6. LastTerm(log[i]) \in Nat /\ (log[i] = <<>> => LastTerm(log[i]) = 0)
  BY LastTermIs
<1>7. CASE LastTerm(log[i]) > s
  <2>1. Len(log[i]) \in 1..Len(log[i])
    BY <1>3, <1>6, <1>7
  <2>2. Holds(log[i], Len(log[i]), LastTerm(log[i]))
    BY <2>1, LastTermIs
  <2> QED
    BY <1>3, <1>7, <2>1, <2>2 DEF Protected, Holds
<1>8. CASE ~(LastTerm(log[i]) > s)
  <2>1. LastTerm(log[i]) = s /\ Len(log[i]) >= Len(log[q])
    BY <1>2, <1>3, <1>5, <1>6, <1>8 DEF AtLeast, LastIndex
  <2>2. Len(log[i]) \in 1..Len(log[i]) /\ n <= Len(log[i])
    BY <1>3, <1>4, <2>1
  <2>3. Holds(log[i], Len(log[i]), s)
    BY <2>1, <2>2, LastTermIs
  <2> QED
    BY <1>2, <1>3, <2>2, <2>3, AgreeAt
<1> QED
  BY <1>7, <1>8

\* An election keeps the invariant.
LEMMA ElectKeeps ==
    ASSUME ClusterInv, RaftTypes', NEW i \in Node, NEW Q \in SUBSET Node,
           Elect(i, Q)
    PROVE  ClusterInv'
<1>1. RaftTypes /\ TermsUp /\ LogsAgree /\ EntriesReached /\ LeaderLog
  BY DEF ClusterInv
<1>2. PICK t \in Nat : Elected(i, Q, t)
  BY <1>1, ElectIs
<1> DEFINE e == [term |-> t, cmd |-> Noop]
<1>3. /\ AppendStep(i, e) /\ e.term = t /\ IsMajority(Q) /\ i \in Q
      /\ \A q \in Q : term[q] < t /\ AtLeast(i, q)
  BY <1>2 DEF Elected
<1>4. \A j \in Node : /\ term'[j] = IF j \in Q THEN t ELSE term[j]
                      /\ leading'[j] <=> j = i \/ (j \notin Q /\ leading[j])
  BY <1>2 DEF Elected
<1> HIDE DEF e
<1>5. \A j \in Node : \A n \in DOMAIN log[j] :
          log[j][n].term \in Nat /\ log[j][n].term < t
  BY <1>1, <1>3, NewTerm
<1>6. EndsTerm(i, e.term)
  BY <1>3, <1>5 DEF EndsTerm
<1>7. Reached(t)'
  <2>1. IsMajority(Q)' /\ \A q \in Q : term'[q] >= t
    BY <1>3, <1>4 DEF IsMajority
  <2> QED
    BY <2>1 DEF Reached
<1>8. \A n \in Nat, s \in Nat, R \in SUBSET Node :
          Protected(n, s, R) => Holds(log[i], n, s)
  BY <1>1, <1>3, WinnerHolds
<1>9. TermsUp' /\ LogsAgree' /\ EntriesReached' /\ CommitsProtected'
  <2>1. Reached(e.term)'
    BY <1>3, <1>7 DEF Reached, AppendStep
  <2> QED
    BY <1>3, <1>6, <1>8, <2>1, AppendKeeps
<1>10. LeaderLog'
  <2> SUFFICES ASSUME NEW a \in Node, leading'[a]
               PROVE  /\ Holds(log'[a], Len(log'[a]), term'[a])
                      /\ \A j \in Node :
                           /\ \A n \in DOMAIN log'[j] :
                                log'[j][n].term = term'[a] => n <= Len(log'[a])
                           /\ leading'[j] /\ term'[j] = term'[a] => j = a
    BY DEF LeaderLog, Holds
  <2>1. ASSUME NEW j \in Node, leading[j]
        PROVE  /\ term[j] \in Nat /\ term[j] < t
               /\ Holds(log[j], Len(log[j]), term[j])
    <3>1. Holds(log[j], Len(log[j]), term[j]) /\ Len(log[j]) \in DOMAIN log[j]
      BY <1>1, <2>1, EntryFacts DEF LeaderLog, Holds, Has
    <3> QED
      BY <1>5, <3>1 DEF Holds
  <2>2. /\ Len(log[i]) \in Nat /\ Len(log'[i]) = Len(log[i]) + 1
        /\ log'[i][Len(log[i]) + 1] = e
    BY <1>1, <1>3, EntryFacts, AppendLogs
  <2>3. CASE a = i
    <3>1. term'[a] = t /\ Holds(log'[a], Len(log'[a]), t)
      BY <1>3, <1>4, <2>2, <2>3 DEF Holds, Has
    <3>2. ASSUME NEW j \in Node, NEW n \in DOMAIN log'[j], log'[j][n].term = t
          PROVE  n <= Len(log'[a])
      <4>1. ~(n \in 1..Len(log[j]) /\ log'[j][n] = log[j][n])
        BY <1>1, <1>5, <3>2, EntryFacts
      <4>2. j = i /\ n = Len(log[i]) + 1
        BY <1>1, <1>3, <4>1, AppendEntry
      <4> QED
        BY <2>2, <2>3, <4>2
    <3>3. ASSUME NEW j \in Node, leading'[j], term'[j] = t
          PROVE  j = a
      BY <1>4, <2>1, <2>3, <3>3
    <3> QED
      BY <3>1, <3>2, <3>3
  <2>4. CASE a # i
    <3>1. /\ leading[a] /\ term'[a] = term[a] /\ log'[a] = log[a]
          /\ term[a] \in Nat /\ term[a] < t
      BY <1>1, <1>3, <1>4, <2>1, <2>4, AppendLogs
    <3>2. ASSUME NEW j \in Node, NEW n \in DOMAIN log'[j],
                 log'[j][n].term = term[a]
          PROVE  n <= Len(log[a])
      <4>1. log'[j][n] # e
        BY <1>3, <3>1, <3>2
      <4>2. n \in 1..Len(log[j]) /\ log'[j][n] = log[j][n]
        BY <1>1, <1>3, <4>1, AppendEntry
      <4>3. n \in DOMAIN log[j] /\ log[j][n].term = term[a]
        BY <1>1, <3>2, <4>2, EntryFacts
      <4> QED
        BY <1>1, <3>1, <4>3 DEF LeaderLog
    <3>3. ASSUME NEW j \in Node, leading'[j], term'[j] = term[a]
          PROVE  j = a
      <4>1. j # i /\ leading[j] /\ term[j] = term[a]
        BY <1>3, <1>4, <3>1, <3>3
      <4> QED
        BY <1>1, <3>1, <4>1 DEF LeaderLog
    <3> QED
      BY <2>1, <3>1, <3>2, <3>3
  <2> QED
    BY <2>3, <2>4
<1> QED
  BY <1>9, <1>10 DEF ClusterInv

-----------------------------------------------------------------------------
(* Proposals, replication and commitment *)

\* A leader that is not behind a node holds what is protected and that node
\* holds.
LEMMA LeaderHolds ==
    ASSUME ClusterInv, NEW i \in Node, leading[i],
           NEW n \in Nat, NEW s \in Nat, NEW Q \in SUBSET Node,
           Protected(n, s, Q), NEW j \in Node,
           (Holds(log[j], n, s) /\ term[j] <= term[i]) \/ s < term[i]
    PROVE  Holds(log[i], n, s)
<1>1. RaftTypes /\ TermsUp /\ LogsAgree /\ LeaderLog
  BY DEF ClusterInv
<1>2. /\ Len(log[i]) \in Nat /\ DOMAIN log[i] = 1..Len(log[i])
      /\ DOMAIN log[j] = 1..Len(log[j]) /\ Len(log[j]) \in Nat
      /\ term[i] \in Nat /\ term[j] \in Nat
  BY <1>1, EntryFacts
<1>3. /\ Holds(log[i], Len(log[i]), term[i])
      /\ \A m \in DOMAIN log[j] : log[j][m].term = term[i] => m <= Len(log[i])
  BY <1>1 DEF LeaderLog
<1>4. Len(log[i]) \in DOMAIN log[i] /\ log[i][Len(log[i])].term = term[i]
  BY <1>2, <1>3 DEF Holds, Has
<1>5. CASE s < term[i]
  BY <1>2, <1>4, <1>5 DEF Protected
<1>6. CASE Holds(log[j], n, s) /\ term[j] <= term[i] /\ ~(s < term[i])
  <2>1. n \in DOMAIN log[j] /\ log[j][n].term = s
    BY <1>2, <1>6 DEF Holds, Has
  <2>2. s <= term[j]
    BY <1>1, <2>1 DEF TermsUp
  <2>3. s = term[i] /\ n <= Len(log[i])
    BY <1>2, <1>3, <1>6, <2>1, <2>2
  <2> QED
    BY <1>1, <1>2, <1>3, <1>6, <2>3, AgreeAt
<1> QED
  BY <1>5, <1>6

\* Start on a leader keeps the invariant.
LEMMA StartKeeps ==
    ASSUME ClusterInv, RaftTypes', NEW i \in Node, NEW cmd \in Cmd,
           StartOn(i, cmd)
    PROVE  ClusterInv'
<1>1. RaftTypes /\ TermsUp /\ LogsAgree /\ EntriesReached /\ LeaderLog
  BY DEF ClusterInv
<1>2. PICK t \in Nat : t = term[i]
  BY <1>1 DEF RaftTypes
<1> DEFINE e == [term |-> t, cmd |-> cmd]
<1>3. /\ leading[i] /\ leading' = leading /\ term' = term /\ commit' = commit
      /\ log' = [log EXCEPT ![i] = Append(@, e)] /\ e.term = t
      /\ e \in LogEntry
  BY <1>2 DEF StartOn, LogEntry
<1> HIDE DEF e
<1>4. AppendStep(i, e)
  <2>1. \A j \in Node : term[j] \in Nat
    BY <1>1 DEF RaftTypes
  <2> QED
    BY <1>2, <1>3, <2>1 DEF AppendStep
<1>5. /\ Holds(log[i], Len(log[i]), t)
      /\ Len(log[i]) \in DOMAIN log[i] /\ log[i][Len(log[i])].term = t
  <2>1. Holds(log[i], Len(log[i]), t)
    BY <1>1, <1>2, <1>3 DEF LeaderLog
  <2> QED
    BY <1>1, <2>1, EntryFacts DEF Holds, Has
<1>6. EndsTerm(i, e.term)
  BY <1>1, <1>2, <1>3, <1>5 DEF EndsTerm, LeaderLog
<1>7. Reached(e.term)'
  <2>1. Reached(t)
    BY <1>1, <1>5 DEF EntriesReached
  <2>2. Reached(t)'
    BY <1>1, <1>4, <2>1, ReachedStays DEF AppendStep
  <2> QED
    BY <1>3, <2>2 DEF Reached
<1>8. \A n \in Nat, s \in Nat, Q \in SUBSET Node :
          Protected(n, s, Q) /\ e.term > s => Holds(log[i], n, s)
  BY <1>2, <1>3, LeaderHolds
<1>9. TermsUp' /\ LogsAgree' /\ EntriesReached' /\ CommitsProtected'
  BY <1>4, <1>6, <1>7, <1>8, AppendKeeps
<1>10. LeaderLog'
  <2> SUFFICES ASSUME NEW a \in Node, leading[a]
               PROVE  /\ Holds(log'[a], Len(log'[a]), term[a])
                      /\ \A j \in Node :
                           /\ \A n \in DOMAIN log'[j] :
                                log'[j][n].term = term[a] => n <= Len(log'[a])
                           /\ leading[j] /\ term[j] = term[a] => j = a
    BY <1>3 DEF LeaderLog, Holds
  <2>1. \A j \in Node : leading[j] /\ term[j] = term[a] => j = a
    BY <1>1 DEF LeaderLog
  <2>2. /\ Len(log[i]) \in Nat /\ Len(log'[i]) = Len(log[i]) + 1
        /\ log'[i][Len(log[i]) + 1] = e
        /\ Len(log[a]) \in Nat /\ Len(log'[a]) \in Nat
        /\ Len(log'[a]) >= Len(log[a])
    BY <1>1, <1>4, EntryFacts, AppendLogs
  <2>3. Holds(log'[a], Len(log'[a]), term[a])
    <3>1. CASE a = i
      BY <1>2, <1>3, <2>2, <3>1 DEF Holds, Has
    <3>2. CASE a # i
      BY <1>1, <1>4, <3>2, AppendLogs DEF LeaderLog
    <3> QED
      BY <3>1, <3>2
  <2>4. ASSUME NEW j \in Node, NEW n \in DOMAIN log'[j],
               log'[j][n].term = term[a]
        PROVE  n <= Len(log'[a])
    <3>1. CASE n \in 1..Len(log[j]) /\ log'[j][n] = log[j][n]
      <4>1. n \in DOMAIN log[j] /\ log[j][n].term = term[a]
        BY <1>1, <2>4, <3>1, EntryFacts
      <4>2. n <= Len(log[a])
        BY <1>1, <4>1 DEF LeaderLog
      <4> QED
        BY <2>2, <3>1, <4>2
    <3>2. CASE j = i /\ n = Len(log[i]) + 1 /\ log'[j][n] = e
      <4>1. i = a
        BY <1>2, <1>3, <2>1, <2>4, <3>2
      <4> QED
        BY <2>2, <3>2, <4>1
    <3> QED
      BY <1>1, <1>4, <3>1, <3>2, AppendEntry
  <2> QED
    BY <2>1, <2>3, <2>4
<1> QED
  BY <1>9, <1>10 DEF ClusterInv

\* What Replicate does: j's term and log become i's.
LEMMA ReplicateIs ==
    ASSUME RaftTypes, NEW i \in Node, NEW j \in Node, Replicate(i, j)
    PROVE  /\ leading[i] /\ term[j] <= term[i] /\ i # j
           /\ term'[j] = term[i] /\ log'[j] = log[i] /\ ~leading'[j]
           /\ commit'[j] \in {commit[j], commit[i]}
           /\ commit'[j] >= commit[j] /\ commit'[j] >= commit[i]
           /\ \A k \in Node \ {j} :
                /\ term'[k] = term[k] /\ log'[k] = log[k]
                /\ leading'[k] = leading[k] /\ commit'[k] = commit[k]
<1>1. /\ term[i] \in Nat /\ term[j] \in Nat /\ commit[i] \in Nat
      /\ commit[j] \in Nat
      /\ term \in [Node -> Nat] /\ leading \in [Node -> BOOLEAN]
      /\ log \in [Node -> Seq(LogEntry)] /\ commit \in [Node -> Nat]
  BY DEF RaftTypes
<1>2. PICK m : m = Max({commit[j], commit[i]})
  OBVIOUS
<1>3. m \in {commit[j], commit[i]} /\ m >= commit[j] /\ m >= commit[i]
  <2>1. commit[j] \in Nat /\ commit[i] \in Nat
    BY <1>1
  <2> QED
    BY <1>2, <2>1, MaxOfTwo, Zenon
<1>4. commit' = [commit EXCEPT ![j] = m]
  BY <1>2 DEF Replicate
<1>5. /\ leading[i] /\ term[i] >= term[j] /\ i # j
      /\ term' = [term EXCEPT ![j] = term[i]]
      /\ leading' = [leading EXCEPT ![j] = FALSE]
      /\ log' = [log EXCEPT ![j] = log[i]]
  BY DEF Replicate
<1>6. /\ term'[j] = term[i] /\ log'[j] = log[i] /\ ~leading'[j]
      /\ commit'[j] = m /\ term[j] <= term[i]
  BY <1>1, <1>4, <1>5
<1>7. \A k \in Node \ {j} :
          /\ term'[k] = term[k] /\ log'[k] = log[k]
          /\ leading'[k] = leading[k] /\ commit'[k] = commit[k]
  BY <1>1, <1>4, <1>5
<1> QED
  BY <1>3, <1>5, <1>6, <1>7

\* Replication protects what was protected.
LEMMA ReplicateProtects ==
    ASSUME ClusterInv, NEW i \in Node, NEW j \in Node, Replicate(i, j),
           NEW n \in Nat, NEW s \in Nat, NEW Q \in SUBSET Node,
           Protected(n, s, Q)
    PROVE  Protected(n, s, Q)'
<1>1. RaftTypes
  BY DEF ClusterInv
<1>2. /\ leading[i] /\ term[j] <= term[i] /\ log'[j] = log[i]
      /\ \A k \in Node \ {j} : log'[k] = log[k]
  BY <1>1, ReplicateIs
<1>3. \A q \in Q : Holds(log'[q], n, s)
  <2>1. ASSUME NEW q \in Q
        PROVE  Holds(log'[q], n, s)
    <3>1. Holds(log[q], n, s) /\ q \in Node
      BY DEF Protected
    <3>2. CASE q = j
      <4>1. Holds(log[i], n, s)
        BY <1>2, <3>1, <3>2, LeaderHolds
      <4> QED
        BY <1>2, <3>2, <4>1
    <3>3. CASE q # j
      BY <1>2, <3>1, <3>3
    <3> QED
      BY <3>2, <3>3
  <2> QED
    BY <2>1
<1>4. \A h \in Node : \A k \in DOMAIN log'[h] :
          log'[h][k].term > s => Holds(log'[h], n, s)
  BY <1>2 DEF Protected
<1>5. IsMajority(Q)'
  BY DEF Protected, IsMajority
<1>6. (\A q \in Q : Holds(log[q], n, s))'
  BY <1>3 DEF Holds
<1>7. (\A h \in Node : \A k \in DOMAIN log[h] :
           log[h][k].term > s => Holds(log[h], n, s))'
  BY <1>4 DEF Holds
<1> QED
  BY <1>5, <1>6, <1>7 DEF Protected

\* The entry a node has committed to.
LEMMA CommitIs ==
    ASSUME ClusterInv, NEW k \in Node, commit[k] # 0
    PROVE  /\ commit[k] \in 1..Len(log[k]) /\ commit[k] \in Nat
           /\ log[k][commit[k]].term \in Nat
           /\ Holds(log[k], commit[k], log[k][commit[k]].term)
           /\ \E Q \in SUBSET Node :
                  Protected(commit[k], log[k][commit[k]].term, Q)
<1>1. RaftTypes /\ CommitsProtected
  BY DEF ClusterInv
<1>2. commit[k] \in Nat /\ Len(log[k]) \in Nat /\ commit[k] <= Len(log[k])
  BY <1>1, EntryFacts DEF CommitsProtected
<1>3. commit[k] \in 1..Len(log[k])
  BY <1>2
<1> QED
  BY <1>1, <1>2, <1>3, EntryFacts DEF CommitsProtected, Holds, Has

\* The same, with names for the index, the term and the majority.
LEMMA CommittedEntry ==
    ASSUME ClusterInv, NEW k \in Node, commit[k] # 0
    PROVE  \E n \in Nat, s \in Nat, Q \in SUBSET Node :
               n = commit[k] /\ Holds(log[k], n, s) /\ Protected(n, s, Q)
<1>1. PICK n \in Nat, s \in Nat : n = commit[k] /\ s = log[k][commit[k]].term
  BY CommitIs
<1>2. Holds(log[k], n, s) /\ \E Q \in SUBSET Node : Protected(n, s, Q)
  BY <1>1, CommitIs
<1> QED
  BY <1>1, <1>2

\* After replication a node's commit index is what it or the leader had, and
\* its log holds the same entry there.
LEMMA ReplicateCommits ==
    ASSUME ClusterInv, NEW i \in Node, NEW j \in Node, Replicate(i, j),
           NEW k \in Node, commit'[k] # 0
    PROVE  \E h \in Node, n \in Nat, s \in Nat, Q \in SUBSET Node :
               /\ n = commit'[k] /\ n = commit[h]
               /\ Holds(log'[k], n, s) /\ Protected(n, s, Q)
<1>1. RaftTypes
  BY DEF ClusterInv
<1>2. /\ leading[i] /\ term[j] <= term[i] /\ log'[j] = log[i]
      /\ commit'[j] \in {commit[j], commit[i]}
      /\ \A h \in Node \ {j} : log'[h] = log[h] /\ commit'[h] = commit[h]
  BY <1>1, ReplicateIs
<1>3. ASSUME NEW h \in Node, commit[h] = commit'[k],
             \A n \in Nat, s \in Nat, Q \in SUBSET Node :
                 Holds(log[h], n, s) /\ Protected(n, s, Q)
                     => Holds(log'[k], n, s)
      PROVE  \E g \in Node, n \in Nat, s \in Nat, Q \in SUBSET Node :
               /\ n = commit'[k] /\ n = commit[g]
               /\ Holds(log'[k], n, s) /\ Protected(n, s, Q)
  <2>1. /\ commit[h] \in Nat /\ log[h][commit[h]].term \in Nat
        /\ Holds(log[h], commit[h], log[h][commit[h]].term)
        /\ \E Q \in SUBSET Node :
               Protected(commit[h], log[h][commit[h]].term, Q)
    BY <1>3, CommitIs
  <2>2. PICK n \in Nat, s \in Nat : n = commit[h] /\ s = log[h][commit[h]].term
    BY <2>1
  <2>3. PICK Q \in SUBSET Node : Protected(n, s, Q)
    BY <2>1, <2>2
  <2>4. Holds(log'[k], n, s)
    BY <1>3, <2>1, <2>2, <2>3
  <2> QED
    BY <1>3, <2>2, <2>3, <2>4
<1>4. CASE k # j
  BY <1>2, <1>3, <1>4
<1>5. CASE k = j /\ commit'[k] = commit[i]
  BY <1>2, <1>3, <1>5
<1>6. CASE k = j /\ commit'[k] = commit[j]
  BY <1>2, <1>3, <1>6, LeaderHolds
<1> QED
  BY <1>2, <1>4, <1>5, <1>6

\* Replication keeps the invariant.
LEMMA ReplicateKeeps ==
    ASSUME ClusterInv, RaftTypes', NEW i \in Node, NEW j \in Node,
           Replicate(i, j)
    PROVE  ClusterInv'
<1>1. RaftTypes /\ TermsUp /\ LogsAgree /\ EntriesReached /\ LeaderLog
  BY DEF ClusterInv
<1> DEFINE src(k) == IF k = j THEN i ELSE k
<1>2. \A k \in Node : /\ src(k) \in Node /\ log'[k] = log[src(k)]
                      /\ term'[k] = term[src(k)]
                      /\ leading'[k] => leading[k] /\ k # j /\ src(k) = k
                      /\ term'[k] \in Nat /\ term'[k] >= term[k]
  <2>1. \A k \in Node : term[k] \in Nat
    BY <1>1 DEF RaftTypes
  <2> QED
    BY <1>1, <2>1, ReplicateIs
<1> HIDE DEF src
<1>3. TermsUp'
  BY <1>1, <1>2 DEF TermsUp
<1>4. LogsAgree'
  <2>1. ASSUME NEW g \in Node, NEW h \in Node, NEW n \in DOMAIN log'[g],
               NEW m \in DOMAIN log'[h], m <= n,
               log'[g][n].term = log'[h][m].term
        PROVE  SameUpTo(log'[g], log'[h], m)
    <3>1. /\ src(g) \in Node /\ src(h) \in Node
          /\ log'[g] = log[src(g)] /\ log'[h] = log[src(h)]
      BY <1>2
    <3> QED
      BY <1>1, <2>1, <3>1 DEF LogsAgree
  <2> QED
    BY <2>1 DEF LogsAgree, SameUpTo
<1>5. EntriesReached'
  <2> SUFFICES ASSUME NEW k \in Node, NEW n \in DOMAIN log'[k]
               PROVE  Reached(log[k][n].term)'
    BY DEF EntriesReached
  <2>1. log'[k] = log[src(k)] /\ src(k) \in Node
    BY <1>2
  <2>2. log[src(k)][n].term \in Nat /\ Reached(log[src(k)][n].term)
    BY <1>1, <2>1, EntryFacts DEF EntriesReached
  <2>3. PICK t \in Nat : t = log[src(k)][n].term
    BY <2>2
  <2>4. Reached(t)'
    BY <1>1, <1>2, <2>2, <2>3, ReachedStays
  <2> QED
    BY <2>1, <2>3, <2>4 DEF Reached
<1>6. LeaderLog'
  <2> SUFFICES ASSUME NEW a \in Node, leading'[a]
               PROVE  /\ Holds(log'[a], Len(log'[a]), term'[a])
                      /\ \A h \in Node :
                           /\ \A n \in DOMAIN log'[h] :
                                log'[h][n].term = term'[a] => n <= Len(log'[a])
                           /\ leading'[h] /\ term'[h] = term'[a] => h = a
    BY DEF LeaderLog, Holds
  <2>1. leading[a] /\ log'[a] = log[a] /\ term'[a] = term[a]
    BY <1>2
  <2>2. ASSUME NEW h \in Node
        PROVE  /\ \A n \in DOMAIN log'[h] :
                    log'[h][n].term = term[a] => n <= Len(log[a])
               /\ leading'[h] /\ term'[h] = term[a] => h = a
    <3>1. src(h) \in Node /\ log'[h] = log[src(h)]
      BY <1>2
    <3>2. leading'[h] => leading[h] /\ term'[h] = term[h]
      BY <1>2
    <3> QED
      BY <1>1, <2>1, <3>1, <3>2 DEF LeaderLog
  <2> QED
    BY <1>1, <2>1, <2>2 DEF LeaderLog
<1>7. CommitsProtected'
  <2> SUFFICES ASSUME NEW k \in Node
               PROVE  /\ commit'[k] <= Len(log'[k])
                      /\ commit'[k] # 0 =>
                           \E Q \in SUBSET Node :
                               Protected(commit[k], log[k][commit[k]].term, Q)'
    BY DEF CommitsProtected
  <2>1. CASE commit'[k] = 0
    <3>1. Len(log'[k]) \in Nat
      BY <1>1, <1>2, EntryFacts
    <3> QED
      BY <2>1, <3>1
  <2>2. CASE commit'[k] # 0
    <3>1. PICK n \in Nat, s \in Nat, Q \in SUBSET Node :
              n = commit'[k] /\ Holds(log'[k], n, s) /\ Protected(n, s, Q)
      BY <2>2, ReplicateCommits
    <3>2. Protected(n, s, Q)'
      BY <3>1, ReplicateProtects
    <3>3. n <= Len(log'[k]) /\ log'[k][n].term = s
      BY <3>1 DEF Holds, Has
    <3> QED
      BY <3>1, <3>2, <3>3 DEF Protected
  <2> QED
    BY <2>1, <2>2
<1> QED
  BY <1>3, <1>4, <1>5, <1>6, <1>7 DEF ClusterInv

\* Commitment keeps the invariant: a majority of the leader's term holds the
\* entry, so no majority has reached a later term and no log can have an
\* entry of one.
LEMMA CommitKeeps ==
    ASSUME ClusterInv, RaftTypes', NEW i \in Node, NEW n, CommitUpTo(i, n)
    PROVE  ClusterInv'
<1>1. RaftTypes /\ TermsUp /\ LogsAgree /\ EntriesReached /\ LeaderLog
        /\ CommitsProtected
  BY DEF ClusterInv
<1>2. PICK t \in Nat : t = term[i]
  BY <1>1 DEF RaftTypes
<1>3. PICK Q \in SUBSET Node :
          /\ IsMajority(Q)
          /\ \A q \in Q : term[q] = t /\ Has(log[q], n) /\ log[q][n] = log[i][n]
  BY <1>2 DEF CommitUpTo
<1>4. /\ commit' = [commit EXCEPT ![i] = n] /\ term' = term
      /\ leading' = leading /\ log' = log
      /\ n \in (commit[i] + 1)..Len(log[i]) /\ log[i][n].term = t
  BY <1>2 DEF CommitUpTo, LastIndex
<1>5. n \in Nat /\ n \in 1..Len(log[i])
  BY <1>1, <1>4, EntryFacts
<1>6. Protected(n, t, Q)
  <2>1. \A q \in Q : Holds(log[q], n, t)
    BY <1>3, <1>4 DEF Holds
  <2>2. ASSUME NEW j \in Node, NEW k \in DOMAIN log[j], log[j][k].term > t
        PROVE  FALSE
    <3>1. log[j][k].term \in Nat
      BY <1>1, EntryFacts
    <3>2. \A q \in Q : term[q] < log[j][k].term
      BY <1>3, <2>2
    <3>3. log[j][k].term < log[j][k].term
      BY <1>1, <1>3, <3>1, <3>2, NewTerm
    <3> QED
      BY <3>1, <3>3
  <2> QED
    BY <1>3, <2>1, <2>2 DEF Protected
<1>7. CommitsProtected'
  <2> SUFFICES ASSUME NEW k \in Node
               PROVE  /\ commit'[k] <= Len(log[k])
                      /\ commit'[k] # 0 =>
                           \E R \in SUBSET Node :
                               Protected(commit'[k], log[k][commit'[k]].term, R)
    BY <1>4 DEF CommitsProtected, Protected, Holds, IsMajority
  <2>1. CASE k = i
    <3>1. commit'[k] = n
      BY <1>1, <1>4, <2>1 DEF RaftTypes
    <3> QED
      BY <1>4, <1>5, <1>6, <2>1, <3>1
  <2>2. CASE k # i
    <3>1. commit'[k] = commit[k]
      BY <1>1, <1>4, <2>2 DEF RaftTypes
    <3> QED
      BY <1>1, <3>1 DEF CommitsProtected
  <2> QED
    BY <2>1, <2>2
<1>8. TermsUp' /\ LogsAgree'
  BY <1>1, <1>4 DEF TermsUp, LogsAgree, SameUpTo
<1>9. EntriesReached' /\ LeaderLog'
  BY <1>1, <1>4 DEF EntriesReached, Reached, IsMajority, LeaderLog, Holds
<1> QED
  BY <1>7, <1>8, <1>9 DEF ClusterInv

-----------------------------------------------------------------------------
(* All steps of the cluster *)

\* Each step of the cluster keeps its types.
LEMMA RaftTypesKept ==
    ASSUME RaftTypes,
           RaftNext \/ \E i \in Node, cmd \in Cmd : StartOn(i, cmd)
    PROVE  RaftTypes'
<1>1. /\ term \in [Node -> Nat] /\ leading \in [Node -> BOOLEAN]
      /\ log \in [Node -> Seq(LogEntry)] /\ commit \in [Node -> Nat]
  BY DEF RaftTypes
<1>2. ASSUME NEW i \in Node, NEW e \in LogEntry,
             log' = [log EXCEPT ![i] = Append(@, e)]
      PROVE  log' \in [Node -> Seq(LogEntry)]
  <2>1. Append(log[i], e) \in Seq(LogEntry)
    BY <1>1
  <2> QED
    BY <1>1, <1>2, <2>1
<1>3. ASSUME NEW i \in Node, NEW Q \in SUBSET Node, Elect(i, Q)
      PROVE  RaftTypes'
  <2>1. PICK t \in Nat : Elected(i, Q, t)
    BY <1>3, ElectIs
  <2>2. PICK e \in LogEntry : log' = [log EXCEPT ![i] = Append(@, e)]
    BY <2>1 DEF Elected, AppendStep
  <2>3. log' \in [Node -> Seq(LogEntry)]
    BY <1>2, <2>2
  <2>4. /\ DOMAIN term' = Node /\ term' = [j \in Node |-> term'[j]]
        /\ leading' \in [Node -> BOOLEAN] /\ commit' = commit
    BY <1>3 DEF Elect
  <2>5. \A j \in Node : term'[j] \in Nat
    BY <2>1 DEF Elected, AppendStep
  <2> QED
    BY <1>1, <2>3, <2>4, <2>5 DEF RaftTypes
<1>4. ASSUME NEW i \in Node, NEW j \in Node, Campaign(j, i)
      PROVE  RaftTypes'
  <2>1. PICK m : m = Max({term[i], term[j]})
    OBVIOUS
  <2>2. m \in Nat
    <3>1. term[i] \in Nat /\ term[j] \in Nat
      BY <1>1
    <3> QED
      BY <2>1, <3>1, MaxOfTwo, Zenon
  <2>3. /\ term' = [term EXCEPT ![i] = m + 1, ![j] = m + 1]
        /\ leading' = [leading EXCEPT ![i] = FALSE]
        /\ log' = log /\ commit' = commit
    BY <1>4, <2>1 DEF Campaign
  <2>4. m + 1 \in Nat
    BY <2>2
  <2> QED
    BY <1>1, <2>3, <2>4 DEF RaftTypes
<1>5. ASSUME NEW i \in Node, NEW j \in Node, Replicate(i, j)
      PROVE  RaftTypes'
  <2>1. PICK m : m = Max({commit[j], commit[i]})
    OBVIOUS
  <2>2. m \in Nat
    <3>1. commit[i] \in Nat /\ commit[j] \in Nat
      BY <1>1
    <3> QED
      BY <2>1, <3>1, MaxOfTwo, Zenon
  <2>3. /\ term' = [term EXCEPT ![j] = term[i]]
        /\ leading' = [leading EXCEPT ![j] = FALSE]
        /\ log' = [log EXCEPT ![j] = log[i]]
        /\ commit' = [commit EXCEPT ![j] = m]
    BY <1>5, <2>1 DEF Replicate
  <2> QED
    BY <1>1, <2>2, <2>3 DEF RaftTypes
<1>6. ASSUME NEW i \in Node, NEW j \in Node, StepDown(i, j)
      PROVE  RaftTypes'
  BY <1>1, <1>6 DEF StepDown, RaftTypes
<1>7. ASSUME NEW i \in Node, NEW n, CommitUpTo(i, n)
      PROVE  RaftTypes'
  <2>1. /\ n \in (commit[i] + 1)..Len(log[i])
        /\ commit' = [commit EXCEPT ![i] = n] /\ UNCHANGED <<term, leading, log>>
    BY <1>7 DEF CommitUpTo, LastIndex
  <2>2. n \in Nat
    BY <2>1, EntryFacts
  <2> QED
    BY <1>1, <2>1, <2>2 DEF RaftTypes
<1>8. ASSUME NEW i \in Node, NEW cmd \in Cmd, StartOn(i, cmd)
      PROVE  RaftTypes'
  <2>1. [term |-> term[i], cmd |-> cmd] \in LogEntry
    BY <1>1 DEF LogEntry
  <2>2. log' \in [Node -> Seq(LogEntry)]
    BY <1>2, <1>8, <2>1 DEF StartOn
  <2> QED
    BY <1>1, <1>8, <2>2 DEF StartOn, RaftTypes
<1> QED
  BY <1>3, <1>4, <1>5, <1>6, <1>7, <1>8 DEF RaftNext

\* Each step of the cluster keeps the invariant.
LEMMA ClusterKept ==
    ASSUME ClusterInv,
           RaftNext \/ \E i \in Node, cmd \in Cmd : StartOn(i, cmd)
    PROVE  ClusterInv'
<1>1. RaftTypes /\ RaftTypes'
  BY RaftTypesKept DEF ClusterInv
<1>2. ASSUME NEW i \in Node, NEW j \in Node, Campaign(j, i)
      PROVE  ClusterInv'
  <2>1. PICK m : m = Max({term[i], term[j]})
    OBVIOUS
  <2>2. term[i] \in Nat /\ term[j] \in Nat
    BY <1>1 DEF RaftTypes
  <2>3. m \in Nat /\ m >= term[i] /\ m >= term[j]
    BY <2>1, <2>2, MaxOfTwo, Zenon
  <2>4. /\ term' = [term EXCEPT ![i] = m + 1, ![j] = m + 1] /\ ~leading[j]
        /\ leading' = [leading EXCEPT ![i] = FALSE]
        /\ log' = log /\ commit' = commit
    BY <1>2, <2>1 DEF Campaign
  <2>5. \A k \in Node : /\ term'[k] \in Nat /\ term'[k] >= term[k]
                        /\ leading'[k] => leading[k] /\ term'[k] = term[k]
    BY <1>1, <2>3, <2>4 DEF RaftTypes
  <2> QED
    BY <1>1, <2>4, <2>5, CalmKeeps DEF CalmStep
<1>3. ASSUME NEW i \in Node, NEW j \in Node, StepDown(i, j)
      PROVE  ClusterInv'
  <2>1. /\ term' = [term EXCEPT ![i] = term[j]] /\ term[j] > term[i]
        /\ leading' = [leading EXCEPT ![i] = FALSE]
        /\ log' = log /\ commit' = commit
    BY <1>3 DEF StepDown
  <2>2. \A k \in Node : /\ term'[k] \in Nat /\ term'[k] >= term[k]
                        /\ leading'[k] => leading[k] /\ term'[k] = term[k]
    BY <1>1, <2>1 DEF RaftTypes
  <2> QED
    BY <1>1, <2>1, <2>2, CalmKeeps DEF CalmStep
<1> QED
  BY <1>1, <1>2, <1>3, ElectKeeps, ReplicateKeeps, CommitKeeps, StartKeeps
  DEF RaftNext

-----------------------------------------------------------------------------
(* What is committed stays, and is the same everywhere *)

\* Of two nodes, the one that has committed more holds what the other has.
LEMMA CommitsAgree ==
    ASSUME ClusterInv, NEW i \in Node, NEW j \in Node, commit[i] <= commit[j]
    PROVE  SameUpTo(log[i], log[j], commit[i])
<1>1. RaftTypes /\ TermsUp /\ LogsAgree
  BY DEF ClusterInv
<1>2. commit[i] \in Nat /\ commit[j] \in Nat
  BY <1>1 DEF RaftTypes
<1>3. CASE commit[i] = 0
  BY <1>3 DEF SameUpTo
<1>4. CASE commit[i] # 0
  <2>1. commit[j] # 0
    BY <1>2, <1>4
  <2>2. PICK n \in Nat, s \in Nat, Q \in SUBSET Node :
            n = commit[i] /\ Holds(log[i], n, s) /\ Protected(n, s, Q)
    BY <1>4, CommitIs
  <2>3. PICK m \in Nat, t \in Nat, R \in SUBSET Node :
            m = commit[j] /\ Holds(log[j], m, t) /\ Protected(m, t, R)
    BY <2>1, CommitIs
  <2>4. n <= m
    BY <2>2, <2>3
  <2>5. PICK q \in Node : q \in Q /\ q \in R
    BY <2>2, <2>3, MajoritiesMeet DEF Protected
  <2>6. Holds(log[q], n, s) /\ Holds(log[q], m, t)
    BY <2>2, <2>3, <2>5 DEF Protected
  <2>7. s <= t
    <3>1. m \in DOMAIN log[q] /\ n \in 1..m
      BY <1>1, <2>4, <2>6, EntryFacts DEF Holds, Has
    <3> QED
      BY <1>1, <2>6, <3>1 DEF TermsUp, Holds
  <2>8. Holds(log[j], n, s)
    <3>1. CASE s = t
      BY <1>1, <2>2, <2>3, <2>4, <3>1, AgreeAt
    <3>2. CASE s < t
      <4>1. m \in DOMAIN log[j] /\ log[j][m].term = t
        BY <1>1, <2>3, EntryFacts DEF Holds, Has
      <4> QED
        BY <2>2, <3>2, <4>1 DEF Protected
    <3> QED
      BY <2>7, <3>1, <3>2
  <2>9. SameUpTo(log[i], log[j], n)
    BY <1>1, <2>2, <2>8, AgreeAt
  <2> QED
    BY <2>2, <2>9
<1> QED
  BY <1>3, <1>4

\* No term goes down, no commit index either, and no committed entry changes.
CommitsStay ==
    \A i \in Node :
        /\ term'[i] \in Nat /\ term'[i] >= term[i]
        /\ commit'[i] \in Nat /\ commit'[i] >= commit[i]
        /\ Len(log'[i]) \in Nat
        /\ SameUpTo(log'[i], log[i], commit[i])

\* That holds of every step of the cluster.
LEMMA CommitsStayOnRaft ==
    ASSUME ClusterInv, RaftTypes',
           RaftNext \/ \E i \in Node, cmd \in Cmd : StartOn(i, cmd)
    PROVE  CommitsStay
<1>1. /\ RaftTypes /\ TermsUp /\ LogsAgree
      /\ \A k \in Node : commit[k] \in Nat /\ Len(log[k]) \in Nat
                         /\ commit[k] <= Len(log[k]) /\ term[k] \in Nat
                         /\ Len(log'[k]) \in Nat
  <2>1. RaftTypes /\ TermsUp /\ LogsAgree /\ CommitsProtected
    BY DEF ClusterInv
  <2>2. \A k \in Node : log'[k] \in Seq(LogEntry)
    BY DEF RaftTypes
  <2> QED
    BY <2>1, <2>2, EntryFacts DEF CommitsProtected
<1>2. ASSUME log' = log, commit' = commit,
             \A k \in Node : term'[k] \in Nat /\ term'[k] >= term[k]
      PROVE  CommitsStay
  BY <1>1, <1>2 DEF CommitsStay, SameUpTo
<1>3. ASSUME NEW i \in Node, NEW e, AppendStep(i, e)
      PROVE  CommitsStay
  <2> SUFFICES ASSUME NEW k \in Node
               PROVE  /\ term'[k] \in Nat /\ term'[k] >= term[k]
                      /\ commit'[k] \in Nat /\ commit'[k] >= commit[k]
                      /\ SameUpTo(log'[k], log[k], commit[k])
    BY <1>1 DEF CommitsStay
  <2>1. \A n \in 1..Len(log[k]) : log'[k][n] = log[k][n]
    BY <1>1, <1>3, AppendLogs
  <2>2. \A n \in 1..commit[k] : n \in 1..Len(log[k])
    BY <1>1
  <2>3. /\ term'[k] \in Nat /\ term'[k] >= term[k] /\ commit' = commit
    BY <1>3 DEF AppendStep
  <2> QED
    BY <1>1, <2>1, <2>2, <2>3 DEF SameUpTo
<1>4. ASSUME NEW i \in Node, NEW Q \in SUBSET Node, Elect(i, Q)
      PROVE  CommitsStay
  <2>1. PICK t \in Nat : Elected(i, Q, t)
    BY <1>1, <1>4, ElectIs
  <2>2. AppendStep(i, [term |-> t, cmd |-> Noop])
    BY <2>1 DEF Elected
  <2> QED
    BY <1>3, <2>2
<1>5. ASSUME NEW i \in Node, NEW j \in Node, Campaign(j, i)
      PROVE  CommitsStay
  <2>1. PICK m : m = Max({term[i], term[j]})
    OBVIOUS
  <2>2. term[i] \in Nat /\ term[j] \in Nat
    BY <1>1
  <2>3. m \in Nat /\ m >= term[i] /\ m >= term[j]
    BY <2>1, <2>2, MaxOfTwo, Zenon
  <2>4. /\ term' = [term EXCEPT ![i] = m + 1, ![j] = m + 1]
        /\ log' = log /\ commit' = commit
    BY <1>5, <2>1 DEF Campaign
  <2>5. \A k \in Node : term'[k] \in Nat /\ term'[k] >= term[k]
    <3>1. /\ term \in [Node -> Nat] /\ m + 1 \in Nat
          /\ m + 1 >= term[i] /\ m + 1 >= term[j]
      BY <1>1, <2>2, <2>3 DEF RaftTypes
    <3> QED
      BY <2>4, <3>1
  <2> QED
    BY <1>2, <2>4, <2>5
<1>6. ASSUME NEW i \in Node, NEW j \in Node, Replicate(i, j)
      PROVE  CommitsStay
  <2>1. /\ leading[i] /\ term[j] <= term[i] /\ i # j
        /\ term'[j] = term[i] /\ log'[j] = log[i]
        /\ commit'[j] \in {commit[j], commit[i]} /\ commit'[j] >= commit[j]
        /\ \A k \in Node \ {j} :
             term'[k] = term[k] /\ log'[k] = log[k] /\ commit'[k] = commit[k]
    BY <1>1, <1>6, ReplicateIs
  <2>2. SameUpTo(log'[j], log[j], commit[j])
    <3>1. CASE commit[j] = 0
      BY <3>1 DEF SameUpTo
    <3>2. CASE commit[j] # 0
      <4>1. PICK n \in Nat, s \in Nat, Q \in SUBSET Node :
                n = commit[j] /\ Holds(log[j], n, s) /\ Protected(n, s, Q)
        BY <3>2, CommittedEntry
      <4>2. Holds(log[i], n, s)
        BY <2>1, <4>1, LeaderHolds
      <4>3. SameUpTo(log[i], log[j], n)
        <5>1. Holds(log[j], n, s) /\ n <= n
          BY <4>1
        <5> QED
          BY <1>1, <4>2, <5>1, AgreeAt
      <4> QED
        BY <2>1, <4>1, <4>3
    <3> QED
      BY <3>1, <3>2
  <2> SUFFICES ASSUME NEW k \in Node
               PROVE  /\ term'[k] \in Nat /\ term'[k] >= term[k]
                      /\ commit'[k] \in Nat /\ commit'[k] >= commit[k]
                      /\ SameUpTo(log'[k], log[k], commit[k])
    BY <1>1 DEF CommitsStay
  <2>3. CASE k = j
    BY <1>1, <2>1, <2>2, <2>3
  <2>4. CASE k # j
    BY <1>1, <2>1, <2>4 DEF SameUpTo
  <2> QED
    BY <2>3, <2>4
<1>7. ASSUME NEW i \in Node, NEW j \in Node, StepDown(i, j)
      PROVE  CommitsStay
  <2>1. /\ term' = [term EXCEPT ![i] = term[j]] /\ term[j] > term[i]
        /\ log' = log /\ commit' = commit
    BY <1>7 DEF StepDown
  <2>2. \A k \in Node : term'[k] \in Nat /\ term'[k] >= term[k]
    BY <1>1, <2>1 DEF RaftTypes
  <2> QED
    BY <1>2, <2>1, <2>2
<1>8. ASSUME NEW i \in Node, NEW n, CommitUpTo(i, n)
      PROVE  CommitsStay
  <2>1. /\ n \in (commit[i] + 1)..Len(log[i]) /\ log' = log /\ term' = term
        /\ commit' = [commit EXCEPT ![i] = n]
    BY <1>8 DEF CommitUpTo, LastIndex
  <2>2. \A k \in Node : commit'[k] \in Nat /\ commit'[k] >= commit[k]
    BY <1>1, <2>1 DEF RaftTypes
  <2> QED
    BY <1>1, <2>1, <2>2 DEF CommitsStay, SameUpTo
<1>9. ASSUME NEW i \in Node, NEW cmd \in Cmd, StartOn(i, cmd)
      PROVE  CommitsStay
  <2>1. /\ log' = [log EXCEPT ![i] = Append(@, [term |-> term[i], cmd |-> cmd])]
        /\ term' = term /\ commit' = commit
    BY <1>9 DEF StartOn
  <2>2. AppendStep(i, [term |-> term[i], cmd |-> cmd])
    BY <1>1, <2>1 DEF AppendStep, LogEntry
  <2> QED
    BY <1>3, <2>2
<1> QED
  BY <1>4, <1>5, <1>6, <1>7, <1>8, <1>9 DEF RaftNext

-----------------------------------------------------------------------------
(* Where the entries and the leaders of a step come from *)

\* The entry at n of j's log, and all before it, were in some log.
Carried(j, n) ==
    \E h \in Node : n \in DOMAIN log[h] /\ SameUpTo(log'[j], log[h], n)

\* It is the no-op of a term that no majority had reached.
Fresh(j, n) == ~Reached(log'[j][n].term) /\ log'[j][n].cmd = Noop

\* A leader led before, and its log is no shorter; or its term is new.
LeaderFrom(j) ==
    \/ leading[j] /\ term'[j] = term[j] /\ Len(log'[j]) >= Len(log[j])
    \/ ~Reached(term'[j])

\* An entry that an append leaves alone is carried.
LEMMA AppendCarries ==
    ASSUME RaftTypes, NEW i, NEW e, AppendStep(i, e), NEW j \in Node,
           NEW n \in DOMAIN log'[j]
    PROVE  \/ Carried(j, n)
           \/ /\ j = i /\ n = Len(log[i]) + 1 /\ log'[j][n] = e
              /\ \A k \in 1..Len(log[i]) : log'[j][k] = log[i][k]
<1>1. /\ Len(log[j]) \in Nat /\ DOMAIN log[j] = 1..Len(log[j])
      /\ \A k \in 1..Len(log[j]) : log'[j][k] = log[j][k]
  BY EntryFacts, AppendLogs
<1>2. CASE n \in 1..Len(log[j])
  <2>1. \A k \in 1..n : k \in 1..Len(log[j])
    BY <1>1, <1>2
  <2>2. n \in DOMAIN log[j] /\ SameUpTo(log'[j], log[j], n)
    BY <1>1, <1>2, <2>1 DEF SameUpTo
  <2> QED
    BY <2>2 DEF Carried
<1>3. CASE j = i /\ n = Len(log[i]) + 1 /\ log'[j][n] = e
  BY <1>1, <1>3
<1> QED
  BY <1>2, <1>3, AppendEntry

\* What the raft steps do to entries and leaders.
LEMMA RaftFrom ==
    ASSUME ClusterInv, RaftNext, NEW j \in Node
    PROVE  /\ \A n \in DOMAIN log'[j] : Carried(j, n) \/ Fresh(j, n)
           /\ leading'[j] => LeaderFrom(j)
<1>1. RaftTypes /\ EntriesReached /\ LeaderLog
  BY DEF ClusterInv
<1>2. \A k \in Node : /\ Len(log[k]) \in Nat /\ DOMAIN log[k] = 1..Len(log[k])
                      /\ term[k] \in Nat
  BY <1>1, EntryFacts
<1>3. ASSUME log' = log, leading'[j] => leading[j] /\ term'[j] = term[j]
      PROVE  /\ \A n \in DOMAIN log'[j] : Carried(j, n) \/ Fresh(j, n)
             /\ leading'[j] => LeaderFrom(j)
  BY <1>2, <1>3 DEF Carried, SameUpTo, LeaderFrom
<1>4. ASSUME NEW i \in Node, NEW Q \in SUBSET Node, Elect(i, Q)
      PROVE  /\ \A n \in DOMAIN log'[j] : Carried(j, n) \/ Fresh(j, n)
             /\ leading'[j] => LeaderFrom(j)
  <2>1. PICK t \in Nat : Elected(i, Q, t)
    BY <1>1, <1>4, ElectIs
  <2>2. PICK e : e = [term |-> t, cmd |-> Noop]
    OBVIOUS
  <2>3. /\ AppendStep(i, e) /\ e.term = t /\ e.cmd = Noop /\ IsMajority(Q)
        /\ \A q \in Q : term[q] < t
        /\ term'[i] = t
        /\ leading'[j] => j = i \/ (leading[j] /\ term'[j] = term[j])
    BY <2>1, <2>2 DEF Elected
  <2>4. ~Reached(t)
    <3> SUFFICES ASSUME NEW R \in SUBSET Node, IsMajority(R),
                        \A r \in R : term[r] >= t
                 PROVE  FALSE
      BY DEF Reached
    <3>1. PICK q \in Node : q \in Q /\ q \in R
      BY <2>3, MajoritiesMeet
    <3> QED
      BY <1>2, <2>3, <3>1
  <2>5. \A n \in DOMAIN log'[j] : Carried(j, n) \/ Fresh(j, n)
    BY <1>1, <2>3, <2>4, AppendCarries DEF Fresh
  <2>6. ASSUME leading'[j]
        PROVE  LeaderFrom(j)
    <3>1. CASE j = i
      BY <2>3, <2>4, <3>1 DEF LeaderFrom
    <3>2. CASE j # i
      <4>1. log'[j] = log[j]
        BY <1>1, <2>3, <3>2, AppendLogs
      <4> QED
        BY <1>2, <2>3, <2>6, <3>2, <4>1 DEF LeaderFrom
    <3> QED
      BY <3>1, <3>2
  <2> QED
    BY <2>5, <2>6
<1>5. ASSUME NEW i \in Node, NEW k \in Node, Campaign(k, i)
      PROVE  /\ \A n \in DOMAIN log'[j] : Carried(j, n) \/ Fresh(j, n)
             /\ leading'[j] => LeaderFrom(j)
  <2>1. PICK t : t = Max({term[i], term[k]}) + 1
    OBVIOUS
  <2>2. /\ term' = [term EXCEPT ![i] = t, ![k] = t] /\ ~leading[k]
        /\ leading' = [leading EXCEPT ![i] = FALSE] /\ log' = log
    BY <1>5, <2>1 DEF Campaign
  <2>3. leading'[j] => leading[j] /\ term'[j] = term[j]
    BY <1>1, <2>2 DEF RaftTypes
  <2> QED
    BY <1>3, <2>2, <2>3
<1>6. ASSUME NEW i \in Node, NEW k \in Node, Replicate(i, k)
      PROVE  /\ \A n \in DOMAIN log'[j] : Carried(j, n) \/ Fresh(j, n)
             /\ leading'[j] => LeaderFrom(j)
  <2>1. /\ log'[k] = log[i] /\ ~leading'[k]
        /\ \A h \in Node \ {k} : /\ term'[h] = term[h] /\ log'[h] = log[h]
                                 /\ leading'[h] = leading[h]
    BY <1>1, <1>6, ReplicateIs
  <2>2. PICK h \in Node : log'[j] = log[h]
    BY <2>1
  <2>3. \A n \in DOMAIN log'[j] : Carried(j, n)
    BY <2>2 DEF Carried, SameUpTo
  <2>4. leading'[j] => LeaderFrom(j)
    BY <1>2, <2>1 DEF LeaderFrom
  <2> QED
    BY <2>3, <2>4
<1>7. ASSUME NEW i \in Node, NEW k \in Node, StepDown(i, k)
      PROVE  /\ \A n \in DOMAIN log'[j] : Carried(j, n) \/ Fresh(j, n)
             /\ leading'[j] => LeaderFrom(j)
  <2>1. /\ term' = [term EXCEPT ![i] = term[k]]
        /\ leading' = [leading EXCEPT ![i] = FALSE] /\ log' = log
    BY <1>7 DEF StepDown
  <2>2. leading'[j] => leading[j] /\ term'[j] = term[j]
    BY <1>1, <2>1 DEF RaftTypes
  <2> QED
    BY <1>3, <2>1, <2>2
<1>8. ASSUME NEW i \in Node, NEW n, CommitUpTo(i, n)
      PROVE  /\ \A m \in DOMAIN log'[j] : Carried(j, m) \/ Fresh(j, m)
             /\ leading'[j] => LeaderFrom(j)
  BY <1>3, <1>8 DEF CommitUpTo
<1> QED
  BY <1>4, <1>5, <1>6, <1>7, <1>8 DEF RaftNext

\* What Start does to them.
LEMMA StartFrom ==
    ASSUME RaftTypes, NEW i \in Node, NEW cmd \in Cmd, StartOn(i, cmd),
           NEW j \in Node
    PROVE  /\ \A n \in DOMAIN log'[j] :
                \/ Carried(j, n)
                \/ /\ j = i /\ n = Len(log[i]) + 1
                   /\ log'[j][n] = [term |-> term[i], cmd |-> cmd]
                   /\ \A k \in 1..Len(log[i]) : log'[j][k] = log[i][k]
           /\ leading'[j] => LeaderFrom(j)
           /\ leading[i] /\ leading' = leading /\ term' = term
           /\ Len(log'[i]) = Len(log[i]) + 1
           /\ log'[i][Len(log[i]) + 1] = [term |-> term[i], cmd |-> cmd]
<1>1. PICK e : e = [term |-> term[i], cmd |-> cmd]
  OBVIOUS
<1>2. /\ leading[i] /\ leading' = leading /\ term' = term /\ commit' = commit
      /\ log' = [log EXCEPT ![i] = Append(@, e)]
  BY <1>1 DEF StartOn
<1>3. AppendStep(i, e)
  <2>1. \A k \in Node : term[k] \in Nat
    BY DEF RaftTypes
  <2>2. e \in LogEntry /\ e.term = term[i]
    BY <1>1, <2>1 DEF LogEntry
  <2> QED
    BY <1>2, <2>1, <2>2 DEF AppendStep
<1>4. Len(log[j]) \in Nat /\ Len(log'[j]) \in Nat /\ Len(log'[j]) >= Len(log[j])
      /\ Len(log'[i]) = Len(log[i]) + 1 /\ log'[i][Len(log[i]) + 1] = e
  BY <1>3, EntryFacts, AppendLogs
<1>5. leading'[j] => LeaderFrom(j)
  BY <1>2, <1>4 DEF LeaderFrom
<1> QED
  BY <1>1, <1>2, <1>3, <1>4, <1>5, AppendCarries
=============================================================================
