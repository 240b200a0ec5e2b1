--------------------------- MODULE RaftLogProofs ---------------------------
(***************************************************************************)
(* What the operators of RaftLog return, for every log.                    *)
(***************************************************************************)
EXTENDS RaftLog, FiniteSets, TLAPS, FiniteSetTheorems, WellFoundedInduction,
        SequenceTheorems

\* Of two integers, Min and Max return one, the right one.
LEMMA MinMaxPair ==
    ASSUME NEW a \in Int, NEW b \in Int
    PROVE  /\ Min({a, b}) \in {a, b} /\ Min({a, b}) <= a /\ Min({a, b}) <= b
           /\ Max({a, b}) \in {a, b} /\ Max({a, b}) >= a /\ Max({a, b}) >= b
<1>1. \E x \in {a, b} : \A y \in {a, b} : x <= y
  BY SMT
<1>2. \E x \in {a, b} : \A y \in {a, b} : x >= y
  BY SMT
<1> QED
  BY <1>1, <1>2 DEF Min, Max

\* A non-empty set of naturals has a smallest element, which Min returns: a
\* finite initial segment 0..x is below another in the subset order exactly
\* when its end is, and that order is well-founded.
LEMMA MinOfNats ==
    ASSUME NEW S, S \subseteq Nat, S # {}
    PROVE  Min(S) \in S /\ \A y \in S : Min(S) <= y
<1> DEFINE T == {0 .. x : x \in S}
<1>1. T \subseteq FiniteSubsetsOf(Nat) /\ T # {}
  <2>1. ASSUME NEW x \in S
        PROVE  0 .. x \in FiniteSubsetsOf(Nat)
    <3>1. x \in Int /\ 0 .. x \subseteq Nat
      OBVIOUS
    <3>2. IsFiniteSet(0 .. x)
      BY <3>1, FS_Interval
    <3> QED
      BY <3>1, <3>2 DEF FiniteSubsetsOf
  <2> QED
    BY <2>1
<1>2. PICK t \in T : \A u \in T : ~(<<u, t>> \in StrictSubsetOrdering(Nat))
  BY <1>1, FS_StrictSubsetOrderingWellFounded, WFMin, Zenon
<1>3. PICK x \in S : t = 0 .. x
  OBVIOUS
<1>4. ASSUME NEW y \in S, ~(x <= y)
      PROVE  FALSE
  <2>1. 0 .. y \subseteq 0 .. x /\ 0 .. y # 0 .. x
    <3>1. x \in Nat /\ y \in Nat /\ y < x
      BY <1>4
    <3>2. x \in 0 .. x /\ x \notin 0 .. y
      BY <3>1
    <3>3. 0 .. y \subseteq 0 .. x
      BY <3>1
    <3> QED
      BY <3>2, <3>3
  <2>2. <<0 .. y, 0 .. x>> \in StrictSubsetOrdering(Nat)
    BY <2>1, <1>4 DEF StrictSubsetOrdering
  <2> QED
    BY <2>2, <1>2, <1>3, <1>4
<1>5. \A y \in S : x <= y
  BY <1>4
<1> QED
  BY <1>5 DEF Min

\* A non-empty set of naturals below a bound has a largest element, which Max
\* returns.
LEMMA MaxOfBounded ==
    ASSUME NEW b \in Nat, NEW S, S \subseteq 0 .. b, S # {}
    PROVE  Max(S) \in S /\ \A y \in S : Max(S) >= y
<1> DEFINE T == {b - x : x \in S}
<1>1. T \subseteq Nat /\ T # {}
  <2>1. \A x \in S : b - x \in Nat
    OBVIOUS
  <2> QED
    BY <2>1
<1>2. PICK t \in T : \A u \in T : t <= u
  BY <1>1, MinOfNats
<1>3. PICK x \in S : t = b - x
  OBVIOUS
<1>4. \A y \in S : b - x <= b - y
  BY <1>2, <1>3
<1>5. \A y \in S : x >= y
  BY <1>4, SMT
<1> QED
  BY <1>5 DEF Max

\* Truncate and Entries return a log.
LEMMA TruncateType ==
    ASSUME NEW E, NEW l \in Seq(E), NEW from \in Int
    PROVE  Truncate(l, from) \in Seq(E)
<1>1. CASE Has(l, from)
  <2>1. SubSeq(l, 1, from - 1) \in Seq(E)
    BY <1>1, SubSeqProperties DEF Has
  <2> QED
    BY <1>1, <2>1 DEF Truncate
<1>2. CASE ~Has(l, from)
  BY <1>2 DEF Truncate
<1> QED
  BY <1>1, <1>2

\* Entries of a log are entries; none are invented by clipping the range.
LEMMA EntriesType ==
    ASSUME NEW E, NEW l \in Seq(E), NEW from \in Int, NEW to \in Int
    PROVE  Entries(l, from, to) \in Seq(E)
<1> DEFINE a == Max({from, 1})
           b == Min({to, Len(l) + 1}) - 1
<1>1. Len(l) \in Nat
  OBVIOUS
<1>2. a \in Int /\ a >= 1
  <2>1. a \in {from, 1} /\ a >= 1
    BY MinMaxPair, 1 \in Int, Zenon
  <2> QED
    BY <2>1
<1>3. b \in Int /\ b <= Len(l)
  <2>1. Len(l) + 1 \in Int
    BY <1>1
  <2>2. /\ Min({to, Len(l) + 1}) \in {to, Len(l) + 1}
        /\ Min({to, Len(l) + 1}) <= Len(l) + 1
    BY <2>1, MinMaxPair, Zenon
  <2> QED
    BY <2>1, <2>2, <1>1
<1>4. \A n \in a .. b : l[n] \in E
  BY <1>1, <1>2, <1>3
<1> HIDE DEF a, b
<1>5. SubSeq(l, a, b) \in Seq(E)
  BY <1>2, <1>3, <1>4, SubSeqProperties
<1> QED
  BY <1>5 DEF Entries, a, b

\* Merging the entries of a request into a log gives a log.
LEMMA MergeType ==
    ASSUME NEW E, NEW l \in Seq(E), NEW prev \in Nat, NEW es \in Seq(E)
    PROVE  Merge(l, prev, es) \in Seq(E)
<1> DEFINE N == NewEntries(l, prev, es)
           k == Min(N)
<1>1. CASE N = {}
  BY <1>1 DEF Merge
<1>2. CASE N # {}
  <2>1. N \subseteq 1 .. Len(es)
    BY DEF NewEntries
  <2>2. k \in 1 .. Len(es)
    <3>1. N \subseteq Nat
      BY <2>1
    <3>2. k \in N
      BY <3>1, <1>2, MinOfNats
    <3> QED
      BY <3>2, <2>1
  <2> HIDE DEF k
  <2>3. Truncate(l, prev + k) \in Seq(E)
    BY <2>2, TruncateType
  <2>4. SubSeq(es, k, Len(es)) \in Seq(E)
    BY <2>2, SubSeqProperties
  <2>5. Truncate(l, prev + k) \o SubSeq(es, k, Len(es)) \in Seq(E)
    BY <2>3, <2>4, ConcatProperties
  <2> QED
    BY <1>2, <2>5 DEF Merge, k
<1> QED
  BY <1>1, <1>2
=============================================================================
