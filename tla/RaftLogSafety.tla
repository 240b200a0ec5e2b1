--------------------------- MODULE RaftLogSafety ---------------------------
(***************************************************************************)
(* Proofs about the logs of Raft and the requests that carry entries       *)
(* between them: no log ever forks within a term, and what a leader        *)
(* believes of its peers is so.                                            *)
(***************************************************************************)
EXTENDS RaftLogInv, RaftProofs

-----------------------------------------------------------------------------
(* Chains of entries *)

\* x is the link of the k-th entry of es, which hang on an entry of term bt
\* at b.
IsLinkAt(x, k, b, bt, es) ==
    /\ x = Link(b + k, x.e, x.p)
    /\ x.n = b + k /\ x.e = es[k]
    /\ x.p = IF k = 1 THEN bt ELSE es[k - 1].term

\* The links of a chain, position by position.
LEMMA LinkAt ==
    ASSUME NEW b \in Nat, NEW bt \in Nat, NEW es \in Seq(Entry)
    PROVE  /\ \A k \in 1..Len(es) :
                 \E x \in ChainLinks(b, bt, es) : IsLinkAt(x, k, b, bt, es)
           /\ \A x \in ChainLinks(b, bt, es) :
                 \E k \in 1..Len(es) : IsLinkAt(x, k, b, bt, es)
<1> DEFINE P(k) == IF k = 1 THEN bt ELSE es[k - 1].term
           X(k) == Link(b + k, es[k], P(k))
<1>1. ChainLinks(b, bt, es) = {X(k) : k \in 1..Len(es)}
  BY DEF ChainLinks
<1>2. \A k \in 1..Len(es) : /\ X(k).n = b + k /\ X(k).e = es[k] /\ X(k).p = P(k)
                            /\ X(k) = Link(b + k, X(k).e, X(k).p)
  BY DEF Link
<1> HIDE DEF X
<1>3. ASSUME NEW k \in 1..Len(es)
      PROVE  \E x \in ChainLinks(b, bt, es) : IsLinkAt(x, k, b, bt, es)
  <2>1. X(k) \in ChainLinks(b, bt, es)
    BY <1>1
  <2>2. IsLinkAt(X(k), k, b, bt, es)
    BY <1>2 DEF IsLinkAt
  <2> QED
    BY <2>1, <2>2
<1>4. ASSUME NEW x \in ChainLinks(b, bt, es)
      PROVE  \E k \in 1..Len(es) : IsLinkAt(x, k, b, bt, es)
  <2>1. PICK k \in 1..Len(es) : x = X(k)
    BY <1>1
  <2>2. IsLinkAt(x, k, b, bt, es)
    BY <1>2, <2>1 DEF IsLinkAt
  <2> QED
    BY <2>2
<1> QED
  BY <1>3, <1>4

\* The same for a whole log.
LEMMA LogLinkAt ==
    ASSUME NEW l \in Seq(Entry)
    PROVE  /\ \A k \in 1..Len(l) :
                 \E x \in LogLinks(l) :
                     /\ x = Link(k, x.e, x.p) /\ x.n = k /\ x.e = l[k]
                     /\ x.p = IF k = 1 THEN 0 ELSE l[k - 1].term
           /\ \A x \in LogLinks(l) :
                 /\ x = Link(x.n, x.e, x.p) /\ x.n \in 1..Len(l) /\ x.e = l[x.n]
                 /\ x.p = IF x.n = 1 THEN 0 ELSE l[x.n - 1].term
<1>1. Len(l) \in Nat /\ \A k \in 1..Len(l) : 0 + k = k
  OBVIOUS
<1>2. /\ \A k \in 1..Len(l) :
           \E x \in LogLinks(l) : IsLinkAt(x, k, 0, 0, l)
      /\ \A x \in LogLinks(l) :
           \E k \in 1..Len(l) : IsLinkAt(x, k, 0, 0, l)
  BY LinkAt, 0 \in Nat, Zenon DEF LogLinks
<1>3. \A k \in 1..Len(l) :
           \E x \in LogLinks(l) :
               /\ x = Link(k, x.e, x.p) /\ x.n = k /\ x.e = l[k]
               /\ x.p = IF k = 1 THEN 0 ELSE l[k - 1].term
  BY <1>1, <1>2 DEF IsLinkAt
<1>4. ASSUME NEW x \in LogLinks(l)
      PROVE  /\ x = Link(x.n, x.e, x.p) /\ x.n \in 1..Len(l) /\ x.e = l[x.n]
             /\ x.p = IF x.n = 1 THEN 0 ELSE l[x.n - 1].term
  <2>1. PICK k \in 1..Len(l) : IsLinkAt(x, k, 0, 0, l)
    BY <1>2
  <2>2. x.n = k /\ 0 + k = k
    BY <1>1, <2>1 DEF IsLinkAt
  <2> QED
    BY <2>1, <2>2 DEF IsLinkAt
<1> QED
  BY <1>3, <1>4

\* An entry of a log is an entry.
LEMMA EntryAt ==
    ASSUME NEW l \in Seq(Entry), NEW k \in 1..Len(l)
    PROVE  /\ l[k] \in Entry /\ l[k].term \in Nat /\ l[k].index \in Nat
<1>1. l[k] \in Entry
  BY ElementOfSeq
<1> QED
  BY <1>1 DEF Entry

\* Two logs that agree on the term of an entry agree on all up to it.
LEMMA ChainsMatch ==
    ASSUME NEW L, LinksUnique(L), NEW l \in Seq(Entry), NEW r \in Seq(Entry),
           LogLinks(l) \subseteq L, LogLinks(r) \subseteq L,
           NEW n \in Nat, NEW t, Holds(l, n, t), Holds(r, n, t)
    PROVE  \A k \in 1..n : l[k] = r[k]
<1> DEFINE D == {k \in 1..n : l[k] # r[k]}
<1> SUFFICES ASSUME D # {} PROVE FALSE
  OBVIOUS
<1>1. Len(l) \in Nat /\ Len(r) \in Nat /\ n \in 1..Len(l) /\ n \in 1..Len(r)
  BY DEF Holds, Has
<1>2. PICK k \in D : \A j \in D : k >= j
  <2>1. D \subseteq 0..n
    OBVIOUS
  <2> QED
    BY <2>1, MaxOfBounded
<1>3. k \in 1..n /\ k \in 1..Len(l) /\ k \in 1..Len(r) /\ l[k] # r[k]
  BY <1>1, <1>2
<1> HIDE DEF D
<1>4. ASSUME NEW j \in 1..n, l[j].term = r[j].term
      PROVE  l[j] = r[j] /\ (j > 1 => l[j - 1].term = r[j - 1].term)
  <2>1. j \in 1..Len(l) /\ j \in 1..Len(r)
    BY <1>1
  <2>2. PICK x \in LogLinks(l) : /\ x.n = j /\ x.e = l[j]
                                 /\ x.p = IF j = 1 THEN 0 ELSE l[j - 1].term
    BY <2>1, LogLinkAt
  <2>3. PICK y \in LogLinks(r) : /\ y.n = j /\ y.e = r[j]
                                 /\ y.p = IF j = 1 THEN 0 ELSE r[j - 1].term
    BY <2>1, LogLinkAt
  <2>4. x.e = y.e /\ x.p = y.p
    BY <1>4, <2>2, <2>3 DEF LinksUnique
  <2> QED
    BY <2>2, <2>3, <2>4
<1>5. CASE k = n
  BY <1>1, <1>3, <1>4, <1>5 DEF Holds
<1>6. CASE k < n
  <2>1. k + 1 \in 1..n /\ k + 1 > 1 /\ (k + 1) - 1 = k /\ ~(k >= k + 1)
    BY <1>3, <1>6
  <2>2. l[k + 1] = r[k + 1]
    BY <1>2, <2>1 DEF D
  <2>3. l[k].term = r[k].term
    BY <1>4, <2>1, <2>2
  <2> QED
    BY <1>3, <1>4, <2>3
<1> QED
  BY <1>3, <1>5, <1>6

\* Terms do not decrease along a log.
LEMMA TermsMonotone ==
    ASSUME NEW L, LinksOrdered(L), NEW l \in Seq(Entry), LogLinks(l) \subseteq L,
           NEW n \in Nat, NEW t \in Nat, Holds(l, n, t)
    PROVE  \A k \in n..Len(l) : l[k].term >= t
<1> DEFINE D == {k \in n..Len(l) : ~(l[k].term >= t)}
<1> SUFFICES ASSUME D # {} PROVE FALSE
  OBVIOUS
<1>1. Len(l) \in Nat /\ n \in 1..Len(l) /\ l[n].term = t
  BY DEF Holds, Has
<1>2. PICK k \in D : \A j \in D : k <= j
  <2>1. D \subseteq Nat
    OBVIOUS
  <2> QED
    BY <2>1, MinOfNats
<1>3. k \in n..Len(l) /\ k \in 1..Len(l) /\ ~(l[k].term >= t)
  BY <1>1, <1>2
<1>4. k # n
  BY <1>1, <1>3
<1>5. k - 1 \in n..Len(l) /\ k - 1 \in 1..Len(l) /\ ~(k <= k - 1) /\ k # 1
  BY <1>1, <1>3, <1>4
<1>6. l[k - 1].term >= t
  BY <1>2, <1>5
<1> HIDE DEF D
<1>7. PICK x \in LogLinks(l) : /\ x.n = k /\ x.e = l[k]
                               /\ x.p = IF k = 1 THEN 0 ELSE l[k - 1].term
  BY <1>3, LogLinkAt
<1>8. l[k - 1].term <= l[k].term
  BY <1>5, <1>7 DEF LinksOrdered
<1>9. l[k].term \in Nat /\ l[k - 1].term \in Nat
  BY <1>3, <1>5, EntryAt
<1> QED
  BY <1>3, <1>6, <1>8, <1>9

\* A log that has an entry of term t at n or later has the one at n, if there
\* is one anywhere: the entries of a term are consecutive.
LEMMA RunDescent ==
    ASSUME NEW L, LinksRun(L), NEW l \in Seq(Entry), LogLinks(l) \subseteq L,
           NEW y \in L, y.n \in Nat \ {0},
           NEW E \in Nat, Holds(l, E, y.e.term), y.n <= E
    PROVE  Holds(l, y.n, y.e.term)
<1> DEFINE n == y.n
           t == y.e.term
           D == {k \in n..E : l[k].term # t}
<1>1. Len(l) \in Nat /\ E \in 1..Len(l) /\ l[E].term = t
  BY DEF Holds, Has
<1> SUFFICES ASSUME D # {} PROVE FALSE
  <2>1. n \in n..E /\ n \in 1..Len(l)
    BY <1>1
  <2> QED
    BY <2>1 DEF Holds, Has
<1>2. PICK k \in D : \A j \in D : k >= j
  <2>1. D \subseteq 0..E
    OBVIOUS
  <2> QED
    BY <2>1, MaxOfBounded
<1>3. k \in n..E /\ l[k].term # t
  BY <1>2
<1>4. /\ k + 1 \in n..E /\ k + 1 \in 1..Len(l) /\ ~(k >= k + 1)
      /\ n < k + 1 /\ k + 1 # 1 /\ (k + 1) - 1 = k
  BY <1>1, <1>3
<1>5. l[k + 1].term = t
  BY <1>2, <1>4
<1> HIDE DEF D
<1>6. PICK x \in LogLinks(l) :
          /\ x.n = k + 1 /\ x.e = l[k + 1]
          /\ x.p = IF k + 1 = 1 THEN 0 ELSE l[(k + 1) - 1].term
  BY <1>4, LogLinkAt
<1>7. x.p = t
  BY <1>4, <1>5, <1>6 DEF LinksRun
<1> QED
  BY <1>3, <1>4, <1>6, <1>7

\* A log that has an entry of a term after t has the entry of term t at n, if
\* every such entry is carried on top of it.
LEMMA CarryDescent ==
    ASSUME NEW L, LinksRun(L), NEW l \in Seq(Entry), LogLinks(l) \subseteq L,
           NEW y \in L, y.n \in Nat \ {0}, y.e.term \in Nat,
           CarriedIn(L, y.n, y.e.term),
           NEW E \in Nat, NEW u \in Nat, Holds(l, E, u), u > y.e.term
    PROVE  Holds(l, y.n, y.e.term) /\ y.n < E
<1> DEFINE n == y.n
           t == y.e.term
           D == {k \in 1..Len(l) : l[k].term > t}
<1>1. Len(l) \in Nat /\ E \in 1..Len(l) /\ l[E].term = u
  BY DEF Holds, Has
<1>2. E \in D
  BY <1>1
<1>3. PICK k \in D : \A j \in D : k <= j
  <2>1. D \subseteq Nat
    OBVIOUS
  <2>2. D # {}
    BY <1>2
  <2> HIDE DEF D
  <2> QED
    BY <2>1, <2>2, MinOfNats
<1>4. k \in 1..Len(l) /\ l[k].term > t /\ k <= E
  BY <1>2, <1>3
<1>5. PICK x \in LogLinks(l) : /\ x.n = k /\ x.e = l[k]
                               /\ x.p = IF k = 1 THEN 0 ELSE l[k - 1].term
  BY <1>4, LogLinkAt
<1>6. k > n /\ x.p >= t
  BY <1>4, <1>5 DEF CarriedIn
<1>7. k # 1 /\ k - 1 \in 1..Len(l) /\ k - 1 \in Nat /\ ~(k <= k - 1) /\ n <= k - 1
  BY <1>1, <1>4, <1>6
<1>8. ~(l[k - 1].term > t)
  BY <1>3, <1>7
<1> HIDE DEF D
<1>9. l[k - 1].term = t
  <2>1. l[k - 1].term \in Nat
    BY <1>7, EntryAt
  <2> QED
    BY <1>5, <1>6, <1>7, <1>8, <2>1
<1>10. Holds(l, k - 1, t)
  BY <1>7, <1>9 DEF Holds, Has
<1>11. Holds(l, n, t)
  BY <1>7, <1>10, RunDescent
<1> QED
  BY <1>1, <1>4, <1>6, <1>11

-----------------------------------------------------------------------------
(* Merging a request into a log *)

\* What Merge returns: the log itself when it has every entry, else the log up
\* to the first entry it lacks, and the entries of the request from there.
LEMMA MergeShape ==
    ASSUME NEW l \in Seq(Entry), NEW prev \in Nat, NEW es \in Seq(Entry),
           prev <= Len(l)
    PROVE  \/ /\ Merge(l, prev, es) = l
              /\ \A j \in 1..Len(es) :
                    prev + j \in 1..Len(l) /\ l[prev + j].term = es[j].term
           \/ \E k \in 1..Len(es) :
                /\ prev + k - 1 <= Len(l)
                /\ ~Holds(l, prev + k, es[k].term)
                /\ k # 1 => l[prev + (k - 1)].term = es[k - 1].term
                /\ Len(Merge(l, prev, es)) = prev + Len(es)
                /\ \A n \in 1..(prev + k - 1) : Merge(l, prev, es)[n] = l[n]
                /\ \A j \in k..Len(es) : Merge(l, prev, es)[prev + j] = es[j]
<1> DEFINE N == NewEntries(l, prev, es)
<1>0. Len(l) \in Nat /\ Len(es) \in Nat
  OBVIOUS
<1>1. CASE N = {}
  BY <1>1 DEF Merge, NewEntries, Has
<1>2. CASE N # {}
  <2>1. PICK k \in N : k = Min(N) /\ \A j \in N : k <= j
    <3>1. N \subseteq Nat
      BY DEF NewEntries
    <3> HIDE DEF N
    <3> QED
      BY <1>2, <3>1, MinOfNats
  <2>2. k \in 1..Len(es) /\ ~Holds(l, prev + k, es[k].term)
    BY DEF NewEntries, Holds
  <2>3. /\ prev + k - 1 <= Len(l)
        /\ k # 1 => l[prev + (k - 1)].term = es[k - 1].term
    <3>1. CASE k = 1
      BY <1>0, <3>1
    <3>2. CASE k # 1
      <4>1. k - 1 \in 1..Len(es) /\ ~(k <= k - 1)
        BY <1>0, <2>2, <3>2
      <4>2. k - 1 \notin N
        BY <2>1, <4>1
      <4>3. /\ prev + (k - 1) \in 1..Len(l)
            /\ l[prev + (k - 1)].term = es[k - 1].term
        BY <4>1, <4>2 DEF NewEntries, Has
      <4> QED
        BY <1>0, <2>2, <4>3
    <3> QED
      BY <3>1, <3>2
  <2>p. prev + k \in Nat /\ k \in Nat
    BY <2>2
  <2> DEFINE a == Truncate(l, prev + k)
             b == SubSeq(es, k, Len(es))
  <2>4. Merge(l, prev, es) = a \o b
    BY <1>2, <2>1 DEF Merge
  <2> HIDE DEF N
  <2>5. /\ a \in Seq(Entry) /\ Len(a) = prev + k - 1
        /\ \A n \in 1..(prev + k - 1) : a[n] = l[n]
    <3>1. CASE Has(l, prev + k)
      <4> DEFINE w == prev + k - 1
      <4>1. a = SubSeq(l, 1, w)
        BY <2>p, <3>1 DEF Truncate
      <4>2. \A n \in 1..w : l[n] \in Entry
        BY <1>0, <2>2, <2>3
      <4>3. w \in Nat
        BY <2>2
      <4> HIDE DEF w, a
      <4>4. /\ a \in Seq(Entry)
            /\ Len(a) = IF 1 <= w THEN w - 1 + 1 ELSE 0
            /\ \A n \in 1 .. w - 1 + 1 : a[n] = l[1 + n - 1]
        BY <4>1, <4>2, <4>3, SubSeqProperties
      <4>5. a \in Seq(Entry) /\ Len(a) = w /\ \A n \in 1..w : a[n] = l[n]
        BY <4>3, <4>4
      <4> QED
        BY <4>5 DEF w
    <3>2. CASE ~Has(l, prev + k)
      <4>1. a = l
        BY <3>2 DEF Truncate
      <4>2. Len(l) = prev + k - 1
        BY <1>0, <2>2, <2>3, <3>2 DEF Has
      <4> HIDE DEF a
      <4> QED
        BY <4>1, <4>2
    <3> QED
      BY <3>1, <3>2
  <2>6. /\ b \in Seq(Entry) /\ Len(b) = Len(es) - k + 1
        /\ \A i \in 1..(Len(es) - k + 1) : b[i] = es[k + i - 1]
    BY <1>0, <2>2, SubSeqProperties
  <2> HIDE DEF a, b
  <2>7. /\ Len(a \o b) = Len(a) + Len(b)
        /\ \A i \in 1 .. Len(a) + Len(b) :
              (a \o b)[i] = IF i <= Len(a) THEN a[i] ELSE b[i - Len(a)]
    BY <2>5, <2>6, ConcatProperties
  <2>8. Len(a \o b) = prev + Len(es)
    BY <1>0, <2>2, <2>5, <2>6, <2>7
  <2>9. \A n \in 1..(prev + k - 1) : (a \o b)[n] = l[n]
    BY <1>0, <2>2, <2>5, <2>6, <2>7
  <2>10. ASSUME NEW j \in k..Len(es)
         PROVE  (a \o b)[prev + j] = es[j]
    <3>1. prev + j \in 1 .. Len(a) + Len(b) /\ ~(prev + j <= Len(a))
      BY <1>0, <2>2, <2>5, <2>6
    <3>2. prev + j - Len(a) = j - k + 1 /\ j - k + 1 \in 1..(Len(es) - k + 1)
      BY <1>0, <2>2, <2>5
    <3>3. k + (j - k + 1) - 1 = j
      BY <2>2
    <3> QED
      BY <2>6, <2>7, <3>1, <3>2, <3>3
  <2> QED
    BY <2>2, <2>3, <2>4, <2>8, <2>9, <2>10
<1> QED
  BY <1>1, <1>2

\* A request's fields have their types.
LEMMA ReqFields ==
    ASSUME NEW m \in AppReq
    PROVE  /\ m.from \in Server /\ m.to \in Server /\ m.call \in Call
           /\ m.term \in Nat /\ m.prevLogIndex \in Nat /\ m.prevLogTerm \in Nat
           /\ m.entries \in Seq(Entry) /\ m.leaderCommit \in Nat
           /\ Len(m.entries) \in Nat /\ ReqEnd(m) \in Nat
<1>1. /\ m.from \in Server /\ m.to \in Server /\ m.call \in Call
      /\ m.term \in Nat /\ m.prevLogIndex \in Nat /\ m.prevLogTerm \in Nat
      /\ m.entries \in Seq(Entry) /\ m.leaderCommit \in Nat
  BY DEF AppReq
<1> QED
  BY <1>1 DEF ReqEnd

\* The links of the merged log were in the log or in the request: the check of
\* prevLogTerm is what makes the first new entry hang on the right one.
LEMMA MergeLinks ==
    ASSUME NEW l \in Seq(Entry), NEW m \in AppReq, PrevMatches(l, m),
           m.prevLogIndex = 0 => m.prevLogTerm = 0
    PROVE  LogLinks(Merge(l, m.prevLogIndex, m.entries))
               \subseteq LogLinks(l) \cup ReqLinks(m)
<1> DEFINE prev == m.prevLogIndex
           es == m.entries
           r == Merge(l, prev, es)
<1>1. /\ prev \in Nat /\ es \in Seq(Entry) /\ m.prevLogTerm \in Nat
      /\ Len(es) \in Nat /\ Len(l) \in Nat
  BY ReqFields
<1>2. prev <= Len(l) /\ r \in Seq(Entry)
  BY <1>1, MergeType DEF PrevMatches, Has
<1> SUFFICES ASSUME NEW x \in LogLinks(r), r # l
             PROVE  x \in LogLinks(l) \cup ReqLinks(m)
  OBVIOUS
<1>3. PICK k \in 1..Len(es) :
         /\ prev + k - 1 <= Len(l)
         /\ k # 1 => l[prev + (k - 1)].term = es[k - 1].term
         /\ Len(r) = prev + Len(es)
         /\ \A n \in 1..(prev + k - 1) : r[n] = l[n]
         /\ \A j \in k..Len(es) : r[prev + j] = es[j]
  BY <1>1, <1>2, MergeShape, ZenonT(60)
<1>4. /\ x = Link(x.n, x.e, x.p) /\ x.n \in 1..Len(r) /\ x.e = r[x.n]
      /\ x.p = IF x.n = 1 THEN 0 ELSE r[x.n - 1].term
  BY <1>2, LogLinkAt
<1> HIDE DEF r
<1>5. CASE x.n < prev + k
  <2>1. x.n \in 1..Len(l) /\ x.n \in 1..(prev + k - 1)
        /\ (x.n # 1 => x.n - 1 \in 1..(prev + k - 1))
    BY <1>1, <1>3, <1>4, <1>5, SMTT(30)
  <2>2. x.e = l[x.n] /\ x.p = IF x.n = 1 THEN 0 ELSE l[x.n - 1].term
    BY <1>3, <1>4, <2>1
  <2>3. PICK y \in LogLinks(l) :
            /\ y = Link(x.n, y.e, y.p) /\ y.e = l[x.n]
            /\ y.p = IF x.n = 1 THEN 0 ELSE l[x.n - 1].term
    BY <2>1, LogLinkAt
  <2>4. x = y
    BY <1>4, <2>2, <2>3
  <2> QED
    BY <2>4
<1>6. CASE x.n >= prev + k
  <2> DEFINE j == x.n - prev
  <2>1. /\ j \in k..Len(es) /\ j \in 1..Len(es) /\ x.n = prev + j
        /\ x.n - 1 = prev + (j - 1)
    <3>1. x.n \in Nat /\ x.n <= prev + Len(es) /\ k \in Nat /\ k >= 1
      BY <1>1, <1>3, <1>4
    <3> QED
      BY <1>1, <1>6, <3>1
  <2> HIDE DEF j
  <2>2. x.e = es[j]
    BY <1>3, <1>4, <2>1
  <2>3. x.p = IF j = 1 THEN m.prevLogTerm ELSE es[j - 1].term
    <3>1. CASE j = 1 /\ prev = 0
      BY <1>4, <2>1, <3>1
    <3>2. CASE j = 1 /\ prev # 0
      <4>1. k = 1 /\ x.n - 1 = prev /\ x.n # 1 /\ prev \in 1..(prev + k - 1)
        BY <1>1, <2>1, <3>2
      <4>2. r[prev] = l[prev] /\ l[prev].term = m.prevLogTerm
        BY <1>1, <1>3, <3>2, <4>1 DEF PrevMatches
      <4> QED
        BY <1>4, <3>2, <4>1, <4>2
    <3>3. CASE j # 1 /\ j > k
      <4>1. j - 1 \in k..Len(es) /\ x.n # 1
        BY <1>1, <1>3, <2>1, <3>3
      <4>2. r[x.n - 1] = es[j - 1]
        BY <1>3, <2>1, <4>1
      <4> QED
        BY <1>4, <3>3, <4>1, <4>2
    <3>4. CASE j # 1 /\ j = k
      <4>1. /\ j - 1 \in 1..Len(es) /\ x.n # 1
            /\ x.n - 1 \in 1..(prev + k - 1)
        BY <1>1, <1>3, <2>1, <3>4, SMTT(30)
      <4>2. r[x.n - 1] = l[prev + (j - 1)]
        BY <1>3, <2>1, <4>1
      <4>3. l[prev + (j - 1)].term = es[j - 1].term
        BY <1>3, <3>4
      <4> QED
        BY <1>4, <3>4, <4>1, <4>2, <4>3
    <3> QED
      BY <1>3, <2>1, <3>1, <3>2, <3>3, <3>4
  <2>4. PICK y \in ReqLinks(m) :
            /\ y = Link(prev + j, y.e, y.p) /\ y.e = es[j]
            /\ y.p = IF j = 1 THEN m.prevLogTerm ELSE es[j - 1].term
    <3>1. \A i \in 1..Len(es) :
             \E y \in ChainLinks(prev, m.prevLogTerm, es) :
                 IsLinkAt(y, i, prev, m.prevLogTerm, es)
      <4>1. prev \in Nat /\ m.prevLogTerm \in Nat /\ es \in Seq(Entry)
        BY <1>1
      <4> HIDE DEF prev, es
      <4> QED
        BY <4>1, LinkAt
    <3>2. PICK y \in ReqLinks(m) : IsLinkAt(y, j, prev, m.prevLogTerm, es)
      BY <2>1, <3>1 DEF ReqLinks
    <3> QED
      BY <3>2 DEF IsLinkAt
  <2>5. x = y
    BY <1>4, <2>1, <2>2, <2>3, <2>4
  <2> QED
    BY <2>5
<1> QED
  BY <1>1, <1>3, <1>4, <1>5, <1>6

\* The merged log reaches the end of the request and holds its last entry.
LEMMA MergeReaches ==
    ASSUME NEW l \in Seq(Entry), NEW m \in AppReq, PrevMatches(l, m),
           ReqEndsInTerm(m)
    PROVE  LET r == Merge(l, m.prevLogIndex, m.entries)
           IN  /\ r \in Seq(Entry)
               /\ Holds(r, ReqEnd(m), m.term)
               /\ r = l \/ Len(r) = ReqEnd(m)
<1> DEFINE prev == m.prevLogIndex
           es == m.entries
           r == Merge(l, prev, es)
<1>1. /\ prev \in Nat /\ es \in Seq(Entry) /\ Len(es) \in Nat /\ Len(l) \in Nat
      /\ ReqEnd(m) = prev + Len(es)
  BY ReqFields DEF ReqEnd
<1>2. prev <= Len(l) /\ r \in Seq(Entry)
  BY <1>1, MergeType DEF PrevMatches, Has
<1>3. CASE es = <<>>
  <2>1. Len(es) = 0 /\ r = l
    <3>1. Len(es) = 0
      BY <1>3
    <3>2. NewEntries(l, prev, es) = {}
      BY <3>1 DEF NewEntries
    <3> QED
      BY <3>1, <3>2 DEF Merge
  <2>2. Holds(l, prev, m.term)
    BY <1>1, <1>3 DEF PrevMatches, ReqEndsInTerm, Holds
  <2> QED
    BY <1>1, <1>2, <2>1, <2>2
<1>4. CASE es # <<>>
  <2>1. Len(es) \in 1..Len(es) /\ es[Len(es)].term = m.term
    <3>1. Len(es) # 0
      BY <1>1, <1>4
    <3> QED
      BY <1>1, <1>4, <3>1 DEF ReqEndsInTerm
  <2>2. CASE /\ r = l
             /\ \A j \in 1..Len(es) :
                  prev + j \in 1..Len(l) /\ l[prev + j].term = es[j].term
    BY <1>1, <1>2, <2>1, <2>2 DEF Holds, Has
  <2>3. CASE \E k \in 1..Len(es) :
               /\ Len(r) = prev + Len(es)
               /\ \A j \in k..Len(es) : r[prev + j] = es[j]
    <3>1. PICK k \in 1..Len(es) :
               /\ Len(r) = prev + Len(es)
               /\ \A j \in k..Len(es) : r[prev + j] = es[j]
      BY <2>3
    <3>2. Len(es) \in k..Len(es) /\ prev + Len(es) \in 1..Len(r)
      BY <1>1, <2>1, <3>1
    <3> QED
      BY <1>1, <1>2, <2>1, <3>1, <3>2 DEF Holds, Has
  <2> QED
    BY <1>1, <1>2, <2>2, <2>3, MergeShape, ZenonT(60)
<1> QED
  BY <1>3, <1>4

\* An entry of the request's own term is never removed, and a request that
\* ends at or before one changes nothing: a late request is harmless.
LEMMA MergeKeeps ==
    ASSUME NEW L, LinksUnique(L), LinksRun(L),
           NEW l \in Seq(Entry), LogLinks(l) \subseteq L,
           NEW m \in AppReq, ReqLinks(m) \subseteq L, PrevMatches(l, m),
           m.prevLogIndex = 0 => m.prevLogTerm = 0, ReqEndsInTerm(m),
           NEW n \in Nat, Holds(l, n, m.term)
    PROVE  LET r == Merge(l, m.prevLogIndex, m.entries)
           IN  /\ Holds(r, n, m.term)
               /\ ReqEnd(m) <= n => r = l
<1> DEFINE prev == m.prevLogIndex
           es == m.entries
           r == Merge(l, prev, es)
           E == ReqEnd(m)
<1>1. /\ prev \in Nat /\ es \in Seq(Entry) /\ Len(es) \in Nat /\ Len(l) \in Nat
      /\ E = prev + Len(es) /\ m.term \in Nat /\ E \in Nat
  BY ReqFields DEF ReqEnd
<1>2. /\ r \in Seq(Entry) /\ Holds(r, E, m.term)
      /\ r = l \/ Len(r) = E
  BY MergeReaches
<1>3. LogLinks(r) \subseteq L
  BY MergeLinks
<1>4. n \in 1..Len(l) /\ l[n].term = m.term /\ E \in 1..Len(r) /\ r[E].term = m.term
  BY <1>2 DEF Holds, Has
<1>5. CASE n < E
  <2>1. PICK y \in LogLinks(l) : y.n = n /\ y.e = l[n]
    BY <1>4, LogLinkAt
  <2>2. Holds(r, y.n, y.e.term)
    <3>1. y \in L /\ y.n \in Nat \ {0} /\ Holds(r, E, y.e.term) /\ y.n <= E
      BY <1>1, <1>2, <1>4, <1>5, <2>1
    <3> HIDE DEF r, E
    <3> QED
      BY <1>1, <1>2, <1>3, <3>1, RunDescent
  <2> QED
    BY <1>1, <1>4, <1>5, <2>1, <2>2
<1>6. CASE E <= n
  <2> SUFFICES ASSUME r # l PROVE FALSE
    BY <1>6
  <2>1. prev <= Len(l)
    BY <1>1 DEF PrevMatches, Has
  <2>2. PICK k \in 1..Len(es) :
           /\ ~Holds(l, prev + k, es[k].term)
           /\ \A j \in k..Len(es) : r[prev + j] = es[j]
    BY <1>1, <2>1, MergeShape, ZenonT(60)
  <2>3. PICK y \in LogLinks(r) : y.n = E /\ y.e = r[E]
    <3> HIDE DEF r, E
    <3> QED
      BY <1>2, <1>4, LogLinkAt
  <2>4. Holds(l, E, m.term)
    <3>1. y \in L /\ y.n \in Nat \ {0} /\ Holds(l, n, y.e.term) /\ y.n <= n
      BY <1>1, <1>3, <1>4, <1>6, <2>3
    <3> HIDE DEF r, E
    <3>2. Holds(l, y.n, y.e.term)
      BY <3>1, RunDescent
    <3> QED
      BY <1>4, <2>3, <3>2
  <2>5. \A j \in 1..E : l[j] = r[j]
    <3> HIDE DEF r, E
    <3> QED
      BY <1>1, <1>2, <1>3, <2>4, ChainsMatch
  <2>6. prev + k \in 1..E /\ k \in k..Len(es)
    BY <1>1, <2>2
  <2>7. l[prev + k] = es[k]
    BY <2>2, <2>5, <2>6
  <2>8. prev + k \in 1..Len(l)
    BY <1>1, <1>4, <1>6, <2>6
  <2> QED
    BY <2>2, <2>7, <2>8 DEF Holds, Has
<1> QED
  BY <1>1, <1>5, <1>6


-----------------------------------------------------------------------------
(* The winner of a term *)

\* Two majorities share a node.
LEMMA MajoritiesMeet ==
    ASSUME NEW Q \in SUBSET Server, NEW R \in SUBSET Server,
           Majority(Q), Majority(R)
    PROVE  \E q \in Server : q \in Q /\ q \in R
<1>1. /\ Cardinality(Server) \in Nat
      /\ Cardinality(Q) \in Nat /\ Cardinality(R) \in Nat
  BY ServerAssumption, FS_CardinalityType, FS_Subset
<1>2. Cardinality(Q) + Cardinality(R) > Cardinality(Server)
  BY <1>1 DEF Majority
<1> QED
  BY <1>2, ServerAssumption, FS_MajoritiesIntersect

\* A ballot is remembered, in every term.
LEMMA BallotFacts ==
    ASSUME TypeInv, ElectionInv, NEW j \in Server, NEW c \in Server, NEW t,
           Ballot(j, t, c)
    PROVE  /\ t \in Nat /\ t <= currentTerm[j]
           /\ t = currentTerm[j] => votedFor[j] = c
           /\ \A d \in Server : Ballot(j, t, d) => d = c
<1>1. t \in BallotTerms
  BY BallotTermsCover
<1>2. BallotTerms \subseteq Nat
  BY DEF BallotTerms, TypeInv, TypeOK, VoteRep
<1> QED
  BY <1>1, <1>2 DEF ElectionInv, BallotsRemembered, BallotsUnique

\* A node whose ballots make a majority is the only one that can have won.
LEMMA OnlyWinner ==
    ASSUME TypeInv, ElectionInv, NEW i \in Server, NEW V \in SUBSET Server,
           Majority(V), NEW t, \A v \in V : Ballot(v, t, i),
           NEW c \in Server, Won(c, t)
    PROVE  c = i
<1>1. PICK Q \in SUBSET Server :
         Majority(Q) /\ \A q \in Q : \A d \in Server : Ballot(q, t, d) => d = c
  BY DEF Won
<1>2. PICK q \in Server : q \in Q /\ q \in V
  BY <1>1, MajoritiesMeet
<1> QED
  BY <1>1, <1>2

\* The ballots of a leader.
LEMMA LeaderBallots ==
    ASSUME TypeInv, ElectionInv, NEW i \in Server, state[i] = Leader
    PROVE  /\ votes[i] \in SUBSET Server /\ Majority(votes[i])
           /\ \A v \in votes[i] : Ballot(v, currentTerm[i], i)
<1>1. votes[i] \in SUBSET Server
  BY DEF TypeInv, TypeOK
<1>2. Majority(votes[i])
  BY DEF ElectionInv, LeaderElected
<1>3. \A v \in votes[i] : Ballot(v, currentTerm[i], i)
  BY DEF Ballot
<1> QED
  BY <1>1, <1>2, <1>3

\* A leader has won its term, and nobody else has.
LEMMA LeaderWon ==
    ASSUME TypeInv, ElectionInv, NEW i \in Server, state[i] = Leader
    PROVE  /\ Won(i, currentTerm[i])
           /\ \A c \in Server : Won(c, currentTerm[i]) => c = i
<1> DEFINE t == currentTerm[i]
           Q == votes[i]
<1>1. Q \in SUBSET Server /\ Majority(Q) /\ \A v \in Q : Ballot(v, t, i)
  BY LeaderBallots
<1>2. ASSUME NEW q \in Q
      PROVE  /\ currentTerm[q] > t \/ (currentTerm[q] = t /\ votedFor[q] = i)
             /\ \A d \in Server : Ballot(q, t, d) => d = i
  <2>1. q \in Server /\ Ballot(q, t, i)
    BY <1>1
  <2>2. /\ t \in Nat /\ t <= currentTerm[q]
        /\ t = currentTerm[q] => votedFor[q] = i
        /\ \A d \in Server : Ballot(q, t, d) => d = i
    <3> HIDE DEF t
    <3> QED
      BY <2>1, BallotFacts
  <2>3. currentTerm[q] \in Nat
    BY <2>1 DEF TypeInv, TypeOK
  <2> QED
    BY <2>2, <2>3
<1>3. Won(i, t)
  BY <1>1, <1>2 DEF Won
<1>4. \A c \in Server : Won(c, t) => c = i
  BY <1>1, OnlyWinner
<1> QED
  BY <1>3, <1>4

\* A leader leads until it moves to another term.
LeaderStands ==
    \A i \in Server : state[i] = Leader /\ currentTerm'[i] = currentTerm[i]
        => state'[i] = Leader

\* No node begins to lead.
NoNewLeader ==
    \A i \in Server : state'[i] = Leader
        => state[i] = Leader /\ currentTerm'[i] = currentTerm[i]

\* What any step does to the elections, as the log proofs need it.
RoleStep == ElectionStep /\ LeaderStands

\* A won election stays won.
LEMMA WonStable ==
    ASSUME TypeInv, TypeInv', RoleStep, NEW c \in Server, NEW t \in Nat,
           Won(c, t)
    PROVE  Won(c, t)'
<1>1. \A q \in Server : /\ currentTerm[q] \in Nat /\ currentTerm'[q] \in Nat
                        /\ currentTerm'[q] >= currentTerm[q]
  BY DEF TypeInv, TypeOK, RoleStep, ElectionStep, VotesStand
<1>2. currentTerm'[c] > t \/ (currentTerm'[c] = t /\ state'[c] = Leader)
  BY <1>1 DEF Won, RoleStep, LeaderStands
<1>3. PICK Q \in SUBSET Server :
         /\ Majority(Q)
         /\ \A q \in Q :
              /\ \/ currentTerm[q] > t
                 \/ currentTerm[q] = t /\ votedFor[q] = c
              /\ \A d \in Server : Ballot(q, t, d) => d = c
  BY DEF Won
<1>4. ASSUME NEW q \in Q
      PROVE  /\ \/ currentTerm'[q] > t
                \/ currentTerm'[q] = t /\ votedFor'[q] = c
             /\ \A d \in Server : Ballot(q, t, d)' => d = c
  <2>1. q \in Server /\ c # None
    BY <1>3, ServerAssumption
  <2>2. \/ currentTerm'[q] > t
        \/ currentTerm'[q] = t /\ currentTerm[q] = t /\ votedFor'[q] = c
    BY <1>1, <1>3, <2>1 DEF RoleStep, ElectionStep, VotesStand
  <2>3. ASSUME NEW d \in Server, Ballot(q, t, d)'
        PROVE  d = c
    <3>1. Ballot(q, t, d) \/ CastNow(q, t, d)
      BY <2>1, <2>3 DEF RoleStep, ElectionStep, NoForgedBallot
    <3>2. CASE CastNow(q, t, d)
      <4>1. currentTerm'[q] = t /\ votedFor'[q] = d
        BY <3>2 DEF CastNow
      <4>2. ~(currentTerm'[q] > t)
        BY <1>1, <2>1, <4>1
      <4> QED
        BY <2>2, <4>1, <4>2
    <3> QED
      BY <1>3, <3>1, <3>2
  <2> QED
    BY <2>2, <2>3
<1>5. Majority(Q)'
  BY <1>3 DEF Majority
<1> QED
  BY <1>2, <1>3, <1>4, <1>5 DEF Won

-----------------------------------------------------------------------------
(* The kinds of steps *)

\* No log grows and no request is sent; nobody begins to lead.
QuietLog == log' = log /\ appReqs' \subseteq appReqs /\ NoNewLeader

\* Leader i, old or new, appends a command; when it is new, its term has no
\* entry yet.
AppendStep(i, cmd) ==
    /\ log' = [log EXCEPT ![i] = Append(@, [index |-> LastIndex(@) + 1,
                                            term |-> currentTerm[i],
                                            command |-> cmd])]
    /\ currentTerm' = currentTerm /\ appReqs' = appReqs
    /\ state'[i] = Leader
    /\ \A j \in Server \ {i} : state'[j] = state[j]
    /\ \/ state[i] = Leader
       \/ \A x \in Links : x.e.term # currentTerm[i]

\* becomeFollower never makes a leader, and deposes one only for a new term.
LEMMA AdoptRole ==
    ASSUME TypeInv, NEW i \in Server, NEW t \in Nat, t > currentTerm[i],
           AdoptTerm(i, t)
    PROVE  LeaderStands /\ NoNewLeader
<1>1. currentTerm[i] \in Nat
  BY DEF TypeInv, TypeOK
<1>2. currentTerm'[i] = t /\ state'[i] = Follower /\ t # currentTerm[i]
  BY <1>1 DEF AdoptTerm, TypeInv, TypeOK
<1>3. \A j \in Server : j # i => /\ currentTerm'[j] = currentTerm[j]
                                /\ state'[j] = state[j]
  BY DEF AdoptTerm, TypeInv, TypeOK
<1> QED
  BY <1>2, <1>3 DEF LeaderStands, NoNewLeader, Follower, Leader

\* A step that leaves the roles alone.
LEMMA SameRole ==
    ASSUME currentTerm' = currentTerm, state' = state
    PROVE  LeaderStands /\ NoNewLeader
BY DEF LeaderStands, NoNewLeader

\* What AppendEntries does to the role of its receiver.
LEMMA AcceptRole ==
    ASSUME TypeInv, NEW m \in appReqs, AcceptLeader(m)
    PROVE  LeaderStands /\ NoNewLeader
<1>1. m.to \in Server /\ m.term \in Nat
  BY DEF TypeInv, TypeOK, AppReq
<1>2. CASE m.term > currentTerm[m.to]
  BY <1>1, <1>2, AdoptRole DEF AcceptLeader
<1>3. CASE ~(m.term > currentTerm[m.to])
  BY <1>3, SameRole DEF AcceptLeader, electionVars
<1> QED
  BY <1>2, <1>3

\* A node that gets the deciding vote has a majority of ballots: no other node
\* has won the term, so no entry is of that term.
LEMMA NewLeaderTerm ==
    ASSUME TypeInv, ElectionInv, LinksWon, NEW m \in voteReps, BecomeLeader(m)
    PROVE  /\ \A c \in Server : ~Won(c, currentTerm[m.to])
           /\ \A x \in Links : x.e.term # currentTerm[m.to]
           /\ votes[m.to] \cup {m.from} \in SUBSET Server
           /\ \A v \in votes[m.to] \cup {m.from} :
                 Ballot(v, currentTerm[m.to], m.to)
<1> DEFINE i == m.to
           V == votes[i] \cup {m.from}
           t == currentTerm[i]
<1>1. i \in Server /\ m.from \in Server
  BY DEF TypeInv, TypeOK, VoteRep
<1>2. V \in SUBSET Server /\ Majority(V)
  BY <1>1 DEF TypeInv, TypeOK, BecomeLeader
<1>3. state[i] = Candidate /\ t = m.reqTerm /\ m.voteGranted
  BY DEF BecomeLeader, VoteCurrent
<1>4. \A v \in V : Ballot(v, t, i)
  BY <1>3 DEF Ballot
<1>5. ASSUME NEW c \in Server, Won(c, t)
      PROVE  FALSE
  <2>1. c = i
    BY <1>1, <1>2, <1>4, <1>5, OnlyWinner
  <2>2. t \in Nat
    BY <1>1 DEF TypeInv, TypeOK
  <2> QED
    BY <1>3, <1>5, <2>1, <2>2 DEF Won, Candidate, Leader
<1> QED
  BY <1>2, <1>4, <1>5 DEF LinksWon

\* Every step of the program keeps leaders in their terms.
LEMMA NextRoleStep ==
    ASSUME TypeInv, ElectionInv, [Next]_vars
    PROVE  RoleStep
<1>1. ElectionStep
  BY NextIsElectionStep
<1> SUFFICES LeaderStands
  BY <1>1 DEF RoleStep
<1>2. ASSUME NEW i \in Server, StartElection(i)
      PROVE  LeaderStands
  BY <1>2 DEF StartElection, LeaderStands, TypeInv, TypeOK
<1>3. ASSUME NEW m \in voteReqs, HandleVoteReq(m)
      PROVE  LeaderStands
  <2>1. m.to \in Server /\ m.term \in Nat /\ currentTerm[m.to] \in Nat
    BY DEF TypeInv, TypeOK, VoteReq
  <2>2. CASE RequestVoteStale(m)
    BY <2>2, SameRole DEF RequestVoteStale, electionVars
  <2>3. CASE RequestVote(m)
    <3>1. /\ currentTerm' = [currentTerm EXCEPT ![m.to] = m.term]
          /\ state' = [state EXCEPT ![m.to] =
                          IF m.term > currentTerm[m.to] THEN Follower ELSE @]
          /\ m.term >= currentTerm[m.to]
      BY <2>3 DEF RequestVote
    <3> QED
      BY <2>1, <3>1, SMTT(30) DEF LeaderStands, TypeInv, TypeOK
  <2> QED
    BY <1>3, <2>2, <2>3 DEF HandleVoteReq
<1>4. ASSUME NEW m \in voteReps, HandleVoteRep(m)
      PROVE  LeaderStands
  <2>1. m.to \in Server /\ m.term \in Nat
    BY DEF TypeInv, TypeOK, VoteRep
  <2>2. CASE VoteReplyNewerTerm(m)
    BY <2>1, <2>2, AdoptRole DEF VoteReplyNewerTerm
  <2>3. CASE VoteReplyIgnored(m) \/ VoteReplyCounted(m)
    BY <2>3, SameRole DEF VoteReplyIgnored, VoteReplyCounted, electionVars
  <2>4. CASE BecomeLeader(m)
    BY <2>1, <2>4 DEF BecomeLeader, LeaderStands, TypeInv, TypeOK
  <2> QED
    BY <1>4, <2>2, <2>3, <2>4 DEF HandleVoteRep
<1>5. ASSUME NEW m \in appReqs, HandleAppReq(m)
      PROVE  LeaderStands
  <2>1. CASE AppendEntriesStale(m)
    BY <2>1, SameRole DEF AppendEntriesStale, electionVars
  <2>2. CASE AppendEntriesMismatch(m) \/ AppendEntries(m)
    BY <2>2, AcceptRole DEF AppendEntriesMismatch, AppendEntries
  <2> QED
    BY <1>5, <2>1, <2>2 DEF HandleAppReq
<1>6. ASSUME NEW m \in appReps, HandleAppRep(m)
      PROVE  LeaderStands
  <2>1. m.to \in Server /\ m.term \in Nat
    BY DEF TypeInv, TypeOK, AppRep
  <2>2. CASE AppendReplyNewerTerm(m)
    BY <2>1, <2>2, AdoptRole DEF AppendReplyNewerTerm
  <2>3. CASE AppendReplyIgnored(m) \/ AppendReplySuccess(m) \/ AppendReplyReject(m)
    BY <2>3, SameRole
       DEF AppendReplyIgnored, AppendReplySuccess, AppendReplyReject,
           electionVars
  <2> QED
    BY <1>6, <2>2, <2>3 DEF HandleAppRep
<1>7. ASSUME NEW i \in Server, NEW cmd \in Command, Start(i, cmd)
      PROVE  LeaderStands
  BY <1>7, SameRole DEF Start, electionVars
<1>8. ASSUME NEW i \in Server, NEW p \in Server, NEW k \in Call,
             SendAppendEntries(i, p, k)
      PROVE  LeaderStands
  BY <1>8, SameRole DEF SendAppendEntries, electionVars
<1>9. ASSUME NEW i \in Server, ApplyLoop(i)
      PROVE  LeaderStands
  BY <1>9, SameRole DEF ApplyLoop, electionVars
<1>10. CASE UNCHANGED vars
  BY <1>10, SameRole DEF vars, electionVars
<1> QED
  BY <1>2, <1>3, <1>4, <1>5, <1>6, <1>7, <1>8, <1>9, <1>10 DEF Next

\* Every step is of one of four kinds.
LEMMA StepKinds ==
    ASSUME TypeInv, ElectionInv, ChainInv, [Next]_vars
    PROVE  \/ QuietLog
           \/ \E i \in Server, cmd \in Command \cup {Noop} : AppendStep(i, cmd)
           \/ \E i \in Server : \E p \in Server \ {i}, k \in Call :
                  SendAppendEntries(i, p, k)
           \/ \E m \in appReqs : AppendEntries(m)
<1> DEFINE Goal == \/ QuietLog
                   \/ \E i \in Server, cmd \in Command \cup {Noop} :
                          AppendStep(i, cmd)
                   \/ \E i \in Server : \E p \in Server \ {i}, k \in Call :
                          SendAppendEntries(i, p, k)
                   \/ \E m \in appReqs : AppendEntries(m)
<1>1. ASSUME NEW i \in Server, StartElection(i)
      PROVE  Goal
  BY <1>1 DEF StartElection, QuietLog, NoNewLeader, TypeInv, TypeOK, logVars,
              appMsgs, Candidate, Leader
<1>2. ASSUME NEW m \in voteReqs, HandleVoteReq(m)
      PROVE  Goal
  <2>1. m.to \in Server /\ m.term \in Nat /\ currentTerm[m.to] \in Nat
    BY DEF TypeInv, TypeOK, VoteReq
  <2>2. CASE RequestVoteStale(m)
    BY <2>2, SameRole DEF RequestVoteStale, electionVars, QuietLog, logVars,
                          appMsgs
  <2>3. CASE RequestVote(m)
    <3>1. /\ currentTerm' = [currentTerm EXCEPT ![m.to] = m.term]
          /\ state' = [state EXCEPT ![m.to] =
                          IF m.term > currentTerm[m.to] THEN Follower ELSE @]
          /\ m.term >= currentTerm[m.to]
          /\ log' = log /\ appReqs' = appReqs
      BY <2>3 DEF RequestVote, logVars, appMsgs
    <3>2. NoNewLeader
      BY <2>1, <3>1, SMTT(30) DEF NoNewLeader, TypeInv, TypeOK, Follower, Leader
    <3> QED
      BY <3>1, <3>2 DEF QuietLog
  <2> QED
    BY <1>2, <2>2, <2>3 DEF HandleVoteReq
<1>3. ASSUME NEW m \in voteReps, HandleVoteRep(m)
      PROVE  Goal
  <2>1. m.to \in Server /\ m.term \in Nat
    BY DEF TypeInv, TypeOK, VoteRep
  <2>2. CASE VoteReplyNewerTerm(m)
    BY <2>1, <2>2, AdoptRole DEF VoteReplyNewerTerm, QuietLog, logVars, appMsgs
  <2>3. CASE VoteReplyIgnored(m) \/ VoteReplyCounted(m)
    BY <2>3, SameRole DEF VoteReplyIgnored, VoteReplyCounted, electionVars,
                          QuietLog, logVars, appMsgs
  <2>4. CASE BecomeLeader(m)
    <3>1. \A x \in Links : x.e.term # currentTerm[m.to]
      BY <2>4, NewLeaderTerm DEF ChainInv
    <3>2. AppendStep(m.to, Noop)
      BY <2>1, <2>4, <3>1 DEF BecomeLeader, AppendStep, TypeInv, TypeOK, appMsgs
    <3> QED
      BY <2>1, <3>2
  <2> QED
    BY <1>3, <2>2, <2>3, <2>4 DEF HandleVoteRep
<1>4. ASSUME NEW i \in Server, NEW cmd \in Command, Start(i, cmd)
      PROVE  Goal
  <2>1. AppendStep(i, cmd)
    BY <1>4 DEF Start, AppendStep, electionVars, appMsgs
  <2> QED
    BY <2>1
<1>5. ASSUME NEW m \in appReqs, HandleAppReq(m)
      PROVE  Goal
  <2>1. CASE AppendEntriesStale(m)
    BY <2>1, SameRole DEF AppendEntriesStale, electionVars, QuietLog, logVars,
                          ReplyAppend
  <2>2. CASE AppendEntriesMismatch(m)
    BY <2>2, AcceptRole DEF AppendEntriesMismatch, QuietLog, logVars,
                            ReplyAppend
  <2> QED
    BY <1>5, <2>1, <2>2 DEF HandleAppReq
<1>6. ASSUME NEW m \in appReps, HandleAppRep(m)
      PROVE  Goal
  <2>1. m.to \in Server /\ m.term \in Nat
    BY DEF TypeInv, TypeOK, AppRep
  <2>2. CASE AppendReplyNewerTerm(m)
    BY <2>1, <2>2, AdoptRole DEF AppendReplyNewerTerm, QuietLog, logVars
  <2>3. CASE AppendReplyIgnored(m) \/ AppendReplySuccess(m) \/ AppendReplyReject(m)
    BY <2>3, SameRole
       DEF AppendReplyIgnored, AppendReplySuccess, AppendReplyReject,
           electionVars, QuietLog, logVars
  <2> QED
    BY <1>6, <2>2, <2>3 DEF HandleAppRep
<1>7. ASSUME NEW i \in Server, ApplyLoop(i)
      PROVE  Goal
  BY <1>7, SameRole DEF ApplyLoop, electionVars, QuietLog, logVars, appMsgs
<1>8. CASE UNCHANGED vars
  BY <1>8, SameRole DEF vars, electionVars, QuietLog, logVars, appMsgs
<1> HIDE DEF Goal
<1>9. Goal
  BY <1>1, <1>2, <1>3, <1>4, <1>5, <1>6, <1>7, <1>8 DEF Next, Goal
<1> QED
  BY <1>9 DEF Goal

-----------------------------------------------------------------------------
(* Chains of entries, step by step *)

\* A smaller set of links is as good.
LEMMA LinksOKSubset ==
    ASSUME NEW L, LinksOK(L), NEW M, M \subseteq L
    PROVE  LinksOK(M)
BY DEF LinksOK, LinksOrdered, LinksUnique, LinksRun

\* Every link has its types.
LEMMA LinkTypes ==
    ASSUME TypeInv, NEW x \in Links
    PROVE  /\ x.n \in Nat \ {0} /\ x.e \in Entry /\ x.e.term \in Nat
           /\ x.p \in Nat
<1>1. CASE \E i \in Server : x \in LogLinks(log[i])
  <2>1. PICK i \in Server : x \in LogLinks(log[i])
    BY <1>1
  <2>2. log[i] \in Seq(Entry)
    BY DEF TypeInv, TypeOK
  <2>3. /\ x.n \in 1..Len(log[i]) /\ x.e = log[i][x.n]
        /\ x.p = IF x.n = 1 THEN 0 ELSE log[i][x.n - 1].term
    BY <2>1, <2>2, LogLinkAt
  <2>4. x.n \in Nat \ {0} /\ (x.n # 1 => x.n - 1 \in 1..Len(log[i]))
    BY <2>2, <2>3
  <2> QED
    BY <2>2, <2>3, <2>4, EntryAt
<1>2. CASE \E m \in appReqs : x \in ReqLinks(m)
  <2>1. PICK m \in appReqs : x \in ReqLinks(m)
    BY <1>2
  <2> DEFINE b == m.prevLogIndex
             bt == m.prevLogTerm
             es == m.entries
  <2>2. m \in AppReq
    BY DEF TypeInv, TypeOK
  <2>3. b \in Nat /\ bt \in Nat /\ es \in Seq(Entry)
    BY <2>2, ReqFields
  <2>4. x \in ChainLinks(b, bt, es)
    BY <2>1 DEF ReqLinks
  <2> HIDE DEF b, bt, es
  <2>5. PICK k \in 1..Len(es) :
               /\ x = Link(b + k, x.e, x.p)
               /\ x.n = b + k /\ x.e = es[k]
               /\ x.p = IF k = 1 THEN bt ELSE es[k - 1].term
    <3>1. \E k \in 1..Len(es) : IsLinkAt(x, k, b, bt, es)
      BY <2>3, <2>4, LinkAt
    <3> QED
      BY <3>1 DEF IsLinkAt
  <2>6. x.n \in Nat \ {0} /\ (k # 1 => k - 1 \in 1..Len(es))
    BY <2>3, <2>5
  <2> QED
    BY <2>3, <2>5, <2>6, EntryAt
<1>3. \/ \E i \in Server : x \in LogLinks(log[i])
      \/ \E m \in appReqs : x \in ReqLinks(m)
  <2>1. \/ x \in UNION {LogLinks(log[i]) : i \in Server}
        \/ x \in UNION {ReqLinks(m) : m \in appReqs}
    BY DEF Links
  <2> QED
    BY <2>1
<1> QED
  BY <1>1, <1>2, <1>3

\* A step that changes no log, sends no request and makes no leader.
LEMMA ChainQuiet ==
    ASSUME TypeInv, TypeInv', ChainInv, RoleStep, QuietLog
    PROVE  ChainInv'
<1>1. Links' \subseteq Links
  BY DEF Links, QuietLog
<1>2. LinksOK(Links)'
  <2>1. LinksOK(Links')
    BY <1>1, LinksOKSubset DEF ChainInv
  <2> QED
    BY <2>1 DEF LinksOK, LinksOrdered, LinksUnique, LinksRun
<1>3. LinksWon'
  BY <1>1, LinkTypes, WonStable DEF ChainInv, LinksWon
<1>4. LeaderHasTerm'
  BY <1>1 DEF ChainInv, LeaderHasTerm, QuietLog, NoNewLeader
<1>5. LogTerms'
  <2>1. \A i \in Server : /\ currentTerm[i] \in Nat /\ currentTerm'[i] \in Nat
                          /\ currentTerm'[i] >= currentTerm[i]
    BY DEF TypeInv, TypeOK, RoleStep, ElectionStep, VotesStand
  <2> SUFFICES ASSUME NEW i \in Server
               PROVE  /\ \A x \in LogLinks(log'[i]) : x.e.term <= currentTerm'[i]
                      /\ state'[i] = Leader
                           => Holds(log'[i], Len(log'[i]), currentTerm'[i])
    BY DEF LogTerms, LogLinks, ChainLinks, Link, Holds, Has
  <2>2. log'[i] = log[i]
    BY DEF QuietLog
  <2>3. \A x \in LogLinks(log[i]) : x.e.term <= currentTerm[i] /\ x \in Links
    BY DEF ChainInv, LogTerms, Links
  <2>4. \A x \in LogLinks(log[i]) : x.e.term <= currentTerm'[i]
    BY <2>1, <2>3, LinkTypes
  <2>5. state'[i] = Leader
            => Holds(log[i], Len(log[i]), currentTerm[i])
               /\ currentTerm'[i] = currentTerm[i]
    BY DEF ChainInv, LogTerms, QuietLog, NoNewLeader
  <2> QED
    BY <2>2, <2>4, <2>5
<1>6. ReqsOK'
  <2> SUFFICES ASSUME NEW m \in appReqs'
               PROVE  ReqOK(m)'
    BY DEF ReqsOK
  <2>1. m \in appReqs /\ ReqOK(m)
    BY DEF ChainInv, ReqsOK, QuietLog
  <2>2. m.from \in Server /\ m.term \in Nat
    BY <2>1 DEF TypeInv, TypeOK, AppReq
  <2>3. Won(m.from, m.term)'
    BY <2>1, <2>2, WonStable DEF ReqOK
  <2>4. state'[m.from] = Leader /\ currentTerm'[m.from] = m.term
           => Holds(log'[m.from], ReqEnd(m), m.term)
    BY <2>1, <2>2 DEF ReqOK, QuietLog, NoNewLeader
  <2> QED
    BY <2>1, <2>3, <2>4 DEF ReqOK, ReqEndsInTerm, Holds, Has, ReqEnd, ReqLinks,
                            ChainLinks, Link
<1> QED
  BY <1>2, <1>3, <1>4, <1>5, <1>6 DEF ChainInv

\* Every leader is the winner of its term, before and after a step.
LeadersWon ==
    \A i \in Server : state[i] = Leader =>
        /\ Won(i, currentTerm[i])
        /\ \A c \in Server : Won(c, currentTerm[i]) => c = i

\* It follows from the election invariant.
LEMMA LeadersWonNow == TypeInv /\ ElectionInv => LeadersWon
BY LeaderWon DEF LeadersWon

\* So it holds after a step that keeps the invariant.
LEMMA LeadersWonNext == TypeInv' /\ ElectionInv' => LeadersWon'
<1>1. (TypeInv /\ ElectionInv => LeadersWon)'
  BY LeadersWonNow, PTL
<1> QED
  BY <1>1

\* Appending an entry adds one link.
LEMMA AppendLinks ==
    ASSUME NEW l \in Seq(Entry), NEW e \in Entry
    PROVE  /\ LogLinks(Append(l, e))
                 \subseteq LogLinks(l) \cup {Link(Len(l) + 1, e, LastTerm(l))}
           /\ Append(l, e) \in Seq(Entry)
           /\ Len(Append(l, e)) = Len(l) + 1
           /\ \A n \in 1..Len(l) : Append(l, e)[n] = l[n]
           /\ \A n, t : Holds(l, n, t) => Holds(Append(l, e), n, t)
           /\ Holds(Append(l, e), Len(l) + 1, e.term)
<1> DEFINE r == Append(l, e)
<1>1. /\ r \in Seq(Entry) /\ Len(r) = Len(l) + 1 /\ Len(l) \in Nat
      /\ \A n \in 1..Len(l) : r[n] = l[n]
      /\ r[Len(l) + 1] = e
  BY AppendProperties
<1> HIDE DEF r
<1>2. ASSUME NEW x \in LogLinks(r)
      PROVE  x \in LogLinks(l) \cup {Link(Len(l) + 1, e, LastTerm(l))}
  <2>1. /\ x = Link(x.n, x.e, x.p) /\ x.n \in 1..Len(r) /\ x.e = r[x.n]
        /\ x.p = IF x.n = 1 THEN 0 ELSE r[x.n - 1].term
    BY <1>1, <1>2, LogLinkAt
  <2>2. CASE x.n \in 1..Len(l)
    <3>1. PICK y \in LogLinks(l) :
              /\ y = Link(x.n, y.e, y.p) /\ y.n = x.n /\ y.e = l[x.n]
              /\ y.p = IF x.n = 1 THEN 0 ELSE l[x.n - 1].term
      BY <2>2, LogLinkAt
    <3>2. x.n # 1 => x.n - 1 \in 1..Len(l)
      BY <1>1, <2>2
    <3>3. x.e = y.e /\ x.p = y.p
      BY <1>1, <2>1, <2>2, <3>1, <3>2
    <3> QED
      BY <2>1, <3>1, <3>3
  <2>3. CASE x.n = Len(l) + 1
    <3>1. x.p = LastTerm(l)
      <4>1. CASE l = <<>>
        BY <2>1, <2>3, <4>1 DEF LastTerm
      <4>2. CASE l # <<>>
        <5>1. Len(l) \in 1..Len(l) /\ x.n # 1 /\ x.n - 1 = Len(l)
          BY <1>1, <2>3, <4>2
        <5> QED
          BY <1>1, <2>1, <4>2, <5>1 DEF LastTerm
      <4> QED
        BY <4>1, <4>2
    <3> QED
      BY <1>1, <2>1, <2>3, <3>1
  <2> QED
    BY <1>1, <2>1, <2>2, <2>3
<1>3. \A n, t : Holds(l, n, t) => Holds(r, n, t)
  BY <1>1 DEF Holds, Has
<1>4. Holds(r, Len(l) + 1, e.term)
  BY <1>1 DEF Holds, Has
<1> QED
  BY <1>1, <1>2, <1>3, <1>4 DEF r

\* The term of the last entry of a log is the one its node has reached.
LEMMA LastTermBound ==
    ASSUME TypeInv, LogTerms, NEW i \in Server
    PROVE  /\ LastTerm(log[i]) \in Nat /\ LastTerm(log[i]) <= currentTerm[i]
           /\ \A t : Holds(log[i], Len(log[i]), t) => LastTerm(log[i]) = t
<1> DEFINE l == log[i]
<1>1. l \in Seq(Entry) /\ currentTerm[i] \in Nat
  BY DEF TypeInv, TypeOK
<1>2. CASE l = <<>>
  BY <1>1, <1>2 DEF LastTerm, Holds, Has
<1>3. CASE l # <<>>
  <2>1. Len(l) \in 1..Len(l)
    BY <1>1, <1>3
  <2>2. PICK x \in LogLinks(l) : x.e = l[Len(l)]
    BY <1>1, <2>1, LogLinkAt
  <2>3. l[Len(l)].term \in Nat /\ l[Len(l)].term <= currentTerm[i]
    BY <1>1, <2>1, <2>2, EntryAt DEF LogTerms
  <2> QED
    BY <1>3, <2>3 DEF LastTerm, Holds
<1> QED
  BY <1>2, <1>3

\* The link that leader i adds when it appends cmd.
AppendedLink(i, cmd) ==
    Link(Len(log[i]) + 1,
         [index |-> LastIndex(log[i]) + 1, term |-> currentTerm[i],
          command |-> cmd],
         LastTerm(log[i]))

\* It adds no other.
LEMMA AppendAddsLink ==
    ASSUME TypeInv, NEW i \in Server, NEW cmd \in Command \cup {Noop},
           AppendStep(i, cmd)
    PROVE  Links' \subseteq Links \cup {AppendedLink(i, cmd)}
<1> DEFINE l == log[i]
           e == [index |-> LastIndex(l) + 1, term |-> currentTerm[i],
                 command |-> cmd]
           z == Link(Len(l) + 1, e, LastTerm(l))
<1>1. l \in Seq(Entry) /\ e \in Entry
  <2>1. l \in Seq(Entry) /\ currentTerm[i] \in Nat /\ Len(l) \in Nat
    BY DEF TypeInv, TypeOK
  <2> QED
    BY <2>1 DEF Entry, LastIndex
<1>2. /\ log'[i] = Append(l, e) /\ \A j \in Server \ {i} : log'[j] = log[j]
      /\ appReqs' = appReqs
  BY DEF AppendStep, TypeInv, TypeOK
<1>3. AppendedLink(i, cmd) = z
  BY DEF AppendedLink
<1> HIDE DEF e
<1>4. LogLinks(Append(l, e)) \subseteq LogLinks(l) \cup {z}
  BY <1>1, AppendLinks
<1> HIDE DEF z
<1> SUFFICES ASSUME NEW x \in Links'
             PROVE  x \in Links \cup {z}
  BY <1>3
<1>5. CASE \E j \in Server : x \in LogLinks(log'[j])
  <2>1. PICK j \in Server : x \in LogLinks(log'[j])
    BY <1>5
  <2>2. CASE j = i
    BY <1>2, <1>4, <2>1, <2>2 DEF Links
  <2>3. CASE j # i
    BY <1>2, <2>1, <2>3 DEF Links
  <2> QED
    BY <2>2, <2>3
<1>6. CASE \E m \in appReqs : x \in ReqLinks(m)
  BY <1>6 DEF Links
<1>7. \/ \E j \in Server : x \in LogLinks(log'[j])
      \/ \E m \in appReqs : x \in ReqLinks(m)
  BY <1>2 DEF Links
<1> QED
  BY <1>5, <1>6, <1>7

\* becomeLeader and Start: the new entry forks from no other.
LEMMA ChainAppend ==
    ASSUME TypeInv, TypeInv', ElectionInv, ElectionInv', ChainInv, RoleStep,
           NEW i \in Server, NEW cmd \in Command \cup {Noop},
           AppendStep(i, cmd)
    PROVE  ChainInv'
<1> DEFINE l == log[i]
           t == currentTerm[i]
           e == [index |-> LastIndex(l) + 1, term |-> t, command |-> cmd]
           z == Link(Len(l) + 1, e, LastTerm(l))
<1>1. l \in Seq(Entry) /\ t \in Nat /\ Len(l) \in Nat
  BY DEF TypeInv, TypeOK
<1>2. e \in Entry /\ e.term = t /\ e.index = Len(l) + 1
  BY <1>1 DEF Entry, LastIndex
<1>3. /\ log'[i] = Append(l, e) /\ \A j \in Server \ {i} : log'[j] = log[j]
      /\ currentTerm' = currentTerm /\ appReqs' = appReqs
      /\ state'[i] = Leader /\ \A j \in Server \ {i} : state'[j] = state[j]
      /\ \/ state[i] = Leader
         \/ \A x \in Links : x.e.term # currentTerm[i]
  BY DEF AppendStep, TypeInv, TypeOK
<1>4. z.n = Len(l) + 1 /\ z.e = e /\ z.p = LastTerm(l)
  BY DEF Link
<1>5. /\ LastTerm(l) \in Nat /\ LastTerm(l) <= t
      /\ \A u : Holds(l, Len(l), u) => LastTerm(l) = u
  BY LastTermBound DEF ChainInv
<1>6. \A x \in Links : x.e.term = t => x.n <= Len(l) /\ LastTerm(l) = t
  BY <1>3, <1>5 DEF ChainInv, LeaderHasTerm, LogTerms
<1> HIDE DEF e, z
<1>7. /\ LogLinks(Append(l, e)) \subseteq LogLinks(l) \cup {z}
      /\ Len(Append(l, e)) = Len(l) + 1
      /\ \A n, u : Holds(l, n, u) => Holds(Append(l, e), n, u)
      /\ Holds(Append(l, e), Len(l) + 1, t)
  BY <1>1, <1>2, AppendLinks DEF z
<1>8. Links' \subseteq Links \cup {z}
  BY AppendAddsLink DEF AppendedLink, z, e
<1> HIDE DEF l, t
<1>9. \A x \in Links : x.n \in Nat /\ x.e.term \in Nat
  BY LinkTypes
<1>10. LinksOK(Links)'
  <2>1. LinksOrdered(Links \cup {z})
    BY <1>1, <1>2, <1>4, <1>5 DEF ChainInv, LinksOK, LinksOrdered
  <2>2. LinksUnique(Links \cup {z})
    <3> SUFFICES ASSUME NEW x \in Links \cup {z}, NEW y \in Links \cup {z},
                        x.n = y.n, x.e.term = y.e.term
                 PROVE  x.e = y.e /\ x.p = y.p
      BY DEF LinksUnique
    <3>1. CASE x \in Links /\ y \in Links
      BY <3>1 DEF ChainInv, LinksOK, LinksUnique
    <3>2. CASE x = z /\ y = z
      BY <3>2
    <3>3. CASE x \in Links /\ y = z
      BY <1>1, <1>2, <1>4, <1>6, <1>9, <3>3
    <3>4. CASE x = z /\ y \in Links
      BY <1>1, <1>2, <1>4, <1>6, <1>9, <3>4
    <3> QED
      BY <3>1, <3>2, <3>3, <3>4
  <2>3. LinksRun(Links \cup {z})
    <3> SUFFICES ASSUME NEW x \in Links \cup {z}, NEW y \in Links \cup {z},
                        x.e.term = y.e.term, x.n < y.n
                 PROVE  y.p = y.e.term
      BY DEF LinksRun
    <3>1. CASE x \in Links /\ y \in Links
      BY <3>1 DEF ChainInv, LinksOK, LinksRun
    <3>2. CASE x = z /\ y = z
      BY <1>1, <1>4, <3>2
    <3>3. CASE x \in Links /\ y = z
      BY <1>2, <1>4, <1>6, <3>3
    <3>4. CASE x = z /\ y \in Links
      BY <1>1, <1>2, <1>4, <1>6, <1>9, <3>4
    <3> QED
      BY <3>1, <3>2, <3>3, <3>4
  <2>4. LinksOK(Links')
    BY <1>8, <2>1, <2>2, <2>3, LinksOKSubset DEF LinksOK
  <2> QED
    BY <2>4 DEF LinksOK, LinksOrdered, LinksUnique, LinksRun
<1>11. LeadersWon'
  BY LeadersWonNext
<1>12. LinksWon'
  <2> SUFFICES ASSUME NEW x \in Links'
               PROVE  \E c \in Server : Won(c, x.e.term)'
    BY DEF LinksWon
  <2>1. CASE x \in Links
    BY <1>9, <2>1, WonStable DEF ChainInv, LinksWon
  <2>2. CASE x = z
    BY <1>2, <1>3, <1>4, <1>11, <2>2 DEF LeadersWon, t
  <2> QED
    BY <1>8, <2>1, <2>2
<1>13. LeaderHasTerm'
  <2> SUFFICES ASSUME NEW j \in Server, NEW x \in Links', state'[j] = Leader,
                      x.e.term = currentTerm'[j]
               PROVE  x.n <= Len(log'[j])
    BY DEF LeaderHasTerm
  <2>1. CASE j = i
    BY <1>1, <1>3, <1>4, <1>6, <1>7, <1>8, <1>9, <2>1 DEF t
  <2>2. CASE j # i
    <3>1. currentTerm'[j] # t
      <4>1. currentTerm'[j] = currentTerm[j] /\ t = currentTerm'[i]
        BY <1>3 DEF t
      <4> QED
        BY <1>3, <1>11, <2>2, <4>1 DEF LeadersWon
    <3>2. x \in Links
      BY <1>2, <1>4, <1>8, <3>1
    <3> QED
      BY <1>3, <2>2, <3>2 DEF ChainInv, LeaderHasTerm
  <2> QED
    BY <2>1, <2>2
<1>14. LogTerms'
  <2> SUFFICES ASSUME NEW j \in Server
               PROVE  /\ \A x \in LogLinks(log'[j]) : x.e.term <= currentTerm'[j]
                      /\ state'[j] = Leader
                           => Holds(log'[j], Len(log'[j]), currentTerm'[j])
    BY DEF LogTerms, LogLinks, ChainLinks, Link, Holds, Has
  <2>1. CASE j = i
    <3>1. \A x \in LogLinks(log'[i]) : x.e.term <= t
      BY <1>1, <1>2, <1>3, <1>4, <1>7 DEF ChainInv, LogTerms, l, t
    <3> QED
      BY <1>3, <1>7, <2>1, <3>1 DEF t
  <2>2. CASE j # i
    BY <1>3, <2>2 DEF ChainInv, LogTerms
  <2> QED
    BY <2>1, <2>2
<1>15. ReqsOK'
  <2> SUFFICES ASSUME NEW m \in appReqs'
               PROVE  ReqOK(m)'
    BY DEF ReqsOK
  <2>1. m \in appReqs /\ ReqOK(m)
    BY <1>3 DEF ChainInv, ReqsOK
  <2>2. m.from \in Server /\ m.term \in Nat
    BY <2>1 DEF TypeInv, TypeOK, AppReq
  <2>3. Won(m.from, m.term)'
    BY <2>1, <2>2, WonStable DEF ReqOK
  <2>4. state'[m.from] = Leader /\ currentTerm'[m.from] = m.term
           => Holds(log'[m.from], ReqEnd(m), m.term)
    <3>1. CASE m.from = i /\ m.term = t
      <4>1. Won(i, t)
        BY <2>1, <3>1 DEF ReqOK
      <4>2. state[i] = Leader
        BY <1>1, <4>1 DEF Won, t
      <4> QED
        BY <1>3, <1>7, <2>1, <3>1, <4>2 DEF ReqOK, l, t
    <3>2. CASE m.from = i /\ m.term # t
      BY <1>3, <3>2 DEF t
    <3>3. CASE m.from # i
      BY <1>3, <2>1, <2>2, <3>3 DEF ReqOK
    <3> QED
      BY <3>1, <3>2, <3>3
  <2> QED
    BY <2>1, <2>3, <2>4 DEF ReqOK, ReqEndsInTerm, Holds, Has, ReqEnd, ReqLinks,
                            ChainLinks, Link
<1> QED
  BY <1>10, <1>12, <1>13, <1>14, <1>15 DEF ChainInv

\* The entries a leader sends are the tail of its log.
LEMMA EntriesTail ==
    ASSUME NEW l \in Seq(Entry), NEW n \in 1 .. Len(l) + 1
    PROVE  LET es == Entries(l, n, LastIndex(l) + 1)
           IN  /\ es \in Seq(Entry) /\ Len(es) = Len(l) - n + 1
               /\ \A j \in 1..Len(es) : es[j] = l[n + j - 1]
<1>1. Len(l) \in Nat /\ n \in Int /\ n >= 1 /\ Len(l) + 1 \in Int /\ 1 \in Int
  OBVIOUS
<1>2. Max({n, 1}) = n
  <2>1. Max({n, 1}) \in {n, 1} /\ Max({n, 1}) >= n /\ Max({n, 1}) >= 1
    BY <1>1, MinMaxPair, Zenon
  <2> QED
    BY <1>1, <2>1
<1>3. Min({Len(l) + 1, Len(l) + 1}) - 1 = Len(l)
  <2>1. Min({Len(l) + 1, Len(l) + 1}) \in {Len(l) + 1, Len(l) + 1}
    BY <1>1, MinMaxPair, Zenon
  <2> QED
    BY <1>1, <2>1
<1>4. Entries(l, n, LastIndex(l) + 1) = SubSeq(l, n, Len(l))
  BY <1>2, <1>3 DEF Entries, LastIndex
<1>5. \A j \in n..Len(l) : l[j] \in Entry
  BY <1>1
<1>6. /\ SubSeq(l, n, Len(l)) \in Seq(Entry)
      /\ Len(SubSeq(l, n, Len(l))) = IF n <= Len(l) THEN Len(l) - n + 1 ELSE 0
      /\ \A j \in 1 .. Len(l) - n + 1 : SubSeq(l, n, Len(l))[j] = l[n + j - 1]
  BY <1>1, <1>5, SubSeqProperties
<1> DEFINE es == Entries(l, n, LastIndex(l) + 1)
<1>7. /\ es \in Seq(Entry)
      /\ Len(es) = IF n <= Len(l) THEN Len(l) - n + 1 ELSE 0
      /\ \A j \in 1 .. Len(l) - n + 1 : es[j] = l[n + j - 1]
  BY <1>4, <1>6
<1> HIDE DEF es
<1>8. Len(es) = Len(l) - n + 1
  BY <1>1, <1>7
<1> QED
  BY <1>7, <1>8 DEF es

\* The request leader i builds for p: its links are links of the log, and it
\* ends where the log ends.
LEMMA SentRequest ==
    ASSUME TypeInv, NextIndexInLog, LogTerms, NEW i \in Server, NEW p \in Server,
           NEW k \in Call, state[i] = Leader
    PROVE  LET m == AppendEntriesArgs(i, p, k)
           IN  /\ m.from = i /\ m.to = p /\ m.call = k
               /\ m.term = currentTerm[i]
               /\ m.leaderCommit = commitIndex[i]
               /\ m.prevLogIndex = 0 => m.prevLogTerm = 0
               /\ ReqLinks(m) \subseteq LogLinks(log[i])
               /\ ReqEnd(m) = Len(log[i])
               /\ ReqEndsInTerm(m)
<1> DEFINE l == log[i]
           n == nextIndex[i][p]
           prev == n - 1
           pt == IF Has(l, prev) THEN l[prev].term ELSE 0
           es == Entries(l, n, LastIndex(l) + 1)
           m == AppendEntriesArgs(i, p, k)
<1>1. l \in Seq(Entry) /\ currentTerm[i] \in Nat /\ Len(l) \in Nat
  BY DEF TypeInv, TypeOK
<1>2. n \in 1 .. Len(l) + 1 /\ prev \in Nat /\ prev <= Len(l)
  <2>1. n \in 1 .. Len(l) + 1
    BY DEF NextIndexInLog, LastIndex
  <2> QED
    BY <1>1, <2>1
<1>3. es \in Seq(Entry) /\ Len(es) = Len(l) - n + 1
      /\ \A j \in 1..Len(es) : es[j] = l[n + j - 1]
  BY <1>1, <1>2, EntriesTail
<1>4. /\ m.from = i /\ m.to = p /\ m.call = k
      /\ m.term = currentTerm[i] /\ m.leaderCommit = commitIndex[i]
      /\ m.prevLogIndex = prev /\ m.prevLogTerm = pt /\ m.entries = es
  BY DEF AppendEntriesArgs
<1> HIDE DEF es, m
<1>5. prev = 0 => pt = 0
  BY DEF Has
<1>6. pt \in Nat
  <2>1. CASE Has(l, prev)
    BY <1>1, <2>1, EntryAt DEF Has
  <2>2. CASE ~Has(l, prev)
    BY <2>2
  <2> QED
    BY <2>1, <2>2
<1>7. prev # 0 => prev \in 1..Len(l) /\ pt = l[prev].term
  BY <1>1, <1>2 DEF Has
<1>p. n \in Int /\ prev = n - 1 /\ Len(es) \in Nat
  BY <1>2, <1>3
<1> HIDE DEF pt, prev, n, l
<1>8. ASSUME NEW x \in ReqLinks(m)
      PROVE  x \in LogLinks(l)
  <2>1. x \in ChainLinks(prev, pt, es)
    BY <1>4 DEF ReqLinks
  <2>2. PICK j \in 1..Len(es) :
                /\ x = Link(prev + j, x.e, x.p)
                /\ x.n = prev + j /\ x.e = es[j]
                /\ x.p = IF j = 1 THEN pt ELSE es[j - 1].term
    <3>1. \E j \in 1..Len(es) : IsLinkAt(x, j, prev, pt, es)
      BY <1>2, <1>3, <1>6, <2>1, LinkAt
    <3> QED
      BY <3>1 DEF IsLinkAt
  <2>3. prev + j \in 1..Len(l) /\ n + j - 1 = prev + j
    <3>1. Len(es) = Len(l) - n + 1 /\ j \in 1..Len(es)
      BY <1>3, <2>2
    <3> QED
      BY <1>1, <1>2, <1>p, <3>1
  <2>4. x.e = l[prev + j]
    BY <1>3, <2>2, <2>3
  <2>5. x.p = IF prev + j = 1 THEN 0 ELSE l[prev + j - 1].term
    <3>1. CASE j = 1 /\ prev = 0
      BY <1>5, <2>2, <3>1
    <3>2. CASE j = 1 /\ prev # 0
      <4>1. prev + j # 1 /\ prev + j - 1 = prev
        BY <1>2, <3>2
      <4> QED
        BY <1>7, <2>2, <3>2, <4>1
    <3>3. CASE j # 1
      <4>1. /\ j - 1 \in 1..Len(es) /\ prev + j # 1
            /\ n + (j - 1) - 1 = prev + j - 1
        <5>1. j \in 1..Len(es)
          BY <2>2
        <5> QED
          BY <1>2, <1>p, <3>3, <5>1
      <4> QED
        BY <1>3, <2>2, <3>3, <4>1
    <3> QED
      BY <3>1, <3>2, <3>3
  <2> DEFINE w == prev + j
  <2>5a. /\ w \in 1..Len(l) /\ x = Link(w, x.e, x.p) /\ x.e = l[w]
         /\ x.p = IF w = 1 THEN 0 ELSE l[w - 1].term
    <3>1. w = prev + j
      OBVIOUS
    <3>2. x = Link(w, x.e, x.p)
      BY <2>2, Zenon
    <3> HIDE DEF w
    <3>3. w \in 1..Len(l) /\ x.e = l[w]
      BY <2>3, <2>4, <3>1
    <3>4. x.p = IF w = 1 THEN 0 ELSE l[w - 1].term
      <4>1. w - 1 = prev + j - 1
        BY <1>2, <1>p, <3>1
      <4> QED
        BY <2>5, <3>1, <4>1
    <3> QED
      BY <3>2, <3>3, <3>4
  <2> HIDE DEF w
  <2>6. PICK y \in LogLinks(l) :
            /\ y = Link(w, y.e, y.p) /\ y.n = w /\ y.e = l[w]
            /\ y.p = IF w = 1 THEN 0 ELSE l[w - 1].term
    BY <1>1, <2>5a, LogLinkAt
  <2>7. x = y
    BY <2>5a, <2>6
  <2> QED
    BY <2>7
<1>9. ReqEnd(m) = Len(l)
  BY <1>1, <1>2, <1>3, <1>4, <1>p DEF ReqEnd
<1>10. Holds(l, Len(l), currentTerm[i])
  BY DEF LogTerms, l
<1>11. ReqEndsInTerm(m)
  <2>1. CASE es = <<>>
    <3>1. Len(es) = 0
      BY <2>1
    <3>2. prev = Len(l) /\ prev # 0
      BY <1>1, <1>2, <1>3, <1>p, <1>10, <3>1 DEF Holds, Has
    <3> QED
      BY <1>2, <1>4, <1>7, <1>10, <2>1, <3>2 DEF ReqEndsInTerm, Holds
  <2>2. CASE es # <<>>
    <3>1. Len(es) \in 1..Len(es) /\ n + Len(es) - 1 = Len(l)
      BY <1>1, <1>2, <1>3, <1>p, <2>2
    <3>2. es[Len(es)] = l[Len(l)]
      BY <1>3, <3>1
    <3> QED
      BY <1>4, <1>10, <2>2, <3>2 DEF ReqEndsInTerm, Holds
  <2> QED
    BY <2>1, <2>2
<1> QED
  BY <1>4, <1>5, <1>8, <1>9, <1>11 DEF m, l

\* Sending a request adds no link.
LEMMA SendAddsNoLink ==
    ASSUME TypeInv, NextIndexInLog, LogTerms,
           NEW i \in Server, NEW p \in Server \ {i}, NEW k \in Call,
           SendAppendEntries(i, p, k)
    PROVE  Links' \subseteq Links
<1> DEFINE a == AppendEntriesArgs(i, p, k)
<1>1. /\ state[i] = Leader
      /\ appReqs' \subseteq appReqs \cup {a} /\ log' = log
  BY DEF SendAppendEntries, logVars
<1>2. ReqLinks(a) \subseteq LogLinks(log[i])
  BY <1>1, SentRequest
<1> HIDE DEF a
<1> SUFFICES ASSUME NEW x \in Links' PROVE x \in Links
  OBVIOUS
<1>3. \/ \E j \in Server : x \in LogLinks(log[j])
      \/ \E m \in appReqs' : x \in ReqLinks(m)
  BY <1>1 DEF Links
<1>4. \/ \E j \in Server : x \in LogLinks(log[j])
      \/ \E m \in appReqs : x \in ReqLinks(m)
  BY <1>1, <1>2, <1>3
<1> QED
  BY <1>4 DEF Links

\* The request a leader sends is a piece of its own log.
LEMMA ChainSend ==
    ASSUME TypeInv, TypeInv', ElectionInv, ChainInv, NextIndexInLog, RoleStep,
           NEW i \in Server, NEW p \in Server \ {i}, NEW k \in Call,
           SendAppendEntries(i, p, k)
    PROVE  ChainInv'
<1> DEFINE a == AppendEntriesArgs(i, p, k)
<1>1. /\ state[i] = Leader
      /\ appReqs' \subseteq appReqs \cup {a}
      /\ currentTerm' = currentTerm /\ state' = state /\ log' = log
  BY DEF SendAppendEntries, electionVars, logVars
<1>2. /\ a.from = i /\ a.to = p /\ a.term = currentTerm[i]
      /\ a.prevLogIndex = 0 => a.prevLogTerm = 0
      /\ ReqLinks(a) \subseteq LogLinks(log[i])
      /\ ReqEnd(a) = Len(log[i])
      /\ ReqEndsInTerm(a)
  BY <1>1, SentRequest DEF ChainInv
<1> HIDE DEF a
<1>3. Links' \subseteq Links
  BY SendAddsNoLink DEF ChainInv
<1>4. LinksOK(Links)'
  <2>1. LinksOK(Links')
    BY <1>3, LinksOKSubset DEF ChainInv
  <2> QED
    BY <2>1 DEF LinksOK, LinksOrdered, LinksUnique, LinksRun
<1>5. LinksWon'
  BY <1>3, LinkTypes, WonStable DEF ChainInv, LinksWon
<1>6. LeaderHasTerm' /\ LogTerms'
  BY <1>1, <1>3 DEF ChainInv, LeaderHasTerm, LogTerms
<1>7. ReqsOK'
  <2> SUFFICES ASSUME NEW m \in appReqs'
               PROVE  ReqOK(m)'
    BY DEF ReqsOK
  <2>1. ReqOK(m)
    <3>1. CASE m \in appReqs
      BY <3>1 DEF ChainInv, ReqsOK
    <3>2. CASE m = a
      <4>1. Won(i, currentTerm[i])
        BY <1>1, LeaderWon
      <4>2. \A x \in ReqLinks(a) : x.e.term <= a.term
        BY <1>2 DEF ChainInv, LogTerms
      <4>3. Holds(log[i], ReqEnd(a), a.term)
        BY <1>1, <1>2 DEF ChainInv, LogTerms
      <4> QED
        BY <1>2, <3>2, <4>1, <4>2, <4>3 DEF ReqOK
    <3> QED
      BY <1>1, <3>1, <3>2
  <2>2. m.from \in Server /\ m.term \in Nat
    BY DEF TypeInv, TypeOK, AppReq
  <2>3. Won(m.from, m.term)'
    BY <2>1, <2>2, WonStable DEF ReqOK
  <2> QED
    BY <1>1, <2>1, <2>3 DEF ReqOK, ReqEndsInTerm, Holds, Has, ReqEnd, ReqLinks,
                            ChainLinks, Link
<1> QED
  BY <1>4, <1>5, <1>6, <1>7 DEF ChainInv

\* A node that accepts entries is not a leader: the sender won the term.
LEMMA AcceptorFollows ==
    ASSUME TypeInv, TypeInv', ElectionInv, ReqsOK, RoleStep,
           NEW m \in appReqs, AppendEntries(m) \/ AppendEntriesMismatch(m)
    PROVE  /\ state'[m.to] # Leader
           /\ currentTerm'[m.to] = m.term
           /\ \A j \in Server \ {m.to} : /\ currentTerm'[j] = currentTerm[j]
                                         /\ state'[j] = state[j]
           /\ state'[m.to] = Candidate
                => state[m.to] = Candidate /\ currentTerm[m.to] = m.term
<1>1. /\ m.to \in Server /\ m.from \in Server /\ m.term \in Nat
      /\ currentTerm[m.to] \in Nat
  BY DEF TypeInv, TypeOK, AppReq
<1>2. m.term >= currentTerm[m.to] /\ AcceptLeader(m)
  BY DEF AppendEntries, AppendEntriesMismatch
<1>3. CASE m.term > currentTerm[m.to]
  <2>1. /\ currentTerm' = [currentTerm EXCEPT ![m.to] = m.term]
        /\ state' = [state EXCEPT ![m.to] = Follower]
    BY <1>2, <1>3 DEF AcceptLeader, AdoptTerm
  <2>2. state'[m.to] = Follower /\ currentTerm'[m.to] = m.term
    BY <1>1, <2>1 DEF TypeInv, TypeOK
  <2>3. \A j \in Server \ {m.to} : /\ currentTerm'[j] = currentTerm[j]
                                    /\ state'[j] = state[j]
    BY <1>1, <2>1 DEF TypeInv, TypeOK
  <2> QED
    BY <2>2, <2>3 DEF Follower, Leader, Candidate
<1>4. CASE m.term = currentTerm[m.to]
  <2>1. currentTerm' = currentTerm /\ state' = state
    BY <1>1, <1>2, <1>4 DEF AcceptLeader, electionVars
  <2>2. state[m.to] # Leader
    <3> SUFFICES ASSUME state[m.to] = Leader PROVE FALSE
      OBVIOUS
    <3>1. Won(m.from, m.term) /\ m.from # m.to
      BY DEF ReqsOK, ReqOK
    <3> QED
      BY <1>1, <1>4, <3>1, LeaderWon
  <2> QED
    BY <1>1, <1>4, <2>1, <2>2 DEF TypeInv, TypeOK
<1>5. m.term > currentTerm[m.to] \/ m.term = currentTerm[m.to]
  BY <1>1, <1>2
<1> QED
  BY <1>3, <1>4, <1>5

\* Accepting entries adds no link.
LEMMA ChainAccept ==
    ASSUME TypeInv, TypeInv', ElectionInv, ChainInv, RoleStep,
           NEW m \in appReqs, AppendEntries(m)
    PROVE  /\ ChainInv'
           /\ Links' \subseteq Links
           /\ LogLinks(log'[m.to]) \subseteq Links
           /\ Holds(log'[m.to], ReqEnd(m), m.term)
<1> DEFINE i == m.to
           r == Merge(log[i], m.prevLogIndex, m.entries)
<1>1. /\ m \in AppReq /\ i \in Server /\ m.term \in Nat
      /\ log[i] \in Seq(Entry) /\ currentTerm[i] \in Nat
  BY DEF TypeInv, TypeOK, AppReq
<1>2. /\ PrevMatches(log[i], m)
      /\ log' = [log EXCEPT ![i] = r]
      /\ appReqs' \subseteq appReqs
  BY DEF AppendEntries, ReplyAppend
<1>3. ReqOK(m)
  BY DEF ChainInv, ReqsOK
<1>4. /\ LogLinks(r) \subseteq LogLinks(log[i]) \cup ReqLinks(m)
      /\ r \in Seq(Entry) /\ Holds(r, ReqEnd(m), m.term)
  BY <1>1, <1>2, <1>3, MergeLinks, MergeReaches DEF ReqOK
<1> HIDE DEF r
<1>5. log'[i] = r /\ \A j \in Server \ {i} : log'[j] = log[j]
  BY <1>1, <1>2 DEF TypeInv, TypeOK
<1>6. LogLinks(r) \subseteq Links
  BY <1>1, <1>4 DEF Links
<1>7. Links' \subseteq Links
  <2> SUFFICES ASSUME NEW x \in Links' PROVE x \in Links
    OBVIOUS
  <2>1. \/ \E j \in Server : x \in LogLinks(log'[j])
        \/ \E n \in appReqs' : x \in ReqLinks(n)
    BY DEF Links
  <2>2. CASE \E j \in Server : x \in LogLinks(log'[j])
    <3>1. PICK j \in Server : x \in LogLinks(log'[j])
      BY <2>2
    <3>2. CASE j = i
      BY <1>5, <1>6, <3>1, <3>2
    <3>3. CASE j # i
      BY <1>5, <3>1, <3>3 DEF Links
    <3> QED
      BY <3>2, <3>3
  <2>3. CASE \E n \in appReqs' : x \in ReqLinks(n)
    BY <1>2, <2>3 DEF Links
  <2> QED
    BY <2>1, <2>2, <2>3
<1>8. /\ state'[i] # Leader /\ currentTerm'[i] = m.term
      /\ \A j \in Server \ {i} : /\ currentTerm'[j] = currentTerm[j]
                                  /\ state'[j] = state[j]
  BY AcceptorFollows DEF ChainInv
<1>9. LinksOK(Links)'
  <2>1. LinksOK(Links')
    BY <1>7, LinksOKSubset DEF ChainInv
  <2> QED
    BY <2>1 DEF LinksOK, LinksOrdered, LinksUnique, LinksRun
<1>10. LinksWon'
  BY <1>7, LinkTypes, WonStable DEF ChainInv, LinksWon
<1>11. LeaderHasTerm'
  BY <1>5, <1>7, <1>8 DEF ChainInv, LeaderHasTerm
<1>12. LogTerms'
  <2> SUFFICES ASSUME NEW j \in Server
               PROVE  /\ \A x \in LogLinks(log'[j]) : x.e.term <= currentTerm'[j]
                      /\ state'[j] = Leader
                           => Holds(log'[j], Len(log'[j]), currentTerm'[j])
    BY DEF LogTerms, LogLinks, ChainLinks, Link, Holds, Has
  <2>1. CASE j = i
    <3>1. ASSUME NEW x \in LogLinks(r)
          PROVE  x.e.term <= m.term
      <4>1. CASE x \in LogLinks(log[i])
        <5>1. x.e.term <= currentTerm[i] /\ x.e.term \in Nat
          BY <1>1, <1>6, <3>1, <4>1, LinkTypes DEF ChainInv, LogTerms
        <5>2. currentTerm[i] <= m.term
          BY <1>1 DEF AppendEntries
        <5> QED
          BY <1>1, <5>1, <5>2
      <4>2. CASE x \in ReqLinks(m)
        BY <1>3, <4>2 DEF ReqOK
      <4> QED
        BY <1>4, <3>1, <4>1, <4>2
    <3> QED
      BY <1>5, <1>8, <2>1, <3>1
  <2>2. CASE j # i
    BY <1>5, <1>8, <2>2 DEF ChainInv, LogTerms
  <2> QED
    BY <2>1, <2>2
<1>13. ReqsOK'
  <2> SUFFICES ASSUME NEW n \in appReqs'
               PROVE  ReqOK(n)'
    BY DEF ReqsOK
  <2>1. n \in appReqs /\ ReqOK(n)
    BY <1>2 DEF ChainInv, ReqsOK
  <2>2. n.from \in Server /\ n.term \in Nat
    BY <2>1 DEF TypeInv, TypeOK, AppReq
  <2>3. Won(n.from, n.term)'
    BY <2>1, <2>2, WonStable DEF ReqOK
  <2>4. state'[n.from] = Leader /\ currentTerm'[n.from] = n.term
           => Holds(log'[n.from], ReqEnd(n), n.term)
    BY <1>5, <1>8, <2>1, <2>2 DEF ReqOK
  <2> QED
    BY <2>1, <2>3, <2>4 DEF ReqOK, ReqEndsInTerm, Holds, Has, ReqEnd, ReqLinks,
                            ChainLinks, Link
<1>14. ChainInv'
  BY <1>9, <1>10, <1>11, <1>12, <1>13 DEF ChainInv
<1> QED
  BY <1>4, <1>5, <1>6, <1>7, <1>14

\* Every step keeps the chains.
LEMMA ChainStep ==
    ASSUME TypeInv, TypeInv', ElectionInv, ElectionInv', ChainInv,
           NextIndexInLog, [Next]_vars
    PROVE  ChainInv'
<1>1. RoleStep
  BY NextRoleStep
<1>2. CASE QuietLog
  BY <1>1, <1>2, ChainQuiet
<1>3. ASSUME NEW i \in Server, NEW cmd \in Command \cup {Noop},
             AppendStep(i, cmd)
      PROVE  ChainInv'
  BY <1>1, <1>3, ChainAppend
<1>4. ASSUME NEW i \in Server, NEW p \in Server \ {i}, NEW k \in Call,
             SendAppendEntries(i, p, k)
      PROVE  ChainInv'
  BY <1>1, <1>4, ChainSend
<1>5. ASSUME NEW m \in appReqs, AppendEntries(m)
      PROVE  ChainInv'
  BY <1>1, <1>5, ChainAccept
<1> QED
  BY <1>2, <1>3, <1>4, <1>5, StepKinds

\* A node that leads after a step has only appended to its log.
LEMMA LeaderLogKept ==
    ASSUME TypeInv, TypeInv', ElectionInv, ChainInv, [Next]_vars,
           NEW i \in Server, state'[i] = Leader
    PROVE  /\ Len(log'[i]) >= Len(log[i])
           /\ \A k \in 1..Len(log[i]) : log'[i][k] = log[i][k]
           /\ \A n, t : Holds(log[i], n, t) => Holds(log'[i], n, t)
<1> DEFINE l == log[i]
           r == log'[i]
           Goal == /\ Len(r) >= Len(l)
                   /\ \A k \in 1..Len(l) : r[k] = l[k]
                   /\ \A n, t : Holds(l, n, t) => Holds(r, n, t)
<1>1. l \in Seq(Entry) /\ Len(l) \in Nat
  BY DEF TypeInv, TypeOK
<1>2. CASE r = l
  BY <1>1, <1>2
<1>3. ASSUME NEW cmd \in Command \cup {Noop}, AppendStep(i, cmd)
      PROVE  Goal
  <2> DEFINE e == [index |-> LastIndex(l) + 1, term |-> currentTerm[i],
                   command |-> cmd]
  <2>1. e \in Entry
    BY <1>1 DEF Entry, LastIndex, TypeInv, TypeOK
  <2>2. r = Append(l, e)
    BY <1>3 DEF AppendStep, TypeInv, TypeOK
  <2> HIDE DEF e, l, r
  <2>3. /\ Len(r) = Len(l) + 1
        /\ \A n \in 1..Len(l) : r[n] = l[n]
        /\ \A n, t : Holds(l, n, t) => Holds(r, n, t)
    BY <1>1, <2>1, <2>2, AppendLinks
  <2> QED
    BY <1>1, <2>3
<1>4. r = l \/ \E cmd \in Command \cup {Noop} : AppendStep(i, cmd)
  <2>1. CASE QuietLog
    BY <2>1 DEF QuietLog
  <2>2. ASSUME NEW j \in Server, NEW cmd \in Command \cup {Noop},
               AppendStep(j, cmd)
        PROVE  r = l \/ AppendStep(i, cmd)
    BY <2>2 DEF AppendStep, TypeInv, TypeOK
  <2>3. ASSUME NEW j \in Server, NEW p \in Server \ {j}, NEW k \in Call,
               SendAppendEntries(j, p, k)
        PROVE  r = l
    BY <2>3 DEF SendAppendEntries, logVars
  <2>4. ASSUME NEW m \in appReqs, AppendEntries(m)
        PROVE  r = l
    <3>1. RoleStep
      BY NextRoleStep
    <3>2. i # m.to
      BY <2>4, <3>1, AcceptorFollows DEF ChainInv
    <3> QED
      BY <2>4, <3>2 DEF AppendEntries, TypeInv, TypeOK
  <2> QED
    BY <2>1, <2>2, <2>3, <2>4, StepKinds
<1> HIDE DEF Goal
<1>5. Goal
  <2>1. CASE r = l
    BY <1>2, <2>1 DEF Goal
  <2> QED
    BY <1>3, <1>4, <2>1
<1> QED
  BY <1>5 DEF Goal

-----------------------------------------------------------------------------
(* What the peers have acknowledged, step by step *)

\* Each step does one of three things to what leaders know of their peers.
LEMMA LeaderKinds ==
    ASSUME TypeInv, [Next]_vars
    PROVE  \/ nextIndex' = nextIndex /\ matchIndex' = matchIndex /\ NoNewLeader
           \/ \E m \in voteReps : BecomeLeader(m)
           \/ \E m \in appReps : AppendReplySuccess(m) \/ AppendReplyReject(m)
<1> DEFINE Goal ==
      \/ nextIndex' = nextIndex /\ matchIndex' = matchIndex /\ NoNewLeader
      \/ \E m \in voteReps : BecomeLeader(m)
      \/ \E m \in appReps : AppendReplySuccess(m) \/ AppendReplyReject(m)
<1>1. ASSUME NEW i \in Server, StartElection(i)
      PROVE  Goal
  BY <1>1 DEF StartElection, NoNewLeader, TypeInv, TypeOK, leaderVars,
              Candidate, Leader
<1>2. ASSUME NEW m \in voteReqs, HandleVoteReq(m)
      PROVE  Goal
  <2>1. m.to \in Server /\ m.term \in Nat /\ currentTerm[m.to] \in Nat
    BY DEF TypeInv, TypeOK, VoteReq
  <2>2. CASE RequestVoteStale(m)
    BY <2>2, SameRole DEF RequestVoteStale, electionVars, leaderVars
  <2>3. CASE RequestVote(m)
    <3>1. /\ currentTerm' = [currentTerm EXCEPT ![m.to] = m.term]
          /\ state' = [state EXCEPT ![m.to] =
                          IF m.term > currentTerm[m.to] THEN Follower ELSE @]
          /\ m.term >= currentTerm[m.to]
          /\ nextIndex' = nextIndex /\ matchIndex' = matchIndex
      BY <2>3 DEF RequestVote, leaderVars
    <3>2. NoNewLeader
      BY <2>1, <3>1, SMTT(30) DEF NoNewLeader, TypeInv, TypeOK, Follower, Leader
    <3> QED
      BY <3>1, <3>2
  <2> QED
    BY <1>2, <2>2, <2>3 DEF HandleVoteReq
<1>3. ASSUME NEW m \in voteReps, HandleVoteRep(m)
      PROVE  Goal
  <2>1. m.to \in Server /\ m.term \in Nat
    BY DEF TypeInv, TypeOK, VoteRep
  <2>2. CASE VoteReplyNewerTerm(m)
    BY <2>1, <2>2, AdoptRole DEF VoteReplyNewerTerm, leaderVars
  <2>3. CASE VoteReplyIgnored(m) \/ VoteReplyCounted(m)
    BY <2>3, SameRole DEF VoteReplyIgnored, VoteReplyCounted, electionVars,
                          leaderVars
  <2> QED
    BY <1>3, <2>2, <2>3 DEF HandleVoteRep
<1>4. ASSUME NEW i \in Server, NEW cmd \in Command, Start(i, cmd)
      PROVE  Goal
  BY <1>4, SameRole DEF Start, electionVars, leaderVars
<1>5. ASSUME NEW i \in Server, NEW p \in Server, NEW k \in Call,
             SendAppendEntries(i, p, k)
      PROVE  Goal
  BY <1>5, SameRole DEF SendAppendEntries, electionVars, leaderVars
<1>6. ASSUME NEW m \in appReqs, HandleAppReq(m)
      PROVE  Goal
  <2>1. CASE AppendEntriesStale(m)
    BY <2>1, SameRole DEF AppendEntriesStale, electionVars, leaderVars
  <2>2. CASE AppendEntriesMismatch(m) \/ AppendEntries(m)
    BY <2>2, AcceptRole DEF AppendEntriesMismatch, AppendEntries, leaderVars
  <2> QED
    BY <1>6, <2>1, <2>2 DEF HandleAppReq
<1>7. ASSUME NEW m \in appReps, HandleAppRep(m)
      PROVE  Goal
  <2>1. m.to \in Server /\ m.term \in Nat
    BY DEF TypeInv, TypeOK, AppRep
  <2>2. CASE AppendReplyNewerTerm(m)
    BY <2>1, <2>2, AdoptRole DEF AppendReplyNewerTerm, leaderVars
  <2>3. CASE AppendReplyIgnored(m)
    BY <2>3, SameRole DEF AppendReplyIgnored, electionVars, leaderVars
  <2> QED
    BY <1>7, <2>2, <2>3 DEF HandleAppRep
<1>8. ASSUME NEW i \in Server, ApplyLoop(i)
      PROVE  Goal
  BY <1>8, SameRole DEF ApplyLoop, electionVars, leaderVars
<1>9. CASE UNCHANGED vars
  BY <1>9, SameRole DEF vars, electionVars, leaderVars
<1> HIDE DEF Goal
<1>10. Goal
  BY <1>1, <1>2, <1>3, <1>4, <1>5, <1>6, <1>7, <1>8, <1>9 DEF Next, Goal
<1> QED
  BY <1>10 DEF Goal

\* A reply is made only by the receiver of a request.
LEMMA ReplyKinds ==
    ASSUME [Next]_vars
    PROVE  \/ appReps' \subseteq appReps
           \/ \E m \in appReqs : HandleAppReq(m)
<1> DEFINE Goal == \/ appReps' \subseteq appReps
                   \/ \E m \in appReqs : HandleAppReq(m)
<1>1. ASSUME NEW i \in Server, StartElection(i)
      PROVE  Goal
  BY <1>1 DEF StartElection, appMsgs
<1>2. ASSUME NEW m \in voteReqs, HandleVoteReq(m)
      PROVE  Goal
  BY <1>2 DEF HandleVoteReq, RequestVote, RequestVoteStale, appMsgs
<1>3. ASSUME NEW m \in voteReps, HandleVoteRep(m)
      PROVE  Goal
  BY <1>3 DEF HandleVoteRep, VoteReplyNewerTerm, VoteReplyIgnored,
              VoteReplyCounted, BecomeLeader, appMsgs
<1>4. ASSUME NEW i \in Server, NEW cmd \in Command, Start(i, cmd)
      PROVE  Goal
  BY <1>4 DEF Start, appMsgs
<1>5. ASSUME NEW i \in Server, NEW p \in Server, NEW k \in Call,
             SendAppendEntries(i, p, k)
      PROVE  Goal
  BY <1>5 DEF SendAppendEntries
<1>6. ASSUME NEW m \in appReps, HandleAppRep(m)
      PROVE  Goal
  BY <1>6 DEF HandleAppRep, AppendReplyNewerTerm, AppendReplyIgnored,
              AppendReplySuccess, AppendReplyReject
<1>7. ASSUME NEW i \in Server, ApplyLoop(i)
      PROVE  Goal
  BY <1>7 DEF ApplyLoop, appMsgs
<1>8. CASE UNCHANGED vars
  BY <1>8 DEF vars, appMsgs
<1> HIDE DEF Goal
<1>9. Goal
  BY <1>1, <1>2, <1>3, <1>4, <1>5, <1>6, <1>7, <1>8 DEF Next, Goal
<1> QED
  BY <1>9 DEF Goal

\* What node m.to acknowledges when it accepts request m.
NewAck(m) == [by |-> m.to, upto |-> ReqEnd(m), term |-> m.term]

\* The two places an acknowledgement can be: a reply, and matchIndex.
AckOnItsWay(a) ==
    \E m \in appReps :
        /\ m.success
        /\ a = [by |-> m.from, upto |-> m.newMatch, term |-> m.sentTerm]

AckCounted(a) ==
    \E i, j \in Server :
        /\ state[i] = Leader /\ matchIndex[i][j] # 0
        /\ a = [by |-> j, upto |-> matchIndex[i][j], term |-> currentTerm[i]]

AcksPlaced == \A a : a \in Acks <=> AckOnItsWay(a) \/ AckCounted(a)

\* There is no third place.
LEMMA AckPlaces == AcksPlaced
<1> SUFFICES ASSUME NEW a
             PROVE  a \in Acks <=> AckOnItsWay(a) \/ AckCounted(a)
  BY DEF AcksPlaced
<1>1. ASSUME AckCounted(a)
      PROVE  a \in Acks
  <2>1. PICK i \in Server, j \in Server :
               /\ state[i] = Leader /\ matchIndex[i][j] # 0
               /\ a = [by |-> j, upto |-> matchIndex[i][j],
                       term |-> currentTerm[i]]
    BY <1>1 DEF AckCounted
  <2> DEFINE r == <<i, j>>
  <2>2. r \in Server \X Server /\ r[1] = i /\ r[2] = j
    OBVIOUS
  <2> HIDE DEF r
  <2>3. r \in {s \in Server \X Server :
                  state[s[1]] = Leader /\ matchIndex[s[1]][s[2]] # 0}
    BY <2>1, <2>2
  <2>4. a = [by |-> r[2], upto |-> matchIndex[r[1]][r[2]],
             term |-> currentTerm[r[1]]]
    BY <2>1, <2>2
  <2> QED
    BY <2>3, <2>4 DEF Acks
<1>2. ASSUME a \in Acks, ~AckOnItsWay(a)
      PROVE  AckCounted(a)
  <2>1. PICK r \in Server \X Server :
               /\ state[r[1]] = Leader /\ matchIndex[r[1]][r[2]] # 0
               /\ a = [by |-> r[2], upto |-> matchIndex[r[1]][r[2]],
                       term |-> currentTerm[r[1]]]
    BY <1>2 DEF Acks, AckOnItsWay
  <2>2. r[1] \in Server /\ r[2] \in Server
    OBVIOUS
  <2> QED
    BY <2>1, <2>2 DEF AckCounted
<1>3. ASSUME AckOnItsWay(a)
      PROVE  a \in Acks
  BY <1>3 DEF Acks, AckOnItsWay
<1> QED
  BY <1>1, <1>2, <1>3

\* The same after a step.
LEMMA AckPlacesNext == AcksPlaced'
BY AckPlaces, PTL

\* Every acknowledgement is well formed, and to the winner of its term.
LEMMA AckFacts ==
    ASSUME TypeInv, ElectionInv, AckInv, NEW a \in Acks
    PROVE  /\ a.by \in Server /\ a.upto \in Nat /\ a.term \in Nat
           /\ \E c \in Server : Won(c, a.term)
<1>1. ASSUME NEW m \in appReps,
             a = [by |-> m.from, upto |-> m.newMatch, term |-> m.sentTerm]
      PROVE  /\ a.by \in Server /\ a.upto \in Nat /\ a.term \in Nat
             /\ \E c \in Server : Won(c, a.term)
  <2>1. /\ m.from \in Server /\ m.to \in Server /\ m.newMatch \in Nat
        /\ m.sentTerm \in Nat
    BY DEF TypeInv, TypeOK, AppRep
  <2>2. Won(m.to, m.sentTerm)
    BY DEF AckInv
  <2> QED
    BY <1>1, <2>1, <2>2
<1>2. ASSUME NEW i \in Server, NEW j \in Server, state[i] = Leader,
             a = [by |-> j, upto |-> matchIndex[i][j], term |-> currentTerm[i]]
      PROVE  /\ a.by \in Server /\ a.upto \in Nat /\ a.term \in Nat
             /\ \E c \in Server : Won(c, a.term)
  <2>1. matchIndex[i][j] \in Nat /\ currentTerm[i] \in Nat
    BY DEF TypeInv, TypeOK
  <2>2. Won(i, currentTerm[i])
    BY <1>2, LeaderWon
  <2> QED
    BY <1>2, <2>1, <2>2
<1> QED
  BY <1>1, <1>2, AckPlaces DEF AcksPlaced, AckOnItsWay, AckCounted

\* The only step that adds an acknowledgement is accepting a request.
LEMMA AcksStep ==
    ASSUME TypeInv, [Next]_vars
    PROVE  \A a \in Acks' :
             \/ a \in Acks
             \/ \E m \in appReqs : AppendEntries(m) /\ a = NewAck(m)
<1> SUFFICES ASSUME NEW a \in Acks', a \notin Acks
             PROVE  \E m \in appReqs : AppendEntries(m) /\ a = NewAck(m)
  OBVIOUS
<1>1. AckOnItsWay(a)' \/ AckCounted(a)'
  BY AckPlacesNext DEF AcksPlaced
<1>2. ~AckOnItsWay(a) /\ ~AckCounted(a)
  BY AckPlaces DEF AcksPlaced
<1>3. ASSUME AckOnItsWay(a)'
      PROVE  \E m \in appReqs : AppendEntries(m) /\ a = NewAck(m)
  <2>1. PICK r \in appReps' :
               /\ r.success
               /\ a = [by |-> r.from, upto |-> r.newMatch, term |-> r.sentTerm]
    BY <1>3 DEF AckOnItsWay
  <2>2. r \notin appReps
    BY <1>2, <2>1 DEF AckOnItsWay
  <2>3. PICK m \in appReqs : HandleAppReq(m)
    BY <2>2, ReplyKinds
  <2>4. AppendEntries(m)
    BY <2>1, <2>2, <2>3 DEF HandleAppReq, AppendEntriesStale,
                            AppendEntriesMismatch, ReplyAppend
  <2>5. a = NewAck(m)
    BY <2>1, <2>2, <2>4 DEF AppendEntries, ReplyAppend, NewAck, ReqEnd
  <2> QED
    BY <2>4, <2>5
<1>4. ASSUME AckCounted(a)'
      PROVE  FALSE
  <2>1. PICK i \in Server, j \in Server :
               /\ state'[i] = Leader /\ matchIndex'[i][j] # 0
               /\ a = [by |-> j, upto |-> matchIndex'[i][j],
                       term |-> currentTerm'[i]]
    BY <1>4 DEF AckCounted
  <2>2. CASE matchIndex' = matchIndex /\ NoNewLeader
    BY <1>2, <2>1, <2>2 DEF AckCounted, NoNewLeader
  <2>3. ASSUME NEW m \in voteReps, BecomeLeader(m)
        PROVE  FALSE
    <3>1. m.to \in Server
      BY DEF TypeInv, TypeOK, VoteRep
    <3>2. CASE i = m.to
      BY <2>1, <2>3, <3>1, <3>2 DEF BecomeLeader, ResetMatchIndex, TypeInv, TypeOK
    <3>3. CASE i # m.to
      <4>1. /\ state'[i] = state[i] /\ matchIndex'[i] = matchIndex[i]
            /\ currentTerm' = currentTerm
        BY <2>3, <3>1, <3>3 DEF BecomeLeader, TypeInv, TypeOK
      <4> QED
        BY <1>2, <2>1, <4>1 DEF AckCounted
    <3> QED
      BY <3>2, <3>3
  <2>4. ASSUME NEW m \in appReps, AppendReplySuccess(m)
        PROVE  FALSE
    <3>1. m.to \in Server /\ m.from \in Server /\ m.newMatch \in Nat
      BY DEF TypeInv, TypeOK, AppRep
    <3>2. /\ state' = state /\ currentTerm' = currentTerm
          /\ m.success /\ currentTerm[m.to] = m.sentTerm
          /\ matchIndex' = [matchIndex EXCEPT ![m.to] =
                IF m.newMatch > matchIndex[m.to][m.from]
                THEN [matchIndex[m.to] EXCEPT ![m.from] = m.newMatch]
                ELSE matchIndex[m.to]]
      BY <2>4 DEF AppendReplySuccess, ReplyCurrent, electionVars
    <3>3. matchIndex'[i][j] = matchIndex[i][j]
            \/ (i = m.to /\ j = m.from /\ matchIndex'[i][j] = m.newMatch)
      BY <3>1, <3>2 DEF TypeInv, TypeOK
    <3>4. CASE matchIndex'[i][j] = matchIndex[i][j]
      BY <1>2, <2>1, <3>2, <3>4 DEF AckCounted
    <3>5. CASE i = m.to /\ j = m.from /\ matchIndex'[i][j] = m.newMatch
      BY <1>2, <2>1, <3>2, <3>5 DEF AckOnItsWay
    <3> QED
      BY <3>3, <3>4, <3>5
  <2>5. ASSUME NEW m \in appReps, AppendReplyReject(m)
        PROVE  FALSE
    BY <1>2, <2>1, <2>5 DEF AckCounted, AppendReplyReject, electionVars
  <2> QED
    BY <2>2, <2>3, <2>4, <2>5, LeaderKinds
<1> QED
  BY <1>1, <1>3, <1>4

\* An acknowledgement stays true.
LEMMA AckStable ==
    ASSUME TypeInv, TypeInv', ElectionInv, ElectionInv', ChainInv,
           [Next]_vars, NEW a, a.by \in Server, a.upto \in Nat, a.term \in Nat,
           AckOK(a), \E c \in Server : Won(c, a.term)
    PROVE  AckOK(a)'
<1>1. RoleStep
  BY NextRoleStep
<1>2. \A i \in Server : /\ currentTerm[i] \in Nat /\ currentTerm'[i] \in Nat
                        /\ currentTerm'[i] >= currentTerm[i]
  BY <1>1 DEF TypeInv, TypeOK, RoleStep, ElectionStep, VotesStand
<1>3. /\ a.term <= currentTerm[a.by]
      /\ currentTerm[a.by] = a.term => Holds(log[a.by], a.upto, a.term)
      /\ \A i \in Server : state[i] = Leader /\ currentTerm[i] = a.term
           => Holds(log[i], a.upto, a.term)
  BY DEF AckOK
<1>4. a.term <= currentTerm'[a.by]
  BY <1>2, <1>3
<1>5. ASSUME currentTerm'[a.by] = a.term
      PROVE  Holds(log'[a.by], a.upto, a.term)
  <2>1. currentTerm[a.by] = a.term
    BY <1>2, <1>3, <1>5
  <2>2. Holds(log[a.by], a.upto, a.term)
    BY <1>3, <2>1
  <2>3. CASE log'[a.by] = log[a.by]
    BY <2>2, <2>3
  <2>4. CASE state'[a.by] = Leader
    BY <2>2, <2>4, LeaderLogKept
  <2>5. ASSUME NEW m \in appReqs, AppendEntries(m), m.to = a.by
        PROVE  Holds(log'[a.by], a.upto, a.term)
    <3> DEFINE i == m.to
               r == Merge(log[i], m.prevLogIndex, m.entries)
    <3>1. m \in AppReq /\ i \in Server /\ log[i] \in Seq(Entry)
      BY DEF TypeInv, TypeOK, AppReq
    <3>2. ReqOK(m) /\ LinksUnique(Links) /\ LinksRun(Links)
      BY DEF ChainInv, ReqsOK, LinksOK
    <3>3. currentTerm'[i] = m.term
      BY <1>1, <2>5, AcceptorFollows DEF ChainInv
    <3>4. Holds(log[i], a.upto, m.term)
      BY <1>5, <2>2, <2>5, <3>3
    <3>5. LogLinks(log[i]) \subseteq Links /\ ReqLinks(m) \subseteq Links
      BY <3>1 DEF Links
    <3>6. PrevMatches(log[i], m) /\ log'[i] = r
      BY <2>5, <3>1 DEF AppendEntries, TypeInv, TypeOK
    <3>7. Holds(r, a.upto, m.term)
      BY <3>1, <3>2, <3>4, <3>5, <3>6, MergeKeeps DEF ReqOK
    <3> QED
      BY <1>5, <2>5, <3>3, <3>6, <3>7
  <2>6. \/ log'[a.by] = log[a.by]
        \/ state'[a.by] = Leader
        \/ \E m \in appReqs : AppendEntries(m) /\ m.to = a.by
    <3>1. ASSUME NEW j \in Server, NEW cmd \in Command \cup {Noop},
                 AppendStep(j, cmd)
          PROVE  log'[a.by] = log[a.by] \/ state'[a.by] = Leader
      BY <3>1 DEF AppendStep, TypeInv, TypeOK
    <3>2. ASSUME NEW m \in appReqs, AppendEntries(m), m.to # a.by
          PROVE  log'[a.by] = log[a.by]
      BY <3>2 DEF AppendEntries, TypeInv, TypeOK
    <3> QED
      BY <3>1, <3>2, StepKinds DEF QuietLog, SendAppendEntries, logVars
  <2> QED
    BY <2>3, <2>4, <2>5, <2>6
<1>6. ASSUME NEW i \in Server, state'[i] = Leader, currentTerm'[i] = a.term
      PROVE  Holds(log'[i], a.upto, a.term)
  <2>1. PICK c \in Server : Won(c, a.term)
    OBVIOUS
  <2>2. Won(c, a.term)'
    BY <1>1, <2>1, WonStable
  <2>3. c = i
    BY <1>6, <2>2, LeadersWonNext DEF LeadersWon
  <2>4. state[i] = Leader /\ currentTerm[i] = a.term
    BY <1>2, <1>6, <2>1, <2>3 DEF Won
  <2> QED
    BY <1>3, <1>6, <2>4, LeaderLogKept
<1> QED
  BY <1>4, <1>5, <1>6 DEF AckOK, Holds, Has

\* What is acknowledged is so when it is acknowledged.
LEMMA NewAckOK ==
    ASSUME TypeInv, TypeInv', ElectionInv, ChainInv, RoleStep,
           NEW m \in appReqs, AppendEntries(m)
    PROVE  AckOK(NewAck(m))'
<1> DEFINE a == NewAck(m)
<1>1. a.by = m.to /\ a.upto = ReqEnd(m) /\ a.term = m.term
  BY DEF NewAck
<1>2. m \in AppReq /\ m.to \in Server /\ m.from \in Server /\ m.term \in Nat
  BY DEF TypeInv, TypeOK, AppReq
<1>3. /\ state'[m.to] # Leader /\ currentTerm'[m.to] = m.term
      /\ \A j \in Server \ {m.to} : /\ currentTerm'[j] = currentTerm[j]
                                    /\ state'[j] = state[j]
  BY AcceptorFollows DEF ChainInv
<1>4. Holds(log'[m.to], ReqEnd(m), m.term)
  BY ChainAccept
<1>5. ASSUME NEW i \in Server, state'[i] = Leader, currentTerm'[i] = m.term
      PROVE  Holds(log'[i], ReqEnd(m), m.term)
  <2>1. i # m.to
    BY <1>3, <1>5
  <2>2. state[i] = Leader /\ currentTerm[i] = m.term
    BY <1>3, <1>5, <2>1
  <2>3. ReqOK(m)
    BY DEF ChainInv, ReqsOK
  <2>4. m.from = i
    BY <1>2, <2>2, <2>3, LeaderWon DEF ReqOK
  <2>5. log'[i] = log[i]
    BY <1>2, <2>1 DEF AppendEntries, TypeInv, TypeOK
  <2> QED
    BY <2>2, <2>3, <2>4, <2>5 DEF ReqOK
<1>6. m.term <= currentTerm'[m.to]
  BY <1>2, <1>3
<1> HIDE DEF a
<1>7. AckOK(a)'
  BY <1>1, <1>3, <1>4, <1>5, <1>6 DEF AckOK, Holds, Has, ReqEnd
<1> QED
  BY <1>7 DEF a

\* nextIndex stays within the log.
LEMMA NextIndexStep ==
    ASSUME TypeInv, TypeInv', ElectionInv, ChainInv, AckInv, [Next]_vars
    PROVE  NextIndexInLog'
<1> SUFFICES ASSUME NEW i \in Server, NEW j \in Server, state'[i] = Leader
             PROVE  nextIndex'[i][j] \in 1 .. Len(log'[i]) + 1
  BY DEF NextIndexInLog, LastIndex
<1>1. /\ Len(log[i]) \in Nat /\ Len(log'[i]) \in Nat
      /\ Len(log'[i]) >= Len(log[i])
  <2>1. log[i] \in Seq(Entry) /\ log'[i] \in Seq(Entry)
    BY DEF TypeInv, TypeOK
  <2>2. Len(log'[i]) >= Len(log[i])
    BY LeaderLogKept
  <2> QED
    BY <2>1, <2>2
<1>2. state[i] = Leader => nextIndex[i][j] \in 1 .. Len(log[i]) + 1
  BY DEF AckInv, NextIndexInLog, LastIndex
<1>3. CASE nextIndex' = nextIndex /\ NoNewLeader
  BY <1>1, <1>2, <1>3 DEF NoNewLeader
<1>4. ASSUME NEW m \in voteReps, BecomeLeader(m)
      PROVE  nextIndex'[i][j] \in 1 .. Len(log'[i]) + 1
  <2>1. m.to \in Server
    BY DEF TypeInv, TypeOK, VoteRep
  <2>2. CASE i = m.to
    <3>1. nextIndex'[i][j] = Len(log[i]) + 1
      BY <1>4, <2>1, <2>2 DEF BecomeLeader, LastIndex, TypeInv, TypeOK
    <3> QED
      BY <1>1, <3>1
  <2>3. CASE i # m.to
    <3>1. nextIndex'[i] = nextIndex[i] /\ state'[i] = state[i]
      BY <1>4, <2>1, <2>3 DEF BecomeLeader, TypeInv, TypeOK
    <3> QED
      BY <1>1, <1>2, <3>1
  <2> QED
    BY <2>2, <2>3
<1>5. ASSUME NEW m \in appReps, AppendReplySuccess(m)
      PROVE  nextIndex'[i][j] \in 1 .. Len(log'[i]) + 1
  <2>1. m.to \in Server /\ m.from \in Server /\ m.newMatch \in Nat
    BY DEF TypeInv, TypeOK, AppRep
  <2>2. /\ state' = state /\ m.success /\ ReplyCurrent(m)
        /\ nextIndex' = [nextIndex EXCEPT ![m.to][m.from] =
               IF m.newMatch > matchIndex[m.to][m.from]
               THEN m.newMatch + 1 ELSE @]
    BY <1>5 DEF AppendReplySuccess, electionVars
  <2>3. \/ nextIndex'[i][j] = nextIndex[i][j]
        \/ i = m.to /\ j = m.from /\ nextIndex'[i][j] = m.newMatch + 1
    <3> DEFINE v == IF m.newMatch > matchIndex[m.to][m.from]
                    THEN m.newMatch + 1 ELSE nextIndex[m.to][m.from]
    <3>1. /\ nextIndex \in [Server -> [Server -> Nat]]
          /\ nextIndex' = [nextIndex EXCEPT ![m.to][m.from] = v]
      BY <2>2 DEF TypeInv, TypeOK
    <3>2. v = m.newMatch + 1 \/ v = nextIndex[m.to][m.from]
      OBVIOUS
    <3> HIDE DEF v
    <3> QED
      BY <2>1, <3>1, <3>2
  <2>4. CASE nextIndex'[i][j] = nextIndex[i][j]
    <3>1. nextIndex[i][j] \in 1 .. Len(log[i]) + 1
      BY <1>2, <2>2
    <3> QED
      BY <1>1, <2>4, <3>1
  <2>5. CASE i = m.to /\ nextIndex'[i][j] = m.newMatch + 1
    <3> DEFINE a == [by |-> m.from, upto |-> m.newMatch, term |-> m.sentTerm]
    <3>1. a \in Acks
      BY <2>2 DEF Acks
    <3>2. AckOK(a)
      BY <3>1 DEF AckInv
    <3>3. Holds(log[i], m.newMatch, m.sentTerm)
      BY <2>2, <2>5, <3>2 DEF AckOK, ReplyCurrent
    <3>4. m.newMatch \in 1..Len(log[i])
      BY <3>3 DEF Holds, Has
    <3> QED
      BY <1>1, <2>5, <3>4
  <2> QED
    BY <2>3, <2>4, <2>5
<1>6. ASSUME NEW m \in appReps, AppendReplyReject(m)
      PROVE  nextIndex'[i][j] \in 1 .. Len(log'[i]) + 1
  <2>1. m.to \in Server /\ m.from \in Server
    BY DEF TypeInv, TypeOK, AppRep
  <2>2. /\ state' = state
        /\ nextIndex' = [nextIndex EXCEPT ![m.to][m.from] = BackUp(@)]
    BY <1>6 DEF AppendReplyReject, electionVars
  <2>3. \/ nextIndex'[i][j] = nextIndex[i][j]
        \/ nextIndex'[i][j] = BackUp(nextIndex[i][j])
    <3>1. nextIndex \in [Server -> [Server -> Nat]]
      BY DEF TypeInv, TypeOK
    <3> QED
      BY <2>1, <2>2, <3>1
  <2>4. nextIndex[i][j] \in 1 .. Len(log[i]) + 1
    BY <1>2, <2>2
  <2> QED
    BY <1>1, <2>3, <2>4 DEF BackUp
<1> QED
  BY <1>3, <1>4, <1>5, <1>6, LeaderKinds

\* Every step keeps what is known of the peers true.
LEMMA AckStep ==
    ASSUME TypeInv, TypeInv', ElectionInv, ElectionInv', ChainInv, AckInv,
           [Next]_vars
    PROVE  AckInv'
<1>1. RoleStep
  BY NextRoleStep
<1>2. ASSUME NEW a \in Acks'
      PROVE  AckOK(a)'
  <2>1. CASE a \in Acks
    BY <2>1, AckFacts, AckStable DEF AckInv
  <2>2. ASSUME NEW m \in appReqs, AppendEntries(m), a = NewAck(m)
        PROVE  AckOK(a)'
    BY <1>1, <2>2, NewAckOK
  <2> QED
    BY <2>1, <2>2, AcksStep
<1>3. ASSUME NEW r \in appReps'
      PROVE  r.to # r.from /\ Won(r.to, r.sentTerm)'
  <2>1. CASE r \in appReps
    <3>1. r.to \in Server /\ r.sentTerm \in Nat
      BY <2>1 DEF TypeInv, TypeOK, AppRep
    <3> QED
      BY <1>1, <2>1, <3>1, WonStable DEF AckInv
  <2>2. CASE r \notin appReps
    <3>1. PICK m \in appReqs : HandleAppReq(m)
      BY <2>2, ReplyKinds
    <3>2. r.to = m.from /\ r.from = m.to /\ r.sentTerm = m.term
      BY <2>2, <3>1 DEF HandleAppReq, AppendEntriesStale,
                        AppendEntriesMismatch, AppendEntries, ReplyAppend
    <3>3. m.from \in Server /\ m.term \in Nat
      BY DEF TypeInv, TypeOK, AppReq
    <3>4. m.to # m.from /\ Won(m.from, m.term)
      BY DEF ChainInv, ReqsOK, ReqOK
    <3> QED
      BY <1>1, <3>2, <3>3, <3>4, WonStable
  <2> QED
    BY <2>1, <2>2
<1>4. NextIndexInLog'
  BY NextIndexStep
<1> QED
  BY <1>2, <1>3, <1>4 DEF AckInv

-----------------------------------------------------------------------------
(* The theorems *)

\* Nothing is written, sent or acknowledged in the initial state.
LEMMA InitLog == Init => ChainInv /\ AckInv
<1> SUFFICES ASSUME Init PROVE ChainInv /\ AckInv
  OBVIOUS
<1>1. Links = {}
  <2>1. \A i \in Server : LogLinks(log[i]) = {}
    BY DEF Init, LogLinks, ChainLinks
  <2> QED
    BY <2>1 DEF Init, Links
<1>2. \A i \in Server : state[i] # Leader /\ LogLinks(log[i]) = {}
  BY DEF Init, Follower, Leader, LogLinks, ChainLinks
<1>3. ChainInv
  BY <1>1, <1>2 DEF ChainInv, LinksOK, LinksOrdered, LinksUnique, LinksRun,
                    LinksWon, LeaderHasTerm, LogTerms, ReqsOK, Init
<1>4. Acks = {}
  <2>1. \A a : ~AckOnItsWay(a) /\ ~AckCounted(a)
    BY <1>2 DEF Init, AckOnItsWay, AckCounted
  <2> QED
    BY <2>1, AckPlaces DEF AcksPlaced
<1>5. AckInv
  BY <1>2, <1>4 DEF AckInv, NextIndexInLog, Init
<1> QED
  BY <1>3, <1>5

\* The invariant of the logs and of the acknowledgements.
LogInv == TypeInv /\ ElectionInv /\ ChainInv /\ AckInv

\* Every step keeps it.
LEMMA LogInvStep ==
    ASSUME LogInv, [Next]_vars, TypeInv', ElectionInv'
    PROVE  LogInv'
<1>1. TypeInv /\ ElectionInv /\ ChainInv /\ AckInv /\ NextIndexInLog
  BY DEF LogInv, AckInv
<1>2. ChainInv' /\ AckInv'
  BY <1>1, ChainStep, AckStep
<1> QED
  BY <1>2 DEF LogInv

\* Equal entries make equal prefixes.
LEMMA PrefixesEqual ==
    ASSUME NEW l \in Seq(Entry), NEW r \in Seq(Entry), NEW n \in Nat,
           n <= Len(l), n <= Len(r), \A k \in 1..n : l[k] = r[k]
    PROVE  /\ SubSeq(l, 1, n) = SubSeq(r, 1, n)
           /\ n = Len(l) => SubSeq(r, 1, n) = l
<1>1. Len(l) \in Nat /\ Len(r) \in Nat /\ n \in Int /\ 1 \in Int
  OBVIOUS
<1>2. /\ \A k \in 1..n : l[k] \in Entry
      /\ \A k \in 1..n : r[k] \in Entry
  BY <1>1
<1> DEFINE a == SubSeq(l, 1, n)
           b == SubSeq(r, 1, n)
<1>3. /\ a \in Seq(Entry) /\ Len(a) = n /\ \A k \in 1..n : a[k] = l[k]
  <2>1. /\ a \in Seq(Entry)
        /\ Len(a) = IF 1 <= n THEN n - 1 + 1 ELSE 0
        /\ \A k \in 1 .. n - 1 + 1 : a[k] = l[1 + k - 1]
    BY <1>1, <1>2, SubSeqProperties
  <2> HIDE DEF a
  <2> QED
    BY <1>1, <2>1
<1>4. /\ b \in Seq(Entry) /\ Len(b) = n /\ \A k \in 1..n : b[k] = r[k]
  <2>1. /\ b \in Seq(Entry)
        /\ Len(b) = IF 1 <= n THEN n - 1 + 1 ELSE 0
        /\ \A k \in 1 .. n - 1 + 1 : b[k] = r[1 + k - 1]
    BY <1>1, <1>2, SubSeqProperties
  <2> HIDE DEF b
  <2> QED
    BY <1>1, <2>1
<1> HIDE DEF a, b
<1>5. a = b
  BY <1>3, <1>4, SeqEqual
<1>6. n = Len(l) => b = l
  BY <1>4, SeqEqual
<1> QED
  BY <1>5, <1>6 DEF a, b

\* Logs that hold an entry of the same term at n are equal up to n.
LEMMA LogsMatch ==
    ASSUME LogInv, NEW i \in Server, NEW j \in Server, NEW n \in Nat, NEW t,
           Holds(log[i], n, t), Holds(log[j], n, t)
    PROVE  SubSeq(log[i], 1, n) = SubSeq(log[j], 1, n)
<1> DEFINE l == log[i]
           r == log[j]
<1>1. l \in Seq(Entry) /\ r \in Seq(Entry) /\ LinksUnique(Links)
  BY DEF LogInv, TypeInv, TypeOK, ChainInv, LinksOK
<1>2. LogLinks(l) \subseteq Links /\ LogLinks(r) \subseteq Links
  BY DEF Links
<1>3. n <= Len(l) /\ n <= Len(r)
  BY <1>1 DEF Holds, Has
<1> HIDE DEF l, r
<1>4. \A k \in 1..n : l[k] = r[k]
  BY <1>1, <1>2, ChainsMatch DEF l, r
<1>5. SubSeq(l, 1, n) = SubSeq(r, 1, n)
  BY <1>1, <1>3, <1>4, PrefixesEqual
<1> QED
  BY <1>5 DEF l, r

(***************************************************************************)
(* The invariant of the logs and of the acknowledgements, for every        *)
(* cluster, every number of elections and every length of the logs.        *)
(***************************************************************************)
THEOREM LogInvariant == Spec => []LogInv
<1>1. Init => LogInv
  BY InitLog, TypeInit, ElectionInit DEF LogInv
<1>2. LogInv /\ [Next]_vars /\ (TypeInv /\ ElectionInv)' => LogInv'
  BY LogInvStep
<1> QED
  BY ElectionInvariant, <1>1, <1>2, PTL DEF Spec

\* Two logs that agree on the term of an entry agree on everything up to it:
\* the consistency check and the merge of AppendEntries never fork a term.
THEOREM LogsNeverFork == Spec => []LogMatching
<1>1. ASSUME LogInv
      PROVE  LogMatching
  <2> SUFFICES ASSUME NEW i \in Server, NEW j \in Server,
                      NEW n \in DOMAIN log[i] \cap DOMAIN log[j],
                      log[i][n].term = log[j][n].term
               PROVE  SubSeq(log[i], 1, n) = SubSeq(log[j], 1, n)
    BY DEF LogMatching
  <2>1. log[i] \in Seq(Entry) /\ log[j] \in Seq(Entry)
    BY <1>1 DEF LogInv, TypeInv, TypeOK
  <2>2. n \in 1..Len(log[i]) /\ n \in 1..Len(log[j]) /\ n \in Nat
    BY <2>1
  <2> QED
    BY <1>1, <2>2, LogsMatch DEF Holds, Has
<1>2. LogInv => LogMatching
  BY <1>1
<1> QED
  BY LogInvariant, <1>2, PTL

\* Terms never decrease along a log, and no entry is of a term its holder has
\* not reached.
THEOREM TermsOrderedAlways == Spec => []TermsOrdered
<1>1. ASSUME LogInv
      PROVE  TermsOrdered
  <2> SUFFICES ASSUME NEW i \in Server, NEW n \in DOMAIN log[i]
               PROVE  /\ log[i][n].term <= currentTerm[i]
                      /\ n > 1 => log[i][n - 1].term <= log[i][n].term
    BY DEF TermsOrdered
  <2>1. log[i] \in Seq(Entry) /\ n \in 1..Len(log[i])
    BY <1>1 DEF LogInv, TypeInv, TypeOK
  <2>2. PICK x \in LogLinks(log[i]) :
               /\ x.e = log[i][n]
               /\ x.p = IF n = 1 THEN 0 ELSE log[i][n - 1].term
    BY <2>1, LogLinkAt
  <2>3. x \in Links
    BY DEF Links
  <2>4. x.e.term <= currentTerm[i] /\ x.p <= x.e.term
    BY <1>1, <2>3 DEF LogInv, ChainInv, LogTerms, LinksOK, LinksOrdered
  <2>5. n > 1 => n # 1
    BY <2>1
  <2> QED
    BY <2>2, <2>4, <2>5
<1>2. LogInv => TermsOrdered
  BY <1>1
<1> QED
  BY LogInvariant, <1>2, PTL

\* Append never panics, on any node and in any term: every entry of a log,
\* and every entry on its way to one, carries the index of its position.
THEOREM AppendNeverPanics == Spec => []LogIndexed
<1>1. ASSUME LogInv
      PROVE  LogIndexed
  <2>1. \A x \in Links : x.e.index = x.n
    BY <1>1 DEF LogInv, ChainInv, LinksOK, LinksOrdered
  <2>2. ASSUME NEW i \in Server, NEW n \in DOMAIN log[i]
        PROVE  log[i][n].index = n
    <3>1. log[i] \in Seq(Entry) /\ n \in 1..Len(log[i])
      BY <1>1 DEF LogInv, TypeInv, TypeOK
    <3>2. PICK x \in LogLinks(log[i]) : x.n = n /\ x.e = log[i][n]
      BY <3>1, LogLinkAt
    <3>3. x \in Links
      BY DEF Links
    <3> QED
      BY <2>1, <3>2, <3>3
  <2>3. ASSUME NEW m \in appReqs, NEW k \in DOMAIN m.entries
        PROVE  m.entries[k].index = m.prevLogIndex + k
    <3> DEFINE b == m.prevLogIndex
               bt == m.prevLogTerm
               es == m.entries
    <3>1. m \in AppReq
      BY <1>1 DEF LogInv, TypeInv, TypeOK
    <3>2. b \in Nat /\ bt \in Nat /\ es \in Seq(Entry)
      BY <3>1, ReqFields
    <3>3. k \in 1..Len(es)
      BY <3>2
    <3> HIDE DEF b, bt, es
    <3>4. PICK x \in ChainLinks(b, bt, es) : x.n = b + k /\ x.e = es[k]
      <4>1. \E x \in ChainLinks(b, bt, es) : IsLinkAt(x, k, b, bt, es)
        BY <3>2, <3>3, LinkAt
      <4> QED
        BY <4>1 DEF IsLinkAt
    <3>5. x \in Links
      BY <3>4 DEF Links, ReqLinks, b, bt, es
    <3>6. es[k].index = b + k
      BY <2>1, <3>4, <3>5
    <3> QED
      BY <3>6 DEF b, es
  <2> QED
    BY <2>2, <2>3 DEF LogIndexed
<1>2. LogInv => LogIndexed
  BY <1>1
<1> QED
  BY LogInvariant, <1>2, PTL

\* A leader's matchIndex is an acknowledgement.
LEMMA MatchAcked ==
    ASSUME LogInv, NEW i \in Server, NEW j \in Server, state[i] = Leader,
           matchIndex[i][j] # 0
    PROVE  /\ Holds(log[i], matchIndex[i][j], currentTerm[i])
           /\ currentTerm[j] = currentTerm[i]
                => Holds(log[j], matchIndex[i][j], currentTerm[i])
<1> DEFINE a == [by |-> j, upto |-> matchIndex[i][j], term |-> currentTerm[i]]
<1>1. AckCounted(a)
  BY DEF AckCounted
<1>2. AckOK(a)
  BY <1>1, AckPlaces DEF AcksPlaced, LogInv, AckInv
<1> QED
  BY <1>2 DEF AckOK

\* While a peer has not moved to another term, it holds all that the leader's
\* matchIndex says it holds, whatever the order of requests and replies.
THEOREM MatchIndexAlwaysSound == Spec => []MatchIndexSound
<1>1. ASSUME LogInv
      PROVE  MatchIndexSound
  <2> SUFFICES ASSUME NEW i \in Server, NEW j \in Server,
                      state[i] = Leader, currentTerm[j] = currentTerm[i]
               PROVE  /\ matchIndex[i][j] <= Len(log[j])
                      /\ matchIndex[i][j] <= Len(log[i])
                      /\ SubSeq(log[j], 1, matchIndex[i][j])
                             = SubSeq(log[i], 1, matchIndex[i][j])
    BY DEF MatchIndexSound, LastIndex
  <2>1. /\ matchIndex[i][j] \in Nat
        /\ log[i] \in Seq(Entry) /\ log[j] \in Seq(Entry)
    BY <1>1 DEF LogInv, TypeInv, TypeOK
  <2>2. CASE matchIndex[i][j] = 0
    <3>1. \A k \in 1..0 : log[j][k] = log[i][k]
      OBVIOUS
    <3> QED
      BY <2>1, <2>2, <3>1, PrefixesEqual
  <2>3. CASE matchIndex[i][j] # 0
    <3>1. /\ Holds(log[i], matchIndex[i][j], currentTerm[i])
          /\ Holds(log[j], matchIndex[i][j], currentTerm[i])
      BY <1>1, <2>3, MatchAcked
    <3>2. /\ matchIndex[i][j] <= Len(log[i])
          /\ matchIndex[i][j] <= Len(log[j])
      BY <2>1, <3>1 DEF Holds, Has
    <3> QED
      BY <1>1, <2>1, <3>1, <3>2, LogsMatch
  <2> QED
    BY <2>2, <2>3
<1>2. LogInv => MatchIndexSound
  BY <1>1
<1> QED
  BY LogInvariant, <1>2, PTL

\* What a leader knows of a peer reaches the leader's own no-op: an entry of
\* an earlier term is never counted before one of the leader's term.
THEOREM MatchReachesOwnTermAlways == Spec => []MatchReachesOwnTerm
<1>1. ASSUME LogInv
      PROVE  MatchReachesOwnTerm
  BY <1>1, MatchAcked DEF MatchReachesOwnTerm, Holds
<1>2. LogInv => MatchReachesOwnTerm
  BY <1>1
<1> QED
  BY LogInvariant, <1>2, PTL

\* prevLogTerm is never made up: nextIndex of a leader stays within its log,
\* however many late rejections back it up.
THEOREM NextIndexAlwaysInLog == Spec => []NextIndexInLog
<1>1. LogInv => NextIndexInLog
  BY DEF LogInv, AckInv
<1> QED
  BY LogInvariant, <1>1, PTL

\* A leader never removes or replaces an entry of its own log: no step that a
\* leader survives merges a request into it.
THEOREM LeadersOnlyAppend == Spec => LeaderAppendOnly
<1>1. ASSUME LogInv, TypeInv', [Next]_vars, NEW i \in Server,
             state'[i] = Leader
      PROVE  /\ Len(log'[i]) >= Len(log[i])
             /\ SubSeq(log'[i], 1, Len(log[i])) = log[i]
  <2> DEFINE l == log[i]
             r == log'[i]
  <2>1. l \in Seq(Entry) /\ r \in Seq(Entry) /\ Len(l) \in Nat /\ Len(r) \in Nat
    BY <1>1 DEF LogInv, TypeInv, TypeOK
  <2>2. /\ Len(r) >= Len(l)
        /\ \A k \in 1..Len(l) : r[k] = l[k]
    BY <1>1, LeaderLogKept DEF LogInv
  <2> HIDE DEF l, r
  <2>3. SubSeq(r, 1, Len(l)) = l
    BY <2>1, <2>2, PrefixesEqual
  <2> QED
    BY <2>2, <2>3 DEF l, r
<1>2. LogInv /\ TypeInv' /\ [Next]_vars
        => [\A i \in Server :
               state[i] = Leader /\ state'[i] = Leader =>
                  /\ Len(log'[i]) >= Len(log[i])
                  /\ SubSeq(log'[i], 1, Len(log[i])) = log[i]]_vars
  BY <1>1
<1>3. LogInv => TypeInv
  BY DEF LogInv
<1> QED
  BY LogInvariant, <1>2, <1>3, PTL DEF Spec, LeaderAppendOnly
=============================================================================
