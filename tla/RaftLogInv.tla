----------------------------- MODULE RaftLogInv -----------------------------
(***************************************************************************)
(* The inductive invariants behind the log and commit theorems.  Nothing   *)
(* here is remembered by the program: every definition looks only at the   *)
(* logs, the votes and the RPCs in flight.                                 *)
(***************************************************************************)
EXTENDS RaftInv

-----------------------------------------------------------------------------
(* Links: the entries of the system, wherever they are *)

(***************************************************************************)
(* An entry e at position n, right after an entry of term p (0 when n is   *)
(* the first position).  A log is a chain of links, and so are the entries *)
(* of a request, which hang on the entry at prevLogIndex.                  *)
(***************************************************************************)
Link(n, e, p) == [n |-> n, e |-> e, p |-> p]

ChainLinks(base, baseTerm, es) ==
    {Link(base + k, es[k], IF k = 1 THEN baseTerm ELSE es[k - 1].term) :
        k \in 1..Len(es)}

LogLinks(l) == ChainLinks(0, 0, l)

ReqLinks(m) == ChainLinks(m.prevLogIndex, m.prevLogTerm, m.entries)

Links == (UNION {LogLinks(log[i]) : i \in Server})
             \cup (UNION {ReqLinks(m) : m \in appReqs})

\* The log l has an entry of term t at n.
Holds(l, n, t) == Has(l, n) /\ l[n].term = t

\* The position of the last entry a request speaks of.
ReqEnd(m) == m.prevLogIndex + Len(m.entries)

\* Every entry carries its index, and terms do not decrease along a chain.
LinksOrdered(L) == \A x \in L : x.e.index = x.n /\ x.p <= x.e.term

\* Position and term determine the entry and the term before it.
LinksUnique(L) ==
    \A x, y \in L :
        x.n = y.n /\ x.e.term = y.e.term => x.e = y.e /\ x.p = y.p

\* The entries of one term are consecutive.
LinksRun(L) ==
    \A x, y \in L : x.e.term = y.e.term /\ x.n < y.n => y.p = y.e.term

LinksOK(L) == LinksOrdered(L) /\ LinksUnique(L) /\ LinksRun(L)

-----------------------------------------------------------------------------
(* Who wrote them *)

(***************************************************************************)
(* c has won the election of term t: a majority voted for it, or has left  *)
(* t without a trace of another vote, and c leads t or is past it.         *)
(***************************************************************************)
Won(c, t) ==
    /\ \/ currentTerm[c] > t
       \/ currentTerm[c] = t /\ state[c] = Leader
    /\ \E Q \in SUBSET Server :
         /\ Majority(Q)
         /\ \A q \in Q :
              /\ \/ currentTerm[q] > t
                 \/ currentTerm[q] = t /\ votedFor[q] = c
              /\ \A d \in Server : Ballot(q, t, d) => d = c

\* Every entry was written by the winner of its term.
LinksWon == \A x \in Links : \E c \in Server : Won(c, x.e.term)

\* No entry of a leader's term is beyond the leader's log.
LeaderHasTerm ==
    \A i \in Server : \A x \in Links :
        state[i] = Leader /\ x.e.term = currentTerm[i]
            => x.n <= Len(log[i])

\* A leader's last entry is of its own term, and a log knows no later term
\* than its node.
LogTerms ==
    \A i \in Server :
        /\ \A x \in LogLinks(log[i]) : x.e.term <= currentTerm[i]
        /\ state[i] = Leader => Holds(log[i], Len(log[i]), currentTerm[i])

\* The last entry a request speaks of is of the leader's term.
ReqEndsInTerm(m) ==
    IF m.entries = <<>>
    THEN m.prevLogIndex > 0 /\ m.prevLogTerm = m.term
    ELSE m.entries[Len(m.entries)].term = m.term

\* A request ends with an entry of the leader's term, its no-op or a later
\* one, that is in the leader's log.
ReqOK(m) ==
    /\ m.to # m.from
    /\ Won(m.from, m.term)
    /\ m.prevLogIndex = 0 => m.prevLogTerm = 0
    /\ \A x \in ReqLinks(m) : x.e.term <= m.term
    /\ ReqEndsInTerm(m)
    /\ state[m.from] = Leader /\ currentTerm[m.from] = m.term
         => Holds(log[m.from], ReqEnd(m), m.term)

ReqsOK == \A m \in appReqs : ReqOK(m)

ChainInv ==
    LinksOK(Links) /\ LinksWon /\ LeaderHasTerm /\ LogTerms /\ ReqsOK

-----------------------------------------------------------------------------
(* What the peers have acknowledged *)

\* Peer a.by told the leader of a.term that it holds all up to a.upto: the
\* reply is on its way, or it is in the leader's matchIndex.
Acks ==
    {[by |-> m.from, upto |-> m.newMatch, term |-> m.sentTerm] :
        m \in {r \in appReps : r.success}}
    \cup
    {[by |-> r[2], upto |-> matchIndex[r[1]][r[2]], term |-> currentTerm[r[1]]] :
        r \in {s \in Server \X Server :
                  state[s[1]] = Leader /\ matchIndex[s[1]][s[2]] # 0}}

\* What was acknowledged is in the leader's log, and in the peer's until it
\* moves to another term.
AckOK(a) ==
    /\ a.term <= currentTerm[a.by]
    /\ currentTerm[a.by] = a.term => Holds(log[a.by], a.upto, a.term)
    /\ \A i \in Server : state[i] = Leader /\ currentTerm[i] = a.term
           => Holds(log[i], a.upto, a.term)

AckInv ==
    /\ \A a \in Acks : AckOK(a)
    /\ \A m \in appReps : m.to # m.from /\ Won(m.to, m.sentTerm)
    /\ NextIndexInLog

-----------------------------------------------------------------------------
(* Votes and logs *)

\* A vote is for an election that its candidate has started.
BallotsAsked ==
    \A j, c \in Server : \A t \in BallotTerms :
        Ballot(j, t, c) => t <= currentTerm[c]

\* A request for a vote describes the candidate's log; while it campaigns the
\* log changes only by taking entries of the campaign's own term.
VoteReqOK(m) ==
    /\ m.term <= currentTerm[m.from]
    /\ state[m.from] = Candidate /\ currentTerm[m.from] = m.term
         => \/ LastTerm(log[m.from]) = m.term
            \/ /\ m.lastLogTerm = LastTerm(log[m.from])
               /\ m.lastLogIndex = LastIndex(log[m.from])

VoteLogInv == BallotsAsked /\ \A m \in voteReqs : VoteReqOK(m)

-----------------------------------------------------------------------------
(* Commitment *)

\* Every entry of L of a term after t is beyond n, and what precedes it is of
\* term t or later: a log that has one has an entry of term t at n.
CarriedIn(L, n, t) == \A x \in L : x.e.term > t => x.n > n /\ x.p >= t

Carried(n, t) == CarriedIn(Links, n, t)

\* q holds the entry of term t at n, and so does every candidate of a later
\* term that has q's vote.
Kept(q, n, t) ==
    /\ Holds(log[q], n, t)
    /\ \A c \in Server :
         /\ state[c] = Candidate /\ currentTerm[c] > t
         /\ Ballot(q, currentTerm[c], c)
         => Holds(log[c], n, t)

\* No leader of a term after t can be without the entry of term t at n.
Secured(n, t, Q) ==
    /\ Majority(Q)
    /\ Carried(n, t)
    /\ \A q \in Q : currentTerm[q] > t => Kept(q, n, t)

\* q has acknowledged the entry, or may still do so.
MayAck(q, n, t) ==
    \/ currentTerm[q] <= t
    \/ \E a \in Acks : a.by = q /\ a.term = t /\ a.upto >= n

\* What a majority may still make committed is secured already.
ChoosableSecured ==
    \A x \in Links : \A Q \in SUBSET Server :
        Majority(Q) /\ (\A q \in Q : MayAck(q, x.n, x.e.term))
            => Secured(x.n, x.e.term, Q)

\* A majority holds the entry, for good.
Protected(n, t, Q) ==
    Secured(n, t, Q) /\ \A q \in Q : Holds(log[q], n, t)

\* The entry of term s at k is at or before a protected one of a term <= T.
Fixed(k, s, T) ==
    \E x \in Links, Q \in SUBSET Server :
        /\ Protected(x.n, x.e.term, Q)
        /\ k <= x.n /\ x.e.term <= T
        /\ \A q \in Q : Holds(log[q], k, s)

\* What a node has committed, and what a request commits, is fixed.
CommitsFixed ==
    /\ \A j \in Server :
         commitIndex[j] # 0 =>
             Fixed(commitIndex[j], log[j][commitIndex[j]].term, currentTerm[j])
    /\ \A m \in appReqs :
         m.leaderCommit # 0 =>
             \E x \in Links : x.n = m.leaderCommit
                              /\ Fixed(x.n, x.e.term, m.term)

CommitInLog == \A i \in Server : commitIndex[i] <= Len(log[i])

CommitInv ==
    /\ VoteLogInv /\ ChoosableSecured
    /\ CommitsFixed /\ CommitInLog /\ RequestCoversCommit
=============================================================================
