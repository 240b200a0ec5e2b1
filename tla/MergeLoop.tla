----------------------------- MODULE MergeLoop -----------------------------
(***************************************************************************)
(* The merge loop of AppendEntries as the code runs it, entry by entry,    *)
(* against Merge, the closed form that Raft uses: every log of up to three *)
(* entries and every request of up to two, over two terms.  The runs of    *)
(* the broker evaluate it; there a whole exchange is one step, and the log *)
(* that a merge leaves is simply the leader's.                             *)
(***************************************************************************)
EXTENDS RaftLog, SequencesExt

MergeStep(l, e) ==
    IF Has(l, e.index) /\ l[e.index].term = e.term THEN l
    ELSE Append(Truncate(l, e.index), e)

Terms(n) == UNION {[1 .. k -> {1, 2}] : k \in 0 .. n}

EntriesAfter(prev, ts) ==
    [k \in DOMAIN ts |-> [index |-> prev + k, term |-> ts[k]]]

ASSUME MergeIsTheLoop ==
    \A held \in Terms(3), sent \in Terms(2) : \A prev \in 0 .. Len(held) :
        LET l == EntriesAfter(0, held)
            es == EntriesAfter(prev, sent)
        IN  FoldLeft(MergeStep, l, es) = Merge(l, prev, es)

\* A log that ends in an entry of a new term replaces, when it is sent as a
\* whole, any log without that term: RaftAtomic's Replicate.
ASSUME MergeOfWholeLog ==
    \A held \in Terms(3), sent \in Terms(2) :
        LET es == EntriesAfter(0, Append(sent, 3))
        IN  Merge(EntriesAfter(0, held), 0, es) = es
=============================================================================
