------------------------------ MODULE RaftLog ------------------------------
(***************************************************************************)
(* The in-memory Raft log of internal/log/log.go, as operators on          *)
(* sequences of entries.  The sentinel entries[0] = (Index 0, Term 0) of   *)
(* the code is implicit: position n of the sequence is index n of the log. *)
(*                                                                         *)
(* An entry keeps its Index field because Append panics when it differs    *)
(* from LastIndex()+1; a log holding an entry whose index is not its       *)
(* position stands for that panic (Raft's LogIndexed excludes it).         *)
(***************************************************************************)
EXTENDS Integers, Sequences, FiniteSetsExt

\* The ok result of At(n).
Has(l, n) == n \in 1..Len(l)

LastIndex(l) == Len(l)

LastTerm(l) == IF l = <<>> THEN 0 ELSE l[Len(l)].term

\* Drop every entry with index >= from; no effect when from is out of range.
Truncate(l, from) == IF Has(l, from) THEN SubSeq(l, 1, from - 1) ELSE l

\* Mutant: one entry per request.
EntriesOneByOne(l, from, to) ==
    SubSeq(l, Max({from, 1}), Min({from, to - 1, Len(l)}))

\* The entries in the half-open range [from, to), clipped to the log.
Entries(l, from, to) ==
    SubSeq(l, Max({from, 1}), Min({to, Len(l) + 1}) - 1)

(***************************************************************************)
(* AppendEntries' merge loop: skip the entries the log already holds with  *)
(* the same term; at the first one that is missing or conflicts, truncate  *)
(* there and append the rest.  (After that point every At() of the loop    *)
(* fails, so the loop only appends.)  MergeIsTheLoop of module MergeLoop   *)
(* compares this closed form with the loop of the code.                    *)
(***************************************************************************)
NewEntries(l, prev, es) ==
    {k \in 1..Len(es) : ~(Has(l, prev + k) /\ l[prev + k].term = es[k].term)}

\* Mutant: a conflicting entry does not truncate what follows it.
MergeWithoutTruncate(l, prev, es) ==
    IF NewEntries(l, prev, es) = {} THEN l
    ELSE l \o SubSeq(es, Min(NewEntries(l, prev, es)), Len(es))

\* Mutant: always cut the log at prevLogIndex, as if every entry conflicted.
MergeAlwaysTruncate(l, prev, es) == SubSeq(l, 1, prev) \o es

Merge(l, prev, es) ==
    IF NewEntries(l, prev, es) = {} THEN l
    ELSE LET k == Min(NewEntries(l, prev, es))
         IN  Truncate(l, prev + k) \o SubSeq(es, k, Len(es))
=============================================================================
