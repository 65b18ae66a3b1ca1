------------------------------- MODULE RaftLog -------------------------------
(***************************************************************************)
(* The log of one Raft peer: src/raft/log.go.                              *)
(*                                                                         *)
(* A Log is a base index and the entries from that index on.  The entry    *)
(* at the base stands for everything a snapshot replaced: at boot it is    *)
(* the term-0 entry that Make appends.  Indices are absolute, as they are  *)
(* in the code; the Go slice position is index - base.                     *)
(***************************************************************************)
EXTENDS Integers, Sequences

CONSTANT None      \* the nil Command of an entry without one

(***************************************************************************)
(* What getEntry returns for an index the log does not hold.               *)
(***************************************************************************)
Missing == [term |-> -1, cmd |-> None]

(***************************************************************************)
(* The log Make starts with: one entry of term 0 at index 0.               *)
(***************************************************************************)
InitialLog == [base |-> 0, entries |-> <<[term |-> 0, cmd |-> None]>>]

LastIndex(l) == l.base + Len(l.entries) - 1

(***************************************************************************)
(* length(): one more than the last absolute index.                        *)
(***************************************************************************)
LogLength(l) == l.base + Len(l.entries)

Indices(l) == l.base .. LastIndex(l)

EntryAt(l, k) ==
    IF k \in Indices(l) THEN l.entries[k - l.base + 1] ELSE Missing

TermAt(l, k) == EntryAt(l, k).term

LastTerm(l) == TermAt(l, LastIndex(l))

\* Mutant of EntriesFrom: reads one entry past the end.
EntriesPastEnd(l, k) ==
    [n \in 1 .. LastIndex(l) - k + 2 |-> EntryAt(l, k + n - 1)]

EntriesFrom(l, k) == SubSeq(l.entries, k - l.base + 1, Len(l.entries))

(***************************************************************************)
(* The first and the last index of the entries of a term, -1 when there    *)
(* is none.                                                                *)
(***************************************************************************)
IndicesOfTerm(l, t) == {k \in Indices(l) : TermAt(l, k) = t}

TermStart(l, t) ==
    IF IndicesOfTerm(l, t) = {} THEN -1
    ELSE CHOOSE k \in IndicesOfTerm(l, t) :
             \A n \in IndicesOfTerm(l, t) : k <= n

TermEnd(l, t) ==
    IF IndicesOfTerm(l, t) = {} THEN -1
    ELSE CHOOSE k \in IndicesOfTerm(l, t) :
             \A n \in IndicesOfTerm(l, t) : n <= k

(***************************************************************************)
(* truncate(k): keep what lies before index k.                             *)
(***************************************************************************)
Truncate(l, k) == [l EXCEPT !.entries = SubSeq(@, 1, k - l.base)]

AppendEntry(l, e) == [l EXCEPT !.entries = Append(@, e)]

(***************************************************************************)
(* appendEntries: walk the received entries until the log ends or the      *)
(* terms differ; from there on the log is replaced by the received ones.   *)
(* Entries that agree are left alone, and so is whatever follows them:     *)
(* a request that only repeats held entries never shortens the log.        *)
(***************************************************************************)
\* Mutant of Diverging: trusts the entries the log already has.
DivergingByLength(l, start, es) ==
    {n \in 0 .. Len(es) - 1 : start + n > LastIndex(l)}

Diverging(l, start, es) ==
    {n \in 0 .. Len(es) - 1 : \/ start + n > LastIndex(l)
                              \/ TermAt(l, start + n) # es[n + 1].term}

FirstDiverging(l, start, es) ==
    CHOOSE n \in Diverging(l, start, es) :
        \A m \in Diverging(l, start, es) : n <= m

KeptBefore(l, k) == IF k > LastIndex(l) THEN l ELSE Truncate(l, k)

AppendEntries(l, start, es) ==
    IF Diverging(l, start, es) = {} THEN l
    ELSE LET n == FirstDiverging(l, start, es)
         IN [base |-> l.base,
             entries |-> KeptBefore(l, start + n).entries
                            \o SubSeq(es, n + 1, Len(es))]

(***************************************************************************)
(* rebase(k): drop what lies before index k.  Past the end of the log      *)
(* nothing is left, not even a base entry.                                 *)
(***************************************************************************)
\* Mutant of Rebase: drops the base entry as well.
RebaseTooFar(l, k) ==
    [base |-> k,
     entries |-> IF k > LastIndex(l) THEN << >> ELSE EntriesFrom(l, k + 1)]

Rebase(l, k) ==
    [base |-> k,
     entries |-> IF k > LastIndex(l) THEN << >> ELSE EntriesFrom(l, k)]

(***************************************************************************)
(* The log part of the InstallSnapshot handler: what follows the snapshot  *)
(* is kept only if the log held the entry the snapshot ends with, and the  *)
(* entry at the new base carries the snapshot's term and no command.       *)
(***************************************************************************)
Installed(l, index, term) ==
    LET rest == IF TermAt(l, index) = term
                THEN SubSeq(Rebase(l, index).entries, 2, LastIndex(l) - index + 1)
                ELSE << >>
    IN [base |-> index, entries |-> <<[term |-> term, cmd |-> None]>> \o rest]
==============================================================================
