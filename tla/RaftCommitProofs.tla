--------------------------- MODULE RaftCommitProofs ---------------------------
(***************************************************************************)
(* Proofs about committing: an entry a quorum is known to hold stays in    *)
(* every log that matters, so no two state machines ever disagree; and     *)
(* about backtracking: no rejected probe is sent again.                    *)
(***************************************************************************)
EXTENDS RaftProofs

----------------------------------------------------------------------------
(* Points: a log and an index in it, with the entries up to there.         *)

Point(L, K) ==
    /\ L \in LogType
    /\ L.base = 0
    /\ EntryAt(L, 0) = FirstEntry
    /\ K \in Indices(L)
    /\ \A n \in 0 .. K : TermAt(L, n) \in Nat /\ TermAt(L, n) <= TermAt(L, K)

Begins(L, K, l) ==
    /\ K <= LastIndex(l)
    /\ \A n \in 1 .. K : EntryAt(l, n) = EntryAt(L, n)

(***************************************************************************)
(* What RequestVote compares.                                              *)
(***************************************************************************)
AtLeast(l, k, t) ==
    \/ LastTerm(l) > t
    \/ LastTerm(l) = t /\ LastIndex(l) >= k

(***************************************************************************)
(* What a request may carry once the point is decided: its entries, and    *)
(* behind it nothing older.                                                *)
(***************************************************************************)
Fits(s, L, K) ==
    \A n \in Indices(s) :
        /\ n <= K => TermAt(s, n) = TermAt(L, n)
        /\ n > K => TermAt(s, n) >= TermAt(L, K)

(***************************************************************************)
(* A log that begins at index 0, as whole logs do.                         *)
(***************************************************************************)
Rooted(l) ==
    /\ l \in LogType
    /\ l.base = 0
    /\ LastIndex(l) >= 0
    /\ EntryAt(l, 0) = FirstEntry

LEMMA PointIs ==
    ASSUME NEW L, NEW K, Point(L, K)
    PROVE  /\ K \in Nat /\ LastIndex(L) \in Int /\ K <= LastIndex(L)
           /\ TermAt(L, K) \in Nat /\ TermAt(L, 0) = 0
           /\ K = 0 => TermAt(L, K) = 0
           /\ Rooted(L)
<1>1. /\ L \in LogType /\ L.base = 0 /\ EntryAt(L, 0) = FirstEntry
      /\ K \in Indices(L)
  BY DEF Point
<1>2. LastIndex(L) \in Int /\ K \in Int /\ K >= 0 /\ K <= LastIndex(L)
  BY <1>1, LogIndices, EntryOfLog
<1>3. TermAt(L, 0) = 0
  BY <1>1 DEF TermAt, FirstEntry
<1>4. K \in Nat /\ K \in 0 .. K /\ LastIndex(L) >= 0
  BY <1>2
<1>5. TermAt(L, K) \in Nat
  BY <1>4 DEF Point
<1> QED
  BY <1>1, <1>2, <1>3, <1>4, <1>5 DEF Rooted

LEMMA RootedIndices ==
    ASSUME NEW l, Rooted(l)
    PROVE  /\ LastIndex(l) \in Nat
           /\ Indices(l) = 0 .. LastIndex(l)
           /\ 0 \in Indices(l)
           /\ TermAt(l, 0) = 0
<1>1. l \in LogType /\ l.base = 0 /\ EntryAt(l, 0) = FirstEntry /\ LastIndex(l) >= 0
  BY DEF Rooted
<1>2. LastIndex(l) \in Int
  BY <1>1, LogIndices
<1>3. Indices(l) = 0 .. LastIndex(l)
  BY <1>1 DEF Indices
<1> QED
  BY <1>1, <1>2, <1>3 DEF TermAt, FirstEntry

(***************************************************************************)
(* A log that begins with the point has its terms there.                   *)
(***************************************************************************)
LEMMA BeginsTerms ==
    ASSUME NEW L, NEW K \in Int, Rooted(L), NEW l, Rooted(l), Begins(L, K, l)
    PROVE  \A n \in 0 .. K : n \in Indices(l) /\ TermAt(l, n) = TermAt(L, n)
<1> TAKE n \in 0 .. K
<1>1. n \in Indices(l)
  <2>1. LastIndex(l) \in Nat /\ K <= LastIndex(l)
    BY RootedIndices DEF Begins
  <2>2. n \in 0 .. LastIndex(l)
    BY <2>1
  <2> QED
    BY <2>2, RootedIndices
<1>2. CASE n = 0
  BY <1>1, <1>2, RootedIndices
<1>3. CASE n # 0
  <2>1. n \in 1 .. K
    BY <1>3
  <2> QED
    BY <1>1, <2>1 DEF Begins, TermAt
<1> QED
  BY <1>2, <1>3

LEMMA BeginsShorter ==
    ASSUME NEW L, NEW K \in Int, NEW l, LastIndex(l) \in Int, Begins(L, K, l),
           NEW k \in Int, k <= K
    PROVE  Begins(L, k, l)
<1>1. k <= LastIndex(l)
  BY DEF Begins
<1>2. \A n \in 1 .. k : n \in 1 .. K
  OBVIOUS
<1> QED
  BY <1>1, <1>2 DEF Begins

(***************************************************************************)
(* Two logs that have an entry of one term at an index begin alike.        *)
(***************************************************************************)
LEMMA MatchingBegins ==
    ASSUME NEW a, Rooted(a), NEW b, Rooted(b), Matching(a, b),
           NEW k \in Indices(a) \cap Indices(b), TermAt(a, k) = TermAt(b, k)
    PROVE  Begins(a, k, b)
<1>1. /\ LastIndex(a) \in Nat /\ Indices(a) = 0 .. LastIndex(a)
      /\ LastIndex(b) \in Nat /\ Indices(b) = 0 .. LastIndex(b)
  BY RootedIndices
<1>2. k \in Nat /\ k <= LastIndex(b) /\ k <= LastIndex(a)
  BY <1>1
<1>3. ASSUME NEW n \in 1 .. k
      PROVE  EntryAt(b, n) = EntryAt(a, n)
  <2>1. n \in Indices(a) \cap Indices(b) /\ n <= k /\ n # 0
    BY <1>1, <1>2
  <2>2. Agree(EntryAt(a, n), EntryAt(b, n), n \in {a.base, b.base})
    BY <2>1 DEF Matching
  <2>3. n \notin {a.base, b.base}
    BY <2>1 DEF Rooted
  <2> QED
    BY <2>2, <2>3 DEF Agree
<1> QED
  BY <1>2, <1>3 DEF Begins

(***************************************************************************)
(* Entries that are taken change nothing a log already shares with them.   *)
(***************************************************************************)
LEMMA JoinKeeps ==
    ASSUME NEW L, NEW k \in Int, Rooted(L), NEW l, Rooted(l), NEW s \in LogType,
           NEW r, Joined(r, l, s), Matching(l, s), Diverges(l, s), Begins(L, k, l),
           \A n \in Indices(s) : n <= k => TermAt(s, n) = TermAt(L, n)
    PROVE  Begins(L, k, r)
<1>1. /\ LastIndex(l) \in Nat /\ Indices(l) = 0 .. LastIndex(l)
      /\ LastIndex(s) \in Int /\ s.base \in Nat
      /\ r \in LogType /\ r.base = 0 /\ LastIndex(r) = LastIndex(s) /\ l.base = 0
  BY RootedIndices, LogIndices DEF Joined, Rooted
<1>2. PICK p \in Indices(l) \cap Indices(s) :
          /\ TermAt(l, p) = TermAt(s, p)
          /\ p < LastIndex(s)
          /\ \A n \in Indices(r) :
                 /\ n <= p => n \in Indices(l) /\ EntryAt(r, n) = EntryAt(l, n)
                 /\ n > p => n \in Indices(s) /\ EntryAt(r, n) = EntryAt(s, n)
  BY DEF Joined
<1>3. PICK d \in Indices(s) : d \notin Indices(l) \/ TermAt(l, d) # TermAt(s, d)
  BY DEF Diverges
<1>4. d \in Int /\ d >= s.base /\ d <= LastIndex(s)
      /\ p \in Int /\ p >= s.base /\ p <= LastIndex(s) /\ p >= 0
  BY <1>1, <1>2, EntryOfLog
<1>5. d > k
  <2> SUFFICES ASSUME d <= k PROVE FALSE
    BY <1>4
  <2>1. d \in 0 .. k
    BY <1>1, <1>4
  <2>2. d \in Indices(l) /\ TermAt(l, d) = TermAt(L, d)
    BY <2>1, BeginsTerms
  <2> QED
    BY <1>3, <2>2
<1>6. k <= LastIndex(r)
  BY <1>1, <1>4, <1>5
<1>7. ASSUME NEW n \in 1 .. k
      PROVE  EntryAt(r, n) = EntryAt(L, n)
  <2>1. n \in Indices(r)
    BY <1>1, <1>6 DEF Indices
  <2>2. CASE n <= p
    <3>1. EntryAt(r, n) = EntryAt(l, n)
      BY <1>2, <2>1, <2>2
    <3> QED
      BY <3>1 DEF Begins
  <2>3. CASE n > p
    <3>1. n \in Indices(s) /\ EntryAt(r, n) = EntryAt(s, n)
      BY <1>2, <2>1, <2>3
    <3>2. k \in 0 .. k /\ k \in Indices(s)
      BY <1>1, <1>4, <1>5, <2>3 DEF Indices
    <3>3. k \in Indices(l) /\ TermAt(l, k) = TermAt(s, k)
      BY <3>2, BeginsTerms
    <3>4. n \in Indices(l) /\ n <= k /\ n # 0 /\ n # s.base
      BY <1>1, <1>4, <2>3, <3>3
    <3>5. Agree(EntryAt(l, n), EntryAt(s, n), n \in {l.base, s.base})
      BY <3>1, <3>2, <3>3, <3>4 DEF Matching
    <3>6. EntryAt(l, n) = EntryAt(s, n)
      BY <1>1, <3>4, <3>5 DEF Agree
    <3> QED
      BY <3>1, <3>6 DEF Begins
  <2> QED
    BY <1>4, <2>2, <2>3
<1> QED
  BY <1>6, <1>7 DEF Begins

(***************************************************************************)
(* A log that takes entries and then is up to date with the point begins   *)
(* with it, if one log does already.                                       *)
(***************************************************************************)
LEMMA JoinReaches ==
    ASSUME NEW L, NEW K, Point(L, K), NEW l, Rooted(l), TermsRise(l),
           \A n \in Indices(l) : TermAt(l, n) \in Nat,
           NEW s \in LogType, NEW r, Joined(r, l, s), NEW a, Rooted(a),
           Matching(l, a), Matching(s, a), Begins(L, K, a), Fits(s, L, K),
           AtLeast(l, K, TermAt(L, K)) => Begins(L, K, l),
           AtLeast(r, K, TermAt(L, K))
    PROVE  Begins(L, K, r)
<1> DEFINE T == TermAt(L, K)
<1>1. /\ LastIndex(l) \in Nat /\ Indices(l) = 0 .. LastIndex(l)
      /\ LastIndex(s) \in Int /\ s.base \in Nat
      /\ r \in LogType /\ r.base = 0 /\ LastIndex(r) = LastIndex(s) /\ l.base = 0
  BY RootedIndices, LogIndices DEF Joined, Rooted
<1>2. PICK p \in Indices(l) \cap Indices(s) :
          /\ TermAt(l, p) = TermAt(s, p)
          /\ p < LastIndex(s)
          /\ \A n \in Indices(r) :
                 /\ n <= p => n \in Indices(l) /\ EntryAt(r, n) = EntryAt(l, n)
                 /\ n > p => n \in Indices(s) /\ EntryAt(r, n) = EntryAt(s, n)
  BY DEF Joined
<1>3. /\ p \in Nat /\ p >= s.base /\ p <= LastIndex(l)
      /\ K \in Nat /\ T \in Nat /\ Rooted(L)
  BY <1>1, <1>2, EntryOfLog, PointIs
<1> DEFINE z == LastIndex(s)
<1>4. z \in Indices(s) /\ z \in Indices(r) /\ z > p
  BY <1>1, <1>2, <1>3 DEF Indices
<1>5. LastTerm(r) = TermAt(s, z)
  BY <1>1, <1>2, <1>4 DEF LastTerm, TermAt
<1>6. z >= K
  <2> SUFFICES ASSUME z < K PROVE FALSE
    BY <1>1, <1>3
  <2>1. TermAt(s, z) = TermAt(L, z)
    BY <1>1, <1>3, <1>4 DEF Fits
  <2>2. z \in 0 .. K
    BY <1>1, <1>3, <1>4
  <2>3. TermAt(L, z) \in Nat /\ TermAt(L, z) <= T
    BY <2>2 DEF Point
  <2>4. LastTerm(r) > T \/ LastIndex(r) >= K
    BY DEF AtLeast
  <2> HIDE DEF z, T
  <2> QED
    BY <1>1, <1>3, <1>5, <2>1, <2>3, <2>4 DEF z
<1>7. CASE p >= K
  <2>1. TermAt(l, p) >= T
    <3>1. CASE p = K
      <4>1. TermAt(s, p) = TermAt(L, p)
        BY <1>2, <1>3, <3>1 DEF Fits
      <4> QED
        BY <1>2, <1>3, <3>1, <4>1
    <3>2. CASE p > K
      BY <1>2, <3>2 DEF Fits
    <3> QED
      BY <1>3, <1>7, <3>1, <3>2
  <2>2. LastIndex(l) \in Indices(l)
    BY <1>1
  <2>3. TermAt(l, p) <= LastTerm(l) /\ TermAt(l, p) \in Nat /\ LastTerm(l) \in Nat
    BY <1>2, <1>3, <2>2 DEF TermsRise, LastTerm
  <2>4. LastIndex(l) >= K
    BY <1>1, <1>3, <1>7
  <2>5. LastTerm(l) > T \/ LastTerm(l) = T
    BY <1>3, <2>1, <2>3
  <2>6. Begins(L, K, l)
    BY <2>4, <2>5 DEF AtLeast
  <2>7. ASSUME NEW n \in 1 .. K
        PROVE  EntryAt(r, n) = EntryAt(L, n)
    <3>1. n \in Indices(r) /\ n <= p
      BY <1>1, <1>3, <1>6, <1>7 DEF Indices
    <3> QED
      BY <1>2, <2>6, <3>1 DEF Begins
  <2> QED
    BY <1>1, <1>6, <2>7 DEF Begins
<1>8. CASE p < K
  <2>1. K \in Indices(s) /\ K \in 0 .. K
    BY <1>1, <1>3, <1>6, <1>8 DEF Indices
  <2>2. K \in Indices(a) /\ TermAt(a, K) = TermAt(s, K)
    <3>1. TermAt(s, K) = TermAt(L, K)
      BY <1>3, <2>1 DEF Fits
    <3> QED
      BY <1>3, <2>1, <3>1, BeginsTerms
  <2>3. \A n \in Indices(a) \cap Indices(s) : n <= K =>
            Agree(EntryAt(s, n), EntryAt(a, n), n \in {s.base, a.base})
    BY <2>1, <2>2 DEF Matching
  <2>4. p \in 0 .. K /\ p \in Indices(s)
    BY <1>2, <1>3, <1>8
  <2>5. p \in Indices(a)
    BY <1>3, <2>4, BeginsTerms
  <2>6. TermAt(a, p) = TermAt(l, p)
    BY <1>2, <1>3, <2>3, <2>4, <2>5 DEF Agree, TermAt
  <2>7. \A n \in Indices(l) \cap Indices(a) : n <= p =>
            Agree(EntryAt(l, n), EntryAt(a, n), n \in {l.base, a.base})
    BY <1>2, <2>5, <2>6 DEF Matching
  <2>8. ASSUME NEW n \in 1 .. K
        PROVE  EntryAt(r, n) = EntryAt(L, n)
    <3>1. n \in Indices(r) /\ n # 0 /\ n \in 0 .. K
      BY <1>1, <1>3, <1>6 DEF Indices
    <3>2. n \in Indices(a) /\ EntryAt(a, n) = EntryAt(L, n) /\ a.base = 0
      BY <1>3, <3>1, BeginsTerms DEF Begins, Rooted
    <3>3. CASE n <= p
      <4>1. n \in Indices(l) /\ EntryAt(r, n) = EntryAt(l, n)
        BY <1>2, <3>1, <3>3
      <4>2. Agree(EntryAt(l, n), EntryAt(a, n), n \in {l.base, a.base})
        BY <2>7, <3>2, <3>3, <4>1
      <4> QED
        BY <1>1, <3>1, <3>2, <4>1, <4>2 DEF Agree
    <3>4. CASE n > p
      <4>1. n \in Indices(s) /\ EntryAt(r, n) = EntryAt(s, n)
        BY <1>2, <3>1, <3>4
      <4>2. n <= K /\ n # s.base
        BY <1>1, <1>3, <3>4
      <4>3. Agree(EntryAt(s, n), EntryAt(a, n), n \in {s.base, a.base})
        BY <2>3, <3>2, <4>1, <4>2
      <4> QED
        BY <3>1, <3>2, <4>1, <4>2, <4>3 DEF Agree
    <3> QED
      BY <1>3, <3>3, <3>4
  <2> QED
    BY <1>1, <1>6, <2>8 DEF Begins
<1> QED
  BY <1>3, <1>7, <1>8

(***************************************************************************)
(* A log that took entries has their terms.                                *)
(***************************************************************************)
LEMMA JoinedTerms ==
    ASSUME NEW l \in LogType, NEW s \in LogType, NEW r, Joined(r, l, s),
           Matching(l, s), NEW n \in Indices(s), n >= l.base
    PROVE  n \in Indices(r) /\ TermAt(r, n) = TermAt(s, n)
<1>1. /\ l.base \in Nat /\ s.base \in Nat /\ LastIndex(s) \in Int
      /\ r \in LogType /\ r.base = l.base /\ LastIndex(r) = LastIndex(s)
  BY LogIndices DEF Joined
<1>2. PICK p \in Indices(l) \cap Indices(s) :
          /\ TermAt(l, p) = TermAt(s, p)
          /\ p < LastIndex(s)
          /\ \A k \in Indices(r) :
                 /\ k <= p => k \in Indices(l) /\ EntryAt(r, k) = EntryAt(l, k)
                 /\ k > p => k \in Indices(s) /\ EntryAt(r, k) = EntryAt(s, k)
  BY DEF Joined
<1>3. n \in Int /\ n >= s.base /\ n <= LastIndex(s) /\ p \in Int
  BY <1>2, EntryOfLog
<1>4. n \in Indices(r)
  BY <1>1, <1>3 DEF Indices
<1>5. CASE n <= p
  <2>1. n \in Indices(l) /\ EntryAt(r, n) = EntryAt(l, n)
    BY <1>2, <1>4, <1>5
  <2>2. Agree(EntryAt(l, n), EntryAt(s, n), n \in {l.base, s.base})
    BY <1>2, <1>5, <2>1 DEF Matching
  <2> QED
    BY <1>4, <2>1, <2>2 DEF Agree, TermAt
<1>6. CASE n > p
  BY <1>2, <1>4, <1>6 DEF TermAt
<1> QED
  BY <1>3, <1>5, <1>6

(***************************************************************************)
(* A part of a log that begins with the point fits it.                     *)
(***************************************************************************)
LEMMA PartFits ==
    ASSUME NEW L, NEW K, Point(L, K), NEW l, Rooted(l), Begins(L, K, l),
           TermsRise(l), NEW c, PartOf(c, l)
    PROVE  Fits(c, L, K)
<1>1. /\ K \in Nat /\ Rooted(L) /\ l \in LogType
      /\ LastIndex(l) \in Nat /\ Indices(l) = 0 .. LastIndex(l)
  BY RootedIndices, PointIs DEF Rooted
<1>2. K \in 0 .. K /\ \A n \in 0 .. K : n \in Indices(l) /\ TermAt(l, n) = TermAt(L, n)
  BY <1>1, BeginsTerms
<1>3. ASSUME NEW n \in Indices(c)
      PROVE  /\ n <= K => TermAt(c, n) = TermAt(L, n)
             /\ n > K => TermAt(c, n) >= TermAt(L, K)
  <2>1. n \in Indices(l) /\ TermAt(c, n) = TermAt(l, n) /\ n \in Nat
    BY <1>1, PartOfEntry
  <2>2. ASSUME n <= K PROVE TermAt(c, n) = TermAt(L, n)
    <3>1. n \in 0 .. K
      BY <1>1, <2>1, <2>2
    <3> QED
      BY <1>2, <2>1, <3>1
  <2>3. ASSUME n > K PROVE TermAt(c, n) >= TermAt(L, K)
    <3>1. K <= n /\ K \in Indices(l)
      BY <1>1, <1>2, <2>1, <2>3
    <3>2. TermAt(l, K) <= TermAt(l, n)
      BY <2>1, <3>1 DEF TermsRise
    <3>3. TermAt(l, K) \in Int /\ TermAt(l, n) \in Int
      BY <1>1, <2>1, EntryAtType
    <3> QED
      BY <1>2, <2>1, <3>2, <3>3
  <2> QED
    BY <2>2, <2>3
<1> QED
  BY <1>3 DEF Fits

(***************************************************************************)
(* To begin with the point is to be up to date with it.                    *)
(***************************************************************************)
LEMMA BeginsAtLeast ==
    ASSUME NEW L, NEW K, Point(L, K), NEW l, Rooted(l), TermsRise(l), Begins(L, K, l)
    PROVE  AtLeast(l, K, TermAt(L, K))
<1>1. /\ K \in Nat /\ Rooted(L) /\ l \in LogType /\ K <= LastIndex(l)
      /\ LastIndex(l) \in Nat /\ Indices(l) = 0 .. LastIndex(l)
  BY RootedIndices, PointIs DEF Rooted, Begins
<1>2. K \in Indices(l) /\ TermAt(l, K) = TermAt(L, K)
  <2>1. K \in 0 .. K
    BY <1>1
  <2> QED
    BY <1>1, <2>1, BeginsTerms
<1>3. LastIndex(l) \in Indices(l)
  BY <1>1
<1>4. TermAt(l, K) <= LastTerm(l)
  BY <1>1, <1>2, <1>3 DEF TermsRise, LastTerm
<1>5. TermAt(l, K) \in Int /\ LastTerm(l) \in Int
  BY <1>1, EntryAtType DEF LastTerm
<1>6. LastTerm(l) > TermAt(L, K) \/ LastTerm(l) = TermAt(L, K)
  BY <1>2, <1>4, <1>5
<1>7. LastIndex(l) >= K
  BY <1>1
<1> QED
  BY <1>6, <1>7 DEF AtLeast

LEMMA AppendedBegins ==
    ASSUME NEW L, NEW k \in Int, NEW l, Rooted(l), NEW e \in Entry, Begins(L, k, l)
    PROVE  Begins(L, k, AppendEntry(l, e))
<1> DEFINE r == AppendEntry(l, e)
<1>1. l \in LogType /\ LastIndex(l) >= l.base /\ LastIndex(l) \in Nat /\ l.base = 0
  BY RootedIndices DEF Rooted
<1>2. /\ r \in LogType /\ r.base = 0 /\ LastIndex(r) = LastIndex(l) + 1
      /\ \A n \in Indices(r) : EntryAt(r, n) =
             IF n = LastIndex(l) + 1 THEN e ELSE EntryAt(l, n)
  BY <1>1, AppendEntryAt
<1> HIDE DEF r
<1>3. k <= LastIndex(l)
  BY DEF Begins
<1>4. ASSUME NEW n \in 1 .. k
      PROVE  EntryAt(r, n) = EntryAt(L, n)
  <2>1. n \in Indices(r) /\ n # LastIndex(l) + 1
    BY <1>1, <1>2, <1>3 DEF Indices
  <2> QED
    BY <1>2, <2>1 DEF Begins
<1>5. k <= LastIndex(r)
  BY <1>1, <1>2, <1>3
<1>6. Begins(L, k, r)
  BY <1>4, <1>5 DEF Begins
<1> QED
  BY <1>6 DEF r

----------------------------------------------------------------------------
(* Quorums.                                                                *)

LEMMA QuorumsMeet ==
    ASSUME IsFiniteSet(Server), NEW A \in SUBSET Server, NEW B \in SUBSET Server,
           Cardinality(A) >= Quorum, Cardinality(B) >= Quorum
    PROVE  A \cap B # {}
<1>1. /\ IsFiniteSet(A) /\ Cardinality(A) \in Nat
      /\ IsFiniteSet(B) /\ Cardinality(B) \in Nat
      /\ Cardinality(Server) \in Nat
  BY FS_Subset, FS_CardinalityType
<1>2. Cardinality(A) + Cardinality(B) > Cardinality(Server)
  BY <1>1 DEF Quorum
<1> QED
  BY <1>1, <1>2, FS_MajoritiesIntersect

LEMMA QuorumNotEmpty ==
    ASSUME IsFiniteSet(Server), NEW A \in SUBSET Server, Cardinality(A) >= Quorum
    PROVE  A # {}
<1>1. Cardinality(Server) \in Nat
  BY FS_CardinalityType
<1>2. Quorum \in Nat /\ Quorum >= 1
  BY <1>1 DEF Quorum
<1>3. Cardinality({}) = 0
  BY FS_EmptySet
<1> QED
  BY <1>2, <1>3

(***************************************************************************)
(* In a group of three no majority avoids two peers.                       *)
(***************************************************************************)
LEMMA TwoMeetQuorum ==
    ASSUME IsFiniteSet(Server), Cardinality(Server) <= 3,
           NEW a \in Server, NEW b \in Server, a # b,
           NEW B \in SUBSET Server, Cardinality(B) >= Quorum
    PROVE  a \in B \/ b \in B
<1> SUFFICES ASSUME a \notin B, b \notin B PROVE FALSE
  OBVIOUS
<1> DEFINE R == Server \ {a}
           S == R \ {b}
<1>1. Cardinality(Server) \in Nat
  BY FS_CardinalityType
<1>2. IsFiniteSet(R) /\ Cardinality(R) = Cardinality(Server) - 1
  BY FS_RemoveElement
<1>3. b \in R /\ B \in SUBSET S
  OBVIOUS
<1> HIDE DEF R
<1>4. IsFiniteSet(S) /\ Cardinality(S) = Cardinality(R) - 1
  BY <1>2, <1>3, FS_RemoveElement
<1> HIDE DEF S
<1>5. Cardinality(B) <= Cardinality(S) /\ IsFiniteSet(B)
  BY <1>3, <1>4, FS_Subset
<1>6. Cardinality(B) \in Nat
  BY <1>5, FS_CardinalityType
<1> QED
  BY <1>1, <1>2, <1>4, <1>5, <1>6 DEF Quorum

----------------------------------------------------------------------------
(* What the other modules establish, before a step and after it.           *)

Ground ==
    /\ TypeInv
    /\ DiskInSync
    /\ VotesInv
    /\ ElectedInv
    /\ RoleInv
    /\ ElectionSafety
    /\ LogInv

Stepping ==
    /\ Ground /\ Ground'
    /\ WholesInv /\ WholesInv'
    /\ Aligned
    /\ [Next]_vars

Terms(l) == \A n \in Indices(l) : TermAt(l, n) \in Nat

WholeLogs ==
    \A i \in Server :
        /\ Rooted(Whole(i))
        /\ TermsRise(Whole(i))
        /\ Terms(Whole(i))
        /\ \A n \in Indices(Whole(i)) : TermAt(Whole(i), n) <= currentTerm[i]
        /\ currentTerm[i] \in Nat
        /\ LastIndex(Whole(i)) = LastIndex(log[i])
        /\ LastTerm(Whole(i)) = LastTerm(log[i])
        /\ \A j \in Server : Matching(Whole(i), Whole(j))

MovingLogs ==
    \A c \in Moving :
        /\ c[1] \in LogType
        /\ c[2] \in Nat
        /\ \E e \in elected : e[1] = c[2]
        /\ \A i \in Server : Matching(c[1], Whole(i)) /\ Matching(Whole(i), c[1])

LEMMA LogsAreWhole == WholesInv => WholeLogs
<1> SUFFICES ASSUME WholesInv, NEW i \in Server
             PROVE  /\ Rooted(Whole(i))
                    /\ TermsRise(Whole(i))
                    /\ Terms(Whole(i))
                    /\ \A n \in Indices(Whole(i)) : TermAt(Whole(i), n) <= currentTerm[i]
                    /\ currentTerm[i] \in Nat
                    /\ LastIndex(Whole(i)) = LastIndex(log[i])
                    /\ LastTerm(Whole(i)) = LastTerm(log[i])
                    /\ \A j \in Server : Matching(Whole(i), Whole(j))
  BY DEF WholeLogs
<1>1. LogsFit
  BY DEF WholesInv, SeamsMatch, LogsFit
<1>2. \A j \in Server : <<Whole(j), currentTerm[j]>> \in Full
  BY DEF Full, Stored
<1>3. currentTerm[i] \in Nat /\ WellFormed(Whole(i), currentTerm[i])
  BY <1>2 DEF WholesInv, Consistent
<1>4. \A j \in Server : Matching(Whole(i), Whole(j))
  BY <1>2 DEF WholesInv, Consistent
<1>5. /\ Whole(i) \in LogType /\ Whole(i).base = 0
      /\ EntryAt(Whole(i), 0) = FirstEntry
      /\ LastIndex(Whole(i)) = LastIndex(log[i]) /\ LastIndex(log[i]) \in Nat
  BY <1>1, WholeIs
<1>6. LastIndex(log[i]) \in Indices(log[i]) /\ Fitting(log[i], snapshot[i].bytes)
  <2>1. Fitting(log[i], snapshot[i].bytes)
    BY <1>1 DEF LogsFit
  <2>2. /\ log[i] \in LogType /\ LastIndex(log[i]) >= log[i].base
        /\ log[i].base \in Nat
    BY <2>1, LogIndices DEF Fitting
  <2> QED
    BY <1>5, <2>1, <2>2 DEF Indices
<1>7. LastTerm(Whole(i)) = LastTerm(log[i])
  BY <1>5, <1>6, FittingTerms DEF LastTerm, Whole
<1>8. Rooted(Whole(i))
  BY <1>5 DEF Rooted
<1>9. /\ TermsRise(Whole(i)) /\ Terms(Whole(i))
      /\ \A n \in Indices(Whole(i)) : TermAt(Whole(i), n) <= currentTerm[i]
  BY <1>3 DEF WellFormed, Terms
<1> QED
  BY <1>3, <1>4, <1>5, <1>7, <1>8, <1>9

LEMMA LogsAreWholeAfter == (WholesInv => WholeLogs)'
BY LogsAreWhole, PTL

LEMMA LogsThatMove == WholesInv /\ RoleInv => MovingLogs
<1> SUFFICES ASSUME WholesInv, RoleInv, NEW c \in Moving
             PROVE  /\ c[1] \in LogType
                    /\ c[2] \in Nat
                    /\ \E e \in elected : e[1] = c[2]
                    /\ \A i \in Server : /\ Matching(c[1], Whole(i))
                                         /\ Matching(Whole(i), c[1])
  BY DEF MovingLogs
<1>1. c \in Full
  BY DEF Full
<1>2. c[2] \in Nat /\ c[1] \in LogType
  BY <1>1 DEF WholesInv, Consistent, WellFormed
<1>3. \E e \in elected : e[1] = c[2]
  <2>1. PICK m \in appendRequests \cup installRequests : c[2] = m.term
    BY DEF Moving
  <2> DEFINE e == <<m.term, m.from>>
  <2>2. e \in elected /\ e[1] = c[2]
    BY <2>1 DEF RoleInv, CallersElected
  <2> HIDE DEF e
  <2> QED
    BY <2>2
<1>4. ASSUME NEW i \in Server
      PROVE  Matching(c[1], Whole(i)) /\ Matching(Whole(i), c[1])
  <2> DEFINE d == <<Whole(i), currentTerm[i]>>
  <2>1. d \in Full /\ d[1] = Whole(i)
    BY DEF Full, Stored
  <2> HIDE DEF d
  <2> QED
    BY <1>1, <2>1 DEF WholesInv, Consistent
<1> QED
  BY <1>2, <1>3, <1>4

LEMMA LogsThatMoveAfter == (WholesInv /\ RoleInv => MovingLogs)'
BY LogsThatMove, PTL

LEMMA SteppingLogs ==
    ASSUME Stepping
    PROVE  /\ WholeLogs /\ WholeLogs' /\ MovingLogs /\ MovingLogs'
           /\ elected \subseteq elected'
           /\ \A i \in Server : currentTerm'[i] >= currentTerm[i]
           /\ WholesStep
<1>1. WholeLogs /\ WholeLogs'
  BY LogsAreWhole, LogsAreWholeAfter DEF Stepping
<1>2. MovingLogs /\ MovingLogs'
  BY LogsThatMove, LogsThatMoveAfter DEF Stepping, Ground
<1>3. elected \subseteq elected'
  BY NextLeadersElected DEF Stepping, Ground, RoleInv, TypeInv
<1>4. \A i \in Server : currentTerm'[i] >= currentTerm[i]
  BY TermsGrow DEF Stepping, Ground, TypeInv
<1>5. WholesStep
  BY NextWholesStep DEF Stepping, Ground, WholesInv, LogInv
<1> QED
  BY <1>1, <1>2, <1>3, <1>4, <1>5

----------------------------------------------------------------------------
(* What a whole log begins with, it goes on beginning with.                *)

LEMMA BeginsStep ==
    ASSUME Stepping, NEW L, Rooted(L), NEW k \in Int, NEW i \in Server,
           Begins(L, k, Whole(i)),
           \A c \in Moving :
               currentTerm[i] <= c[2] /\ currentTerm'[i] = c[2] =>
                   \A n \in Indices(c[1]) : n <= k => TermAt(c[1], n) = TermAt(L, n)
    PROVE  Begins(L, k, Whole(i)')
<1>1. /\ WholeLogs /\ WholeLogs' /\ MovingLogs /\ WholesStep
  BY SteppingLogs
<1>2. Rooted(Whole(i)) /\ Rooted(Whole(i)')
  BY <1>1 DEF WholeLogs
<1>3. CASE Whole(i)' = Whole(i)
  BY <1>3
<1>4. CASE Grows(i)
  <2>1. PICK e \in Entry : Whole(i)' = AppendEntry(Whole(i), e)
    BY <1>4 DEF Grows
  <2> QED
    BY <1>2, <2>1, AppendedBegins
<1>5. ASSUME NEW c \in Moving, Takes(i, c)
      PROVE  Begins(L, k, Whole(i)')
  <2>1. /\ c[1] \in LogType /\ Matching(Whole(i), c[1])
        /\ Joined(Whole(i)', Whole(i), c[1]) /\ Diverges(Whole(i), c[1])
    BY <1>1, <1>5 DEF MovingLogs, Takes
  <2>2. \A n \in Indices(c[1]) : n <= k => TermAt(c[1], n) = TermAt(L, n)
    BY <1>5 DEF Takes
  <2> QED
    BY <1>2, <2>1, <2>2, JoinKeeps
<1>6. ASSUME NEW j \in Server, OthersStay(j),
             Grows(j) \/ \E c \in Moving : Takes(j, c)
      PROVE  Begins(L, k, Whole(i)')
  <2>1. CASE j = i
    BY <1>4, <1>5, <1>6, <2>1
  <2>2. CASE j # i
    BY <1>3, <1>6, <2>2 DEF OthersStay
  <2> QED
    BY <2>1, <2>2
<1> QED
  BY <1>1, <1>3, <1>6 DEF WholesStep

----------------------------------------------------------------------------
(* Candidates and ballots.                                                 *)

Unelected(t) == \A e \in elected : e[1] # t

(***************************************************************************)
(* The election timer has just fired.                                      *)
(***************************************************************************)
Stands(i) ==
    /\ UNCHANGED <<logVars, voteRequests, elected>>
    /\ ToCandidate(i)

LEMMA StillCandidate ==
    ASSUME TypeInv, [Next]_vars, NEW i \in Server, state'[i] = Candidate
    PROVE  \/ Stands(i)
           \/ state[i] = Candidate /\ currentTerm'[i] = currentTerm[i]
<1> USE DEF TypeInv, TypeOK
<1>1. CASE RolesKept
  BY <1>1 DEF RolesKept
<1>2. ASSUME NEW j \in Server, Tick(j)
      PROVE  \/ Stands(i)
             \/ state[i] = Candidate /\ currentTerm'[i] = currentTerm[i]
  <2>1. CASE StaysQuiet(j)
    BY <1>2, <2>1 DEF Tick
  <2>2. CASE ~StaysQuiet(j)
    <3>1. ToCandidate(j) /\ UNCHANGED <<logVars, voteRequests, elected>>
      BY <1>2, <2>2 DEF Tick
    <3>2. CASE j = i
      BY <3>1, <3>2 DEF Stands
    <3>3. CASE j # i
      <4>1. state'[i] = state[i] /\ currentTerm'[i] = currentTerm[i]
        BY <3>1, <3>3 DEF ToCandidate, TypeOfElections
      <4> QED
        BY <4>1
    <3> QED
      BY <3>2, <3>3
  <2> QED
    BY <2>1, <2>2
<1>3. ASSUME NEW m \in voteReplies, HandleVoteReply(m)
      PROVE  state[i] = Candidate /\ currentTerm'[i] = currentTerm[i]
  <2>1. m.to \in Server
    BY DEF TypeOfNet, VoteReply
  <2>2. CASE Newer(m.to, m.term)
    BY <1>3, <2>1, <2>2, RolesAssumption
    DEF HandleVoteReply, StepDown, TypeOfElections
  <2>3. CASE ~Newer(m.to, m.term) /\ UNCHANGED state
    BY <1>3, <2>3 DEF HandleVoteReply
  <2>4. CASE ~Newer(m.to, m.term) /\ ToLeader(m.to)
    BY <1>3, <2>1, <2>4, RolesAssumption
    DEF HandleVoteReply, ToLeader, TypeOfElections
  <2> QED
    BY <1>3, <2>2, <2>3, <2>4 DEF HandleVoteReply
<1> QED
  BY <1>1, <1>2, <1>3, OtherStepsKeepRoles

(***************************************************************************)
(* A ballot is cast by who stands, or granted to who asks.                 *)
(***************************************************************************)
LEMMA NewBallots ==
    ASSUME TypeInv, [Next]_vars, NEW b \in ballots', b \notin ballots
    PROVE  \/ \E i \in Server : Stands(i) /\ b = <<i, currentTerm'[i], i>>
           \/ \E m \in voteRequests :
                  /\ HandleRequestVote(m)
                  /\ GrantsVote(m.to, m)
                  /\ b = <<m.to, m.term, m.from>>
<1>1. ASSUME NEW i \in Server, Tick(i)
      PROVE  Stands(i) /\ b = <<i, currentTerm'[i], i>>
  <2>1. ToCandidate(i) /\ UNCHANGED <<logVars, voteRequests, elected>>
    BY <1>1 DEF Tick
  <2> QED
    BY <2>1 DEF ToCandidate, Stands
<1>2. ASSUME NEW m \in voteRequests, HandleRequestVote(m)
      PROVE  GrantsVote(m.to, m) /\ b = <<m.to, m.term, m.from>>
  BY <1>2 DEF HandleRequestVote
<1>3. ASSUME NEW m \in voteReplies, HandleVoteReply(m) PROVE FALSE
  BY <1>3 DEF HandleVoteReply
<1>4. CASE NoElectionStep
  BY <1>4 DEF NoElectionStep
<1> QED
  BY <1>1, <1>2, <1>3, <1>4, OtherStepsAreNoElection DEF TypeInv

(***************************************************************************)
(* Nobody calls the candidate of a term nobody has won.                    *)
(***************************************************************************)
LEMMA CandidateTakesNothing ==
    ASSUME Stepping, NEW i \in Server, state[i] = Candidate,
           currentTerm'[i] = currentTerm[i], Unelected(currentTerm[i])
    PROVE  Whole(i)' = Whole(i)
<1>1. MovingLogs /\ WholesStep
  BY SteppingLogs
<1>2. ~Grows(i)
  BY RolesAssumption DEF Grows
<1>3. ASSUME NEW c \in Moving, Takes(i, c) PROVE FALSE
  <2>1. c[2] = currentTerm[i]
    BY <1>3 DEF Takes
  <2>2. \E e \in elected : e[1] = c[2]
    BY <1>1 DEF MovingLogs
  <2> QED
    BY <2>1, <2>2 DEF Unelected
<1>4. ASSUME NEW j \in Server, OthersStay(j),
             Grows(j) \/ \E c \in Moving : Takes(j, c)
      PROVE  Whole(i)' = Whole(i)
  <2>1. CASE j = i
    BY <1>2, <1>3, <1>4, <2>1
  <2>2. CASE j # i
    BY <1>4, <2>2 DEF OthersStay
  <2> QED
    BY <2>1, <2>2
<1> QED
  BY <1>1, <1>4 DEF WholesStep

(***************************************************************************)
(* A request for a vote is of a term its sender has reached; as long as    *)
(* the sender stands in it, it tells where the sender's log ends.          *)
(***************************************************************************)
AsksOf(m) ==
    LET i == m.from IN
    /\ m.term <= currentTerm[i]
    /\ state[i] = Candidate /\ currentTerm[i] = m.term /\ Unelected(m.term) =>
           /\ m.lastIndex = LastIndex(Whole(i))
           /\ m.lastTerm = LastTerm(Whole(i))

VoteInv ==
    /\ \A m \in voteRequests : AsksOf(m)
    /\ \A b \in ballots : b[2] <= currentTerm[b[3]]

LEMMA SameVoteCall ==
    ASSUME NEW n \in VoteRequest, NEW m, SameCall(m, n)
    PROVE  /\ m.from = n.from /\ m.to = n.to /\ m.term = n.term
           /\ m.lastIndex = n.lastIndex /\ m.lastTerm = n.lastTerm
BY DEF SameCall, VoteRequest

Asks(m) ==
    LET i == m.from IN
    /\ i \in Server
    /\ m.term = currentTerm[i]
    /\ m.lastIndex = LastIndex(log[i])
    /\ m.lastTerm = LastTerm(log[i])
    /\ UNCHANGED <<electionVars, logVars, elected>>

LEMMA NewVoteRequests ==
    ASSUME TypeInv, [Next]_vars, NEW m \in voteRequests'
    PROVE  Asks(m) \/ \E n \in voteRequests : SameCall(m, n)
<1>1. ASSUME FromAmong(voteRequests', voteRequests)
      PROVE  \E n \in voteRequests : SameCall(m, n)
  BY <1>1 DEF FromAmong
<1>2. ASSUME voteRequests' \subseteq voteRequests
      PROVE  \E n \in voteRequests : SameCall(m, n)
  BY <1>1, <1>2, FewerRequests
<1>3. ASSUME NEW g \in soliciting, SolicitVote(g)
      PROVE  Asks(m) \/ \E n \in voteRequests : SameCall(m, n)
  <2>1. g.from \in Server
    BY DEF TypeInv, TypeOK, TypeOfNet, Solicitation
  <2> DEFINE r == [from |-> g.from, to |-> g.to, born |-> g.born,
                   term |-> currentTerm[g.from],
                   lastIndex |-> LastIndex(log[g.from]),
                   lastTerm |-> LastTerm(log[g.from]), awaited |-> TRUE]
  <2>2. m \in voteRequests \cup {r} /\ UNCHANGED <<electionVars, logVars, elected>>
    BY <1>3 DEF SolicitVote, history
  <2>3. CASE m \in voteRequests
    BY <2>3 DEF SameCall
  <2>4. CASE m = r
    BY <2>1, <2>2, <2>4 DEF Asks
  <2> QED
    BY <2>2, <2>3, <2>4
<1>4. ASSUME \/ \E i \in Server : Tick(i)
             \/ \E n \in voteRequests : HandleRequestVote(n)
             \/ \E n \in voteReplies : HandleVoteReply(n)
             \/ \E i \in Server : Start(i)
             \/ \E i \in Server : \E j \in Others(i) : Replicate(i, j)
             \/ \E n \in appendRequests : HandleAppendEntries(n)
             \/ \E n \in appendReplies : HandleAppendReply(n)
             \/ \E n \in appendReplies : AnswerWithSnapshot(n)
             \/ \E i \in Server : \E k \in Indices(log[i]) : TakeSnapshot(i, k)
      PROVE  \E n \in voteRequests : SameCall(m, n)
  BY <1>2, <1>4 DEF Tick, HandleRequestVote, HandleVoteReply, Start, Replicate,
     HandleAppendEntries, HandleAppendReply, AnswerWithSnapshot, TakeSnapshot,
     voteNet
<1>5. ASSUME \/ \E n \in installRequests : HandleInstallSnapshot(n)
             \/ \E n \in installReplies : HandleInstallReply(n)
             \/ \E n \in appendRequests : AppendTimeout(n)
             \/ \E n \in appendReplies : AppendReplyTooLate(n)
             \/ \E n \in installRequests : InstallTimeout(n)
             \/ \E n \in installReplies : InstallReplyTooLate(n)
      PROVE  \E n \in voteRequests : SameCall(m, n)
  BY <1>2, <1>5 DEF HandleInstallSnapshot, HandleInstallReply, AppendTimeout,
     AppendReplyTooLate, InstallTimeout, InstallReplyTooLate, TimesOut, voteNet
<1>6. ASSUME NEW i \in Server, Restart(i)
      PROVE  \E n \in voteRequests : SameCall(m, n)
  BY <1>1, <1>6, FewerRequests DEF Restart
<1>7. ASSUME NEW n \in voteRequests \cup appendRequests \cup installRequests,
             CrashInHandler(n)
      PROVE  \E k \in voteRequests : SameCall(m, k)
  BY <1>1, <1>7, FewerRequests DEF CrashInHandler
<1>8. CASE UNCHANGED vars
  BY <1>2, <1>8 DEF vars, voteNet
<1> QED
  BY <1>3, <1>4, <1>5, <1>6, <1>7, <1>8 DEF Next

(***************************************************************************)
(* A request keeps telling the truth: whoever still stands took nothing.   *)
(***************************************************************************)
LEMMA NextAsksOf ==
    ASSUME Stepping, NEW m, m.from \in Server, m.term \in Nat, AsksOf(m)
    PROVE  AsksOf(m)'
<1> DEFINE i == m.from
<1>1. /\ TypeInv /\ [Next]_vars /\ elected \subseteq elected'
      /\ currentTerm'[i] >= currentTerm[i]
      /\ currentTerm[i] \in Nat /\ currentTerm'[i] \in Nat
  BY SteppingLogs DEF Stepping, Ground, WholeLogs
<1>2. m.term <= currentTerm'[i]
  BY <1>1 DEF AsksOf
<1>3. ASSUME state'[i] = Candidate, currentTerm'[i] = m.term, Unelected(m.term)'
      PROVE  /\ m.lastIndex = LastIndex(Whole(i)')
             /\ m.lastTerm = LastTerm(Whole(i)')
  <2>1. Unelected(m.term)
    BY <1>1, <1>3 DEF Unelected
  <2>2. CASE Stands(i)
    <3>1. currentTerm'[i] = currentTerm[i] + 1
      BY <1>1, <2>2 DEF Stands, ToCandidate, TypeInv, TypeOK, TypeOfElections
    <3> QED
      BY <1>1, <1>3, <3>1 DEF AsksOf
  <2>3. CASE state[i] = Candidate /\ currentTerm'[i] = currentTerm[i]
    <3>1. Whole(i)' = Whole(i)
      BY <1>3, <2>1, <2>3, CandidateTakesNothing
    <3> QED
      BY <1>3, <2>1, <2>3, <3>1 DEF AsksOf
  <2> QED
    BY <1>1, <1>3, <2>2, <2>3, StillCandidate
<1> QED
  BY <1>2, <1>3 DEF AsksOf

LEMMA NextVoteInv ==
    ASSUME Stepping, VoteInv
    PROVE  VoteInv'
<1>1. /\ TypeInv /\ TypeInv' /\ [Next]_vars /\ WholeLogs
      /\ \A i \in Server : currentTerm'[i] >= currentTerm[i]
      /\ \A i \in Server : currentTerm[i] \in Nat /\ currentTerm'[i] \in Nat
  BY SteppingLogs DEF Stepping, Ground, WholeLogs
<1>2. ASSUME NEW m \in voteRequests'
      PROVE  AsksOf(m)'
  <2>1. CASE Asks(m)
    <3>1. m.from \in Server
      BY <2>1 DEF Asks
    <3>2. AsksOf(m)
      BY <1>1, <2>1, <3>1 DEF Asks, AsksOf, WholeLogs
    <3>3. m.term \in Nat
      BY <1>1, <2>1, <3>1 DEF Asks
    <3> QED
      BY <3>1, <3>2, <3>3, NextAsksOf
  <2>2. ASSUME NEW n \in voteRequests, SameCall(m, n)
        PROVE  AsksOf(m)'
    <3>1. n \in VoteRequest
      BY <1>1 DEF TypeInv, TypeOK, TypeOfNet
    <3>2. /\ m.from = n.from /\ m.term = n.term
          /\ m.lastIndex = n.lastIndex /\ m.lastTerm = n.lastTerm
      BY <2>2, <3>1, SameVoteCall
    <3>3. m.from \in Server /\ m.term \in Nat
      BY <3>1, <3>2 DEF VoteRequest
    <3>4. AsksOf(m)
      BY <3>2 DEF VoteInv, AsksOf
    <3> QED
      BY <3>3, <3>4, NextAsksOf
  <2> QED
    BY <1>1, <2>1, <2>2, NewVoteRequests
<1>3. ASSUME NEW b \in ballots'
      PROVE  b[2] <= currentTerm'[b[3]]
  <2>1. CASE b \in ballots
    <3>1. b[3] \in Server /\ b[2] \in Nat
      BY <1>1, <2>1 DEF TypeInv, TypeOK, TypeOfHistory
    <3> QED
      BY <1>1, <2>1, <3>1 DEF VoteInv
  <2>2. ASSUME NEW i \in Server, b = <<i, currentTerm'[i], i>>
        PROVE  b[2] <= currentTerm'[b[3]]
    BY <1>1, <2>2
  <2>3. ASSUME NEW m \in voteRequests, b = <<m.to, m.term, m.from>>
        PROVE  b[2] <= currentTerm'[b[3]]
    <3>1. m.from \in Server /\ m.term \in Nat /\ m.term <= currentTerm[m.from]
      BY <1>1 DEF VoteInv, AsksOf, TypeInv, TypeOK, TypeOfNet, VoteRequest
    <3> QED
      BY <1>1, <2>3, <3>1
  <2> QED
    BY <1>1, <2>1, <2>2, <2>3, NewBallots
<1> QED
  BY <1>2, <1>3 DEF VoteInv

----------------------------------------------------------------------------
(* A point that is kept: every peer of A holds it, and whatever is able to *)
(* displace it begins with it.                                             *)

HeldBy(L, K, A) ==
    \A a \in A : currentTerm[a] >= TermAt(L, K) /\ Begins(L, K, Whole(a))

HeldIfUpToDate(L, K) ==
    \A i \in Server : AtLeast(Whole(i), K, TermAt(L, K)) => Begins(L, K, Whole(i))

MovingFits(L, K) == \A c \in Moving : c[2] >= TermAt(L, K) => Fits(c[1], L, K)

LeadersHold(L, K) ==
    \A i \in Server :
        state[i] = Leader /\ currentTerm[i] >= TermAt(L, K) => Begins(L, K, Whole(i))

(***************************************************************************)
(* A candidate of a later term that one of A has voted for.                *)
(***************************************************************************)
CandidatesHold(L, K, A) ==
    \A i \in Server :
        /\ state[i] = Candidate
        /\ currentTerm[i] > TermAt(L, K)
        /\ Unelected(currentTerm[i])
        /\ \E a \in A : <<a, currentTerm[i], i>> \in ballots
        => Begins(L, K, Whole(i))

Kept(L, K, A) ==
    /\ Point(L, K)
    /\ A \subseteq Server
    /\ HeldBy(L, K, A)
    /\ HeldIfUpToDate(L, K)
    /\ MovingFits(L, K)
    /\ LeadersHold(L, K)
    /\ CandidatesHold(L, K, A)

(***************************************************************************)
(* No majority avoids A and those that may still go past the term.         *)
(***************************************************************************)
Blocking(A, t) ==
    \E B \in SUBSET Server :
        /\ Cardinality(B) >= Quorum
        /\ \A b \in B : b \in A \/ currentTerm[b] <= t

LEMMA HolderTerm ==
    ASSUME WholeLogs, NEW L, NEW K, Point(L, K), NEW i \in Server,
           Begins(L, K, Whole(i))
    PROVE  /\ K \in Indices(Whole(i))
           /\ TermAt(Whole(i), K) = TermAt(L, K)
           /\ TermAt(L, K) <= currentTerm[i]
<1>1. K \in Nat /\ Rooted(L) /\ Rooted(Whole(i)) /\ K \in 0 .. K
  BY PointIs DEF WholeLogs
<1>2. K \in Indices(Whole(i)) /\ TermAt(Whole(i), K) = TermAt(L, K)
  BY <1>1, BeginsTerms
<1> QED
  BY <1>2 DEF WholeLogs

LEMMA HeldStays ==
    ASSUME Stepping, NEW L, NEW K, Point(L, K), MovingFits(L, K),
           NEW i \in Server, Begins(L, K, Whole(i))
    PROVE  Begins(L, K, Whole(i)')
<1>1. WholeLogs /\ MovingLogs /\ K \in Nat /\ Rooted(L) /\ TermAt(L, K) \in Nat
  BY SteppingLogs, PointIs
<1>2. TermAt(L, K) <= currentTerm[i] /\ currentTerm[i] \in Nat
  BY <1>1, HolderTerm DEF WholeLogs
<1>3. ASSUME NEW c \in Moving, currentTerm[i] <= c[2]
      PROVE  \A n \in Indices(c[1]) : n <= K => TermAt(c[1], n) = TermAt(L, n)
  <2>1. c[2] \in Nat
    BY <1>1 DEF MovingLogs
  <2>2. c[2] >= TermAt(L, K)
    BY <1>1, <1>2, <1>3, <2>1
  <2> QED
    BY <2>2 DEF MovingFits, Fits
<1> QED
  BY <1>1, <1>3, BeginsStep

LEMMA UpToDateStep ==
    ASSUME Stepping, NEW L, NEW K, NEW A, Kept(L, K, A), A # {},
           NEW i \in Server, AtLeast(Whole(i)', K, TermAt(L, K))
    PROVE  Begins(L, K, Whole(i)')
<1> DEFINE T == TermAt(L, K)
<1>1. /\ WholeLogs /\ WholeLogs' /\ MovingLogs /\ WholesStep
      /\ K \in Nat /\ T \in Nat /\ Point(L, K)
  BY SteppingLogs, PointIs DEF Kept
<1>2. CASE Whole(i)' = Whole(i)
  BY <1>2 DEF Kept, HeldIfUpToDate
<1>3. LastTerm(Whole(i)') <= currentTerm'[i] /\ LastTerm(Whole(i)') \in Nat
      /\ currentTerm'[i] \in Nat
  <2>1. LastIndex(Whole(i)') \in Indices(Whole(i)')
    <3>1. Rooted(Whole(i)')
      BY <1>1 DEF WholeLogs
    <3> HIDE DEF T
    <3> DEFINE w == Whole(i)'
    <3>2. Rooted(w)
      BY <3>1
    <3> HIDE DEF w
    <3>3. LastIndex(w) \in Indices(w)
      BY <3>2, RootedIndices
    <3> QED
      BY <3>3 DEF w
  <2> QED
    BY <1>1, <2>1 DEF WholeLogs, Terms, LastTerm
<1>4. currentTerm'[i] >= T
  <2>1. LastTerm(Whole(i)') >= T
    BY <1>1, <1>3 DEF AtLeast
  <2> HIDE DEF T
  <2> QED
    BY <1>1, <1>3, <2>1
<1>5. CASE Grows(i)
  <2>1. PICK e \in Entry : Whole(i)' = AppendEntry(Whole(i), e)
    BY <1>5 DEF Grows
  <2>2. Begins(L, K, Whole(i))
    BY <1>4, <1>5 DEF Grows, Kept, LeadersHold
  <2> QED
    BY <1>1, <2>1, <2>2, AppendedBegins DEF WholeLogs
<1>6. ASSUME NEW c \in Moving, Takes(i, c)
      PROVE  Begins(L, K, Whole(i)')
  <2>1. PICK a \in A : a \in Server
    BY DEF Kept
  <2>2. Begins(L, K, Whole(a)) /\ Rooted(Whole(a))
    BY <1>1, <2>1 DEF Kept, HeldBy, WholeLogs
  <2>3. /\ c[1] \in LogType /\ Joined(Whole(i)', Whole(i), c[1])
        /\ Matching(c[1], Whole(a)) /\ Fits(c[1], L, K)
    BY <1>1, <1>4, <1>6, <2>1 DEF MovingLogs, Takes, Kept, MovingFits
  <2>4. /\ Rooted(Whole(i)) /\ TermsRise(Whole(i)) /\ Matching(Whole(i), Whole(a))
        /\ \A n \in Indices(Whole(i)) : TermAt(Whole(i), n) \in Nat
    BY <1>1, <2>1 DEF WholeLogs, Terms
  <2>5. AtLeast(Whole(i), K, T) => Begins(L, K, Whole(i))
    BY DEF Kept, HeldIfUpToDate
  <2> QED
    BY <1>1, <2>2, <2>3, <2>4, <2>5, JoinReaches
<1>7. ASSUME NEW j \in Server, OthersStay(j),
             Grows(j) \/ \E c \in Moving : Takes(j, c)
      PROVE  Begins(L, K, Whole(i)')
  <2>1. CASE j = i
    BY <1>5, <1>6, <1>7, <2>1
  <2>2. CASE j # i
    BY <1>2, <1>7, <2>2 DEF OthersStay
  <2> QED
    BY <2>1, <2>2
<1> QED
  BY <1>1, <1>2, <1>7 DEF WholesStep

LEMMA MovingFitsStep ==
    ASSUME Stepping, NEW L, NEW K, NEW A, Kept(L, K, A)
    PROVE  MovingFits(L, K)'
<1>1. WholeLogs /\ Point(L, K)
  BY SteppingLogs DEF Kept
<1>2. ASSUME NEW c \in Moving', c[2] >= TermAt(L, K)
      PROVE  Fits(c[1], L, K)
  <2>1. CASE c \in Moving
    BY <1>2, <2>1 DEF Kept, MovingFits
  <2>2. ASSUME NEW n \in Server, Sends(n, c)
        PROVE  Fits(c[1], L, K)
    <3>1. Begins(L, K, Whole(n)) /\ PartOf(c[1], Whole(n))
      BY <1>2, <2>2 DEF Kept, LeadersHold, Sends, Calls
    <3> QED
      BY <1>1, <3>1, PartFits DEF WholeLogs
  <2> QED
    BY <2>1, <2>2, NextMoving DEF Stepping, Ground, WholesInv, TypeInv
<1> QED
  BY <1>2 DEF MovingFits

(***************************************************************************)
(* Whoever wins a later term has asked somebody of A, and was compared     *)
(* with it.                                                                *)
(***************************************************************************)
LEMMA WinnerHolds ==
    ASSUME IsFiniteSet(Server), Cardinality(Server) <= 3,
           Stepping, NEW L, NEW K, NEW A, Kept(L, K, A), A # {},
           Blocking(A, TermAt(L, K))', NEW i \in Server, JustElected(i),
           currentTerm[i] >= TermAt(L, K)
    PROVE  Begins(L, K, Whole(i))
<1> DEFINE T == TermAt(L, K)
           U == currentTerm[i]
<1>1. /\ WholeLogs /\ K \in Nat /\ T \in Nat /\ Point(L, K) /\ U \in Nat
      /\ state[i] = Candidate /\ U > 0
      /\ currentTerm' = currentTerm /\ ballots' = ballots
      /\ <<U, i>> \in elected'
  <2>1. state[i] = Candidate /\ U > 0
    BY DEF JustElected, Stepping, Ground, RoleInv, LeadersElected
  <2>2. currentTerm' = currentTerm /\ ballots' = ballots /\ <<U, i>> \in elected'
    BY DEF JustElected, ToLeader
  <2>3. WholeLogs /\ K \in Nat /\ T \in Nat /\ Point(L, K)
    BY SteppingLogs, PointIs DEF Kept
  <2> QED
    BY <2>1, <2>2, <2>3 DEF WholeLogs
<1>2. Unelected(U)
  BY FreshTerm DEF Stepping, Ground, TypeInv, Unelected
<1>3. U # T
  <2> SUFFICES ASSUME U = T PROVE FALSE
    OBVIOUS
  <2>1. PICK a \in A : a \in Server /\ Begins(L, K, Whole(a))
    BY DEF Kept, HeldBy
  <2>2. K \in Indices(Whole(a)) /\ TermAt(Whole(a), K) = T
    BY <1>1, <2>1, HolderTerm
  <2> DEFINE c == <<Whole(a), currentTerm[a]>>
  <2>3. c \in Full /\ c[1] = Whole(a)
    BY <2>1 DEF Full, Stored
  <2> HIDE DEF c
  <2>4. \E e \in elected : e[1] = T
    BY <1>1, <2>2, <2>3 DEF Stepping, WholesInv, WholesElected
  <2> QED
    BY <1>2, <2>4 DEF Unelected
<1>4. U > T
  <2> HIDE DEF U, T
  <2> QED
    BY <1>1, <1>3 DEF U, T
<1> DEFINE e == <<U, i>>
<1>5. e \in elected' /\ e[1] = U /\ e[2] = i
  BY <1>1
<1> HIDE DEF e
<1>6. /\ <<i, U, i>> \in ballots
      /\ \E v \in Server \ {i} : <<v, U, i>> \in ballots
  BY <1>1, <1>5 DEF Stepping, Ground, ElectedInv, ElectedByTwo
<1>7. PICK v \in Server \ {i} : <<v, U, i>> \in ballots
  BY <1>6
<1>8. PICK B \in SUBSET Server :
          /\ Cardinality(B) >= Quorum
          /\ \A b \in B : b \in A \/ currentTerm[b] <= T
  BY <1>1 DEF Blocking
<1>9. ASSUME NEW b \in Server, <<b, U, i>> \in ballots
      PROVE  currentTerm[b] > T
  <2> DEFINE d == <<b, U, i>>
  <2>1. d \in ballots /\ d[1] = b /\ d[2] = U
    BY <1>9
  <2> HIDE DEF d
  <2>2. U <= currentTerm[b] /\ currentTerm[b] \in Nat
    BY <1>1, <2>1 DEF Stepping, Ground, VotesInv, BallotsKept, WholeLogs
  <2> HIDE DEF U, T
  <2> QED
    BY <1>1, <1>4, <2>2
<1>10. \E b \in B : <<b, U, i>> \in ballots /\ b \in Server
  BY <1>6, <1>7, <1>8, TwoMeetQuorum
<1>11. PICK b \in B : <<b, U, i>> \in ballots /\ b \in Server
  BY <1>10
<1>12. b \in A
  <2>1. currentTerm[b] > T /\ currentTerm[b] \in Nat
    BY <1>1, <1>9, <1>11 DEF WholeLogs
  <2>2. ~(currentTerm[b] <= T)
    <3> HIDE DEF T
    <3> QED
      BY <1>1, <2>1
  <2> QED
    BY <1>8, <2>2
<1> QED
  BY <1>1, <1>2, <1>4, <1>11, <1>12 DEF Kept, CandidatesHold

LEMMA LeadersHoldStep ==
    ASSUME IsFiniteSet(Server), Cardinality(Server) <= 3,
           Stepping, NEW L, NEW K, NEW A, Kept(L, K, A), A # {},
           Blocking(A, TermAt(L, K))'
    PROVE  LeadersHold(L, K)'
<1> SUFFICES ASSUME NEW i \in Server, state'[i] = Leader,
                    currentTerm'[i] >= TermAt(L, K)
             PROVE  Begins(L, K, Whole(i)')
  BY DEF LeadersHold
<1>1. CASE JustElected(i)
  <2>1. currentTerm'[i] = currentTerm[i]
    BY <1>1 DEF JustElected
  <2>2. Begins(L, K, Whole(i))
    BY <1>1, <2>1, WinnerHolds
  <2> QED
    BY <2>2, HeldStays DEF Kept
<1>2. CASE state[i] = Leader /\ currentTerm'[i] = currentTerm[i]
  <2>1. Begins(L, K, Whole(i))
    BY <1>2 DEF Kept, LeadersHold
  <2> QED
    BY <2>1, HeldStays DEF Kept
<1> QED
  BY <1>1, <1>2, StillLeader DEF Stepping, Ground

LEMMA CandidatesHoldStep ==
    ASSUME Stepping, VoteInv, NEW L, NEW K, NEW A, Kept(L, K, A)
    PROVE  CandidatesHold(L, K, A)'
<1> DEFINE T == TermAt(L, K)
<1> SUFFICES ASSUME NEW i \in Server, state'[i] = Candidate, currentTerm'[i] > T,
                    \A e \in elected' : e[1] # currentTerm'[i],
                    NEW a \in A, <<a, currentTerm'[i], i>> \in ballots'
             PROVE  Begins(L, K, Whole(i)')
  BY DEF CandidatesHold, Unelected
<1> DEFINE b == <<a, currentTerm'[i], i>>
<1>1. /\ WholeLogs /\ TypeInv /\ [Next]_vars /\ Point(L, K)
      /\ a \in Server /\ currentTerm[i] \in Nat /\ currentTerm'[i] \in Nat
      /\ elected \subseteq elected' /\ Begins(L, K, Whole(a))
  <2>1. WholeLogs /\ WholeLogs' /\ elected \subseteq elected'
    BY SteppingLogs
  <2> QED
    BY <2>1 DEF Kept, HeldBy, Stepping, Ground, WholeLogs
<1>2. Unelected(currentTerm'[i])
  BY <1>1 DEF Unelected
<1>3. /\ b \in ballots' /\ b[1] = a /\ b[2] = currentTerm'[i] /\ b[3] = i
  OBVIOUS
<1>4. ASSUME b \in ballots PROVE currentTerm'[i] <= currentTerm[i]
  <2> HIDE DEF b
  <2> QED
    BY <1>3, <1>4 DEF VoteInv
<1>5. CASE Stands(i)
  <2>1. currentTerm'[i] = currentTerm[i] + 1
    BY <1>1, <1>5 DEF Stands, ToCandidate, TypeInv, TypeOK, TypeOfElections
  <2>2. b \notin ballots
    BY <1>1, <1>4, <2>1
  <2>3. Whole(i)' = Whole(i)
    BY <1>5 DEF Stands, logVars, Whole
  <2>4. ASSUME NEW m \in voteRequests, b = <<m.to, m.term, m.from>>
        PROVE  FALSE
    <3>1. m.term = currentTerm'[i] /\ m.from = i
      BY <2>4
    <3>2. m.term <= currentTerm[i]
      BY <3>1 DEF VoteInv, AsksOf
    <3> QED
      BY <1>1, <2>1, <3>1, <3>2
  <2>5. a = i
    <3> HIDE DEF b
    <3>1. \E j \in Server : b = <<j, currentTerm'[j], j>>
      BY <1>1, <1>3, <2>2, <2>4, NewBallots
    <3> QED
      BY <3>1 DEF b
  <2> QED
    BY <1>1, <2>3, <2>5
<1>6. CASE state[i] = Candidate /\ currentTerm'[i] = currentTerm[i]
  <2>1. Whole(i)' = Whole(i)
    BY <1>2, <1>6, CandidateTakesNothing
  <2>2. CASE b \in ballots
    <3>1. Begins(L, K, Whole(i))
      BY <1>2, <1>6, <2>2 DEF Kept, CandidatesHold
    <3> QED
      BY <2>1, <3>1
  <2>3. CASE b \notin ballots
    <3>1. ~ \E j \in Server : Stands(j) /\ b = <<j, currentTerm'[j], j>>
      <4> SUFFICES ASSUME NEW j \in Server, Stands(j), b = <<j, currentTerm'[j], j>>
                   PROVE  FALSE
        OBVIOUS
      <4>1. j = i
        OBVIOUS
      <4>2. currentTerm'[i] = currentTerm[i] + 1
        BY <1>1, <4>1 DEF Stands, ToCandidate, TypeInv, TypeOK, TypeOfElections
      <4> QED
        BY <1>1, <1>6, <4>2
    <3>2. PICK m \in voteRequests : /\ GrantsVote(m.to, m)
                                    /\ b = <<m.to, m.term, m.from>>
      <4> HIDE DEF b
      <4> QED
        BY <1>1, <1>3, <2>3, <3>1, NewBallots
    <3>3. m.to = a /\ m.term = currentTerm[i] /\ m.from = i
      BY <1>6, <3>2
    <3>4. AsksOf(m) /\ Unelected(m.term)
      BY <1>2, <1>6, <3>3 DEF VoteInv
    <3>5. m.lastIndex = LastIndex(Whole(i)) /\ m.lastTerm = LastTerm(Whole(i))
      BY <1>6, <3>3, <3>4 DEF AsksOf
    <3>6. UpToDate(m, log[a])
      BY <3>2, <3>3 DEF GrantsVote
    <3>7. /\ LastIndex(Whole(a)) = LastIndex(log[a])
          /\ LastTerm(Whole(a)) = LastTerm(log[a])
          /\ Rooted(Whole(a)) /\ TermsRise(Whole(a))
          /\ Rooted(Whole(i))
      BY <1>1 DEF WholeLogs
    <3>8. \/ LastTerm(Whole(i)) > LastTerm(Whole(a))
          \/ /\ LastTerm(Whole(i)) = LastTerm(Whole(a))
             /\ LastIndex(Whole(i)) >= LastIndex(Whole(a))
      BY <3>5, <3>6, <3>7 DEF UpToDate
    <3>9. AtLeast(Whole(a), K, T)
      BY <1>1, <3>7, BeginsAtLeast
    <3>10. AtLeast(Whole(i), K, T)
      <4>1. /\ LastIndex(Whole(a)) \in Nat /\ LastIndex(Whole(i)) \in Nat
            /\ LastTerm(Whole(a)) \in Int /\ LastTerm(Whole(i)) \in Int
            /\ K \in Nat /\ T \in Nat
        <5>1. LastIndex(Whole(a)) \in Nat /\ LastIndex(Whole(i)) \in Nat
          BY <3>7, RootedIndices
        <5>2. LastTerm(Whole(a)) \in Int /\ LastTerm(Whole(i)) \in Int
          BY <3>7, <5>1, EntryAtType DEF LastTerm, Rooted
        <5> QED
          BY <1>1, <5>1, <5>2, PointIs
      <4> HIDE DEF T
      <4> QED
        BY <3>8, <3>9, <4>1 DEF AtLeast
    <3> QED
      BY <2>1, <3>10 DEF Kept, HeldIfUpToDate
  <2> QED
    BY <2>2, <2>3
<1> QED
  BY <1>1, <1>5, <1>6, StillCandidate

LEMMA KeptStep ==
    ASSUME IsFiniteSet(Server), Cardinality(Server) <= 3,
           Stepping, VoteInv, NEW L, NEW K, NEW A, Kept(L, K, A), A # {},
           Blocking(A, TermAt(L, K))'
    PROVE  Kept(L, K, A)'
<1>1. Point(L, K)' /\ (A \subseteq Server)'
  BY DEF Kept, Point
<1>2. HeldBy(L, K, A)'
  <2> SUFFICES ASSUME NEW a \in A
               PROVE  currentTerm'[a] >= TermAt(L, K) /\ Begins(L, K, Whole(a)')
    BY DEF HeldBy
  <2>1. /\ a \in Server /\ currentTerm[a] >= TermAt(L, K) /\ Begins(L, K, Whole(a))
        /\ Point(L, K) /\ MovingFits(L, K)
    BY DEF Kept, HeldBy
  <2>2. currentTerm'[a] >= currentTerm[a] /\ WholeLogs /\ WholeLogs'
    BY <2>1, SteppingLogs
  <2>3. currentTerm[a] \in Nat /\ currentTerm'[a] \in Nat /\ TermAt(L, K) \in Nat
    BY <2>1, <2>2, PointIs DEF WholeLogs
  <2>4. currentTerm'[a] >= TermAt(L, K)
    BY <2>1, <2>2, <2>3
  <2> QED
    BY <2>1, <2>4, HeldStays
<1>3. HeldIfUpToDate(L, K)'
  BY UpToDateStep DEF HeldIfUpToDate
<1> QED
  BY <1>1, <1>2, <1>3, MovingFitsStep, LeadersHoldStep, CandidatesHoldStep DEF Kept

----------------------------------------------------------------------------
(* What a request that is accepted leaves behind.                          *)

LEMMA AppendedTerms ==
    ASSUME NEW l \in LogType, NEW prev \in Indices(l), NEW es \in Seq(Entry),
           NEW s, s = Segment(prev, TermAt(l, prev), es), Matching(l, s),
           NEW r, r = AppendEntries(l, prev + 1, es),
           NEW n \in Indices(s)
    PROVE  n \in Indices(r) /\ TermAt(r, n) = TermAt(s, n)
<1>1. /\ l.base \in Nat /\ LastIndex(l) \in Int /\ Len(es) \in Nat
      /\ prev \in Nat /\ prev >= l.base /\ prev <= LastIndex(l)
      /\ TermAt(l, prev) \in Int
  <2>1. l.base \in Nat /\ LastIndex(l) \in Int /\ Len(es) \in Nat
    BY LogIndices, LenProperties
  <2>2. prev \in Int /\ prev >= l.base /\ prev <= LastIndex(l)
    BY EntryOfLog
  <2>3. TermAt(l, prev) \in Int
    BY <2>2, EntryAtType
  <2> QED
    BY <2>1, <2>2, <2>3
<1>2. /\ s \in LogType /\ s.base = prev /\ LastIndex(s) = prev + Len(es)
      /\ EntryAt(s, prev) = [term |-> TermAt(l, prev), cmd |-> None]
      /\ \A k \in Indices(s) : k # prev =>
             EntryAt(s, k) = es[k - prev] /\ k - prev \in 1 .. Len(es)
  <2> DEFINE t == TermAt(l, prev)
             v == Segment(prev, t, es)
  <2>1. t \in Int /\ s = v /\ prev \in Nat
    BY <1>1
  <2> HIDE DEF t
  <2>2. /\ v \in LogType /\ v.base = prev /\ LastIndex(v) = prev + Len(es)
        /\ EntryAt(v, prev) = [term |-> t, cmd |-> None]
        /\ \A k \in Indices(v) : k # prev =>
               EntryAt(v, k) = es[k - prev] /\ k - prev \in 1 .. Len(es)
    BY <2>1, SegmentAt
  <2> HIDE DEF v
  <2>3. /\ s \in LogType /\ s.base = prev /\ LastIndex(s) = prev + Len(es)
        /\ EntryAt(s, prev) = [term |-> t, cmd |-> None]
        /\ \A k \in Indices(s) : k # prev =>
               EntryAt(s, k) = es[k - prev] /\ k - prev \in 1 .. Len(es)
    BY <2>1, <2>2
  <2> QED
    BY <2>3 DEF t
<1>3. n \in Int /\ n >= prev /\ n <= LastIndex(s)
  BY <1>2, EntryOfLog
<1>4. CASE Joined(r, l, s)
  BY <1>1, <1>2, <1>3, <1>4, JoinedTerms
<1>5. CASE r = l /\ Diverging(l, prev + 1, es) = {}
  <2>1. CASE n = prev
    BY <1>2, <1>5, <2>1 DEF TermAt
  <2>2. CASE n # prev
    <3> DEFINE d == n - prev - 1
    <3>1. d \in 0 .. Len(es) - 1 /\ prev + 1 + d = n /\ d + 1 = n - prev
      BY <1>1, <1>2, <1>3, <2>2
    <3>2. TermAt(s, n) = es[d + 1].term
      BY <1>2, <2>2, <3>1 DEF TermAt
    <3> HIDE DEF d
    <3>3. ~(n > LastIndex(l)) /\ TermAt(l, n) = es[d + 1].term
      BY <1>5, <3>1 DEF Diverging
    <3>4. n \in Indices(l)
      BY <1>1, <1>3, <3>3 DEF Indices
    <3> QED
      BY <1>5, <3>2, <3>3, <3>4
  <2> QED
    BY <2>1, <2>2
<1> QED
  BY <1>4, <1>5, AppendEntriesJoins

LEMMA WholeTerms ==
    LogsFit => \A i \in Server : \A n \in Indices(log[i]) :
        n \in Indices(Whole(i)) /\ TermAt(Whole(i), n) = TermAt(log[i], n)
<1> SUFFICES ASSUME LogsFit, NEW i \in Server, NEW n \in Indices(log[i])
             PROVE  n \in Indices(Whole(i)) /\ TermAt(Whole(i), n) = TermAt(log[i], n)
  OBVIOUS
<1>1. Whole(i) \in LogType /\ PartOf(log[i], Whole(i))
  BY WholeIs
<1> QED
  BY <1>1, PartOfEntry

LEMMA WholeTermsAfter ==
    (LogsFit => \A i \in Server : \A n \in Indices(log[i]) :
        n \in Indices(Whole(i)) /\ TermAt(Whole(i), n) = TermAt(log[i], n))'
BY WholeTerms, PTL

(***************************************************************************)
(* HandleAppendEntries, where the prefix check passes.                     *)
(***************************************************************************)
Accepts(m) ==
    /\ ~(m.term < currentTerm[m.to])
    /\ Matches(log[m.to], m)

LEMMA AcceptedIsThere ==
    ASSUME Stepping, NEW m \in appendRequests, HandleAppendEntries(m), Accepts(m)
    PROVE  /\ m.to \in Server
           /\ m.prevIndex \in Nat
           /\ Sent(m) \in LogType
           /\ Indices(Sent(m)) = m.prevIndex .. m.prevIndex + Len(m.entries)
           /\ LastIndex(Sent(m)) = m.prevIndex + Len(m.entries)
           /\ currentTerm'[m.to] = m.term
           /\ log'[m.to] = AppendEntries(log[m.to], m.prevIndex + 1, m.entries)
           /\ \A n \in Indices(Sent(m)) :
                  /\ n \in Indices(Whole(m.to)')
                  /\ TermAt(Whole(m.to)', n) = TermAt(Sent(m), n)
<1> DEFINE j == m.to
           l == log[j]
           s == Sent(m)
           r == log'[j]
<1>1. /\ j \in Server /\ m.term \in Nat /\ m.entries \in Seq(Entry)
      /\ m.prevTerm \in Int
      /\ currentTerm[j] \in Nat /\ l \in LogType
  BY DEF Stepping, Ground, TypeInv, TypeOK, TypeOfNet, AppendRequest,
         TypeOfElections, TypeOfLogs
<1>2. r = AppendEntries(l, m.prevIndex + 1, m.entries)
  BY <1>1 DEF Accepts, HandleAppendEntries, Stepping, Ground, TypeInv, TypeOK,
              TypeOfLogs
<1>3. currentTerm'[j] = m.term
  BY <1>1 DEF Accepts, HandleAppendEntries, Follow, Newer, Stepping, Ground,
              TypeInv, TypeOK, TypeOfElections
<1>4. m.prevIndex \in Indices(l)
  BY MatchedIndexHeld DEF Accepts, Stepping, Ground, LogInv
<1>5. m.prevIndex \in Nat
  <2>1. m.prevIndex \in Int /\ m.prevIndex >= l.base /\ l.base \in Nat
    BY <1>1, <1>4, EntryOfLog, LogIndices
  <2> QED
    BY <2>1
<1>6. s = Segment(m.prevIndex, TermAt(l, m.prevIndex), m.entries)
  BY DEF Accepts, Matches, Sent
<1>7. /\ s \in LogType /\ s.base = m.prevIndex
      /\ LastIndex(s) = m.prevIndex + Len(m.entries)
  BY <1>1, <1>5, SegmentAt DEF Sent
<1>8. Matching(l, s)
  <2> DEFINE c == <<l, currentTerm[j]>>
             d == <<s, m.term>>
  <2>1. c \in Carried /\ d \in Carried /\ c[1] = l /\ d[1] = s
    BY <1>1 DEF Carried
  <2> HIDE DEF c, d
  <2> QED
    BY <2>1 DEF Stepping, Ground, LogInv, Consistent
<1>9. ASSUME NEW n \in Indices(s)
      PROVE  n \in Indices(Whole(j)') /\ TermAt(Whole(j)', n) = TermAt(s, n)
  <2> HIDE DEF s, r, l
  <2>1. n \in Indices(r) /\ TermAt(r, n) = TermAt(s, n)
    BY <1>1, <1>2, <1>4, <1>6, <1>8, AppendedTerms
  <2>2. LogsFit'
    BY DEF Stepping, WholesInv, SeamsMatch, LogsFit
  <2> QED
    BY <1>1, <2>1, <2>2, WholeTermsAfter DEF r
<1>10. Indices(s) = m.prevIndex .. m.prevIndex + Len(m.entries)
  BY <1>7 DEF Indices
<1> QED
  BY <1>1, <1>2, <1>3, <1>5, <1>7, <1>9, <1>10

----------------------------------------------------------------------------
(* What a leader believes its followers hold.                              *)

(***************************************************************************)
(* Follower j has held the log of leader i up to p: it holds it still, or  *)
(* it has gone on to a later term.                                         *)
(***************************************************************************)
AckAgrees(i, j, p) ==
    /\ currentTerm[j] >= currentTerm[i]
    /\ currentTerm[j] = currentTerm[i] => Begins(Whole(i), p, Whole(j))

MatchAgrees ==
    \A i, j \in Server : i # j /\ state[i] = Leader =>
        /\ matchIndex[i][j] > snapshot[i].index => AckAgrees(i, j, matchIndex[i][j])
        /\ matchIndex[i][j] <= LastIndex(Whole(i))

RepliesAgree ==
    \A r \in appendReplies :
        r.success /\ Leads(r.to, r.asked) =>
            AckAgrees(r.to, r.from, r.prevIndex + r.sent)

AckInv == MatchAgrees /\ RepliesAgree

LEMMA BasesGrow ==
    ASSUME TypeInv, TypeInv', DiskInSync, [Next]_vars, NEW i \in Server
    PROVE  snapshot'[i].index >= snapshot[i].index
<1>1. /\ snapshot[i].index = log[i].base /\ snapshot'[i].index = log'[i].base
      /\ log[i] \in LogType /\ log[i].base \in Nat /\ LastIndex(log[i]) \in Int
  BY LogIndices DEF TypeInv, TypeOK, TypeOfLogs, Positions
<1> SUFFICES ASSUME log'[i].base # log[i].base
             PROVE  log'[i].base >= log[i].base
  BY <1>1
<1> USE DEF TypeInv, TypeOK, TypeOfLogs
<1>2. ASSUME NEW j \in Server, Start(j)
      PROVE  FALSE
  BY <1>1, <1>2 DEF Start, AppendEntry, LogType
<1>3. ASSUME NEW m \in appendRequests, HandleAppendEntries(m)
      PROVE  FALSE
  BY <1>1, <1>3 DEF HandleAppendEntries, AppendEntries, KeptBefore
<1>4. ASSUME NEW j \in Server, NEW k \in Indices(log[j]), TakeSnapshot(j, k)
      PROVE  log'[i].base >= log[i].base
  <2>1. j = i /\ log'[i].base = k /\ k \in log[i].base + 1 .. lastApplied[i]
    BY <1>1, <1>4 DEF TakeSnapshot, Rebase
  <2>2. k >= log[i].base
    BY <1>1, <2>1
  <2> QED
    BY <2>1, <2>2
<1>5. ASSUME NEW m \in installRequests, HandleInstallSnapshot(m)
      PROVE  log'[i].base >= log[i].base
  <2>1. /\ m.to = i /\ Installs(i, m)
        /\ log'[i] = Installed(log[i], m.snapshot.index, m.snapshot.term)
    BY <1>1, <1>5 DEF HandleInstallSnapshot
  <2>2. log'[i].base = m.snapshot.index
    BY <2>1 DEF Installed
  <2> QED
    BY <2>1, <2>2 DEF Installs
<1> QED
  BY <1>2, <1>3, <1>4, <1>5, OtherStepsKeepLogs

(***************************************************************************)
(* matchIndex of a leader moves when it hears of a success, and when a     *)
(* snapshot was answered: to the base of its own log.                      *)
(***************************************************************************)
HearsOf(i, j, r) ==
    /\ r \in appendReplies
    /\ r.to = i /\ r.from = j
    /\ Leads(i, r.asked) /\ r.success
    /\ matchIndex'[i][j] = r.prevIndex + r.sent

LEMMA MatchStep ==
    ASSUME TypeInv, [Next]_vars, NEW i \in Server, NEW j \in Server,
           state[i] = Leader, state'[i] = Leader,
           matchIndex'[i][j] # matchIndex[i][j]
    PROVE  \/ \E r : HearsOf(i, j, r)
           \/ matchIndex'[i][j] = snapshot[i].index /\ snapshot' = snapshot
<1> USE DEF TypeInv, TypeOK
<1>1. ASSUME NEW m \in appendReplies, HandleAppendReply(m)
      PROVE  \E r : HearsOf(i, j, r)
  <2>1. m.to \in Server /\ m.from \in Server /\ m.prevIndex \in Int
          /\ m.sent \in Nat
    BY DEF TypeOfNet, AppendReplyType
  <2>2. AppendSucceeded(m.to, m)
    BY <1>1 DEF HandleAppendReply, NewerReply, LateReply, AppendRejected, leaderVars
  <2>3. m.to = i /\ m.from = j /\ matchIndex'[i][j] = m.prevIndex + m.sent
    BY <2>1, <2>2 DEF AppendSucceeded, Acknowledged, TypeOfLogs
  <2> QED
    BY <2>2, <2>3 DEF AppendSucceeded, InTime, Leads, HearsOf
<1>2. ASSUME NEW m \in installReplies, HandleInstallReply(m)
      PROVE  matchIndex'[i][j] = snapshot[i].index /\ snapshot' = snapshot
  <2>1. m.to \in Server /\ m.from \in Server
    BY DEF TypeOfNet, InstallReply
  <2>2. InstallAnswered(m.to, m)
    BY <1>2 DEF HandleInstallReply, NewerReply, LateReply, leaderVars
  <2> QED
    BY <1>2, <2>1, <2>2 DEF InstallAnswered, HandleInstallReply, TypeOfLogs
<1>3. ASSUME NEW m \in voteReplies, HandleVoteReply(m) PROVE FALSE
  <2>1. ToLeader(m.to) /\ m.to \in Server /\ CountsVote(m.to, m)
    BY <1>3 DEF HandleVoteReply, leaderVars, TypeOfNet, VoteReply
  <2>2. m.to = i
    BY <2>1 DEF ToLeader, TypeOfLogs
  <2> QED
    BY <2>1, <2>2, RolesAssumption DEF CountsVote
<1>4. ASSUME NEW n \in Server, NEW image, Boot(n, image) PROVE FALSE
  <2>1. state'[n] = Follower /\ n # i
    BY <1>4, RolesAssumption DEF Boot, TypeOfElections
  <2> QED
    BY <1>4, <2>1 DEF Boot, TypeOfLogs
<1>5. ASSUME NEW caller, NEW t, TimesOut(caller, t) PROVE FALSE
  BY <1>5 DEF TimesOut, leaderVars
<1>6. ASSUME \/ \E n \in Server : Tick(n)
             \/ \E g \in soliciting : SolicitVote(g)
             \/ \E m \in voteRequests : HandleRequestVote(m)
             \/ \E n \in Server : Start(n)
             \/ \E n \in Server : \E m \in Others(n) : Replicate(n, m)
             \/ \E m \in appendRequests : HandleAppendEntries(m)
             \/ \E m \in appendReplies : AnswerWithSnapshot(m)
             \/ \E n \in Server : \E k \in Indices(log[n]) : TakeSnapshot(n, k)
             \/ \E m \in installRequests : HandleInstallSnapshot(m)
             \/ UNCHANGED vars
      PROVE  FALSE
  <2>1. matchIndex' = matchIndex
    BY <1>6 DEF Tick, SolicitVote, HandleRequestVote, Start, Replicate,
                HandleAppendEntries, AnswerWithSnapshot, TakeSnapshot,
                HandleInstallSnapshot, leaderVars, vars
  <2> QED
    BY <2>1
<1>7. ASSUME NEW m \in voteRequests \cup appendRequests \cup installRequests,
             CrashInHandler(m)
      PROVE  FALSE
  <2>1. m.to \in Server
    BY DEF TypeOfNet, VoteRequest, AppendRequest, InstallRequest
  <2> QED
    BY <1>4, <1>7, <2>1 DEF CrashInHandler
<1> QED
  BY <1>1, <1>2, <1>3, <1>4, <1>5, <1>6, <1>7
  DEF Next, AppendTimeout, AppendReplyTooLate, InstallTimeout,
      InstallReplyTooLate, Restart

(***************************************************************************)
(* An acknowledgement stays true while the leader leads: what calls in its *)
(* term carry is part of its own log.                                      *)
(***************************************************************************)
LEMMA AckAgreesStep ==
    ASSUME Stepping, NEW i \in Server, NEW j \in Server, NEW p \in Int,
           state[i] = Leader, currentTerm'[i] = currentTerm[i],
           p <= LastIndex(Whole(i)), AckAgrees(i, j, p)
    PROVE  AckAgrees(i, j, p)'
<1>1. /\ WholeLogs /\ WholeLogs'
      /\ currentTerm'[j] >= currentTerm[j]
      /\ currentTerm[i] \in Nat /\ currentTerm[j] \in Nat /\ currentTerm'[j] \in Nat
      /\ Rooted(Whole(i))
  BY SteppingLogs DEF WholeLogs
<1>2. currentTerm'[j] >= currentTerm'[i]
  BY <1>1 DEF AckAgrees
<1>3. ASSUME currentTerm'[j] = currentTerm'[i]
      PROVE  Begins(Whole(i)', p, Whole(j)')
  <2>1. currentTerm[j] = currentTerm[i]
    BY <1>1, <1>3 DEF AckAgrees
  <2>2. Begins(Whole(i), p, Whole(j))
    BY <2>1 DEF AckAgrees
  <2>3. PICK W : W = Whole(i)
    OBVIOUS
  <2>4. ASSUME NEW c \in Moving, currentTerm'[j] = c[2]
        PROVE  \A n \in Indices(c[1]) : n <= p => TermAt(c[1], n) = TermAt(W, n)
    <3>1. PartOf(c[1], Whole(i))
      BY <1>3, <2>4 DEF Stepping, WholesInv, MovingFromLeader
    <3>2. Whole(i) \in LogType
      BY <1>1 DEF Rooted
    <3> QED
      BY <2>3, <3>1, <3>2, PartOfEntry
  <2>5. Begins(W, p, Whole(j)')
    BY <1>1, <2>2, <2>3, <2>4, BeginsStep
  <2>6. \A n \in 1 .. p : EntryAt(Whole(i)', n) = EntryAt(W, n)
    <3>1. Begins(W, p, Whole(i))
      BY <2>3 DEF Begins
    <3>2. Whole(i)' = Whole(i) \/ Grows(i)
      BY LeaderTakesNothing DEF Stepping, Ground, TypeInv
    <3>3. CASE Whole(i)' = Whole(i)
      BY <2>3, <3>3
    <3>4. CASE Grows(i)
      <4>1. PICK e \in Entry : Whole(i)' = AppendEntry(Whole(i), e)
        BY <3>4 DEF Grows
      <4>2. Begins(W, p, Whole(i)')
        BY <1>1, <3>1, <4>1, AppendedBegins
      <4> QED
        BY <4>2 DEF Begins
    <3> QED
      BY <3>2, <3>3, <3>4
  <2> QED
    BY <2>5, <2>6 DEF Begins
<1> QED
  BY <1>2, <1>3 DEF AckAgrees

LEMMA NextMatchAgrees ==
    ASSUME Stepping, AckInv
    PROVE  MatchAgrees'
<1> SUFFICES ASSUME NEW i \in Server, NEW j \in Server, i # j, state'[i] = Leader,
                    NEW q \in Int, q = matchIndex'[i][j]
             PROVE  /\ q > snapshot'[i].index => AckAgrees(i, j, q)'
                    /\ q <= LastIndex(Whole(i)')
  <2>1. \A i, j \in Server : matchIndex'[i][j] \in Int
    BY DEF Stepping, Ground, TypeInv, TypeOK, TypeOfLogs
  <2> QED
    BY <2>1 DEF MatchAgrees, AckAgrees
<1>1. /\ TypeInv /\ TypeInv' /\ [Next]_vars /\ DiskInSync
      /\ WholeLogs /\ WholeLogs'
      /\ matchIndex[i][j] \in Int
  BY SteppingLogs DEF Stepping, Ground, TypeInv, TypeOK, TypeOfLogs
<1>2. /\ snapshot[i].index = log[i].base /\ snapshot'[i].index = log'[i].base
      /\ log[i].base \in Nat /\ log'[i].base \in Nat
      /\ snapshot'[i].index >= snapshot[i].index
  BY <1>1, BasesGrow, LogIndices DEF TypeInv, TypeOK, TypeOfLogs, Positions
<1>3. /\ LastIndex(Whole(i)) = LastIndex(log[i])
      /\ LastIndex(Whole(i)') = LastIndex(log'[i])
      /\ LastIndex(log[i]) \in Nat /\ LastIndex(log'[i]) \in Nat
      /\ LastIndex(log[i]) >= log[i].base
  <2>1. LogsFit /\ LogsFit'
    BY DEF Stepping, WholesInv, SeamsMatch, LogsFit
  <2> QED
    BY <2>1, WholeIs, WholeIsAfter DEF LogsFit, Fitting
<1>4. CASE JustElected(i)
  <2>1. q = 0
    BY <1>1, <1>4 DEF JustElected, ToLeader, TypeInv, TypeOK, TypeOfLogs
  <2>2. ~(q > snapshot'[i].index)
    BY <1>2, <2>1
  <2> QED
    BY <1>3, <2>1, <2>2
<1>5. CASE LeadsOn(i)
  <2>1. /\ state[i] = Leader /\ currentTerm'[i] = currentTerm[i]
        /\ LastIndex(Whole(i)') >= LastIndex(Whole(i))
    BY <1>3, <1>5 DEF LeadsOn
  <2>2. ASSUME q <= LastIndex(Whole(i)),
               q > snapshot'[i].index => AckAgrees(i, j, q)
        PROVE  /\ q > snapshot'[i].index => AckAgrees(i, j, q)'
               /\ q <= LastIndex(Whole(i)')
    <3>1. q <= LastIndex(Whole(i)')
      BY <1>3, <2>1, <2>2
    <3>2. q > snapshot'[i].index => AckAgrees(i, j, q)'
      BY <2>1, <2>2, AckAgreesStep
    <3> QED
      BY <3>1, <3>2
  <2>3. CASE matchIndex'[i][j] = matchIndex[i][j]
    <3>1. /\ q <= LastIndex(Whole(i))
          /\ q > snapshot[i].index => AckAgrees(i, j, q)
      BY <2>1, <2>3 DEF AckInv, MatchAgrees
    <3>2. q > snapshot'[i].index => q > snapshot[i].index
      BY <1>2
    <3> QED
      BY <2>2, <3>1, <3>2
  <2>4. ASSUME NEW r, HearsOf(i, j, r)
        PROVE  /\ q > snapshot'[i].index => AckAgrees(i, j, q)'
               /\ q <= LastIndex(Whole(i)')
    <3>1. AckAgrees(i, j, q) /\ q <= LastIndex(log[i])
      BY <2>4 DEF HearsOf, AckInv, RepliesAgree, Stepping, Ground, LogInv, Probes
    <3> QED
      BY <1>3, <2>2, <3>1
  <2>5. CASE matchIndex'[i][j] = snapshot[i].index /\ snapshot' = snapshot
    <3>1. ~(q > snapshot'[i].index)
      BY <1>2, <2>5
    <3>2. q <= LastIndex(Whole(i)')
      BY <1>2, <1>3, <2>1, <2>5
    <3> QED
      BY <3>1, <3>2
  <2> QED
    BY <1>1, <2>1, <2>3, <2>4, <2>5, MatchStep
<1> QED
  BY <1>4, <1>5, NextLeader DEF Stepping, Ground, TypeInv

LEMMA NewReplyAgrees ==
    ASSUME Stepping, NEW m \in appendRequests, HandleAppendEntries(m), Accepts(m),
           Leads(m.from, m.term)'
    PROVE  /\ state[m.from] = Leader /\ currentTerm[m.from] = m.term
           /\ currentTerm'[m.to] = currentTerm[m.from]
           /\ m.prevIndex + Len(m.entries) <= LastIndex(Whole(m.from))
           /\ AckAgrees(m.from, m.to, m.prevIndex + Len(m.entries))'
<1> DEFINE i == m.from
           j == m.to
           p == m.prevIndex + Len(m.entries)
<1>1. /\ i \in Server /\ j \in Server /\ i # j /\ m.term \in Nat
      /\ m.entries \in Seq(Entry)
  BY DEF Stepping, Ground, TypeInv, TypeOK, TypeOfNet, AppendRequest, NoCallToSelf
<1>2. /\ m.prevIndex \in Nat /\ Len(m.entries) \in Nat
      /\ Indices(Sent(m)) = m.prevIndex .. p
      /\ currentTerm'[j] = m.term
      /\ \A n \in Indices(Sent(m)) :
             n \in Indices(Whole(j)') /\ TermAt(Whole(j)', n) = TermAt(Sent(m), n)
  BY <1>1, AcceptedIsThere, LenProperties
<1>3. p \in Nat /\ p \in Indices(Sent(m))
  BY <1>2
<1> HIDE DEF p
<1>4. state[i] = Leader /\ currentTerm[i] = m.term /\ currentTerm'[i] = m.term
  <2>1. <<m.term, i>> \in elected
    BY DEF Stepping, Ground, RoleInv, CallersElected
  <2>2. state'[i] = Leader /\ currentTerm'[i] = m.term
    BY DEF Leads
  <2> QED
    BY <1>1, <2>1, <2>2, CallerLeadsOn DEF Stepping, Ground, TypeInv, Leads
<1>5. PartOf(Sent(m), Whole(i))
  <2> DEFINE c == <<Sent(m), m.term>>
  <2>1. c \in Moving /\ c[1] = Sent(m) /\ c[2] = m.term
    BY DEF Moving
  <2> HIDE DEF c
  <2> QED
    BY <1>1, <1>4, <2>1 DEF Stepping, WholesInv, MovingFromLeader
<1>6. Whole(i)' = Whole(i)
  <2>1. OthersStay(j)
    BY AppendEntriesTakes DEF Stepping, Ground, LogInv, WholesInv, SeamsMatch, LogsFit
  <2> QED
    BY <1>1, <2>1 DEF OthersStay
<1>7. WholeLogs /\ WholeLogs'
  BY SteppingLogs
<1>8. PICK W : W = Whole(i)
  OBVIOUS
<1>9. /\ p \in Indices(W) /\ TermAt(W, p) = TermAt(Sent(m), p)
      /\ Rooted(W)
  BY <1>1, <1>3, <1>5, <1>7, <1>8, PartOfEntry DEF WholeLogs, Rooted
<1>10. PICK V : V = Whole(j)'
  OBVIOUS
<1>11. /\ p \in Indices(V) /\ TermAt(V, p) = TermAt(W, p)
       /\ Rooted(V) /\ Matching(W, V)
  <2>1. p \in Indices(V) /\ TermAt(V, p) = TermAt(W, p)
    BY <1>2, <1>3, <1>9, <1>10
  <2>2. Rooted(V) /\ Matching(W, V)
    BY <1>1, <1>6, <1>7, <1>8, <1>10 DEF WholeLogs
  <2> QED
    BY <2>1, <2>2
<1>12. Begins(W, p, V)
  BY <1>9, <1>11, MatchingBegins
<1>13. p <= LastIndex(W)
  BY <1>9, RootedIndices, EntryOfLog DEF Rooted
<1>14. Begins(Whole(i)', p, Whole(j)')
  BY <1>6, <1>8, <1>10, <1>12
<1>15. AckAgrees(i, j, p)'
  BY <1>2, <1>3, <1>4, <1>1, <1>14 DEF AckAgrees
<1> QED
  BY <1>2, <1>4, <1>8, <1>13, <1>15 DEF p

(***************************************************************************)
(* A reply that says success is of a request that was accepted.            *)
(***************************************************************************)
LEMMA NewReplyOf ==
    ASSUME Stepping, NEW r \in appendReplies', r \notin appendReplies, r.success
    PROVE  \E m \in appendRequests :
               /\ HandleAppendEntries(m) /\ Accepts(m)
               /\ r.to = m.from /\ r.from = m.to /\ r.asked = m.term
               /\ r.prevIndex = m.prevIndex /\ r.sent = Len(m.entries)
<1>1. PICK m \in appendRequests :
          /\ HandleAppendEntries(m)
          /\ r = AppendReply(m.to, m, /\ ~(m.term < currentTerm[m.to])
                                      /\ ~Matches(log[m.to], m))
  BY RepliesToRequests DEF Stepping, RepliesAnswer
<1>2. /\ r.to = m.from /\ r.from = m.to /\ r.asked = m.term
      /\ r.prevIndex = m.prevIndex /\ r.sent = Len(m.entries)
      /\ m.term = currentTerm'[m.to]
      /\ m.term < currentTerm[m.to] \/ Matches(log[m.to], m)
  BY <1>1 DEF AppendReply
<1>3. m.to \in Server
  BY DEF Stepping, Ground, TypeInv, TypeOK, TypeOfNet, AppendRequest
<1>4. /\ currentTerm'[m.to] >= currentTerm[m.to]
      /\ currentTerm'[m.to] \in Nat /\ currentTerm[m.to] \in Nat
  BY <1>3, SteppingLogs DEF WholeLogs
<1>5. Accepts(m)
  BY <1>2, <1>4 DEF Accepts
<1> QED
  BY <1>1, <1>2, <1>5

LEMMA NextRepliesAgree ==
    ASSUME Stepping, AckInv
    PROVE  RepliesAgree'
<1> SUFFICES ASSUME NEW r \in appendReplies', r.success, Leads(r.to, r.asked)'
             PROVE  AckAgrees(r.to, r.from, r.prevIndex + r.sent)'
  BY DEF RepliesAgree
<1>1. /\ r.to \in Server /\ r.from \in Server /\ r.prevIndex + r.sent \in Int
      /\ WholeLogs
  <2>1. r \in AppendReplyType
    BY DEF Stepping, Ground, TypeInv, TypeOK, TypeOfNet
  <2>2. r.prevIndex \in Int /\ r.sent \in Nat
    BY <2>1 DEF AppendReplyType
  <2> QED
    BY <2>1, <2>2, SteppingLogs DEF AppendReplyType
<1>2. CASE r \in appendReplies
  <2> DEFINE p == r.prevIndex + r.sent
  <2>1. <<r.asked, r.to>> \in elected
    BY <1>2 DEF Stepping, Ground, RoleInv, CallersElected
  <2>2. state'[r.to] = Leader /\ currentTerm'[r.to] = r.asked
    BY DEF Leads
  <2>3. Leads(r.to, r.asked)
    BY <1>1, <2>1, <2>2, CallerLeadsOn DEF Stepping, Ground, TypeInv
  <2>4. p <= LastIndex(Whole(r.to)) /\ AckAgrees(r.to, r.from, p)
    BY <1>1, <1>2, <2>3
    DEF Stepping, Ground, LogInv, Probes, WholeLogs, AckInv, RepliesAgree
  <2>5. state[r.to] = Leader /\ currentTerm'[r.to] = currentTerm[r.to]
    BY <2>2, <2>3 DEF Leads
  <2>6. p \in Int
    BY <1>1
  <2> HIDE DEF p
  <2>7. AckAgrees(r.to, r.from, p)'
    BY <1>1, <2>4, <2>5, <2>6, AckAgreesStep
  <2> QED
    BY <2>7 DEF p
<1>3. CASE r \notin appendReplies
  <2>1. PICK m \in appendRequests :
            /\ HandleAppendEntries(m) /\ Accepts(m)
            /\ r.to = m.from /\ r.from = m.to /\ r.asked = m.term
            /\ r.prevIndex = m.prevIndex /\ r.sent = Len(m.entries)
    BY <1>3, NewReplyOf
  <2>2. Leads(m.from, m.term)'
    BY <2>1 DEF Leads
  <2>3. AckAgrees(m.from, m.to, m.prevIndex + Len(m.entries))'
    BY <2>1, <2>2, NewReplyAgrees
  <2> QED
    BY <2>1, <2>3
<1> QED
  BY <1>2, <1>3

LEMMA NextAckInv ==
    ASSUME Stepping, AckInv
    PROVE  AckInv'
BY NextMatchAgrees, NextRepliesAgree DEF AckInv

(***************************************************************************)
(* Who is known to have held the log of leader i up to k: the leader, the  *)
(* peers its matchIndex counts, and those whose success is under way.      *)
(***************************************************************************)
Acked(i, k) ==
    {j \in Server :
        \/ j = i
        \/ matchIndex[i][j] >= k
        \/ \E r \in appendReplies :
               /\ r.to = i /\ r.from = j
               /\ r.asked = currentTerm[i] /\ r.success
               /\ r.prevIndex + r.sent >= k}

LEMMA AgreesBelow ==
    ASSUME WholeLogs, NEW i \in Server, NEW j \in Server, NEW p \in Int,
           AckAgrees(i, j, p), NEW k \in Int, p >= k
    PROVE  AckAgrees(i, j, k)
<1>1. LastIndex(Whole(j)) \in Int
  BY RootedIndices DEF WholeLogs
<1> QED
  BY <1>1, BeginsShorter DEF AckAgrees

LEMMA AckedAgree ==
    TypeInv /\ WholeLogs /\ AckInv =>
        \A i, j \in Server : \A k \in Int :
            /\ state[i] = Leader
            /\ j # i
            /\ k > snapshot[i].index
            /\ j \in Acked(i, k)
            => AckAgrees(i, j, k)
<1> SUFFICES ASSUME TypeInv, WholeLogs, AckInv,
                    NEW i \in Server, NEW j \in Server, NEW k \in Int,
                    state[i] = Leader, j # i, k > snapshot[i].index,
                    j \in Acked(i, k)
             PROVE  AckAgrees(i, j, k)
  OBVIOUS
<1>1. snapshot[i].index \in Int /\ matchIndex[i][j] \in Int
  BY DEF TypeInv, TypeOK, TypeOfLogs, SnapshotType
<1>2. CASE matchIndex[i][j] >= k
  <2>1. matchIndex[i][j] > snapshot[i].index
    BY <1>1, <1>2
  <2>2. AckAgrees(i, j, matchIndex[i][j])
    BY <2>1 DEF AckInv, MatchAgrees
  <2> QED
    BY <1>1, <1>2, <2>2, AgreesBelow
<1>3. ASSUME NEW r \in appendReplies, r.to = i, r.from = j,
             r.asked = currentTerm[i], r.success, r.prevIndex + r.sent >= k
      PROVE  AckAgrees(i, j, k)
  <2>1. AckAgrees(i, j, r.prevIndex + r.sent)
    BY <1>3 DEF AckInv, RepliesAgree, Leads
  <2>2. r.prevIndex + r.sent \in Int
    BY DEF TypeInv, TypeOK, TypeOfNet, AppendReplyType
  <2> QED
    BY <1>3, <2>1, <2>2, AgreesBelow
<1> QED
  BY <1>2, <1>3 DEF Acked

LEMMA AckedAgreeAfter ==
    (TypeInv /\ WholeLogs /\ AckInv =>
        \A i, j \in Server : \A k \in Int :
            /\ state[i] = Leader
            /\ j # i
            /\ k > snapshot[i].index
            /\ j \in Acked(i, k)
            => AckAgrees(i, j, k))'
BY AckedAgree, PTL

(***************************************************************************)
(* Whoever is newly known to hold the log has just accepted a request.     *)
(***************************************************************************)
LEMMA MatchIsAcked ==
    ASSUME TypeInv, [Next]_vars, NEW i \in Server, NEW j \in Server, NEW k \in Int,
           state[i] = Leader, state'[i] = Leader, k > snapshot'[i].index,
           matchIndex'[i][j] >= k
    PROVE  j \in Acked(i, k)
<1>1. CASE matchIndex'[i][j] = matchIndex[i][j]
  BY <1>1 DEF Acked
<1>2. ASSUME NEW r, HearsOf(i, j, r) PROVE j \in Acked(i, k)
  BY <1>2 DEF HearsOf, Leads, Acked
<1>3. CASE matchIndex'[i][j] = snapshot[i].index /\ snapshot' = snapshot
  <2>1. snapshot[i].index \in Int
    BY DEF TypeInv, TypeOK, TypeOfLogs, SnapshotType
  <2> QED
    BY <1>3, <2>1
<1> QED
  BY <1>1, <1>2, <1>3, MatchStep

LEMMA AckedStep ==
    ASSUME Stepping, NEW i \in Server, NEW j \in Server, NEW k \in Int,
           state[i] = Leader, state'[i] = Leader, currentTerm'[i] = currentTerm[i],
           k > snapshot'[i].index, j \in Acked(i, k)'
    PROVE  \/ j \in Acked(i, k)
           \/ currentTerm'[j] = currentTerm[i] /\ k <= LastIndex(Whole(i))
<1>1. CASE j = i
  BY <1>1 DEF Acked
<1>2. CASE matchIndex'[i][j] >= k
  BY <1>2, MatchIsAcked DEF Stepping, Ground
<1>3. ASSUME NEW r \in appendReplies', r.to = i, r.from = j,
             r.asked = currentTerm[i], r.success, r.prevIndex + r.sent >= k
      PROVE  \/ j \in Acked(i, k)
             \/ currentTerm'[j] = currentTerm[i] /\ k <= LastIndex(Whole(i))
  <2>1. CASE r \in appendReplies
    BY <1>3, <2>1 DEF Acked
  <2>2. CASE r \notin appendReplies
    <3>1. PICK m \in appendRequests :
              /\ HandleAppendEntries(m) /\ Accepts(m)
              /\ r.to = m.from /\ r.from = m.to /\ r.asked = m.term
              /\ r.prevIndex = m.prevIndex /\ r.sent = Len(m.entries)
      BY <1>3, <2>2, NewReplyOf
    <3>2. Leads(m.from, m.term)'
      BY <1>3, <3>1 DEF Leads
    <3>3. /\ currentTerm'[j] = currentTerm[i]
          /\ r.prevIndex + r.sent <= LastIndex(Whole(i))
      BY <1>3, <3>1, <3>2, NewReplyAgrees
    <3>4. LastIndex(Whole(i)) \in Int /\ r.prevIndex + r.sent \in Int
      <4>1. LastIndex(Whole(i)) \in Int
        BY SteppingLogs, RootedIndices DEF WholeLogs
      <4> QED
        BY <4>1 DEF Stepping, Ground, TypeInv, TypeOK, TypeOfNet, AppendReplyType
    <3> QED
      BY <1>3, <3>3, <3>4
  <2> QED
    BY <2>1, <2>2
<1> QED
  BY <1>1, <1>2, <1>3 DEF Acked

----------------------------------------------------------------------------
(* What a step does to the commit indices and the state machines.          *)

Counts(i) ==
    /\ state[i] = Leader
    /\ UpdateLeaderCommit(i)
    /\ UNCHANGED <<electionVars, log, snapshot>>

Boots(i) ==
    \E image : /\ Boot(i, image)
               /\ image.log = log[i]
               /\ image.bytes = snapshot[i].bytes

CommitStep ==
    \/ UNCHANGED <<commitIndex, machine, decided>>
    \/ \E m \in appendRequests : HandleAppendEntries(m) /\ Accepts(m)
    \/ \E i \in Server : Counts(i)
    \/ \E m \in installRequests : HandleInstallSnapshot(m) /\ Installs(m.to, m)
    \/ \E i \in Server : Boots(i)

LEMMA NextCommitStep ==
    ASSUME TypeInv, DiskInSync, [Next]_vars
    PROVE  CommitStep
<1> USE DEF TypeInv, TypeOK
<1>1. ASSUME \/ \E i \in Server : Tick(i)
             \/ \E g \in soliciting : SolicitVote(g)
             \/ \E m \in voteRequests : HandleRequestVote(m)
             \/ \E m \in voteReplies : HandleVoteReply(m)
             \/ \E i \in Server : Start(i)
             \/ \E i \in Server : \E j \in Others(i) : Replicate(i, j)
             \/ \E m \in appendReplies : AnswerWithSnapshot(m)
             \/ \E i \in Server : \E k \in Indices(log[i]) : TakeSnapshot(i, k)
             \/ UNCHANGED vars
      PROVE  CommitStep
  <2>1. UNCHANGED <<commitIndex, machine, decided>>
    BY <1>1 DEF Tick, SolicitVote, HandleRequestVote, HandleVoteReply, Start,
                Replicate, AnswerWithSnapshot, TakeSnapshot, logVars, applyVars,
                history, vars
  <2> QED
    BY <2>1 DEF CommitStep
<1>2. ASSUME NEW m \in appendRequests, HandleAppendEntries(m)
      PROVE  CommitStep
  BY <1>2 DEF HandleAppendEntries, Accepts, applyVars, CommitStep
<1>3. ASSUME NEW m \in appendReplies, HandleAppendReply(m) PROVE CommitStep
  <2>1. m.to \in Server
    BY DEF TypeOfNet, AppendReplyType
  <2>2. CASE AppendSucceeded(m.to, m)
    BY <1>3, <2>1, <2>2
    DEF HandleAppendReply, AppendSucceeded, InTime, Counts, CommitStep
  <2>3. CASE NewerReply(m.to, m) \/ LateReply(m.to, m) \/ AppendRejected(m.to, m)
    BY <2>3 DEF NewerReply, LateReply, AppendRejected, applyVars, CommitStep
  <2> QED
    BY <1>3, <2>2, <2>3 DEF HandleAppendReply
<1>4. ASSUME NEW m \in installRequests, HandleInstallSnapshot(m)
      PROVE  CommitStep
  BY <1>4 DEF HandleInstallSnapshot, applyVars, CommitStep
<1>5. ASSUME NEW m \in installReplies, HandleInstallReply(m) PROVE CommitStep
  <2>1. m.to \in Server
    BY DEF TypeOfNet, InstallReply
  <2>2. CASE InstallAnswered(m.to, m)
    BY <1>5, <2>1, <2>2
    DEF HandleInstallReply, InstallAnswered, InTime, Counts, CommitStep
  <2>3. CASE NewerReply(m.to, m) \/ LateReply(m.to, m)
    BY <2>3 DEF NewerReply, LateReply, applyVars, CommitStep
  <2> QED
    BY <1>5, <2>2, <2>3 DEF HandleInstallReply
<1>6. ASSUME NEW caller, NEW t, TimesOut(caller, t) PROVE CommitStep
  BY <1>6 DEF TimesOut, logVars, applyVars, history, CommitStep
<1>7. \A i \in Server : /\ disk[i].log = log[i] /\ disk[i] \in ImageType
                         /\ disk[i].bytes = snapshot[i].bytes
  BY DEF DiskInSync, Image, TypeOfLogs
<1>8. ASSUME NEW i \in Server, Restart(i) PROVE CommitStep
  BY <1>7, <1>8 DEF Restart, Boots, CommitStep
<1>9. ASSUME NEW m \in voteRequests \cup appendRequests \cup installRequests,
             CrashInHandler(m)
      PROVE  CommitStep
  <2> DEFINE i == m.to
             image == [disk[i] EXCEPT !.term = m.term, !.vote = None]
  <2>1. i \in Server
    BY DEF TypeOfNet, VoteRequest, AppendRequest, InstallRequest
  <2>2. image.log = log[i] /\ image.bytes = snapshot[i].bytes
    BY <1>7, <2>1 DEF ImageType
  <2>3. Boot(i, image)
    BY <1>9 DEF CrashInHandler
  <2> HIDE DEF image
  <2> QED
    BY <2>1, <2>2, <2>3 DEF Boots, CommitStep
<1> QED
  BY <1>1, <1>2, <1>3, <1>4, <1>5, <1>6, <1>8, <1>9
  DEF Next, AppendTimeout, AppendReplyTooLate, InstallTimeout,
      InstallReplyTooLate

LEMMA FollowerCommits ==
    ASSUME TypeInv, NEW m \in appendRequests
    PROVE  /\ FollowerCommit(m.to, m) \in Int
           /\ FollowerCommit(m.to, m) >= commitIndex[m.to]
           /\ \/ FollowerCommit(m.to, m) = commitIndex[m.to]
              \/ /\ FollowerCommit(m.to, m) <= m.prevIndex + Len(m.entries)
                 /\ FollowerCommit(m.to, m) <= m.leaderCommit
<1>1. m.to \in Server /\ m.prevIndex \in Int /\ m.leaderCommit \in Int
         /\ Len(m.entries) \in Nat
  BY LenProperties DEF TypeInv, TypeOK, TypeOfNet, AppendRequest
<1>2. commitIndex[m.to] \in Int
  BY <1>1 DEF TypeInv, TypeOK, TypeOfLogs
<1> QED
  BY <1>1, <1>2 DEF FollowerCommit

LEMMA LeaderCommits ==
    ASSUME TypeInv, DiskInSync, [Next]_vars, NEW i \in Server,
           state[i] = Leader, state'[i] = Leader
    PROVE  commitIndex'[i] >= commitIndex[i]
<1> USE DEF TypeInv, TypeOK
<1>1. commitIndex[i] \in Int
  BY DEF TypeOfLogs
<1>2. CASE commitIndex' = commitIndex
  BY <1>1, <1>2
<1>3. ASSUME NEW m \in appendRequests, HandleAppendEntries(m), Accepts(m)
      PROVE  commitIndex'[i] >= commitIndex[i]
  <2>1. commitIndex' = [commitIndex EXCEPT ![m.to] = FollowerCommit(m.to, m)]
    BY <1>3 DEF HandleAppendEntries, Accepts
  <2>2. m.to \in Server /\ FollowerCommit(m.to, m) >= commitIndex[m.to]
    BY FollowerCommits DEF TypeOfNet, AppendRequest
  <2> QED
    BY <1>1, <2>1, <2>2 DEF TypeOfLogs
<1>4. ASSUME NEW j \in Server, Counts(j)
      PROVE  commitIndex'[i] >= commitIndex[i]
  BY <1>4, UpdateLeaderCommitAdvances DEF Counts
<1>5. ASSUME NEW m \in installRequests, HandleInstallSnapshot(m), Installs(m.to, m)
      PROVE  commitIndex'[i] >= commitIndex[i]
  <2>1. commitIndex' = [commitIndex EXCEPT ![m.to] = m.snapshot.index]
    BY <1>5 DEF HandleInstallSnapshot
  <2>2. m.to \in Server /\ m.snapshot.index >= commitIndex[m.to]
    BY <1>5 DEF TypeOfNet, InstallRequest, Installs
  <2> QED
    BY <1>1, <2>1, <2>2 DEF TypeOfLogs
<1>6. ASSUME NEW j \in Server, Boots(j)
      PROVE  commitIndex'[i] >= commitIndex[i]
  <2>1. PICK image : Boot(j, image)
    BY <1>6 DEF Boots
  <2>2. i # j
    BY <2>1, RolesAssumption DEF Boot, TypeOfElections
  <2>3. commitIndex'[i] = commitIndex[i]
    BY <2>1, <2>2 DEF Boot, TypeOfLogs
  <2> QED
    BY <1>1, <2>3
<1> QED
  BY <1>2, <1>3, <1>4, <1>5, <1>6, NextCommitStep DEF CommitStep

----------------------------------------------------------------------------
(* From the first copy of an entry to a quorum of them.                    *)

(***************************************************************************)
(* The last entry of a leader's log, of its own term: nobody else has it,  *)
(* and nobody has gone past the term.                                      *)
(***************************************************************************)
LastKept(i) ==
    LET k == LastIndex(Whole(i)) IN
    /\ state[i] = Leader
    /\ TermAt(Whole(i), k) = currentTerm[i]
    /\ Blocking({i}, currentTerm[i])

Elections ==
    VotesInv /\ ElectedInv /\ RoleInv /\ ElectionSafety

LEMMA NobodyPast ==
    ASSUME IsFiniteSet(Server), Cardinality(Server) <= 3,
           TypeInv, Elections, NEW i \in Server, Blocking({i}, currentTerm[i])
    PROVE  \A e \in elected : e[1] <= currentTerm[i]
<1> TAKE e \in elected
<1> DEFINE U == currentTerm[i]
<1>1. e[1] \in Nat /\ e[2] \in Server /\ \A j \in Server : currentTerm[j] \in Nat
  BY DEF TypeInv, TypeOK, TypeOfElections, TypeOfHistory
<1>2. PICK v \in Server \ {e[2]} :
          <<e[2], e[1], e[2]>> \in ballots /\ <<v, e[1], e[2]>> \in ballots
  BY DEF Elections, ElectedInv, ElectedByTwo
<1>3. PICK B \in SUBSET Server :
          /\ Cardinality(B) >= Quorum
          /\ \A b \in B : b \in {i} \/ currentTerm[b] <= U
  BY DEF Blocking
<1>4. \A b \in B : currentTerm[b] <= U
  BY <1>1, <1>3
<1>5. ASSUME NEW b \in Server, <<b, e[1], e[2]>> \in ballots
      PROVE  e[1] <= currentTerm[b]
  <2> DEFINE d == <<b, e[1], e[2]>>
  <2>1. d \in ballots /\ d[1] = b /\ d[2] = e[1]
    BY <1>5
  <2> HIDE DEF d
  <2> QED
    BY <2>1 DEF Elections, VotesInv, BallotsKept
<1>6. \E b \in B : b \in Server /\ e[1] <= currentTerm[b]
  BY <1>1, <1>2, <1>3, <1>5, TwoMeetQuorum
<1>7. PICK b \in B : b \in Server /\ e[1] <= currentTerm[b]
  BY <1>6
<1>8. currentTerm[b] <= U /\ currentTerm[b] \in Nat /\ U \in Nat
  BY <1>1, <1>4, <1>7
<1> HIDE DEF U
<1>9. e[1] <= U
  BY <1>1, <1>7, <1>8
<1> QED
  BY <1>9 DEF U

LEMMA LastIsKept ==
    IsFiniteSet(Server) /\ Cardinality(Server) <= 3
        /\ TypeInv /\ Elections /\ WholesInv =>
        \A i \in Server : LastKept(i) =>
            \E L : Kept(L, LastIndex(Whole(i)), {i})
<1> SUFFICES ASSUME IsFiniteSet(Server), Cardinality(Server) <= 3,
                    TypeInv, Elections, WholesInv, NEW i \in Server, LastKept(i)
             PROVE  Kept(Whole(i), LastIndex(Whole(i)), {i})
  OBVIOUS
<1> DEFINE L == Whole(i)
           K == LastIndex(L)
           U == currentTerm[i]
<1>1. WholeLogs /\ MovingLogs
  BY LogsAreWhole, LogsThatMove DEF Elections
<1>2. /\ state[i] = Leader /\ TermAt(L, K) = U /\ Blocking({i}, U)
  BY DEF LastKept
<1>3. /\ Rooted(L) /\ TermsRise(L) /\ Terms(L) /\ U \in Nat
      /\ \A j \in Server : /\ Rooted(Whole(j)) /\ Matching(L, Whole(j))
                           /\ Terms(Whole(j)) /\ currentTerm[j] \in Nat
  BY <1>1 DEF WholeLogs
<1>4. \A e \in elected : e[1] <= U
  BY <1>2, NobodyPast
<1>5. \A j \in Server : state[j] = Leader =>
          currentTerm[j] <= U /\ (currentTerm[j] = U => j = i)
  <2>1. TAKE j \in Server
  <2>2. HAVE state[j] = Leader
  <2> DEFINE e == <<currentTerm[j], j>>
             f == <<U, i>>
  <2>3. /\ e \in elected /\ e[1] = currentTerm[j] /\ e[2] = j
        /\ f \in elected /\ f[1] = U /\ f[2] = i
    BY <1>2, <2>2 DEF Elections, RoleInv, LeadersElected
  <2> HIDE DEF e, f
  <2> QED
    BY <1>4, <2>3 DEF Elections, ElectionSafety
<1>6. \A c \in Full : \A n \in Indices(c[1]) :
          /\ TermAt(c[1], n) > 0 => \E e \in elected : e[1] = TermAt(c[1], n)
          /\ TermAt(c[1], n) = U => n <= K
  BY <1>2 DEF WholesInv, WholesElected, WholesBehind
<1>7. \A j \in Server : \A n \in Indices(Whole(j)) :
          /\ TermAt(Whole(j), n) > 0 => \E e \in elected : e[1] = TermAt(Whole(j), n)
          /\ TermAt(Whole(j), n) = U => n <= K
  <2>1. TAKE j \in Server
  <2> DEFINE c == <<Whole(j), currentTerm[j]>>
  <2>2. c \in Full /\ c[1] = Whole(j)
    BY DEF Full, Stored
  <2> HIDE DEF c, U, K
  <2> QED
    BY <1>6, <2>2
<1>8. \A c \in Moving : c[2] = U => PartOf(c[1], L)
  BY <1>2 DEF WholesInv, MovingFromLeader
<1>9. \A j \in Server : \A t : <<i, t, j>> \in ballots => t <= U
  <2>1. TAKE j \in Server
  <2>2. TAKE t
  <2> DEFINE d == <<i, t, j>>
  <2>3. d[1] = i /\ d[2] = t
    OBVIOUS
  <2> HIDE DEF d
  <2> QED
    BY <2>3 DEF Elections, VotesInv, BallotsKept, d
<1> HIDE DEF L
<1>10. K \in Nat /\ Indices(L) = 0 .. K /\ K \in Indices(L)
  <2>1. K \in Nat /\ Indices(L) = 0 .. K
    BY <1>3, RootedIndices
  <2> QED
    BY <2>1
<1>11. Begins(L, K, L)
  BY <1>10 DEF Begins
<1>12. \A n \in 0 .. K : TermAt(L, n) \in Nat /\ TermAt(L, n) <= TermAt(L, K)
  BY <1>3, <1>10 DEF Terms, TermsRise
<1>13. Point(L, K)
  BY <1>3, <1>10, <1>12 DEF Point, Rooted
<1> HIDE DEF K
<1>14. HeldBy(L, K, {i})
  <2>1. U >= TermAt(L, K) /\ Begins(L, K, Whole(i))
    BY <1>2, <1>3, <1>11 DEF L
  <2> QED
    BY <2>1 DEF HeldBy
<1>15. HeldIfUpToDate(L, K)
  <2> SUFFICES ASSUME NEW j \in Server, AtLeast(Whole(j), K, U)
               PROVE  Begins(L, K, Whole(j))
    BY <1>2 DEF HeldIfUpToDate
  <2> DEFINE z == LastIndex(Whole(j))
  <2>1. z \in Nat /\ z \in Indices(Whole(j)) /\ TermAt(Whole(j), z) = LastTerm(Whole(j))
    <3>1. z \in Nat /\ Indices(Whole(j)) = 0 .. z
      BY <1>3, RootedIndices
    <3> QED
      BY <3>1 DEF LastTerm
  <2>2. TermAt(Whole(j), z) \in Nat
    BY <1>3, <2>1 DEF Terms
  <2>3. ~(TermAt(Whole(j), z) > U)
    <3> SUFFICES ASSUME TermAt(Whole(j), z) > U PROVE FALSE
      OBVIOUS
    <3>1. TermAt(Whole(j), z) > 0
      BY <1>3, <2>2
    <3>2. PICK e \in elected : e[1] = TermAt(Whole(j), z)
      BY <1>7, <2>1, <3>1
    <3>3. e[1] <= U
      BY <1>4
    <3> HIDE DEF z, U
    <3> QED
      BY <1>3, <2>2, <3>2, <3>3
  <2>4. TermAt(Whole(j), z) = U /\ z >= K
    BY <2>1, <2>3 DEF AtLeast
  <2>5. z <= K
    BY <1>7, <2>1, <2>4
  <2>6. z = K
    <3> HIDE DEF z
    <3> QED
      BY <1>10, <2>1, <2>4, <2>5
  <2>7. K \in Indices(L) \cap Indices(Whole(j)) /\ TermAt(L, K) = TermAt(Whole(j), K)
    BY <1>2, <1>10, <2>1, <2>4, <2>6
  <2> QED
    BY <1>3, <2>7, MatchingBegins
<1>16. MovingFits(L, K)
  <2> SUFFICES ASSUME NEW c \in Moving, c[2] >= U
               PROVE  Fits(c[1], L, K)
    BY <1>2 DEF MovingFits
  <2>1. PICK e \in elected : e[1] = c[2]
    BY <1>1 DEF MovingLogs
  <2>2. c[2] \in Nat /\ c[2] <= U
    BY <1>1, <1>4, <2>1 DEF MovingLogs
  <2>3. c[2] = U
    <3> HIDE DEF U
    <3> QED
      BY <1>3, <2>2
  <2> QED
    BY <1>3, <1>8, <1>11, <1>13, <2>3, PartFits
<1>17. LeadersHold(L, K)
  <2> SUFFICES ASSUME NEW j \in Server, state[j] = Leader, currentTerm[j] >= U
               PROVE  Begins(L, K, Whole(j))
    BY <1>2 DEF LeadersHold
  <2>1. currentTerm[j] <= U /\ currentTerm[j] \in Nat
    BY <1>3, <1>5
  <2>2. currentTerm[j] = U
    <3> HIDE DEF U
    <3> QED
      BY <1>3, <2>1
  <2> QED
    BY <1>5, <1>11, <2>2 DEF L
<1>18. CandidatesHold(L, K, {i})
  <2> SUFFICES ASSUME NEW j \in Server, currentTerm[j] > U,
                      <<i, currentTerm[j], j>> \in ballots
               PROVE  FALSE
    BY <1>2 DEF CandidatesHold
  <2>1. currentTerm[j] <= U /\ currentTerm[j] \in Nat
    BY <1>3, <1>9
  <2> HIDE DEF U
  <2> QED
    BY <1>3, <2>1
<1>19. Kept(L, K, {i})
  BY <1>13, <1>14, <1>15, <1>16, <1>17, <1>18 DEF Kept
<1> QED
  BY <1>19 DEF K, L

LEMMA LastIsKeptAfter ==
    (IsFiniteSet(Server) /\ Cardinality(Server) <= 3
        /\ TypeInv /\ Elections /\ WholesInv =>
        \A i \in Server : LastKept(i) =>
            \E L : Kept(L, LastIndex(Whole(i)), {i}))'
BY LastIsKept, PTL

(***************************************************************************)
(* Peers that have the point in its own term have voted for nobody later.  *)
(***************************************************************************)
LEMMA KeptByMore ==
    TypeInv /\ VotesInv =>
        \A L, K, A, B :
            /\ Kept(L, K, A)
            /\ B \subseteq Server
            /\ \A j \in B : j \in A \/ /\ currentTerm[j] = TermAt(L, K)
                                       /\ Begins(L, K, Whole(j))
            => Kept(L, K, B)
<1> SUFFICES ASSUME TypeInv, VotesInv, NEW L, NEW K, NEW A, NEW B, Kept(L, K, A),
                    B \in SUBSET Server,
                    \A j \in B : j \in A \/ /\ currentTerm[j] = TermAt(L, K)
                                            /\ Begins(L, K, Whole(j))
             PROVE  HeldBy(L, K, B) /\ CandidatesHold(L, K, B)
  BY DEF Kept
<1>1. TermAt(L, K) \in Nat /\ \A j \in Server : currentTerm[j] \in Nat
  BY PointIs DEF Kept, TypeInv, TypeOK, TypeOfElections
<1>2. HeldBy(L, K, B)
  BY <1>1 DEF Kept, HeldBy
<1>3. CandidatesHold(L, K, B)
  <2> SUFFICES ASSUME NEW i \in Server, state[i] = Candidate,
                      currentTerm[i] > TermAt(L, K), Unelected(currentTerm[i]),
                      NEW b \in B, <<b, currentTerm[i], i>> \in ballots
               PROVE  Begins(L, K, Whole(i))
    BY DEF CandidatesHold
  <2>1. CASE b \in A
    BY <2>1 DEF Kept, CandidatesHold
  <2>2. CASE b \notin A
    <3> DEFINE d == <<b, currentTerm[i], i>>
    <3>1. d \in ballots /\ d[1] = b /\ d[2] = currentTerm[i]
      OBVIOUS
    <3> HIDE DEF d
    <3>2. currentTerm[i] <= currentTerm[b] /\ currentTerm[b] = TermAt(L, K)
      BY <2>2, <3>1 DEF VotesInv, BallotsKept
    <3> QED
      BY <1>1, <3>2
  <2> QED
    BY <2>1, <2>2
<1> QED
  BY <1>2, <1>3

LEMMA KeptByMoreAfter ==
    (TypeInv /\ VotesInv =>
        \A L, K, A, B :
            /\ Kept(L, K, A)
            /\ B \subseteq Server
            /\ \A j \in B : j \in A \/ /\ currentTerm[j] = TermAt(L, K)
                                       /\ Begins(L, K, Whole(j))
            => Kept(L, K, B))'
BY KeptByMore, PTL

(***************************************************************************)
(* An entry of a leader's term that may still be counted.                  *)
(***************************************************************************)
Counting(i, k, t) ==
    /\ state[i] = Leader
    /\ currentTerm[i] = t
    /\ k > commitIndex[i]
    /\ k <= LastIndex(Whole(i))
    /\ TermAt(Whole(i), k) = t

(***************************************************************************)
(* As long as nobody can win a later term without one of those known to    *)
(* hold the entry, it is kept: updateLeaderCommit may count them one by    *)
(* one, while replies come in.                                             *)
(***************************************************************************)
Growing ==
    \A i \in Server : \A k \in Int : \A t \in Nat : \A A \in SUBSET Server :
        Counting(i, k, t) /\ A = Acked(i, k) /\ Blocking(A, t) =>
            \E L : Kept(L, k, A)

LEMMA NewestKept ==
    ASSUME IsFiniteSet(Server), Cardinality(Server) <= 3,
           Stepping, AckInv, Aligned',
           NEW i \in Server, NEW k \in Int, NEW t \in Nat, NEW A \in SUBSET Server,
           Counting(i, k, t)', A = Acked(i, k)', Blocking(A, t)',
           LeadsOn(i), Grows(i), k > LastIndex(Whole(i))
    PROVE  \E L : Kept(L, k, A)'
<1>1. /\ TypeInv /\ TypeInv' /\ WholeLogs /\ WholeLogs' /\ [Next]_vars
      /\ state[i] = Leader /\ state'[i] = Leader /\ currentTerm'[i] = currentTerm[i]
      /\ currentTerm'[i] = t
      /\ LastIndex(Whole(i)) \in Nat /\ Rooted(Whole(i))
      /\ LastIndex(Whole(i)) = LastIndex(log[i])
  <2>1. WholeLogs /\ WholeLogs'
    BY SteppingLogs
  <2>2. Rooted(Whole(i)) /\ LastIndex(Whole(i)) = LastIndex(log[i])
    BY <2>1 DEF WholeLogs
  <2>3. LastIndex(Whole(i)) \in Nat
    BY <2>2, RootedIndices
  <2> QED
    BY <2>1, <2>2, <2>3 DEF Stepping, Ground, LeadsOn, Counting
<1>2. k = LastIndex(Whole(i)') /\ LastIndex(Whole(i)') = LastIndex(Whole(i)) + 1
  <2>1. PICK e \in Entry : Whole(i)' = AppendEntry(Whole(i), e)
    BY DEF Grows
  <2> DEFINE w == Whole(i)
             r == AppendEntry(w, e)
  <2>2. w \in LogType /\ LastIndex(w) >= w.base
    BY <1>1 DEF Rooted
  <2> HIDE DEF w
  <2>3. LastIndex(r) = LastIndex(w) + 1
    BY <2>2, AppendEntryAt
  <2>4. LastIndex(Whole(i)') = LastIndex(Whole(i)) + 1
    BY <2>1, <2>3 DEF w
  <2>5. k <= LastIndex(Whole(i)')
    BY DEF Counting
  <2> QED
    BY <1>1, <2>4, <2>5
<1>3. k > snapshot'[i].index
  <2>1. /\ snapshot'[i].index = log'[i].base /\ log'[i].base <= commitIndex'[i]
        /\ log'[i].base \in Nat /\ commitIndex'[i] \in Int
    BY <1>1, LogIndices DEF Aligned, TypeInv, TypeOK, TypeOfLogs, Positions
  <2>2. k > commitIndex'[i]
    BY DEF Counting
  <2> QED
    BY <2>1, <2>2
<1>4. A = {i}
  <2> SUFFICES ASSUME NEW j \in A, j # i PROVE FALSE
    BY DEF Acked
  <2>1. j \in Server /\ j \in Acked(i, k)'
    OBVIOUS
  <2>2. j \in Acked(i, k)
    <3>1. ~(k <= LastIndex(Whole(i)))
      BY <1>1
    <3> QED
      BY <1>1, <1>3, <2>1, <3>1, AckedStep
  <2>3. ~(matchIndex[i][j] >= k)
    <3>1. matchIndex[i][j] <= LastIndex(Whole(i)) /\ matchIndex[i][j] \in Int
      BY <1>1, <2>1 DEF AckInv, MatchAgrees, TypeInv, TypeOK, TypeOfLogs
    <3> QED
      BY <1>1, <3>1
  <2>4. ASSUME NEW r \in appendReplies, r.to = i, r.asked = currentTerm[i]
        PROVE  ~(r.prevIndex + r.sent >= k)
    <3>1. r.prevIndex + r.sent <= LastIndex(log[i])
      BY <1>1, <2>4 DEF Stepping, Ground, LogInv, Probes, Leads
    <3>2. r.prevIndex + r.sent \in Int
      BY <1>1 DEF TypeInv, TypeOK, TypeOfNet, AppendReplyType
    <3> QED
      BY <1>1, <3>1, <3>2
  <2> QED
    BY <2>2, <2>3, <2>4 DEF Acked
<1>5. LastKept(i)'
  <2>1. Blocking({i}, t)'
    BY <1>4
  <2>2. Blocking({i}, currentTerm[i])'
    BY <1>1, <2>1 DEF Blocking
  <2>3. TermAt(Whole(i)', LastIndex(Whole(i)')) = currentTerm'[i]
    BY <1>1, <1>2 DEF Counting
  <2> QED
    BY <1>1, <2>2, <2>3 DEF LastKept
<1>6. Elections' /\ WholesInv'
  BY DEF Stepping, Ground, Elections
<1>7. \E L : Kept(L, LastIndex(Whole(i)), {i})'
  BY <1>1, <1>5, <1>6, LastIsKeptAfter
<1>8. PICK L : Kept(L, LastIndex(Whole(i)), {i})'
  BY <1>7
<1>9. Kept(L, k, A)'
  BY <1>2, <1>4, <1>8
<1> QED
  BY <1>9

LEMMA OlderKept ==
    ASSUME IsFiniteSet(Server), Cardinality(Server) <= 3,
           Stepping, VoteInv, AckInv, AckInv', Growing, Aligned',
           NEW i \in Server, NEW k \in Int, NEW t \in Nat, NEW A \in SUBSET Server,
           Counting(i, k, t)', A = Acked(i, k)', Blocking(A, t)',
           LeadsOn(i), k <= LastIndex(Whole(i))
    PROVE  \E L : Kept(L, k, A)'
<1>1. /\ TypeInv /\ TypeInv' /\ DiskInSync /\ WholeLogs /\ WholeLogs' /\ [Next]_vars
      /\ state[i] = Leader /\ state'[i] = Leader
      /\ currentTerm'[i] = t /\ currentTerm[i] = t
      /\ VotesInv'
      /\ \A j \in Server : currentTerm'[j] >= currentTerm[j]
      /\ \A j \in Server : currentTerm'[j] \in Nat /\ currentTerm[j] \in Nat
  BY SteppingLogs DEF Stepping, Ground, LeadsOn, Counting, WholeLogs
<1>2. k > commitIndex[i] /\ k > snapshot'[i].index /\ k > 0
  <2>1. /\ snapshot'[i].index = log'[i].base /\ log'[i].base <= commitIndex'[i]
        /\ log'[i].base \in Nat /\ commitIndex'[i] \in Int /\ commitIndex[i] \in Int
    BY <1>1, LogIndices DEF Aligned, TypeInv, TypeOK, TypeOfLogs, Positions
  <2>2. k > commitIndex'[i]
    BY DEF Counting
  <2>3. commitIndex'[i] >= commitIndex[i]
    BY <1>1, LeaderCommits
  <2> QED
    BY <2>1, <2>2, <2>3
<1>3. TermAt(Whole(i), k) = t
  <2>1. Whole(i)' = Whole(i) \/ Grows(i)
    BY <1>1, LeaderTakesNothing DEF Stepping, Ground
  <2>2. TermAt(Whole(i)', k) = t
    BY DEF Counting
  <2>3. CASE Whole(i)' = Whole(i)
    BY <2>2, <2>3
  <2>4. CASE Grows(i)
    <3>1. PICK e \in Entry : Whole(i)' = AppendEntry(Whole(i), e)
      BY <2>4 DEF Grows
    <3> DEFINE w == Whole(i)
               r == AppendEntry(w, e)
    <3>2. Rooted(w) /\ k \in Int /\ k <= LastIndex(w) /\ k > 0
      BY <1>1, <1>2 DEF WholeLogs
    <3>3. TermAt(r, k) = t
      BY <2>2, <3>1
    <3> HIDE DEF w
    <3>4. Begins(w, k, w)
      BY <3>2 DEF Begins
    <3>5. Begins(w, k, r)
      BY <3>2, <3>4, AppendedBegins
    <3>6. k \in 1 .. k
      BY <3>2
    <3>7. EntryAt(r, k) = EntryAt(w, k)
      BY <3>5, <3>6 DEF Begins
    <3> HIDE DEF r
    <3>8. TermAt(w, k) = t
      BY <3>3, <3>7 DEF TermAt
    <3> QED
      BY <3>8 DEF w
  <2> QED
    BY <2>1, <2>3, <2>4
<1> DEFINE C == Acked(i, k)
<1>4. C \in SUBSET Server /\ i \in C
  BY DEF Acked
<1>5. \A j \in A : j \in C \/ currentTerm'[j] = t
  <2> TAKE j \in A
  <2>1. j \in Server /\ j \in Acked(i, k)'
    OBVIOUS
  <2> QED
    BY <1>1, <1>2, <2>1, AckedStep
<1>6. \A j \in A : j # i => AckAgrees(i, j, k)'
  <2> TAKE j \in A
  <2>1. j \in Server /\ j \in Acked(i, k)'
    OBVIOUS
  <2> QED
    BY <1>1, <1>2, <2>1, AckedAgreeAfter
<1>7. Counting(i, k, t)
  BY <1>1, <1>2, <1>3 DEF Counting
<1>8. PICK D : D = C
  OBVIOUS
<1> HIDE DEF C
<1>9. PICK B \in SUBSET Server :
          /\ Cardinality(B) >= Quorum
          /\ \A b \in B : b \in A \/ currentTerm'[b] <= t
  BY DEF Blocking
<1>10. \A b \in B : b \in D \/ (currentTerm'[b] <= t /\ currentTerm[b] <= t)
  <2> TAKE b \in B
  <2>1. b \in D \/ currentTerm'[b] <= t
    BY <1>1, <1>5, <1>8, <1>9
  <2> QED
    BY <1>1, <2>1
<1>11. Blocking(D, t) /\ Blocking(D, t)'
  BY <1>9, <1>10 DEF Blocking
<1>12. PICK L : Kept(L, k, D)
  BY <1>4, <1>7, <1>8, <1>11 DEF Growing, C
<1>13. TermAt(L, k) = t
  <2>1. Point(L, k) /\ Begins(L, k, Whole(i))
    BY <1>4, <1>8, <1>12 DEF Kept, HeldBy
  <2>2. TermAt(Whole(i), k) = TermAt(L, k)
    BY <1>1, <2>1, HolderTerm
  <2> QED
    BY <1>3, <2>2
<1>14. Kept(L, k, D)'
  <2>1. Blocking(D, TermAt(L, k))'
    BY <1>11, <1>13
  <2>2. D # {}
    BY <1>4, <1>8
  <2> QED
    BY <1>12, <2>1, <2>2, KeptStep
<1>15. Begins(L, k, Whole(i)')
  BY <1>4, <1>8, <1>14 DEF Kept, HeldBy
<1>16. \A j \in A : j \in D \/ /\ currentTerm'[j] = TermAt(L, k)
                               /\ Begins(L, k, Whole(j)')
  <2> TAKE j \in A
  <2>1. CASE j \notin D
    <3>1. j # i /\ currentTerm'[j] = t
      BY <1>4, <1>5, <1>8, <2>1
    <3>2. Begins(Whole(i)', k, Whole(j)')
      BY <1>1, <1>6, <3>1 DEF AckAgrees
    <3>3. Begins(L, k, Whole(j)')
      BY <1>15, <3>2 DEF Begins
    <3> QED
      BY <1>13, <3>1, <3>3
  <2> QED
    BY <2>1
<1>17. Kept(L, k, A)'
  BY <1>1, <1>14, <1>16, KeptByMoreAfter
<1> QED
  BY <1>17

LEMMA NextGrowing ==
    ASSUME IsFiniteSet(Server), Cardinality(Server) <= 3,
           Stepping, VoteInv, AckInv, AckInv', Growing, Aligned'
    PROVE  Growing'
<1> SUFFICES ASSUME NEW i \in Server, NEW k \in Int, NEW t \in Nat,
                    NEW A \in SUBSET Server,
                    Counting(i, k, t)', A = Acked(i, k)', Blocking(A, t)'
             PROVE  \E L : Kept(L, k, A)'
  BY DEF Growing
<1>1. CASE JustElected(i)
  <2>1. Whole(i)' = Whole(i) /\ currentTerm' = currentTerm
    BY <1>1 DEF JustElected, logVars, Whole
  <2>2. TermAt(Whole(i), k) = currentTerm[i] /\ k <= LastIndex(Whole(i))
    BY <2>1 DEF Counting
  <2>3. currentTerm[i] > 0
    BY <1>1 DEF JustElected, Stepping, Ground, RoleInv, LeadersElected
  <2>4. k \in Indices(Whole(i))
    <3>1. Rooted(Whole(i)) /\ commitIndex'[i] >= 0 /\ commitIndex'[i] \in Int
      <4>1. commitIndex'[i] = Len(machine'[i]) /\ machine'[i] \in Seq(Entry)
        BY DEF Stepping, Ground, TypeInv, TypeOK, TypeOfLogs, Positions, Commands
      <4>2. commitIndex'[i] \in Nat
        BY <4>1, LenProperties
      <4> QED
        BY <4>2, SteppingLogs DEF WholeLogs
    <3>2. k >= 0
      BY <3>1 DEF Counting
    <3>3. Indices(Whole(i)) = 0 .. LastIndex(Whole(i)) /\ LastIndex(Whole(i)) \in Nat
      BY <3>1, RootedIndices
    <3> QED
      BY <2>2, <3>2, <3>3
  <2> DEFINE c == <<Whole(i), currentTerm[i]>>
  <2>5. c \in Full /\ c[1] = Whole(i)
    BY DEF Full, Stored
  <2> HIDE DEF c
  <2>6. \E e \in elected : e[1] = currentTerm[i]
    BY <2>2, <2>3, <2>4, <2>5 DEF Stepping, WholesInv, WholesElected
  <2>7. FALSE
    BY <1>1, <2>6, FreshTerm DEF Stepping, Ground, TypeInv
  <2> QED
    BY <2>7
<1>2. CASE LeadsOn(i)
  <2>1. CASE k <= LastIndex(Whole(i))
    BY <1>2, <2>1, OlderKept
  <2>2. CASE ~(k <= LastIndex(Whole(i)))
    <3>1. LastIndex(Whole(i)) \in Nat
      BY SteppingLogs, RootedIndices DEF WholeLogs
    <3>2. k > LastIndex(Whole(i))
      BY <2>2, <3>1
    <3>3. Whole(i)' # Whole(i)
      BY <2>2 DEF Counting
    <3>4. Whole(i)' = Whole(i) \/ Grows(i)
      BY <1>2, LeaderTakesNothing DEF LeadsOn, Stepping, Ground
    <3> QED
      BY <1>2, <3>2, <3>3, <3>4, NewestKept
  <2> QED
    BY <2>1, <2>2
<1>3. state'[i] = Leader
  BY DEF Counting
<1> QED
  BY <1>1, <1>2, <1>3, NextLeader DEF Stepping, Ground, TypeInv

----------------------------------------------------------------------------
(* Decided points: kept by a quorum.                                       *)

Sure(L, K) == \E A \in SUBSET Server : Cardinality(A) >= Quorum /\ Kept(L, K, A)

LEMMA SureStep ==
    ASSUME IsFiniteSet(Server), Cardinality(Server) <= 3,
           Stepping, VoteInv, NEW L, NEW K, Sure(L, K)
    PROVE  Sure(L, K)'
<1>1. PICK A \in SUBSET Server : Cardinality(A) >= Quorum /\ Kept(L, K, A)
  BY DEF Sure
<1>2. A # {}
  BY <1>1, QuorumNotEmpty
<1>3. Blocking(A, TermAt(L, K))'
  BY <1>1 DEF Blocking
<1>4. Kept(L, K, A)'
  BY <1>1, <1>2, <1>3, KeptStep
<1> QED
  BY <1>1, <1>4 DEF Sure

LEMMA SureIsHeld ==
    ASSUME IsFiniteSet(Server), NEW L, NEW K, Sure(L, K)
    PROVE  /\ Point(L, K)
           /\ \E a \in Server : /\ currentTerm[a] >= TermAt(L, K)
                                /\ Begins(L, K, Whole(a))
<1>1. PICK A \in SUBSET Server : Cardinality(A) >= Quorum /\ Kept(L, K, A)
  BY DEF Sure
<1>2. PICK a \in A : TRUE
  BY <1>1, QuorumNotEmpty
<1> QED
  BY <1>1, <1>2 DEF Kept, HeldBy

(***************************************************************************)
(* Two decided points have a peer in common, and so their entries.         *)
(***************************************************************************)
LEMMA SureAgree ==
    ASSUME IsFiniteSet(Server), NEW L, NEW K, Sure(L, K), NEW M, NEW N, Sure(M, N),
           NEW n \in Int, 1 <= n, n <= K, n <= N
    PROVE  EntryAt(L, n) = EntryAt(M, n)
<1>1. PICK A \in SUBSET Server : Cardinality(A) >= Quorum /\ Kept(L, K, A)
  BY DEF Sure
<1>2. PICK B \in SUBSET Server : Cardinality(B) >= Quorum /\ Kept(M, N, B)
  BY DEF Sure
<1>3. PICK a \in A \cap B : TRUE
  BY <1>1, <1>2, QuorumsMeet
<1>4. Begins(L, K, Whole(a)) /\ Begins(M, N, Whole(a))
  BY <1>1, <1>2, <1>3 DEF Kept, HeldBy
<1>5. K \in Int /\ N \in Int
  BY <1>1, <1>2, PointIs DEF Kept
<1>6. n \in 1 .. K /\ n \in 1 .. N
  BY <1>5
<1>7. EntryAt(Whole(a), n) = EntryAt(L, n)
  BY <1>4, <1>6 DEF Begins
<1>8. EntryAt(Whole(a), n) = EntryAt(M, n)
  BY <1>4, <1>6 DEF Begins
<1> QED
  BY <1>7, <1>8

(***************************************************************************)
(* The log of peer i is decided up to n, by a term the peer has reached.   *)
(***************************************************************************)
SureTo(i, n) ==
    \E L, K : /\ Sure(L, K)
              /\ n <= K
              /\ TermAt(L, K) <= currentTerm[i]
              /\ Begins(L, n, Whole(i))

LEMMA SureToLess ==
    ASSUME WholeLogs, NEW i \in Server, NEW n \in Int, SureTo(i, n),
           NEW k \in Int, k <= n
    PROVE  SureTo(i, k)
<1>1. PICK L, K : /\ Sure(L, K) /\ n <= K /\ TermAt(L, K) <= currentTerm[i]
                  /\ Begins(L, n, Whole(i))
  BY DEF SureTo
<1>2. K \in Int /\ LastIndex(Whole(i)) \in Int
  <2>1. Rooted(Whole(i))
    BY DEF WholeLogs
  <2> QED
    BY <1>1, <2>1, PointIs, RootedIndices DEF Sure, Kept
<1>3. k <= K
  BY <1>1, <1>2
<1>4. Begins(L, k, Whole(i))
  BY <1>1, <1>2, BeginsShorter
<1> QED
  BY <1>1, <1>3, <1>4 DEF SureTo

LEMMA SureToStep ==
    ASSUME IsFiniteSet(Server), Cardinality(Server) <= 3,
           Stepping, VoteInv, NEW i \in Server, NEW n \in Int, SureTo(i, n)
    PROVE  SureTo(i, n)' /\ \A k \in 1 .. n : EntryAt(Whole(i)', k) = EntryAt(Whole(i), k)
<1>1. PICK L, K : /\ Sure(L, K) /\ n <= K /\ TermAt(L, K) <= currentTerm[i]
                  /\ Begins(L, n, Whole(i))
  BY DEF SureTo
<1>2. Point(L, K) /\ MovingFits(L, K)
  BY <1>1 DEF Sure, Kept
<1>3. K \in Nat /\ TermAt(L, K) \in Nat /\ Rooted(L) /\ MovingLogs
      /\ currentTerm'[i] >= currentTerm[i]
      /\ currentTerm[i] \in Nat /\ currentTerm'[i] \in Nat
  <2>1. WholeLogs /\ WholeLogs' /\ MovingLogs /\ currentTerm'[i] >= currentTerm[i]
    BY SteppingLogs
  <2> QED
    BY <1>2, <2>1, PointIs DEF WholeLogs
<1>4. ASSUME NEW c \in Moving, currentTerm[i] <= c[2]
      PROVE  \A k \in Indices(c[1]) : k <= n => TermAt(c[1], k) = TermAt(L, k)
  <2>1. c[2] \in Nat /\ c[1] \in LogType
    BY <1>3 DEF MovingLogs
  <2>2. c[2] >= TermAt(L, K)
    BY <1>1, <1>3, <1>4, <2>1
  <2>3. Fits(c[1], L, K)
    BY <1>2, <2>2 DEF MovingFits
  <2>4. TAKE k \in Indices(c[1])
  <2>5. k \in Int
    BY <2>1, EntryOfLog
  <2>6. k <= n => k <= K
    BY <1>1, <1>3, <2>5
  <2> QED
    BY <2>3, <2>6 DEF Fits
<1>5. Begins(L, n, Whole(i)')
  BY <1>1, <1>3, <1>4, BeginsStep
<1>6. Sure(L, K)'
  BY <1>1, SureStep
<1>7. TermAt(L, K) <= currentTerm'[i]
  BY <1>1, <1>3
<1>8. SureTo(i, n)'
  BY <1>1, <1>5, <1>6, <1>7 DEF SureTo
<1> QED
  BY <1>1, <1>5, <1>8 DEF Begins

LEMMA WholeEntries ==
    LogsFit => \A i \in Server :
        /\ \A k \in Indices(log[i]) :
               k # log[i].base => EntryAt(Whole(i), k) = EntryAt(log[i], k)
        /\ \A k \in 1 .. log[i].base : EntryAt(Whole(i), k) = snapshot[i].bytes[k]
        /\ log[i].base <= LastIndex(Whole(i))
BY WholeIs DEF LogsFit, Fitting

LEMMA WholeEntriesAfter ==
    (LogsFit => \A i \in Server :
        /\ \A k \in Indices(log[i]) :
               k # log[i].base => EntryAt(Whole(i), k) = EntryAt(log[i], k)
        /\ \A k \in 1 .. log[i].base : EntryAt(Whole(i), k) = snapshot[i].bytes[k]
        /\ log[i].base <= LastIndex(Whole(i)))'
BY WholeEntries, PTL

(***************************************************************************)
(* A follower may commit what the leader has committed, as far as the      *)
(* request goes.                                                           *)
(***************************************************************************)
UpToDateHolds(L, K) ==
    \A i \in Server : \A n \in Indices(Whole(i)) :
        K <= n /\ TermAt(Whole(i), n) >= TermAt(L, K) => Begins(L, K, Whole(i))

LEMMA SureIsUpToDate ==
    WholeLogs => \A L, K : Sure(L, K) => UpToDateHolds(L, K)
<1> SUFFICES ASSUME WholeLogs, NEW L, NEW K, Sure(L, K), NEW i \in Server,
                    NEW n \in Indices(Whole(i)),
                    K <= n, TermAt(Whole(i), n) >= TermAt(L, K)
             PROVE  Begins(L, K, Whole(i))
  BY DEF UpToDateHolds
<1> DEFINE w == Whole(i)
<1>1. Point(L, K) /\ (AtLeast(w, K, TermAt(L, K)) => Begins(L, K, w))
  BY DEF Sure, Kept, HeldIfUpToDate
<1>2. Rooted(w) /\ TermsRise(w) /\ Terms(w)
  BY DEF WholeLogs
<1>3. n \in Indices(w) /\ TermAt(w, n) >= TermAt(L, K)
  OBVIOUS
<1> HIDE DEF w
<1>4. LastIndex(w) \in Nat /\ Indices(w) = 0 .. LastIndex(w)
  BY <1>2, RootedIndices
<1>5. LastIndex(w) \in Indices(w) /\ n <= LastIndex(w) /\ n \in Nat
  BY <1>3, <1>4
<1>6. TermAt(w, n) <= LastTerm(w) /\ TermAt(w, n) \in Nat /\ LastTerm(w) \in Nat
  BY <1>2, <1>3, <1>5 DEF TermsRise, Terms, LastTerm
<1>7. TermAt(L, K) \in Nat /\ K \in Nat
  BY <1>1, PointIs
<1>8. LastTerm(w) > TermAt(L, K) \/ LastTerm(w) = TermAt(L, K)
  BY <1>3, <1>6, <1>7
<1>9. LastIndex(w) >= K
  BY <1>4, <1>5, <1>7
<1>10. AtLeast(w, K, TermAt(L, K))
  BY <1>8, <1>9 DEF AtLeast
<1> QED
  BY <1>1, <1>10 DEF w

LEMMA SureIsUpToDateAfter ==
    (WholeLogs => \A L, K : Sure(L, K) => UpToDateHolds(L, K))'
BY SureIsUpToDate, PTL

LEMMA AcceptedCommits ==
    ASSUME IsFiniteSet(Server), Cardinality(Server) <= 3,
           Stepping, VoteInv, NEW m \in appendRequests,
           HandleAppendEntries(m), Accepts(m),
           NEW L, NEW K, Sure(L, K), TermAt(L, K) <= m.term,
           NEW c \in Int, c <= K, c <= m.prevIndex + Len(m.entries)
    PROVE  Begins(L, c, Whole(m.to)')
<1> DEFINE j == m.to
           q == m.prevIndex + Len(m.entries)
           s == Sent(m)
<1>1. /\ j \in Server /\ m.prevIndex \in Nat /\ s \in LogType
      /\ Indices(s) = m.prevIndex .. q
      /\ \A n \in Indices(s) : n \in Indices(Whole(j)') /\ TermAt(Whole(j)', n) = TermAt(s, n)
  BY AcceptedIsThere
<1>2. Len(m.entries) \in Nat /\ m.term \in Nat
  BY LenProperties DEF Stepping, Ground, TypeInv, TypeOK, TypeOfNet, AppendRequest
<1>3. Point(L, K) /\ MovingFits(L, K)
  BY DEF Sure, Kept
<1>4. K \in Nat /\ TermAt(L, K) \in Nat /\ Rooted(L)
  BY <1>3, PointIs
<1>5. Fits(s, L, K)
  <2> DEFINE d == <<s, m.term>>
  <2>1. d \in Moving /\ d[1] = s /\ d[2] = m.term
    BY DEF Moving
  <2> HIDE DEF d
  <2>2. d[2] >= TermAt(L, K)
    BY <1>2, <1>4, <2>1
  <2> QED
    BY <1>3, <2>1, <2>2 DEF MovingFits
<1>6. WholeLogs' /\ Sure(L, K)'
  BY SteppingLogs, SureStep
<1>7. \A i \in Server : Rooted(Whole(i)') /\ Matching(Whole(i)', Whole(j)')
  BY <1>1, <1>6 DEF WholeLogs
<1>8. PICK a \in Server : Begins(L, K, Whole(a)')
  <2>1. PICK A \in SUBSET Server : Cardinality(A) >= Quorum /\ Kept(L, K, A)'
    BY <1>6 DEF Sure
  <2>2. PICK a \in A : TRUE
    BY <2>1, QuorumNotEmpty
  <2> QED
    BY <2>1, <2>2 DEF Kept, HeldBy
<1> DEFINE n == IF c > m.prevIndex THEN c ELSE m.prevIndex
<1>9. n \in Indices(s) /\ n \in Nat /\ c <= n /\ (n > K => n = m.prevIndex)
  BY <1>1, <1>2, <1>4
<1>10. n \in Indices(Whole(j)') /\ TermAt(Whole(j)', n) = TermAt(s, n)
  BY <1>1, <1>9
<1>11. CASE n <= K
  <2>1. TermAt(s, n) = TermAt(L, n)
    BY <1>5, <1>9, <1>11 DEF Fits
  <2>2. n \in 0 .. K
    BY <1>4, <1>9, <1>11
  <2> HIDE DEF n
  <2>3. PICK V : V = Whole(a)'
    OBVIOUS
  <2>4. PICK W : W = Whole(j)'
    OBVIOUS
  <2>5. Rooted(V) /\ Rooted(W) /\ Matching(V, W) /\ Begins(L, K, V)
    BY <1>1, <1>7, <1>8, <2>3, <2>4
  <2>6. n \in Indices(V) /\ TermAt(V, n) = TermAt(L, n)
    BY <1>4, <2>2, <2>5, BeginsTerms
  <2>7. n \in Indices(W) /\ TermAt(W, n) = TermAt(V, n)
    BY <1>10, <2>1, <2>4, <2>6
  <2>8. Begins(V, n, W)
    BY <2>5, <2>6, <2>7, MatchingBegins
  <2>9. LastIndex(W) \in Int
    BY <2>5, RootedIndices
  <2>10. Begins(V, c, W)
    BY <1>9, <2>8, <2>9, BeginsShorter
  <2>11. \A k \in 1 .. c : EntryAt(V, k) = EntryAt(L, k)
    BY <1>4, <2>5 DEF Begins
  <2>12. Begins(L, c, W)
    BY <2>10, <2>11 DEF Begins
  <2> QED
    BY <2>4, <2>12
<1>12. CASE n > K
  <2>1. TermAt(s, n) >= TermAt(L, K)
    BY <1>5, <1>9, <1>12 DEF Fits
  <2>2. UpToDateHolds(L, K)'
    BY <1>6, SureIsUpToDateAfter
  <2>3. K <= n /\ TermAt(Whole(j)', n) >= TermAt(L, K)
    BY <1>4, <1>9, <1>10, <1>12, <2>1
  <2> HIDE DEF n
  <2>4. Begins(L, K, Whole(j)')
    BY <1>1, <1>10, <2>2, <2>3 DEF UpToDateHolds
  <2>5. PICK W : W = Whole(j)'
    OBVIOUS
  <2>6. Rooted(W) /\ Begins(L, K, W)
    BY <1>1, <1>7, <2>4, <2>5
  <2>7. LastIndex(W) \in Int
    BY <2>6, RootedIndices
  <2>8. Begins(L, c, W)
    BY <1>4, <2>6, <2>7, BeginsShorter
  <2> QED
    BY <2>5, <2>8
<1> QED
  BY <1>4, <1>9, <1>11, <1>12

----------------------------------------------------------------------------
(* What is committed is decided.                                           *)

CommitsSure == \A i \in Server : SureTo(i, commitIndex[i])

AppendsSure ==
    \A m \in appendRequests :
        \E L, K : Sure(L, K) /\ m.leaderCommit <= K /\ TermAt(L, K) <= m.term

InstallsSure ==
    \A m \in installRequests :
        \E L, K : /\ Sure(L, K)
                  /\ m.snapshot.index <= K
                  /\ TermAt(L, K) <= m.term
                  /\ Begins(L, m.snapshot.index, SnapshotLog(m.snapshot.bytes))

LEMMA CommitTypes ==
    ASSUME TypeInv, NEW i \in Server
    PROVE  /\ commitIndex[i] \in Nat
           /\ Len(machine[i]) = commitIndex[i]
           /\ machine[i] \in Seq(Entry)
           /\ snapshot[i].index = log[i].base
           /\ log[i].base \in Nat
           /\ LastIndex(log[i]) \in Int
<1>1. /\ machine[i] \in Seq(Entry) /\ Len(machine[i]) = commitIndex[i]
      /\ log[i] \in LogType /\ snapshot[i].index = log[i].base
  BY DEF TypeInv, TypeOK, TypeOfLogs, Positions, Commands
<1>2. Len(machine[i]) \in Nat
  BY <1>1, LenProperties
<1> QED
  BY <1>1, <1>2, LogIndices

LEMMA CommitTypesAfter ==
    (TypeInv => \A i \in Server :
        /\ commitIndex[i] \in Nat
        /\ Len(machine[i]) = commitIndex[i]
        /\ machine[i] \in Seq(Entry)
        /\ snapshot[i].index = log[i].base
        /\ log[i].base \in Nat
        /\ LastIndex(log[i]) \in Int)'
<1>1. TypeInv => \A i \in Server :
        /\ commitIndex[i] \in Nat
        /\ Len(machine[i]) = commitIndex[i]
        /\ machine[i] \in Seq(Entry)
        /\ snapshot[i].index = log[i].base
        /\ log[i].base \in Nat
        /\ LastIndex(log[i]) \in Int
  BY CommitTypes
<1> QED
  BY <1>1, PTL

(***************************************************************************)
(* updateLeaderCommit: those it counts are known to hold the entry.        *)
(***************************************************************************)
LEMMA CountedAreAcked ==
    ASSUME IsFiniteSet(Server), Stepping, NEW i \in Server, Counts(i),
           NEW c \in CommitTargets(i, matchIndex'[i])
    PROVE  /\ c \in Int
           /\ Counting(i, c, currentTerm[i])
           /\ Cardinality(Acked(i, c)) >= Quorum
<1> DEFINE Q == {j \in Server : j = i \/ matchIndex'[i][j] >= c}
<1>1. /\ commitIndex[i] \in Nat /\ snapshot[i].index = log[i].base
      /\ log[i].base \in Nat /\ LastIndex(log[i]) \in Int
  BY CommitTypes DEF Stepping, Ground
<1>2. /\ c \in Int /\ c > commitIndex[i] /\ c <= LastIndex(log[i])
      /\ TermAt(log[i], c) = currentTerm[i] /\ Cardinality(Q) >= Quorum
  BY <1>1 DEF CommitTargets, StoredOnQuorum
<1>3. log[i].base <= commitIndex[i]
  BY DEF Stepping, Aligned
<1>4. c \in Indices(log[i]) /\ c > snapshot[i].index
  BY <1>1, <1>2, <1>3 DEF Indices
<1>5. LogsFit /\ LastIndex(Whole(i)) = LastIndex(log[i])
  <2>1. LogsFit
    BY DEF Stepping, WholesInv, SeamsMatch, LogsFit
  <2> QED
    BY <2>1, WholeIs
<1>6. TermAt(Whole(i), c) = currentTerm[i]
  BY <1>2, <1>4, <1>5, WholeTerms
<1>7. Counting(i, c, currentTerm[i])
  BY <1>2, <1>5, <1>6 DEF Counting, Counts
<1>8. Q \subseteq Acked(i, c)
  <2> SUFFICES ASSUME NEW j \in Server, j = i \/ matchIndex'[i][j] >= c
               PROVE  j \in Acked(i, c)
    OBVIOUS
  <2>1. state'[i] = Leader /\ state[i] = Leader /\ snapshot' = snapshot
    BY DEF Counts, electionVars
  <2>2. CASE j = i
    BY <2>2 DEF Acked
  <2>3. CASE matchIndex'[i][j] >= c
    BY <1>2, <1>4, <2>1, <2>3, MatchIsAcked DEF Stepping, Ground
  <2> QED
    BY <2>2, <2>3
<1>9. Cardinality(Acked(i, c)) >= Quorum
  <2>1. Acked(i, c) \subseteq Server
    BY DEF Acked
  <2>2. IsFiniteSet(Acked(i, c))
    BY <2>1, FS_Subset
  <2>3. IsFiniteSet(Q) /\ Cardinality(Q) <= Cardinality(Acked(i, c))
    BY <1>8, <2>2, FS_Subset
  <2>4. /\ Cardinality(Q) \in Nat /\ Cardinality(Acked(i, c)) \in Nat
        /\ Cardinality(Server) \in Nat
    BY <2>2, <2>3, FS_CardinalityType
  <2>5. Quorum \in Int
    BY <2>4 DEF Quorum
  <2> HIDE DEF Q
  <2> QED
    BY <1>2, <2>3, <2>4, <2>5
<1> QED
  BY <1>2, <1>7, <1>9

LEMMA CountedAreSure ==
    ASSUME IsFiniteSet(Server), Cardinality(Server) <= 3,
           Stepping, VoteInv, Growing, NEW i \in Server, Counts(i),
           SureTo(i, commitIndex[i]), NEW n, n = commitIndex'[i]
    PROVE  SureTo(i, n)'
<1>1. commitIndex[i] \in Nat /\ commitIndex \in [Server -> Int]
  BY CommitTypes DEF Stepping, Ground, TypeInv, TypeOK, TypeOfLogs
<1>2. n = commitIndex[i] \/ n \in CommitTargets(i, matchIndex'[i])
  BY <1>1 DEF Counts, UpdateLeaderCommit
<1>3. CASE n = commitIndex[i]
  BY <1>1, <1>3, SureToStep
<1>4. CASE n \in CommitTargets(i, matchIndex'[i])
  <2>1. /\ n \in Int /\ Counting(i, n, currentTerm[i])
        /\ Cardinality(Acked(i, n)) >= Quorum
    BY <1>4, CountedAreAcked
  <2>2. currentTerm[i] \in Nat /\ Acked(i, n) \in SUBSET Server /\ i \in Acked(i, n)
    BY DEF Stepping, Ground, TypeInv, TypeOK, TypeOfElections, Acked
  <2>3. PICK A \in SUBSET Server : A = Acked(i, n)
    BY <2>2
  <2>4. Blocking(A, currentTerm[i])
    BY <2>1, <2>3 DEF Blocking
  <2>5. PICK L : Kept(L, n, A)
    BY <2>1, <2>2, <2>3, <2>4 DEF Growing
  <2>6. Sure(L, n)
    BY <2>1, <2>3, <2>5 DEF Sure
  <2>7. TermAt(L, n) <= currentTerm[i] /\ Begins(L, n, Whole(i))
    <3>1. i \in A /\ Point(L, n) /\ HeldBy(L, n, A)
      BY <2>2, <2>3, <2>5 DEF Kept
    <3>2. Begins(L, n, Whole(i)) /\ WholeLogs
      BY <3>1, SteppingLogs DEF HeldBy
    <3> QED
      BY <3>1, <3>2, HolderTerm
  <2>8. n <= n
    BY <2>1
  <2>9. SureTo(i, n)
    BY <2>6, <2>7, <2>8 DEF SureTo
  <2> QED
    BY <2>1, <2>9, SureToStep
<1> QED
  BY <1>2, <1>3, <1>4

LEMMA InstalledIsSure ==
    ASSUME IsFiniteSet(Server), Cardinality(Server) <= 3,
           Stepping, VoteInv, InstallsSure, NEW m \in installRequests,
           HandleInstallSnapshot(m), Installs(m.to, m)
    PROVE  SureTo(m.to, m.snapshot.index)'
<1> DEFINE j == m.to
           s == m.snapshot
<1>1. /\ j \in Server /\ s.index \in Nat /\ s.bytes \in Seq(Entry)
      /\ Len(s.bytes) = s.index /\ m.term \in Nat /\ currentTerm[j] \in Nat
  BY DEF Stepping, Ground, TypeInv, TypeOK, TypeOfNet, InstallRequest,
         SnapshotType, Commands, Positions, TypeOfElections
<1>2. PICK L, K : /\ Sure(L, K) /\ s.index <= K /\ TermAt(L, K) <= m.term
                  /\ Begins(L, s.index, SnapshotLog(s.bytes))
  BY DEF InstallsSure
<1>3. snapshot'[j] = s /\ currentTerm'[j] = m.term
  <2>1. /\ snapshot \in [Server -> SnapshotType]
        /\ currentTerm \in [Server -> Nat]
    BY DEF Stepping, Ground, TypeInv, TypeOK, TypeOfElections, TypeOfLogs
  <2>2. snapshot' = [snapshot EXCEPT ![j] = s] /\ Follow(j, m)
    BY DEF HandleInstallSnapshot
  <2>3. m.term >= currentTerm[j]
    BY DEF Installs
  <2> QED
    BY <1>1, <2>1, <2>2, <2>3 DEF Follow, Newer
<1>4. log'[j].base = s.index
  BY <1>1, <1>3, CommitTypesAfter DEF Stepping, Ground
<1>5. /\ \A k \in 1 .. s.index : EntryAt(Whole(j)', k) = s.bytes[k]
      /\ s.index <= LastIndex(Whole(j)')
  <2>1. LogsFit'
    BY DEF Stepping, WholesInv, SeamsMatch, LogsFit
  <2> QED
    BY <1>1, <1>3, <1>4, <2>1, WholeEntriesAfter
<1>6. \A k \in 1 .. s.index : s.bytes[k] = EntryAt(L, k)
  <2> TAKE k \in 1 .. s.index
  <2>1. EntryAt(SnapshotLog(s.bytes), k) = s.bytes[k]
    BY <1>1, SnapshotLogAt
  <2> QED
    BY <1>2, <2>1 DEF Begins
<1>7. Begins(L, s.index, Whole(j)')
  BY <1>5, <1>6 DEF Begins
<1>8. Sure(L, K)'
  BY <1>2, SureStep
<1> QED
  BY <1>2, <1>3, <1>7, <1>8 DEF SureTo

LEMMA AcceptedIsSure ==
    ASSUME IsFiniteSet(Server), Cardinality(Server) <= 3,
           Stepping, VoteInv, CommitsSure, AppendsSure, NEW m \in appendRequests,
           HandleAppendEntries(m), Accepts(m),
           NEW n, n = FollowerCommit(m.to, m)
    PROVE  SureTo(m.to, n)'
<1>1. /\ n \in Int
      /\ \/ n = commitIndex[m.to]
         \/ n <= m.prevIndex + Len(m.entries) /\ n <= m.leaderCommit
  BY FollowerCommits DEF Stepping, Ground
<1>2. m.to \in Server /\ currentTerm'[m.to] = m.term
  BY AcceptedIsThere
<1>3. CASE n = commitIndex[m.to]
  <2>1. SureTo(m.to, n)
    BY <1>2, <1>3 DEF CommitsSure
  <2> QED
    BY <1>1, <1>2, <2>1, SureToStep
<1>4. CASE n <= m.prevIndex + Len(m.entries) /\ n <= m.leaderCommit
  <2>1. PICK L, K : /\ Sure(L, K) /\ m.leaderCommit <= K /\ TermAt(L, K) <= m.term
    BY DEF AppendsSure
  <2>2. K \in Int /\ m.leaderCommit \in Int
    BY <2>1, PointIs
    DEF Sure, Kept, Stepping, Ground, TypeInv, TypeOK, TypeOfNet, AppendRequest
  <2>3. n <= K
    BY <1>1, <1>4, <2>1, <2>2
  <2>4. Begins(L, n, Whole(m.to)')
    BY <1>1, <1>4, <2>1, <2>3, AcceptedCommits
  <2>5. Sure(L, K)'
    BY <2>1, SureStep
  <2> QED
    BY <1>2, <2>1, <2>3, <2>4, <2>5 DEF SureTo
<1> QED
  BY <1>1, <1>3, <1>4

LEMMA NextCommitsSure ==
    ASSUME IsFiniteSet(Server), Cardinality(Server) <= 3,
           Stepping, VoteInv, Growing, CommitsSure, AppendsSure, InstallsSure
    PROVE  CommitsSure'
<1> SUFFICES ASSUME NEW i \in Server, NEW n, n = commitIndex'[i]
             PROVE  SureTo(i, n)'
  BY DEF CommitsSure, SureTo
<1>1. /\ commitIndex[i] \in Nat /\ commitIndex \in [Server -> Int]
      /\ log[i].base \in Nat
  BY CommitTypes DEF Stepping, Ground, TypeInv, TypeOK, TypeOfLogs
<1>2. SureTo(i, commitIndex[i])
  BY DEF CommitsSure
<1>3. CASE n = commitIndex[i]
  BY <1>1, <1>2, <1>3, SureToStep
<1>4. CASE UNCHANGED <<commitIndex, machine, decided>>
  BY <1>3, <1>4
<1>5. ASSUME NEW m \in appendRequests, HandleAppendEntries(m), Accepts(m)
      PROVE  SureTo(i, n)'
  <2>1. commitIndex' = [commitIndex EXCEPT ![m.to] = FollowerCommit(m.to, m)]
    BY <1>5 DEF HandleAppendEntries, Accepts
  <2>2. CASE i = m.to
    <3>1. n = FollowerCommit(m.to, m)
      BY <1>1, <2>1, <2>2
    <3>2. SureTo(m.to, n)'
      BY <1>5, <3>1, AcceptedIsSure
    <3> QED
      BY <2>2, <3>2
  <2>3. CASE i # m.to
    BY <1>1, <1>3, <2>1, <2>3
  <2> QED
    BY <2>2, <2>3
<1>6. ASSUME NEW j \in Server, Counts(j) PROVE SureTo(i, n)'
  <2>1. CASE i = j
    BY <1>2, <1>6, <2>1, CountedAreSure
  <2>2. CASE i # j
    <3>1. commitIndex'[i] = commitIndex[i]
      BY <1>1, <1>6, <2>2 DEF Counts, UpdateLeaderCommit
    <3> QED
      BY <1>3, <3>1
  <2> QED
    BY <2>1, <2>2
<1>7. ASSUME NEW m \in installRequests, HandleInstallSnapshot(m), Installs(m.to, m)
      PROVE  SureTo(i, n)'
  <2>1. commitIndex' = [commitIndex EXCEPT ![m.to] = m.snapshot.index]
    BY <1>7 DEF HandleInstallSnapshot
  <2>2. CASE i = m.to
    <3>1. n = m.snapshot.index
      BY <1>1, <2>1, <2>2
    <3>2. SureTo(m.to, n)'
      BY <1>7, <3>1, InstalledIsSure
    <3> QED
      BY <2>2, <3>2
  <2>3. CASE i # m.to
    BY <1>1, <1>3, <2>1, <2>3
  <2> QED
    BY <2>2, <2>3
<1>8. ASSUME NEW j \in Server, Boots(j) PROVE SureTo(i, n)'
  <2>1. PICK image : Boot(j, image) /\ image.log = log[j]
    BY <1>8 DEF Boots
  <2>2. commitIndex' = [commitIndex EXCEPT ![j] = log[j].base]
    BY <2>1 DEF Boot
  <2>3. CASE i = j
    <3>1. n = log[i].base
      BY <1>1, <2>2, <2>3
    <3>2. n \in Int /\ n <= commitIndex[i]
      BY <1>1, <3>1 DEF Stepping, Aligned
    <3>3. SureTo(i, n)
      BY <1>1, <1>2, <3>2, SteppingLogs, SureToLess
    <3> QED
      BY <3>2, <3>3, SureToStep
  <2>4. CASE i # j
    BY <1>1, <1>3, <2>2, <2>4
  <2> QED
    BY <2>3, <2>4
<1> QED
  BY <1>4, <1>5, <1>6, <1>7, <1>8, NextCommitStep DEF CommitStep, Stepping, Ground

----------------------------------------------------------------------------
(* What a step does to one state machine.                                  *)

Stays(i) ==
    /\ commitIndex'[i] = commitIndex[i]
    /\ machine'[i] = machine[i]
    /\ log'[i].base = log[i].base \/ log'[i].base <= commitIndex[i]

Applies(i) ==
    /\ commitIndex'[i] >= commitIndex[i]
    /\ machine'[i] = Applied(i, log'[i], commitIndex'[i])
    /\ log'[i].base = log[i].base

Reloads(i) ==
    /\ commitIndex'[i] = log'[i].base
    /\ machine'[i] = snapshot'[i].bytes

LEMMA AppendKeepsBase ==
    ASSUME NEW l, NEW k, NEW es
    PROVE  AppendEntries(l, k, es).base = l.base
BY DEF AppendEntries

LEMMA BaseStep ==
    ASSUME Stepping, NEW i \in Server
    PROVE  \/ log'[i].base = log[i].base
           \/ log'[i].base <= commitIndex[i]
           \/ \E m \in installRequests :
                  HandleInstallSnapshot(m) /\ Installs(m.to, m) /\ i = m.to
<1> USE DEF TypeInv, TypeOK
<1>1. TypeInv /\ DiskInSync /\ [Next]_vars
  BY DEF Stepping, Ground
<1>2. log[i] \in LogType
  BY <1>1 DEF TypeOfLogs
<1>3. ASSUME NEW j \in Server, Start(j) PROVE log'[i].base = log[i].base
  <2>1. \/ log'[i] = log[i]
        \/ log'[i] = AppendEntry(log[i], [term |-> currentTerm[i],
                                          cmd |-> <<i, LastIndex(log[i]) + 1>>])
    BY <1>1, <1>3 DEF Start, TypeOfLogs
  <2> QED
    BY <1>2, <2>1 DEF AppendEntry, LogType
<1>4. ASSUME NEW m \in appendRequests, HandleAppendEntries(m)
      PROVE  log'[i].base = log[i].base
  <2>1. \/ log'[i] = log[i]
        \/ log'[i] = AppendEntries(log[i], m.prevIndex + 1, m.entries)
    BY <1>1, <1>4 DEF HandleAppendEntries, TypeOfLogs
  <2> QED
    BY <2>1, AppendKeepsBase
<1>5. ASSUME NEW j \in Server, NEW k \in Indices(log[j]), TakeSnapshot(j, k)
      PROVE  log'[i].base = log[i].base \/ log'[i].base <= commitIndex[i]
  <2>1. CASE i = j
    <3>1. log'[i].base = k /\ k \in log[i].base + 1 .. lastApplied[i]
      BY <1>1, <1>5, <2>1 DEF TakeSnapshot, Rebase, TypeOfLogs
    <3>2. lastApplied[i] = commitIndex[i] /\ lastApplied[i] \in Int
          /\ log[i].base \in Nat
      BY <1>1, <1>2, LogIndices DEF Positions, TypeOfLogs
    <3>3. k <= lastApplied[i]
      BY <3>1, <3>2
    <3> QED
      BY <3>1, <3>2, <3>3
  <2>2. CASE i # j
    BY <1>1, <1>5, <2>2 DEF TakeSnapshot, TypeOfLogs
  <2> QED
    BY <2>1, <2>2
<1>6. ASSUME NEW m \in installRequests, HandleInstallSnapshot(m)
      PROVE  log'[i].base = log[i].base \/ (Installs(m.to, m) /\ i = m.to)
  BY <1>1, <1>6 DEF HandleInstallSnapshot, TypeOfLogs
<1> QED
  BY <1>1, <1>3, <1>4, <1>5, <1>6, OtherStepsKeepLogs

LEMMA MachineMoves ==
    ASSUME Stepping, NEW i \in Server
    PROVE  Stays(i) \/ Applies(i) \/ Reloads(i)
<1>1. /\ commitIndex \in [Server -> Int] /\ DOMAIN machine = Server
      /\ TypeInv /\ DiskInSync /\ [Next]_vars /\ commitIndex[i] \in Nat
      /\ DOMAIN log = Server /\ DOMAIN snapshot = Server
  BY CommitTypes DEF Stepping, Ground, TypeInv, TypeOK, TypeOfLogs
<1>2. snapshot'[i].index = log'[i].base
  BY CommitTypesAfter DEF Stepping, Ground
<1>3. ASSUME NEW m \in installRequests, HandleInstallSnapshot(m),
             Installs(m.to, m), i = m.to
      PROVE  Reloads(i)
  BY <1>1, <1>2, <1>3 DEF HandleInstallSnapshot, Reloads
<1>4. CASE commitIndex'[i] = commitIndex[i] /\ machine'[i] = machine[i]
  BY <1>3, <1>4, BaseStep DEF Stays
<1>5. CASE UNCHANGED <<commitIndex, machine, decided>>
  BY <1>4, <1>5
<1>6. ASSUME NEW m \in appendRequests, HandleAppendEntries(m), Accepts(m)
      PROVE  Stays(i) \/ Applies(i)
  <2>1. CASE i = m.to
    <3>1. /\ commitIndex'[i] = FollowerCommit(i, m)
          /\ machine'[i] = Applied(i, log'[i], commitIndex'[i])
          /\ log'[i] = AppendEntries(log[i], m.prevIndex + 1, m.entries)
      BY <1>1, <1>6, <2>1 DEF HandleAppendEntries, Accepts, ApplyCommits
    <3>2. commitIndex'[i] >= commitIndex[i]
      BY <1>1, <2>1, <3>1, FollowerCommits
    <3> QED
      BY <3>1, <3>2, AppendKeepsBase DEF Applies
  <2>2. CASE i # m.to
    <3>1. /\ commitIndex'[i] = commitIndex[i] /\ machine'[i] = machine[i]
          /\ log'[i] = log[i]
      BY <1>1, <1>6, <2>2 DEF HandleAppendEntries, Accepts, ApplyCommits
    <3> QED
      BY <3>1 DEF Stays
  <2> QED
    BY <2>1, <2>2
<1>7. ASSUME NEW j \in Server, Counts(j) PROVE Stays(i) \/ Applies(i)
  <2>1. log' = log /\ ApplyCommits(j, log[j])
    BY <1>7 DEF Counts, UpdateLeaderCommit
  <2>2. CASE i = j
    <3>1. machine'[i] = Applied(i, log'[i], commitIndex'[i])
      BY <1>1, <2>1, <2>2 DEF ApplyCommits
    <3>2. commitIndex'[i] >= commitIndex[i]
      BY <1>1, <1>7, <2>2, UpdateLeaderCommitAdvances DEF Counts, TypeInv, TypeOK
    <3> QED
      BY <2>1, <3>1, <3>2 DEF Applies
  <2>3. CASE i # j
    <3>1. /\ commitIndex'[i] = commitIndex[i] /\ machine'[i] = machine[i]
      BY <1>1, <1>7, <2>1, <2>3 DEF ApplyCommits, Counts, UpdateLeaderCommit
    <3> QED
      BY <2>1, <3>1 DEF Stays
  <2> QED
    BY <2>2, <2>3
<1>8. ASSUME NEW m \in installRequests, HandleInstallSnapshot(m), Installs(m.to, m)
      PROVE  Stays(i) \/ Reloads(i)
  <2>1. CASE i = m.to
    BY <1>3, <1>8, <2>1
  <2>2. CASE i # m.to
    <3>1. /\ commitIndex'[i] = commitIndex[i] /\ machine'[i] = machine[i]
          /\ log'[i] = log[i]
      BY <1>1, <1>8, <2>2 DEF HandleInstallSnapshot
    <3> QED
      BY <3>1 DEF Stays
  <2> QED
    BY <2>1, <2>2
<1>9. ASSUME NEW j \in Server, Boots(j) PROVE Stays(i) \/ Reloads(i)
  <2>1. PICK image : Boot(j, image)
    BY <1>9 DEF Boots
  <2>2. CASE i = j
    <3>1. /\ commitIndex'[i] = image.log.base /\ log'[i] = image.log
          /\ machine'[i] = image.bytes /\ snapshot'[i].bytes = image.bytes
      BY <1>1, <2>1, <2>2 DEF Boot
    <3> QED
      BY <3>1 DEF Reloads
  <2>3. CASE i # j
    <3>1. /\ commitIndex'[i] = commitIndex[i] /\ machine'[i] = machine[i]
          /\ log'[i] = log[i]
      BY <1>1, <2>1, <2>3 DEF Boot
    <3> QED
      BY <3>1 DEF Stays
  <2> QED
    BY <2>2, <2>3
<1> QED
  BY <1>1, <1>5, <1>6, <1>7, <1>8, <1>9, NextCommitStep DEF CommitStep

LEMMA AppliedAt ==
    ASSUME NEW i, machine[i] \in Seq(Entry), lastApplied[i] = Len(machine[i]),
           NEW l \in LogType, NEW c \in Int, c >= lastApplied[i]
    PROVE  /\ \A n \in 1 .. lastApplied[i] : Applied(i, l, c)[n] = machine[i][n]
           /\ \A n \in lastApplied[i] + 1 .. c : Applied(i, l, c)[n] = EntryAt(l, n)
<1> DEFINE q == lastApplied[i]
           z == c - q
           es == [k \in 1 .. z |-> EntryAt(l, q + k)]
<1>1. q \in Nat /\ q = Len(machine[i]) /\ z \in Nat
  <2>1. q \in Nat /\ q = Len(machine[i])
    BY LenProperties
  <2> QED
    BY <2>1
<1>2. \A k \in 1 .. z : EntryAt(l, q + k) \in Entry
  BY <1>1, EntryAtType
<1>3. es \in [1 .. z -> Entry] /\ DOMAIN es = 1 .. z
  BY <1>2
<1>4. \A k \in 1 .. z : es[k] = EntryAt(l, q + k)
  OBVIOUS
<1>5. Applied(i, l, c) = machine[i] \o es
  BY DEF Applied
<1> HIDE DEF es
<1>6. es \in Seq(Entry) /\ Len(es) = z
  <2> HIDE DEF z, q
  <2>1. es \in Seq(Entry)
    BY <1>1, <1>3, SeqDef
  <2>2. Len(es) \in Nat /\ 1 .. Len(es) = 1 .. z
    BY <1>3, <2>1, LenProperties
  <2> QED
    BY <1>1, <2>1, <2>2
<1>7. \A n \in 1 .. q + z :
          (machine[i] \o es)[n] = IF n <= q THEN machine[i][n] ELSE es[n - q]
  BY <1>1, <1>6, ConcatProperties
<1>8. ASSUME NEW n \in 1 .. q PROVE Applied(i, l, c)[n] = machine[i][n]
  <2>1. n \in 1 .. q + z /\ n <= q
    BY <1>1
  <2> QED
    BY <1>5, <1>7, <2>1
<1>9. ASSUME NEW n \in q + 1 .. c PROVE Applied(i, l, c)[n] = EntryAt(l, n)
  <2>1. n \in 1 .. q + z /\ ~(n <= q) /\ n - q \in 1 .. z /\ q + (n - q) = n
    BY <1>1
  <2> QED
    BY <1>4, <1>5, <1>7, <2>1
<1> QED
  BY <1>8, <1>9

(***************************************************************************)
(* What is handed to a state machine goes on being what the log holds.     *)
(***************************************************************************)
LEMMA NextAligned ==
    ASSUME IsFiniteSet(Server), Cardinality(Server) <= 3,
           Stepping, VoteInv, CommitsSure, CommitsSure'
    PROVE  Aligned'
<1> SUFFICES ASSUME NEW i \in Server
             PROVE  /\ log'[i].base <= commitIndex'[i]
                    /\ commitIndex'[i] <= LastIndex(log'[i])
                    /\ \A n \in 1 .. commitIndex'[i] :
                           machine'[i][n] = EntryAt(Whole(i)', n)
  BY DEF Aligned
<1>1. /\ commitIndex[i] \in Nat /\ commitIndex'[i] \in Nat
      /\ log[i].base \in Nat /\ log'[i].base \in Nat
      /\ machine[i] \in Seq(Entry) /\ Len(machine[i]) = commitIndex[i]
      /\ LastIndex(log'[i]) \in Int
  BY CommitTypes, CommitTypesAfter DEF Stepping, Ground
<1>2. /\ log[i].base <= commitIndex[i]
      /\ \A n \in 1 .. commitIndex[i] : machine[i][n] = EntryAt(Whole(i), n)
  BY DEF Stepping, Aligned
<1>3. \A n \in 1 .. commitIndex[i] : EntryAt(Whole(i)', n) = EntryAt(Whole(i), n)
  <2>1. SureTo(i, commitIndex[i])
    BY DEF CommitsSure
  <2> QED
    BY <1>1, <2>1, SureToStep
<1>4. LogsFit' /\ LastIndex(Whole(i)') = LastIndex(log'[i])
  <2>1. LogsFit'
    BY DEF Stepping, WholesInv, SeamsMatch, LogsFit
  <2> QED
    BY <2>1, WholeIsAfter
<1>5. commitIndex'[i] <= LastIndex(log'[i])
  <2>1. commitIndex'[i] <= LastIndex(Whole(i)')
    BY DEF CommitsSure, SureTo, Begins
  <2> QED
    BY <1>4, <2>1
<1>6. CASE Stays(i)
  <2>1. log'[i].base <= commitIndex'[i]
    BY <1>1, <1>2, <1>6 DEF Stays
  <2>2. ASSUME NEW n \in 1 .. commitIndex'[i]
        PROVE  machine'[i][n] = EntryAt(Whole(i)', n)
    BY <1>2, <1>3, <1>6, <2>2 DEF Stays
  <2> QED
    BY <1>5, <2>1, <2>2
<1>7. CASE Applies(i)
  <2>1. log'[i].base <= commitIndex'[i]
    BY <1>1, <1>2, <1>7 DEF Applies
  <2>2. /\ lastApplied[i] = commitIndex[i] /\ log'[i] \in LogType
    BY DEF Stepping, Ground, TypeInv, TypeOK, TypeOfLogs, Positions
  <2>3. /\ \A n \in 1 .. commitIndex[i] : machine'[i][n] = machine[i][n]
        /\ \A n \in commitIndex[i] + 1 .. commitIndex'[i] :
               machine'[i][n] = EntryAt(log'[i], n)
    BY <1>1, <1>7, <2>2, AppliedAt DEF Applies
  <2>4. ASSUME NEW n \in 1 .. commitIndex'[i]
        PROVE  machine'[i][n] = EntryAt(Whole(i)', n)
    <3>1. CASE n <= commitIndex[i]
      <4>1. n \in 1 .. commitIndex[i]
        BY <1>1, <3>1
      <4> QED
        BY <1>2, <1>3, <2>3, <4>1
    <3>2. CASE n > commitIndex[i]
      <4>1. n \in commitIndex[i] + 1 .. commitIndex'[i]
        BY <1>1, <3>2
      <4>2. n \in Indices(log'[i]) /\ n # log'[i].base
        <5>1. log'[i].base <= commitIndex[i]
          BY <1>2, <1>7 DEF Applies
        <5>2. n > log'[i].base /\ n <= LastIndex(log'[i])
          BY <1>1, <1>5, <3>2, <5>1
        <5> QED
          BY <1>1, <5>2 DEF Indices
      <4>3. EntryAt(Whole(i)', n) = EntryAt(log'[i], n)
        BY <1>4, <4>2, WholeEntriesAfter
      <4> QED
        BY <2>3, <4>1, <4>3
    <3> QED
      BY <1>1, <3>1, <3>2
  <2> QED
    BY <1>5, <2>1, <2>4
<1>8. CASE Reloads(i)
  <2>1. /\ log'[i].base = commitIndex'[i] /\ machine'[i] = snapshot'[i].bytes
    BY <1>8 DEF Reloads
  <2>2. \A n \in 1 .. log'[i].base : EntryAt(Whole(i)', n) = snapshot'[i].bytes[n]
    BY <1>4, WholeEntriesAfter
  <2> QED
    BY <1>1, <1>5, <2>1, <2>2
<1> QED
  BY <1>6, <1>7, <1>8, MachineMoves

(***************************************************************************)
(* What requests say of commits.                                           *)
(***************************************************************************)
LEMMA NextAppendsSure ==
    ASSUME IsFiniteSet(Server), Cardinality(Server) <= 3,
           Stepping, VoteInv, CommitsSure, AppendsSure
    PROVE  AppendsSure'
<1> SUFFICES ASSUME NEW m \in appendRequests'
             PROVE  \E L, K : /\ Sure(L, K)' /\ m.leaderCommit <= K
                              /\ TermAt(L, K) <= m.term
  BY DEF AppendsSure
<1>1. CASE \E n \in appendRequests : SameCall(m, n)
  <2>1. PICK n \in appendRequests : SameCall(m, n)
    BY <1>1
  <2>2. n \in AppendRequest
    BY DEF Stepping, Ground, TypeInv, TypeOK, TypeOfNet
  <2>3. m.leaderCommit = n.leaderCommit /\ m.term = n.term
    BY <2>1, <2>2, SameAppendCall
  <2> QED
    BY <2>3, SureStep DEF AppendsSure
<1>2. ASSUME NEW i \in Server, NEW j \in Server, m = AppendArgs(i, j)
      PROVE  \E L, K : /\ Sure(L, K)' /\ m.leaderCommit <= K
                       /\ TermAt(L, K) <= m.term
  <2>1. m.leaderCommit = commitIndex[i] /\ m.term = currentTerm[i]
    BY <1>2 DEF AppendArgs
  <2>2. SureTo(i, commitIndex[i])
    BY DEF CommitsSure
  <2> QED
    BY <2>1, <2>2, SureStep DEF SureTo
<1> QED
  BY <1>1, <1>2, NextRequestsStep DEF RequestsStep, Stepping, Ground, TypeInv

LEMMA NextInstallsSure ==
    ASSUME IsFiniteSet(Server), Cardinality(Server) <= 3,
           Stepping, VoteInv, CommitsSure, InstallsSure
    PROVE  InstallsSure'
<1> SUFFICES ASSUME NEW m \in installRequests'
             PROVE  \E L, K : /\ Sure(L, K)' /\ m.snapshot.index <= K
                              /\ TermAt(L, K) <= m.term
                              /\ Begins(L, m.snapshot.index,
                                        SnapshotLog(m.snapshot.bytes))
  BY DEF InstallsSure
<1>1. CASE \E n \in installRequests : SameCall(m, n)
  <2>1. PICK n \in installRequests : SameCall(m, n)
    BY <1>1
  <2>2. n \in InstallRequest
    BY DEF Stepping, Ground, TypeInv, TypeOK, TypeOfNet
  <2>3. m.snapshot = n.snapshot /\ m.term = n.term
    BY <2>1, <2>2, SameInstallCall
  <2> QED
    BY <2>3, SureStep DEF InstallsSure
<1>2. ASSUME NEW i \in Server, NEW j \in Server, m = InstallArgs(i, j)
      PROVE  \E L, K : /\ Sure(L, K)' /\ m.snapshot.index <= K
                       /\ TermAt(L, K) <= m.term
                       /\ Begins(L, m.snapshot.index,
                                 SnapshotLog(m.snapshot.bytes))
  <2> DEFINE b == m.snapshot.bytes
             k == m.snapshot.index
  <2>1. m.snapshot = snapshot[i] /\ m.term = currentTerm[i]
    BY <1>2 DEF InstallArgs
  <2>2. /\ commitIndex[i] \in Nat /\ k = log[i].base /\ log[i].base \in Nat
        /\ b \in Seq(Entry) /\ Len(b) = k /\ log[i].base <= commitIndex[i]
    <3>1. b = snapshot[i].bytes /\ k = snapshot[i].index
      BY <2>1
    <3>2. /\ snapshot[i].bytes \in Seq(Entry)
          /\ Len(snapshot[i].bytes) = snapshot[i].index
      BY DEF Stepping, Ground, TypeInv, TypeOK, TypeOfLogs, SnapshotType,
             Commands, Positions
    <3>3. log[i].base <= commitIndex[i]
      BY DEF Stepping, Aligned
    <3> QED
      BY <3>1, <3>2, <3>3, CommitTypes DEF Stepping, Ground
  <2>3. SureTo(i, k)
    <3>1. SureTo(i, commitIndex[i]) /\ WholeLogs
      BY SteppingLogs DEF CommitsSure
    <3>2. k \in Int /\ k <= commitIndex[i]
      BY <2>2
    <3> QED
      BY <2>2, <3>1, <3>2, SureToLess
  <2>4. PICK L, K : /\ Sure(L, K) /\ k <= K /\ TermAt(L, K) <= currentTerm[i]
                    /\ Begins(L, k, Whole(i))
    BY <2>3 DEF SureTo
  <2>5. \A n \in 1 .. k : EntryAt(SnapshotLog(b), n) = EntryAt(Whole(i), n)
    <3>1. \A n \in 1 .. log[i].base : EntryAt(Whole(i), n) = snapshot[i].bytes[n]
      BY WholeEntries DEF Stepping, WholesInv, SeamsMatch, LogsFit
    <3>2. \A n \in 1 .. Len(b) : EntryAt(SnapshotLog(b), n) = b[n]
      BY <2>2, SnapshotLogAt
    <3> QED
      BY <2>1, <2>2, <3>1, <3>2
  <2>6. LastIndex(SnapshotLog(b)) = k
    BY <2>2, SnapshotLogAt
  <2>7. Begins(L, k, SnapshotLog(b))
    <3>1. k <= LastIndex(SnapshotLog(b))
      BY <2>2, <2>6
    <3> HIDE DEF b, k
    <3> QED
      BY <2>4, <2>5, <3>1 DEF Begins
  <2> QED
    BY <2>1, <2>4, <2>7, SureStep
<1> QED
  BY <1>1, <1>2, NextRequestsStep DEF RequestsStep, Stepping, Ground, TypeInv

----------------------------------------------------------------------------
(* The longest sequence any state machine has been handed.                 *)

DecidedSure ==
    Len(decided) > 0 =>
        \E L, K : /\ Sure(L, K)
                  /\ Len(decided) <= K
                  /\ \A n \in 1 .. Len(decided) : decided[n] = EntryAt(L, n)

MachinesBehind == \A i \in Server : Len(machine[i]) <= Len(decided)

CommitInv ==
    /\ CommitsSure
    /\ AppendsSure
    /\ InstallsSure
    /\ DecidedSure
    /\ MachinesBehind

(***************************************************************************)
(* One peer at most is handed something: it decides, or it goes back.      *)
(***************************************************************************)
Hands(j) ==
    /\ \A i \in Server \ {j} : machine'[i] = machine[i]
    /\ \/ Decide(j)
       \/ decided' = decided /\ commitIndex'[j] <= commitIndex[j]

LEMMA NextHands ==
    ASSUME Stepping
    PROVE  UNCHANGED <<machine, decided>> \/ \E j \in Server : Hands(j)
<1>1. TypeInv /\ DiskInSync /\ [Next]_vars /\ DOMAIN machine = Server
  BY DEF Stepping, Ground, TypeInv, TypeOK, TypeOfLogs
<1>2. ASSUME NEW m \in appendRequests, HandleAppendEntries(m), Accepts(m)
      PROVE  \E j \in Server : Hands(j)
  <2>1. m.to \in Server
    BY <1>1 DEF TypeInv, TypeOK, TypeOfNet, AppendRequest
  <2>2. Hands(m.to)
    BY <1>1, <1>2, <2>1 DEF HandleAppendEntries, Accepts, ApplyCommits, Hands
  <2> QED
    BY <2>1, <2>2
<1>3. ASSUME NEW i \in Server, Counts(i) PROVE \E j \in Server : Hands(j)
  <2>1. Hands(i)
    BY <1>1, <1>3 DEF Counts, UpdateLeaderCommit, ApplyCommits, Hands
  <2> QED
    BY <2>1
<1>4. ASSUME NEW m \in installRequests, HandleInstallSnapshot(m), Installs(m.to, m)
      PROVE  \E j \in Server : Hands(j)
  <2>1. m.to \in Server
    BY <1>1 DEF TypeInv, TypeOK, TypeOfNet, InstallRequest
  <2>2. Hands(m.to)
    BY <1>1, <1>4, <2>1 DEF HandleInstallSnapshot, Hands
  <2> QED
    BY <2>1, <2>2
<1>5. ASSUME NEW i \in Server, Boots(i) PROVE \E j \in Server : Hands(j)
  <2>1. PICK image : Boot(i, image) /\ image.log = log[i]
    BY <1>5 DEF Boots
  <2>2. commitIndex'[i] = log[i].base /\ decided' = decided
        /\ \A j \in Server \ {i} : machine'[j] = machine[j]
    BY <1>1, <2>1 DEF Boot, history, TypeInv, TypeOK, TypeOfLogs
  <2>3. log[i].base <= commitIndex[i]
    BY DEF Stepping, Aligned
  <2>4. Hands(i)
    BY <2>2, <2>3 DEF Hands
  <2> QED
    BY <2>4
<1> QED
  BY <1>1, <1>2, <1>3, <1>4, <1>5, NextCommitStep DEF CommitStep

LEMMA DecidedTypes ==
    ASSUME Stepping
    PROVE  /\ decided \in Seq(Entry) /\ decided' \in Seq(Entry)
           /\ Len(decided) \in Nat /\ Len(decided') \in Nat
           /\ \A i \in Server :
                  /\ machine[i] \in Seq(Entry) /\ machine'[i] \in Seq(Entry)
                  /\ Len(machine[i]) = commitIndex[i]
                  /\ Len(machine'[i]) = commitIndex'[i]
                  /\ commitIndex[i] \in Nat /\ commitIndex'[i] \in Nat
           /\ machine' = [i \in Server |-> machine'[i]]
           /\ machine = [i \in Server |-> machine[i]]
<1>1. decided \in Seq(Entry) /\ decided' \in Seq(Entry)
  BY DEF Stepping, Ground, TypeInv, TypeOK, TypeOfHistory, Commands
<1>2. /\ machine' = [i \in Server |-> machine'[i]]
      /\ machine = [i \in Server |-> machine[i]]
  BY DEF Stepping, Ground, TypeInv, TypeOK, TypeOfLogs
<1> QED
  BY <1>1, <1>2, LenProperties, CommitTypes, CommitTypesAfter DEF Stepping, Ground

LEMMA NextMachinesBehind ==
    ASSUME Stepping, MachinesBehind
    PROVE  MachinesBehind'
<1> SUFFICES ASSUME NEW i \in Server
             PROVE  Len(machine'[i]) <= Len(decided')
  BY DEF MachinesBehind
<1>1. /\ Len(decided) \in Nat /\ Len(decided') \in Nat
      /\ Len(machine[i]) \in Nat /\ Len(machine'[i]) \in Nat
      /\ Len(machine[i]) <= Len(decided)
      /\ Len(machine[i]) = commitIndex[i] /\ Len(machine'[i]) = commitIndex'[i]
  BY DecidedTypes DEF MachinesBehind
<1>2. CASE UNCHANGED <<machine, decided>>
  BY <1>1, <1>2
<1>3. ASSUME NEW j \in Server, Hands(j) PROVE Len(machine'[i]) <= Len(decided')
  <2>1. CASE Decide(j)
    <3>1. Len(machine'[j]) \in Nat
      BY DecidedTypes
    <3>2. Len(decided') >= Len(decided) /\ Len(decided') >= Len(machine'[j])
      BY <1>1, <2>1, <3>1 DEF Decide
    <3>3. CASE i = j
      BY <1>1, <3>2, <3>3
    <3>4. CASE i # j
      <4>1. Len(machine'[i]) = Len(machine[i])
        BY <1>3, <3>4 DEF Hands
      <4> QED
        BY <1>1, <3>2, <4>1
    <3> QED
      BY <3>3, <3>4
  <2>2. CASE decided' = decided /\ commitIndex'[j] <= commitIndex[j]
    <3>1. CASE i = j
      BY <1>1, <2>2, <3>1
    <3>2. CASE i # j
      BY <1>1, <1>3, <2>2, <3>2 DEF Hands
    <3> QED
      BY <3>1, <3>2
  <2> QED
    BY <1>3, <2>1, <2>2 DEF Hands
<1> QED
  BY <1>2, <1>3, NextHands

LEMMA MachineIsSure ==
    CommitsSure /\ Aligned => \A i \in Server :
        \E L, K : /\ Sure(L, K)
                  /\ commitIndex[i] <= K
                  /\ TermAt(L, K) <= currentTerm[i]
                  /\ \A n \in 1 .. commitIndex[i] : machine[i][n] = EntryAt(L, n)
BY DEF CommitsSure, SureTo, Aligned, Begins

LEMMA MachineIsSureAfter ==
    (CommitsSure /\ Aligned => \A i \in Server :
        \E L, K : /\ Sure(L, K)
                  /\ commitIndex[i] <= K
                  /\ TermAt(L, K) <= currentTerm[i]
                  /\ \A n \in 1 .. commitIndex[i] : machine[i][n] = EntryAt(L, n))'
BY MachineIsSure, PTL

LEMMA NextDecidedSure ==
    ASSUME IsFiniteSet(Server), Cardinality(Server) <= 3,
           Stepping, VoteInv, CommitsSure', Aligned', DecidedSure
    PROVE  DecidedSure'
<1>1. CASE decided' = decided
  BY <1>1, SureStep DEF DecidedSure
<1>2. ASSUME NEW j \in Server, decided' = machine'[j]
      PROVE  DecidedSure'
  <2>1. PICK L, K : /\ Sure(L, K)' /\ commitIndex'[j] <= K
                    /\ \A n \in 1 .. commitIndex'[j] : machine'[j][n] = EntryAt(L, n)
    BY MachineIsSureAfter
  <2>2. Len(decided') = commitIndex'[j]
    BY <1>2, DecidedTypes
  <2> QED
    BY <1>2, <2>1, <2>2 DEF DecidedSure
<1> QED
  BY <1>1, <1>2, NextHands DEF Hands, Decide

LEMMA NextCommitInv ==
    ASSUME IsFiniteSet(Server), Cardinality(Server) <= 3,
           Stepping, VoteInv, Growing, CommitInv
    PROVE  CommitInv' /\ Aligned'
<1>1. CommitsSure'
  BY NextCommitsSure DEF CommitInv
<1>2. Aligned'
  BY <1>1, NextAligned DEF CommitInv
<1>3. AppendsSure' /\ InstallsSure'
  BY NextAppendsSure, NextInstallsSure DEF CommitInv
<1>4. DecidedSure' /\ MachinesBehind'
  BY <1>1, <1>2, NextDecidedSure, NextMachinesBehind DEF CommitInv
<1> QED
  BY <1>1, <1>2, <1>3, <1>4 DEF CommitInv

----------------------------------------------------------------------------
(* The whole invariant.                                                    *)

ReplicationInv ==
    /\ WholesInv
    /\ Aligned
    /\ VoteInv
    /\ AckInv
    /\ Growing
    /\ CommitInv

LEMMA InitialWhole ==
    /\ WholeOf(InitialLog, << >>) = InitialLog
    /\ Fitting(InitialLog, << >>)
    /\ Point(InitialLog, 0)
    /\ TermAt(InitialLog, 0) = 0
<1> DEFINE w == WholeOf(InitialLog, << >>)
<1>1. /\ InitialLog \in LogType /\ InitialLog.base = 0
      /\ LastIndex(InitialLog) = 0 /\ 0 \in Indices(InitialLog)
      /\ \A k \in Indices(InitialLog) : k = 0 /\ TermAt(InitialLog, k) = 0
  BY InitialLogWellFormed DEF WellFormed, Indices
<1>2. Fitting(InitialLog, << >>)
  <2>1. << >> \in Seq(Entry) /\ Len(<< >>) = 0
    OBVIOUS
  <2> QED
    BY <1>1, <2>1 DEF Fitting, BaseTerm
<1>3. EntryAt(InitialLog, 0) = FirstEntry
  <2>1. InitialLog.entries[1] = FirstEntry
    BY DEF InitialLog, FirstEntry
  <2>2. EntryAt(InitialLog, 0) = InitialLog.entries[0 - InitialLog.base + 1]
    BY <1>1, EntryOfLog
  <2> QED
    BY <1>1, <2>1, <2>2
<1>4. /\ w \in LogType /\ w.base = 0 /\ LastIndex(w) = 0 /\ Indices(w) = 0 .. 0
      /\ EntryAt(w, 0) = WholeEntry(InitialLog, << >>, 0)
  BY <1>1, <1>2, FittingWhole
<1>5. EntryAt(w, 0) = FirstEntry
  BY <1>4 DEF WholeEntry
<1> HIDE DEF w
<1>6. w = InitialLog
  <2>1. \A k \in Indices(w) : EntryAt(w, k) = EntryAt(InitialLog, k)
    BY <1>3, <1>4, <1>5
  <2> QED
    BY <1>1, <1>4, <2>1, LogEqual
<1>7. Point(InitialLog, 0)
  <2>1. \A n \in 0 .. 0 : n = 0
    OBVIOUS
  <2>2. TermAt(InitialLog, 0) = 0
    BY <1>1
  <2> QED
    BY <1>1, <1>3, <2>1, <2>2 DEF Point
<1> QED
  BY <1>1, <1>2, <1>6, <1>7 DEF w

LEMMA InitReplicationInv ==
    ASSUME IsFiniteSet(Server), Init
    PROVE  ReplicationInv
<1>1. /\ \A i \in Server : /\ log[i] = InitialLog /\ currentTerm[i] = 0
                           /\ state[i] = Follower /\ snapshot[i].bytes = << >>
                           /\ commitIndex[i] = 0 /\ machine[i] = << >>
      /\ appendRequests = {} /\ installRequests = {} /\ appendReplies = {}
      /\ voteRequests = {} /\ ballots = {} /\ decided = << >>
  BY DEF Init
<1>2. \A i \in Server : Whole(i) = InitialLog
  BY <1>1, InitialWhole DEF Whole
<1>3. Moving = {} /\ \A c \in Full : c = <<InitialLog, 0>>
  BY <1>1, <1>2 DEF Full, Stored, Moving
<1>4. WholesInv
  <2>1. Consistent(Full)
    BY <1>3, InitialLogWellFormed, MatchingReflexive DEF Consistent
  <2>2. SeamsMatch
    BY <1>1, InitialWhole DEF SeamsMatch
  <2>3. WholesElected
    BY <1>3, InitialLogWellFormed DEF WholesElected
  <2>4. WholesBehind /\ MovingFromLeader
    BY <1>1, RolesAssumption DEF WholesBehind, MovingFromLeader
  <2> QED
    BY <2>1, <2>2, <2>3, <2>4 DEF WholesInv
<1>5. Aligned
  BY <1>1, InitialLogWellFormed DEF Aligned
<1>6. VoteInv
  BY <1>1 DEF VoteInv
<1>7. AckInv
  BY <1>1, RolesAssumption DEF AckInv, MatchAgrees, RepliesAgree
<1>8. Growing
  BY <1>1, RolesAssumption DEF Growing, Counting
<1>9. CommitsSure
  <2> SUFFICES ASSUME NEW i \in Server PROVE SureTo(i, 0)
    BY <1>1 DEF CommitsSure
  <2>1. Cardinality(Server) >= Quorum
    <3>1. Cardinality(Server) \in Nat /\ Cardinality(Server) # 0
      BY FS_CardinalityType, FS_EmptySet
    <3> QED
      BY <3>1 DEF Quorum
  <2>2. \A j \in Server : Begins(InitialLog, 0, Whole(j))
    BY <1>2, InitialLogWellFormed DEF Begins
  <2>3. HeldBy(InitialLog, 0, Server)
    BY <1>1, <2>2, InitialWhole DEF HeldBy
  <2>4. HeldIfUpToDate(InitialLog, 0) /\ LeadersHold(InitialLog, 0)
        /\ CandidatesHold(InitialLog, 0, Server)
    BY <2>2 DEF HeldIfUpToDate, LeadersHold, CandidatesHold
  <2>5. MovingFits(InitialLog, 0)
    BY <1>3 DEF MovingFits
  <2>6. Kept(InitialLog, 0, Server)
    BY <2>3, <2>4, <2>5, InitialWhole DEF Kept
  <2>7. Sure(InitialLog, 0)
    BY <2>1, <2>6 DEF Sure
  <2>8. TermAt(InitialLog, 0) <= currentTerm[i] /\ 0 <= 0
    BY <1>1, InitialWhole
  <2> QED
    BY <2>2, <2>7, <2>8 DEF SureTo
<1>10. AppendsSure /\ InstallsSure
  BY <1>1 DEF AppendsSure, InstallsSure
<1>11. DecidedSure /\ MachinesBehind
  <2>1. Len(<< >>) = 0
    OBVIOUS
  <2> QED
    BY <1>1, <2>1 DEF DecidedSure, MachinesBehind
<1> QED
  BY <1>4, <1>5, <1>6, <1>7, <1>8, <1>9, <1>10, <1>11
  DEF ReplicationInv, CommitInv

LEMMA NextReplicationInv ==
    ASSUME IsFiniteSet(Server), Cardinality(Server) <= 3,
           Ground, Ground', ReplicationInv, [Next]_vars
    PROVE  ReplicationInv'
<1>1. WholesInv'
  BY NextWholesInv DEF Ground, ReplicationInv, TypeInv
<1>2. Stepping
  BY <1>1 DEF Stepping, ReplicationInv
<1>3. VoteInv'
  BY <1>2, NextVoteInv DEF ReplicationInv
<1>4. AckInv'
  BY <1>2, NextAckInv DEF ReplicationInv
<1>5. CommitInv' /\ Aligned'
  BY <1>2, NextCommitInv DEF ReplicationInv
<1>6. Growing'
  BY <1>2, <1>4, <1>5, NextGrowing DEF ReplicationInv
<1> QED
  BY <1>1, <1>3, <1>4, <1>5, <1>6 DEF ReplicationInv

LEMMA GroundInvariance ==
    ASSUME IsFiniteSet(Server), Cardinality(Server) <= 3
    PROVE  Spec => []Ground
<1>1. Spec => []ElectionSafety
  BY OneLeaderPerTerm
<1>2. Spec => []LogInv
  BY LogInvariance
<1>3. TypeInv /\ DiskInSync /\ VotesInv /\ ElectedInv /\ RoleInv
        /\ ElectionSafety /\ LogInv => Ground
  BY DEF Ground
<1> QED
  BY <1>1, <1>2, <1>3, TypeInvariance, DiskInvariance, VotesInvariance,
     ElectedInvariance, RolesInvariance, PTL

(***************************************************************************)
(* The inductive invariant of replication in a group of three: what a      *)
(* majority is known to hold stays in every log that can still matter -    *)
(* leaders' and their followers', those of candidates that one of the      *)
(* majority has voted for, and what is under way in AppendEntries and      *)
(* InstallSnapshot calls - and whatever is committed, handed to a state    *)
(* machine or told of in a request is known to be held like that.          *)
(***************************************************************************)
THEOREM ReplicationInvariance ==
    ASSUME IsFiniteSet(Server), Cardinality(Server) <= 3
    PROVE  Spec => []ReplicationInv
<1>1. Spec => []Ground
  BY GroundInvariance
<1>2. Init => ReplicationInv
  BY InitReplicationInv
<1>3. Ground /\ Ground' /\ ReplicationInv /\ [Next]_vars => ReplicationInv'
  BY NextReplicationInv
<1> QED
  BY <1>1, <1>2, <1>3, PTL DEF Spec

----------------------------------------------------------------------------
(* What follows from it.                                                   *)

LEMMA PrefixIs ==
    ASSUME NEW s \in Seq(Entry), NEW t \in Seq(Entry), Len(s) <= Len(t),
           \A n \in 1 .. Len(s) : s[n] = t[n]
    PROVE  IsPrefix(s, t)
<1>1. Len(s) \in Nat /\ Len(t) \in Nat
  BY LenProperties
<1> DEFINE k == Len(s)
           a == SubSeq(s, 1, k)
           b == SubSeq(t, 1, k)
<1>2. k \in Int /\ 1 \in Int /\ 1 <= 1 /\ k <= Len(s) /\ k <= Len(t)
      /\ k - 1 + 1 = k /\ (1 <= k \/ k = 0)
      /\ \A n \in 1 .. k : 1 + n - 1 = n
  BY <1>1
<1>3. k = Len(s)
  OBVIOUS
<1> HIDE DEF k
<1>4. a \in Seq(Entry) /\ Len(a) = k /\ \A n \in 1 .. k : a[n] = s[n]
  BY <1>2, PartOfEntries
<1>5. b \in Seq(Entry) /\ Len(b) = k /\ \A n \in 1 .. k : b[n] = t[n]
  BY <1>2, PartOfEntries
<1> HIDE DEF a, b
<1>6. a = b
  BY <1>3, <1>4, <1>5, SeqEqual
<1> QED
  BY <1>2, <1>3, <1>6 DEF IsPrefix, a, b

(***************************************************************************)
(* Every state machine has been handed the beginning of what was decided.  *)
(***************************************************************************)
MachinesHold ==
    \A i \in Server :
        /\ commitIndex[i] <= Len(decided)
        /\ \A n \in 1 .. commitIndex[i] : machine[i][n] = decided[n]

LEMMA MachinesHoldDecided ==
    IsFiniteSet(Server) /\ TypeInv /\ Aligned /\ CommitInv => MachinesHold
<1> SUFFICES ASSUME IsFiniteSet(Server), TypeInv, Aligned, CommitInv,
                    NEW i \in Server
             PROVE  /\ commitIndex[i] <= Len(decided)
                    /\ \A n \in 1 .. commitIndex[i] : machine[i][n] = decided[n]
  BY DEF MachinesHold
<1>1. commitIndex[i] \in Nat /\ commitIndex[i] <= Len(decided) /\ Len(decided) \in Nat
  <2>1. decided \in Seq(Entry) /\ Len(machine[i]) <= Len(decided)
    BY DEF TypeInv, TypeOK, TypeOfHistory, Commands, CommitInv, MachinesBehind
  <2> QED
    BY <2>1, CommitTypes, LenProperties
<1>2. ASSUME NEW n \in 1 .. commitIndex[i] PROVE machine[i][n] = decided[n]
  <2>1. n \in Int /\ 1 <= n /\ n <= commitIndex[i] /\ n \in 1 .. Len(decided)
        /\ Len(decided) > 0
    BY <1>1
  <2>2. PICK L, K : /\ Sure(L, K) /\ commitIndex[i] <= K
                    /\ machine[i][n] = EntryAt(L, n)
    BY MachineIsSure DEF CommitInv
  <2>3. PICK M, N : /\ Sure(M, N) /\ Len(decided) <= N
                    /\ decided[n] = EntryAt(M, n)
    BY <2>1 DEF CommitInv, DecidedSure
  <2>4. K \in Int /\ N \in Int
    BY <2>2, <2>3, PointIs DEF Sure, Kept
  <2>5. n <= K /\ n <= N
    BY <1>1, <2>1, <2>2, <2>3, <2>4
  <2>6. EntryAt(L, n) = EntryAt(M, n)
    BY <2>1, <2>2, <2>3, <2>5, SureAgree
  <2> QED
    BY <2>2, <2>3, <2>6
<1> QED
  BY <1>1, <1>2

(***************************************************************************)
(* State machine safety: in a group of three, what applyCommits and        *)
(* InstallSnapshot ever hand to any service, before or after whatever      *)
(* restarts, is the beginning of one sequence of commands.                 *)
(***************************************************************************)
THEOREM MachinesAgree ==
    ASSUME IsFiniteSet(Server), Cardinality(Server) <= 3
    PROVE  Spec => []StateMachineSafety
<1>1. TypeInv /\ ReplicationInv => StateMachineSafety
  <2> SUFFICES ASSUME TypeInv, ReplicationInv, NEW i \in Server
               PROVE  IsPrefix(machine[i], decided)
    BY DEF StateMachineSafety
  <2>1. MachinesHold
    BY MachinesHoldDecided DEF ReplicationInv
  <2>2. machine[i] \in Seq(Entry) /\ Len(machine[i]) = commitIndex[i]
    BY CommitTypes
  <2>3. decided \in Seq(Entry)
    BY DEF TypeInv, TypeOK, TypeOfHistory, Commands
  <2> QED
    BY <2>1, <2>2, <2>3, PrefixIs DEF MachinesHold
<1>2. Spec => []ReplicationInv
  BY ReplicationInvariance
<1> QED
  BY <1>1, <1>2, TypeInvariance, PTL

(***************************************************************************)
(* What a service has been handed stays in the log of its peer or in the   *)
(* snapshot that replaced it: no delayed request truncates below the       *)
(* commit index of a peer in a group of three.                             *)
(***************************************************************************)
THEOREM AppliedIsKept ==
    ASSUME IsFiniteSet(Server), Cardinality(Server) <= 3
    PROVE  Spec => []AppliedStaysInLog
<1>1. TypeInv /\ ReplicationInv => AppliedStaysInLog
  <2> SUFFICES ASSUME TypeInv, ReplicationInv, NEW i \in Server
               PROVE  /\ lastApplied[i] = commitIndex[i]
                      /\ Len(machine[i]) = lastApplied[i]
                      /\ commitIndex[i] \in Indices(log[i])
                      /\ snapshot[i].index = log[i].base
                      /\ Len(snapshot[i].bytes) = log[i].base
                      /\ IsPrefix(snapshot[i].bytes, machine[i])
                      /\ \A k \in log[i].base + 1 .. commitIndex[i] :
                             machine[i][k] = EntryAt(log[i], k)
    BY DEF AppliedStaysInLog
  <2>1. /\ lastApplied[i] = commitIndex[i] /\ Len(machine[i]) = lastApplied[i]
        /\ snapshot[i].index = log[i].base
        /\ Len(snapshot[i].bytes) = log[i].base
        /\ snapshot[i].bytes \in Seq(Entry) /\ machine[i] \in Seq(Entry)
    BY DEF TypeInv, TypeOK, TypeOfLogs, SnapshotType, Commands, Positions
  <2>2. /\ commitIndex[i] \in Nat /\ log[i].base \in Nat
        /\ LastIndex(log[i]) \in Int
    BY CommitTypes
  <2>3. /\ log[i].base <= commitIndex[i] /\ commitIndex[i] <= LastIndex(log[i])
        /\ \A n \in 1 .. commitIndex[i] : machine[i][n] = EntryAt(Whole(i), n)
    BY DEF ReplicationInv, Aligned
  <2>4. /\ \A k \in Indices(log[i]) :
               k # log[i].base => EntryAt(Whole(i), k) = EntryAt(log[i], k)
        /\ \A k \in 1 .. log[i].base : EntryAt(Whole(i), k) = snapshot[i].bytes[k]
    BY WholeEntries DEF ReplicationInv, WholesInv, SeamsMatch, LogsFit
  <2>5. commitIndex[i] \in Indices(log[i])
    BY <2>2, <2>3 DEF Indices
  <2>6. IsPrefix(snapshot[i].bytes, machine[i])
    <3>1. Len(snapshot[i].bytes) <= Len(machine[i])
      BY <2>1, <2>3
    <3>2. ASSUME NEW n \in 1 .. Len(snapshot[i].bytes)
          PROVE  snapshot[i].bytes[n] = machine[i][n]
      <4>1. n \in 1 .. log[i].base /\ n \in 1 .. commitIndex[i]
        BY <2>1, <2>2, <2>3
      <4> QED
        BY <2>3, <2>4, <4>1
    <3> QED
      BY <2>1, <3>1, <3>2, PrefixIs
  <2>7. ASSUME NEW k \in log[i].base + 1 .. commitIndex[i]
        PROVE  machine[i][k] = EntryAt(log[i], k)
    <3>1. k \in 1 .. commitIndex[i] /\ k \in Indices(log[i]) /\ k # log[i].base
      BY <2>2, <2>3 DEF Indices
    <3> QED
      BY <2>3, <2>4, <3>1
  <2> QED
    BY <2>1, <2>5, <2>6, <2>7
<1>2. Spec => []ReplicationInv
  BY ReplicationInvariance
<1> QED
  BY <1>1, <1>2, TypeInvariance, PTL

LEMMA HeldOnDisk ==
    ASSUME TypeInv, DiskInSync, WholesInv, NEW i \in Server, NEW L, NEW K \in Int,
           Begins(L, K, Whole(i)), NEW k \in 1 .. Len(decided), k <= K,
           decided[k] = EntryAt(L, k)
    PROVE  OnDisk(i, k)
<1>1. /\ disk[i].log = log[i] /\ disk[i].bytes = snapshot[i].bytes
      /\ Len(snapshot[i].bytes) = log[i].base
  <2>1. disk[i] = Image(currentTerm[i], votedFor[i], log[i], snapshot[i].bytes)
    BY DEF DiskInSync
  <2>2. Len(snapshot[i].bytes) = log[i].base
    BY DEF TypeInv, Positions
  <2> QED
    BY <2>1, <2>2 DEF Image
<1>2. log[i].base \in Nat /\ LastIndex(log[i]) \in Int /\ k \in Int /\ 1 <= k
  <2>1. Len(decided) \in Nat
    BY LenProperties DEF TypeInv, TypeOK, TypeOfHistory, Commands
  <2> QED
    BY <2>1, CommitTypes
<1>3. LogsFit
  BY DEF WholesInv, SeamsMatch, LogsFit
<1>4. K <= LastIndex(log[i]) /\ EntryAt(Whole(i), k) = decided[k]
  <2>1. LastIndex(Whole(i)) = LastIndex(log[i])
    BY <1>3, WholeIs
  <2>2. k \in 1 .. K
    BY <1>2
  <2> QED
    BY <2>1, <2>2 DEF Begins
<1>5. CASE k <= log[i].base
  <2>1. k \in 1 .. log[i].base
    BY <1>2, <1>5
  <2>2. snapshot[i].bytes[k] = decided[k]
    BY <1>3, <1>4, <2>1, WholeEntries
  <2> QED
    BY <1>1, <1>5, <2>2 DEF OnDisk
<1>6. CASE ~(k <= log[i].base)
  <2>1. k \in Indices(log[i]) /\ k # log[i].base
    BY <1>2, <1>4, <1>6 DEF Indices
  <2>2. EntryAt(log[i], k) = decided[k]
    BY <1>3, <1>4, <2>1, WholeEntries
  <2> QED
    BY <1>1, <1>6, <2>2 DEF OnDisk
<1> QED
  BY <1>5, <1>6

(***************************************************************************)
(* An applied command is on the disks of a majority of a group of three,   *)
(* in the log or in the snapshot: what matchIndex promises was persisted   *)
(* before the reply, and neither truncation nor a crash takes it back.     *)
(***************************************************************************)
THEOREM DecidedIsDurable ==
    ASSUME IsFiniteSet(Server), Cardinality(Server) <= 3
    PROVE  Spec => []DecidedOnQuorum
<1>1. Ground /\ ReplicationInv => DecidedOnQuorum
  <2> SUFFICES ASSUME Ground, ReplicationInv, NEW k \in 1 .. Len(decided)
               PROVE  Cardinality({j \in Server : OnDisk(j, k)}) >= Quorum
    BY DEF DecidedOnQuorum
  <2>1. Len(decided) \in Nat /\ Len(decided) > 0 /\ k \in Int
    <3>1. Len(decided) \in Nat
      BY LenProperties DEF Ground, TypeInv, TypeOK, TypeOfHistory, Commands
    <3> QED
      BY <3>1
  <2>2. PICK L, K : /\ Sure(L, K) /\ Len(decided) <= K
                    /\ decided[k] = EntryAt(L, k)
    BY <2>1 DEF ReplicationInv, CommitInv, DecidedSure
  <2>3. PICK A \in SUBSET Server : Cardinality(A) >= Quorum /\ Kept(L, K, A)
    BY <2>2 DEF Sure
  <2>4. K \in Int /\ k <= K
    <3>1. K \in Int
      BY <2>3, PointIs DEF Kept
    <3> QED
      BY <2>1, <2>2, <3>1
  <2>5. A \subseteq {j \in Server : OnDisk(j, k)}
    <3> SUFFICES ASSUME NEW a \in A PROVE OnDisk(a, k)
      OBVIOUS
    <3>1. Begins(L, K, Whole(a))
      BY <2>3 DEF Kept, HeldBy
    <3> QED
      BY <2>2, <2>4, <3>1, HeldOnDisk DEF Ground, ReplicationInv
  <2> DEFINE Q == {j \in Server : OnDisk(j, k)}
  <2>6. IsFiniteSet(Q)
    BY FS_Subset
  <2>7. /\ Cardinality(A) <= Cardinality(Q) /\ Cardinality(A) \in Nat
        /\ Cardinality(Q) \in Nat /\ Cardinality(Server) \in Nat
    BY <2>5, <2>6, FS_Subset, FS_CardinalityType
  <2>8. Quorum \in Int
    BY <2>7 DEF Quorum
  <2>9. Cardinality(A) >= Quorum
    BY <2>3
  <2> HIDE DEF Q
  <2>10. Cardinality(Q) >= Quorum
    BY <2>7, <2>8, <2>9
  <2> QED
    BY <2>10 DEF Q
<1>2. Spec => []ReplicationInv
  BY ReplicationInvariance
<1>3. Spec => []Ground
  BY GroundInvariance
<1> QED
  BY <1>1, <1>2, <1>3, PTL

(***************************************************************************)
(* Leader completeness: the leader of the newest term of a group of three  *)
(* has on its disk every command any service was ever handed, so it never  *)
(* makes a follower give one up.                                           *)
(***************************************************************************)
THEOREM LeadersAreComplete ==
    ASSUME IsFiniteSet(Server), Cardinality(Server) <= 3
    PROVE  Spec => []LeaderCompleteness
<1>1. Ground /\ ReplicationInv => LeaderCompleteness
  <2> SUFFICES ASSUME Ground, ReplicationInv, NEW i \in Server,
                      state[i] = Leader,
                      \A e \in elected : e[1] <= currentTerm[i],
                      NEW k \in 1 .. Len(decided)
               PROVE  OnDisk(i, k)
    BY DEF LeaderCompleteness
  <2>1. Len(decided) \in Nat /\ Len(decided) > 0 /\ k \in Int
    <3>1. Len(decided) \in Nat
      BY LenProperties DEF Ground, TypeInv, TypeOK, TypeOfHistory, Commands
    <3> QED
      BY <3>1
  <2>2. PICK L, K : /\ Sure(L, K) /\ Len(decided) <= K
                    /\ decided[k] = EntryAt(L, k)
    BY <2>1 DEF ReplicationInv, CommitInv, DecidedSure
  <2>3. PICK a \in Server : Begins(L, K, Whole(a))
    BY <2>2, SureIsHeld
  <2>4. Point(L, K) /\ LeadersHold(L, K)
    BY <2>2 DEF Sure, Kept
  <2>5. WholeLogs
    BY LogsAreWhole DEF ReplicationInv
  <2>6. K \in Nat /\ TermAt(L, K) \in Nat /\ currentTerm[i] \in Nat
    BY <2>4, <2>5, PointIs DEF WholeLogs
  <2>7. K \in Indices(Whole(a)) /\ TermAt(Whole(a), K) = TermAt(L, K)
    BY <2>3, <2>4, <2>5, HolderTerm
  <2>8. TermAt(L, K) <= currentTerm[i]
    <3>1. CASE TermAt(L, K) = 0
      BY <2>6, <3>1
    <3>2. CASE TermAt(L, K) > 0
      <4> DEFINE c == <<Whole(a), currentTerm[a]>>
      <4>1. c \in Full /\ c[1] = Whole(a)
        BY DEF Full, Stored
      <4> HIDE DEF c
      <4>2. PICK e \in elected : e[1] = TermAt(L, K)
        BY <2>7, <3>2, <4>1 DEF ReplicationInv, WholesInv, WholesElected
      <4> QED
        BY <4>2
    <3> QED
      BY <2>6, <3>1, <3>2
  <2>9. Begins(L, K, Whole(i))
    <3>1. currentTerm[i] >= TermAt(L, K)
      BY <2>6, <2>8
    <3> QED
      BY <2>4, <3>1 DEF LeadersHold
  <2>10. k <= K /\ K \in Int
    BY <2>1, <2>2, <2>6
  <2> QED
    BY <2>2, <2>9, <2>10, HeldOnDisk DEF Ground, ReplicationInv
<1>2. Spec => []ReplicationInv
  BY ReplicationInvariance
<1>3. Spec => []Ground
  BY GroundInvariance
<1> QED
  BY <1>1, <1>2, <1>3, PTL

(***************************************************************************)
(* Beyond its own snapshot a leader's matchIndex is the truth about every  *)
(* follower that still follows it: though replies come late and calls      *)
(* time out, no peer of a group of three is counted for an entry it does   *)
(* not hold.                                                               *)
(***************************************************************************)
THEOREM MatchIndexIsTrue ==
    ASSUME IsFiniteSet(Server), Cardinality(Server) <= 3
    PROVE  Spec => []MatchIndexSound
<1>1. TypeInv /\ ReplicationInv => MatchIndexSound
  <2> SUFFICES ASSUME TypeInv, ReplicationInv, NEW i \in Server, NEW j \in Server,
                      i # j, state[i] = Leader, currentTerm[j] = currentTerm[i],
                      NEW k \in snapshot[i].index + 1 .. matchIndex[i][j],
                      ~(k < log[j].base)
               PROVE  Agree(EntryAt(log[i], k), EntryAt(log[j], k), k = log[j].base)
    BY DEF MatchIndexSound
  <2> DEFINE p == matchIndex[i][j]
  <2>1. /\ p \in Int /\ snapshot[i].index = log[i].base
        /\ log[i].base \in Nat /\ log[j].base \in Nat
        /\ LastIndex(log[i]) \in Int /\ LastIndex(log[j]) \in Int
    <3>1. p \in Int
      BY DEF TypeInv, TypeOK, TypeOfLogs
    <3> QED
      BY <3>1, CommitTypes
  <2>2. LogsFit
    BY DEF ReplicationInv, WholesInv, SeamsMatch, LogsFit
  <2>3. /\ LastIndex(Whole(i)) = LastIndex(log[i])
        /\ LastIndex(Whole(j)) = LastIndex(log[j])
    BY <2>2, WholeIs
  <2>4. k \in Int /\ k > log[i].base /\ k >= 1 /\ k <= p /\ k >= log[j].base
        /\ p > snapshot[i].index
    BY <2>1
  <2>5. Begins(Whole(i), p, Whole(j)) /\ p <= LastIndex(Whole(i))
    BY <2>4 DEF ReplicationInv, AckInv, MatchAgrees, AckAgrees
  <2>6. p <= LastIndex(log[j]) /\ k \in 1 .. p
        /\ k \in Indices(log[i]) /\ k # log[i].base /\ k \in Indices(log[j])
    <3>1. p <= LastIndex(log[j]) /\ p <= LastIndex(log[i])
      BY <2>3, <2>5 DEF Begins
    <3> QED
      BY <2>1, <2>4, <3>1 DEF Indices
  <2>7. EntryAt(Whole(j), k) = EntryAt(Whole(i), k)
    BY <2>5, <2>6 DEF Begins
  <2>8. EntryAt(Whole(i), k) = EntryAt(log[i], k)
    BY <2>2, <2>6, WholeEntries
  <2>9. TermAt(Whole(j), k) = TermAt(log[j], k)
    BY <2>2, <2>6, WholeTerms
  <2>10. k # log[j].base => EntryAt(Whole(j), k) = EntryAt(log[j], k)
    BY <2>2, <2>6, WholeEntries
  <2> QED
    BY <2>7, <2>8, <2>9, <2>10 DEF Agree, TermAt
<1>2. Spec => []ReplicationInv
  BY ReplicationInvariance
<1> QED
  BY <1>1, <1>2, TypeInvariance, PTL

----------------------------------------------------------------------------
(* Raft implements the replicated log it promises.                         *)

LEMMA PrefixOfPromise ==
    ASSUME NEW s \in Seq(Entry), NEW t \in Seq(Entry), Len(s) <= Len(t),
           \A n \in 1 .. Len(s) : s[n] = t[n]
    PROVE  Promise!IsPrefix(s, t)
BY PrefixIs DEF IsPrefix, Promise!IsPrefix

LEMMA SureAgreeAfter ==
    (IsFiniteSet(Server) =>
        \A L, K, M, N : Sure(L, K) /\ Sure(M, N) =>
            \A n \in Int : 1 <= n /\ n <= K /\ n <= N =>
                EntryAt(L, n) = EntryAt(M, n))'
<1>1. IsFiniteSet(Server) =>
        \A L, K, M, N : Sure(L, K) /\ Sure(M, N) =>
            \A n \in Int : 1 <= n /\ n <= K /\ n <= N =>
                EntryAt(L, n) = EntryAt(M, n)
  BY SureAgree
<1> QED
  BY <1>1, PTL

LEMMA MachinesHoldDecidedAfter ==
    (IsFiniteSet(Server) /\ TypeInv /\ Aligned /\ CommitInv => MachinesHold)'
BY MachinesHoldDecided, PTL

(***************************************************************************)
(* What was decided is never replaced.                                     *)
(***************************************************************************)
LEMMA DecidedStays ==
    ASSUME IsFiniteSet(Server), Cardinality(Server) <= 3,
           Stepping, VoteInv, CommitInv, CommitInv', Aligned'
    PROVE  \A n \in 1 .. Len(decided) :
               n <= Len(decided') => decided'[n] = decided[n]
<1> SUFFICES ASSUME NEW n \in 1 .. Len(decided), n <= Len(decided')
             PROVE  decided'[n] = decided[n]
  OBVIOUS
<1>1. /\ Len(decided) \in Nat /\ Len(decided') \in Nat /\ n \in Int /\ 1 <= n
      /\ n <= Len(decided) /\ Len(decided) > 0 /\ Len(decided') > 0
      /\ n \in 1 .. Len(decided')
  <2>1. Len(decided) \in Nat /\ Len(decided') \in Nat
    BY DecidedTypes
  <2> QED
    BY <2>1
<1>2. PICK L, K : /\ Sure(L, K) /\ Len(decided) <= K
                  /\ decided[n] = EntryAt(L, n)
  BY <1>1 DEF CommitInv, DecidedSure
<1>3. PICK M, N : /\ Sure(M, N)' /\ Len(decided') <= N
                  /\ decided'[n] = EntryAt(M, n)
  BY <1>1 DEF CommitInv, DecidedSure
<1>4. Sure(L, K)' /\ Point(L, K)
  <2>1. Point(L, K)
    BY <1>2 DEF Sure, Kept
  <2> QED
    BY <1>2, <2>1, SureStep
<1>5. K \in Int
  BY <1>4, PointIs
<1>6. N \in Int
  <2>1. Point(M, N)
    BY <1>3 DEF Sure, Kept, Point
  <2> QED
    BY <2>1, PointIs
<1>7. n <= K /\ n <= N
  BY <1>1, <1>2, <1>3, <1>5, <1>6
<1>8. EntryAt(L, n) = EntryAt(M, n)
  BY <1>1, <1>3, <1>4, <1>7, SureAgreeAfter
<1> QED
  BY <1>2, <1>3, <1>8

LEMMA NextPromise ==
    ASSUME IsFiniteSet(Server), Cardinality(Server) <= 3,
           Stepping, VoteInv, CommitInv, CommitInv', Aligned'
    PROVE  [Promise!Next]_<<decided, machine>>
<1>1. MachinesHold /\ MachinesHold'
  BY MachinesHoldDecided, MachinesHoldDecidedAfter DEF Stepping, Ground
<1>2. CASE UNCHANGED <<machine, decided>>
  BY <1>2
<1>3. ASSUME NEW j \in Server, Hands(j) PROVE Promise!Next
  <2> DEFINE old == machine[j]
             new == machine'[j]
  <2>1. /\ old \in Seq(Entry) /\ new \in Seq(Entry)
        /\ decided \in Seq(Entry) /\ decided' \in Seq(Entry)
        /\ Len(old) \in Nat /\ Len(new) \in Nat
        /\ Len(decided) \in Nat /\ Len(decided') \in Nat
        /\ Len(old) = commitIndex[j] /\ Len(new) = commitIndex'[j]
    BY DecidedTypes
  <2>2. Len(old) <= Len(decided) /\ Len(new) <= Len(decided')
    BY <1>1, <2>1 DEF MachinesHold
  <2>3. /\ \A n \in 1 .. Len(old) : old[n] = decided[n]
        /\ \A n \in 1 .. Len(new) : new[n] = decided'[n]
    BY <1>1, <2>1 DEF MachinesHold
  <2>4. Promise!OnlyMachine(j)
    <3>1. machine' = [i \in Server |-> machine'[i]]
          /\ machine = [i \in Server |-> machine[i]]
      BY DecidedTypes
    <3>2. \A i \in Server \ {j} : machine'[i] = machine[i]
      BY <1>3 DEF Hands
    <3>3. machine' = [machine EXCEPT ![j] = machine'[j]]
      BY <3>1, <3>2
    <3> QED
      BY <3>3 DEF Promise!OnlyMachine
  <2>5. \A n \in 1 .. Len(decided) : n <= Len(decided') => decided'[n] = decided[n]
    BY DecidedStays
  <2>6. CASE decided' = decided
    <3>1. CASE Len(new) > Len(old)
      <4>1. \A n \in 1 .. Len(old) : old[n] = new[n]
        BY <2>1, <2>3, <2>6, <3>1
      <4>2. Promise!IsPrefix(old, new)
        <5>1. Len(old) <= Len(new)
          BY <2>1, <3>1
        <5> QED
          BY <2>1, <4>1, <5>1, PrefixOfPromise
      <4>3. Promise!IsPrefix(new, decided)
        <5>1. Len(new) <= Len(decided)
          BY <2>2, <2>6
        <5>2. \A n \in 1 .. Len(new) : new[n] = decided[n]
          BY <2>3, <2>6
        <5> QED
          BY <2>1, <5>1, <5>2, PrefixOfPromise
      <4>4. old # new
        BY <2>1, <3>1
      <4>5. Promise!CatchUp(j)
        BY <2>4, <2>6, <4>2, <4>3, <4>4 DEF Promise!CatchUp, Promise!IsStrictPrefix
      <4> QED
        BY <4>5 DEF Promise!Next
    <3>2. CASE Len(new) <= Len(old)
      <4>1. \A n \in 1 .. Len(new) : new[n] = old[n]
        BY <2>1, <2>3, <2>6, <3>2
      <4>2. Promise!IsPrefix(new, old)
        BY <2>1, <3>2, <4>1, PrefixOfPromise
      <4>3. Promise!Restart(j)
        BY <2>4, <2>6, <4>2 DEF Promise!Restart
      <4> QED
        BY <4>3 DEF Promise!Next
    <3> QED
      BY <2>1, <3>1, <3>2
  <2>7. CASE decided' = new /\ Len(new) > Len(decided)
    <3>1. Len(new) > Len(old)
      BY <2>1, <2>2, <2>7
    <3>2. \A n \in 1 .. Len(decided) : decided[n] = new[n]
      BY <2>1, <2>5, <2>7
    <3>3. \A n \in 1 .. Len(old) : old[n] = new[n]
      <4> TAKE n \in 1 .. Len(old)
      <4>1. n \in 1 .. Len(decided)
        BY <2>1, <2>2
      <4> QED
        BY <2>3, <3>2, <4>1
    <3>4. Promise!IsPrefix(old, new)
      <4>1. Len(old) <= Len(new)
        BY <2>1, <3>1
      <4> QED
        BY <2>1, <3>3, <4>1, PrefixOfPromise
    <3>5. Promise!IsPrefix(decided, new)
      <4>1. Len(decided) <= Len(new)
        BY <2>1, <2>7
      <4> QED
        BY <2>1, <3>2, <4>1, PrefixOfPromise
    <3>6. old # new /\ decided # new
      BY <2>1, <2>7, <3>1
    <3>7. Promise!Decide(j)
      BY <2>4, <2>7, <3>4, <3>5, <3>6 DEF Promise!Decide, Promise!IsStrictPrefix
    <3> QED
      BY <3>7 DEF Promise!Next
  <2> QED
    BY <1>3, <2>6, <2>7 DEF Hands, Decide
<1> QED
  BY <1>2, <1>3, NextHands

(***************************************************************************)
(* A group of three Raft peers implements the replicated log of its API:   *)
(* every step hands one service the next entries of one growing sequence,  *)
(* or takes one service back to a snapshot of it, or hands out nothing,    *)
(* whatever the peers, the network and the disks do meanwhile.             *)
(***************************************************************************)
THEOREM RaftImplementsReplicatedLog ==
    ASSUME IsFiniteSet(Server), Cardinality(Server) <= 3
    PROVE  Spec => ImplementsReplicatedLog
<1>1. Init => Promise!Init
  BY DEF Init, Promise!Init
<1>2. Ground /\ Ground' /\ ReplicationInv /\ ReplicationInv' /\ [Next]_vars
        => [Promise!Next]_<<decided, machine>>
  <2> SUFFICES ASSUME Ground, Ground', ReplicationInv, ReplicationInv',
                      [Next]_vars
               PROVE  [Promise!Next]_<<decided, machine>>
    OBVIOUS
  <2>1. Stepping
    BY DEF Stepping, ReplicationInv
  <2> QED
    BY <2>1, NextPromise DEF ReplicationInv
<1>3. Spec => []Ground
  BY GroundInvariance
<1>4. Spec => []ReplicationInv
  BY ReplicationInvariance
<1>5. Promise!logVars = <<decided, machine>>
  BY DEF Promise!logVars
<1> QED
  BY <1>1, <1>2, <1>3, <1>4, PTL
  DEF Spec, ImplementsReplicatedLog, Promise!Spec, Promise!logVars

----------------------------------------------------------------------------
(* Backtracking: what a rejection says of the follower's log leads the     *)
(* leader below the probe.                                                 *)

(***************************************************************************)
(* From index k on, entries of term t come without others in between.      *)
(***************************************************************************)
Unbroken(l, k, t) ==
    \A n, x \in Indices(l) :
        TermAt(l, n) = t /\ k <= x /\ x <= n => TermAt(l, x) = t

TermsUnbroken ==
    \A k, t : Holds(Full, k, t) => \A c \in Full : Unbroken(c[1], k, t)

LeadersReach ==
    \A i \in Server : state[i] = Leader =>
        /\ currentTerm[i] > 0
        /\ \A k : Holds(Full, k, currentTerm[i]) =>
               LastTerm(Whole(i)) = currentTerm[i]

TermsBegin == \A k : Holds(Full, k, 0) => k = 0

RunsInv ==
    /\ TermsUnbroken
    /\ LeadersReach
    /\ TermsBegin

LEMMA PartUnbroken ==
    ASSUME NEW l \in LogType, NEW c, PartOf(c, l), NEW k, NEW t, Unbroken(l, k, t)
    PROVE  Unbroken(c, k, t)
<1> SUFFICES ASSUME NEW n \in Indices(c), NEW x \in Indices(c),
                    TermAt(c, n) = t, k <= x, x <= n
             PROVE  TermAt(c, x) = t
  BY DEF Unbroken
<1>1. /\ n \in Indices(l) /\ TermAt(l, n) = t
      /\ x \in Indices(l) /\ TermAt(c, x) = TermAt(l, x)
  BY PartOfEntry
<1> QED
  BY <1>1 DEF Unbroken

LEMMA JoinedUnbroken ==
    ASSUME NEW l \in LogType, NEW s \in LogType, NEW r, Joined(r, l, s),
           NEW k \in Int, NEW t, Unbroken(l, k, t), Unbroken(s, k, t)
    PROVE  Unbroken(r, k, t)
<1> SUFFICES ASSUME NEW n \in Indices(r), NEW x \in Indices(r),
                    TermAt(r, n) = t, k <= x, x <= n
             PROVE  TermAt(r, x) = t
  BY DEF Unbroken
<1>1. r \in LogType
  BY DEF Joined
<1>2. PICK p \in Indices(l) \cap Indices(s) :
          /\ TermAt(l, p) = TermAt(s, p)
          /\ \A m \in Indices(r) :
                 /\ m <= p => m \in Indices(l) /\ EntryAt(r, m) = EntryAt(l, m)
                 /\ m > p => m \in Indices(s) /\ EntryAt(r, m) = EntryAt(s, m)
  BY DEF Joined
<1>3. n \in Int /\ x \in Int /\ p \in Int
  BY <1>1, <1>2, EntryOfLog
<1>4. \A m \in Indices(r) :
          /\ m <= p => m \in Indices(l) /\ TermAt(r, m) = TermAt(l, m)
          /\ m > p => m \in Indices(s) /\ TermAt(r, m) = TermAt(s, m)
  BY <1>2 DEF TermAt
<1>5. CASE n <= p
  <2>1. x <= p
    BY <1>3, <1>5
  <2>2. /\ n \in Indices(l) /\ TermAt(l, n) = t
        /\ x \in Indices(l) /\ TermAt(r, x) = TermAt(l, x)
    BY <1>4, <1>5, <2>1
  <2> QED
    BY <2>2 DEF Unbroken
<1>6. CASE n > p /\ x > p
  <2>1. /\ n \in Indices(s) /\ TermAt(s, n) = t
        /\ x \in Indices(s) /\ TermAt(r, x) = TermAt(s, x)
    BY <1>4, <1>6
  <2> QED
    BY <2>1 DEF Unbroken
<1>7. CASE n > p /\ x <= p
  <2>1. /\ n \in Indices(s) /\ TermAt(s, n) = t
        /\ x \in Indices(l) /\ TermAt(r, x) = TermAt(l, x)
    BY <1>4, <1>7
  <2>2. p \in Indices(s) /\ k <= p /\ p <= n
    BY <1>2, <1>3, <1>7
  <2>3. TermAt(s, p) = t
    BY <2>1, <2>2 DEF Unbroken
  <2>4. p \in Indices(l) /\ TermAt(l, p) = t
    BY <1>2, <2>3
  <2> QED
    BY <1>7, <2>1, <2>4 DEF Unbroken
<1> QED
  BY <1>3, <1>5, <1>6, <1>7

LEMMA AppendedUnbroken ==
    ASSUME NEW l \in LogType, LastIndex(l) >= l.base, NEW e \in Entry,
           NEW k \in Int, NEW t, Unbroken(l, k, t),
           t = e.term => LastTerm(l) = t
    PROVE  Unbroken(AppendEntry(l, e), k, t)
<1> DEFINE r == AppendEntry(l, e)
<1>1. /\ r \in LogType /\ r.base = l.base /\ LastIndex(r) = LastIndex(l) + 1
      /\ \A m \in Indices(r) : EntryAt(r, m) =
             IF m = LastIndex(l) + 1 THEN e ELSE EntryAt(l, m)
  BY AppendEntryAt
<1>2. LastIndex(l) \in Int /\ l.base \in Nat /\ LastIndex(l) \in Indices(l)
  BY LogIndices DEF Indices
<1> HIDE DEF r
<1>3. ASSUME NEW m \in Indices(r)
      PROVE  /\ m \in Int
             /\ m = LastIndex(l) + 1 => TermAt(r, m) = e.term
             /\ m # LastIndex(l) + 1 =>
                    /\ m \in Indices(l) /\ m <= LastIndex(l)
                    /\ TermAt(r, m) = TermAt(l, m)
  <2>1. m \in Int /\ m >= r.base /\ m <= LastIndex(r)
    BY <1>1, EntryOfLog
  <2>2. m # LastIndex(l) + 1 => m \in Indices(l) /\ m <= LastIndex(l)
    BY <1>1, <1>2, <2>1 DEF Indices
  <2> QED
    BY <1>1, <2>1, <2>2 DEF TermAt
<1>4. ASSUME NEW n \in Indices(r), NEW x \in Indices(r),
             TermAt(r, n) = t, k <= x, x <= n
      PROVE  TermAt(r, x) = t
  <2>1. CASE x = LastIndex(l) + 1
    <3>1. n = LastIndex(l) + 1
      BY <1>2, <1>3, <1>4, <2>1
    <3> QED
      BY <1>4, <2>1, <3>1
  <2>2. CASE x # LastIndex(l) + 1 /\ n # LastIndex(l) + 1
    BY <1>3, <1>4, <2>2 DEF Unbroken
  <2>3. CASE x # LastIndex(l) + 1 /\ n = LastIndex(l) + 1
    <3>1. t = e.term
      BY <1>3, <1>4, <2>3
    <3>2. TermAt(l, LastIndex(l)) = t
      BY <3>1 DEF LastTerm
    <3>3. /\ x \in Indices(l) /\ x <= LastIndex(l)
          /\ TermAt(r, x) = TermAt(l, x)
      BY <1>3, <2>3
    <3> QED
      BY <1>2, <1>4, <3>2, <3>3 DEF Unbroken
  <2> QED
    BY <2>1, <2>2, <2>3
<1>5. Unbroken(r, k, t)
  BY <1>4 DEF Unbroken
<1> QED
  BY <1>5 DEF r

LEMMA HeldIndex ==
    ASSUME Consistent(Full), NEW k, NEW t, Holds(Full, k, t)
    PROVE  k \in Int
<1>1. PICK c \in Full : k \in Indices(c[1])
  BY DEF Holds
<1>2. c[1] \in LogType
  BY <1>1 DEF Consistent, WellFormed
<1> QED
  BY <1>1, <1>2, EntryOfLog

(***************************************************************************)
(* Who accepts a command in the term of a leader is that leader.           *)
(***************************************************************************)
LEMMA AcceptedByLeader ==
    ASSUME RoleInv, ElectionSafety, NEW i \in Server, state[i] = Leader,
           NEW k, Accepted(k, currentTerm[i])
    PROVE  Grows(i) /\ k = LastIndex(Whole(i)) + 1
<1>1. PICK j \in Server : /\ Grows(j) /\ k = LastIndex(Whole(j)) + 1
                          /\ currentTerm[i] = currentTerm[j]
  BY DEF Accepted
<1>2. /\ <<currentTerm[i], i>> \in elected
      /\ <<currentTerm[i], j>> \in elected
  BY <1>1 DEF Grows, RoleInv, LeadersElected
<1>3. i = j
  BY <1>2 DEF ElectionSafety
<1> QED
  BY <1>1, <1>3

LEMMA NextFullHolds ==
    ASSUME Stepping
    PROVE  /\ Consistent(Full) /\ Consistent(Full')
           /\ \A k, t : Holds(Full', k, t) => Holds(Full, k, t) \/ Accepted(k, t)
BY NextFull DEF Stepping, Ground, TypeInv, WholesInv

(***************************************************************************)
(* A run that was begun goes on unbroken in every log.                     *)
(***************************************************************************)
LEMMA RunsGoOn ==
    ASSUME Stepping, RunsInv, NEW k, NEW t, Holds(Full, k, t)
    PROVE  /\ \A i \in Server : Unbroken(Whole(i)', k, t)
           /\ \A c \in Moving' : Unbroken(c[1], k, t)
<1>1. /\ k \in Int /\ WholesStep /\ MovingLogs
      /\ \A c \in Full : Unbroken(c[1], k, t)
  BY NextFullHolds, HeldIndex, SteppingLogs DEF RunsInv, TermsUnbroken
<1>2. ASSUME NEW i \in Server
      PROVE  /\ Whole(i) \in LogType /\ LastIndex(Whole(i)) >= Whole(i).base
             /\ Unbroken(Whole(i), k, t)
  <2> DEFINE c == <<Whole(i), currentTerm[i]>>
  <2>1. c \in Full /\ c[1] = Whole(i)
    BY DEF Full, Stored
  <2> HIDE DEF c
  <2>2. Unbroken(Whole(i), k, t)
    BY <1>1, <2>1
  <2> QED
    BY <2>2, WholeIsFull, NextFullHolds
<1>3. ASSUME NEW i \in Server, Grows(i)
      PROVE  Unbroken(Whole(i)', k, t)
  <2>1. PICK e \in Entry : /\ e.term = currentTerm[i]
                           /\ Whole(i)' = AppendEntry(Whole(i), e)
    BY <1>3 DEF Grows
  <2>2. t = e.term => LastTerm(Whole(i)) = t
    BY <1>3, <2>1 DEF Grows, RunsInv, LeadersReach
  <2>3. PICK w : w = Whole(i)
    OBVIOUS
  <2>4. Unbroken(AppendEntry(w, e), k, t)
    BY <1>1, <1>2, <2>2, <2>3, AppendedUnbroken
  <2> QED
    BY <2>1, <2>3, <2>4
<1>4. ASSUME NEW i \in Server, NEW c \in Moving, Takes(i, c)
      PROVE  Unbroken(Whole(i)', k, t)
  <2>1. c \in Full /\ Joined(Whole(i)', Whole(i), c[1]) /\ c[1] \in LogType
    BY <1>1, <1>4 DEF Takes, Full, MovingLogs
  <2>2. PICK w, s, r : w = Whole(i) /\ s = c[1] /\ r = Whole(i)'
    OBVIOUS
  <2>3. Unbroken(r, k, t)
    BY <1>1, <1>2, <2>1, <2>2, JoinedUnbroken
  <2> QED
    BY <2>2, <2>3
<1>5. ASSUME NEW i \in Server
      PROVE  Unbroken(Whole(i)', k, t)
  <2>1. CASE Whole(i)' = Whole(i)
    BY <1>2, <2>1
  <2>2. ASSUME NEW j \in Server, OthersStay(j),
               Grows(j) \/ \E c \in Moving : Takes(j, c)
        PROVE  Unbroken(Whole(i)', k, t)
    <3>1. CASE i = j
      BY <1>3, <1>4, <2>2, <3>1
    <3>2. CASE i # j
      BY <2>1, <2>2, <3>2 DEF OthersStay
    <3> QED
      BY <3>1, <3>2
  <2> QED
    BY <1>1, <2>1, <2>2 DEF WholesStep
<1>6. ASSUME NEW c \in Moving'
      PROVE  Unbroken(c[1], k, t)
  <2>1. CASE c \in Moving
    BY <1>1, <2>1 DEF Full
  <2>2. ASSUME NEW i \in Server, Sends(i, c)
        PROVE  Unbroken(c[1], k, t)
    <3>1. PICK w : w = Whole(i)
      OBVIOUS
    <3>2. w \in LogType /\ PartOf(c[1], w) /\ Unbroken(w, k, t)
      BY <1>2, <2>2, <3>1 DEF Sends
    <3> QED
      BY <3>2, PartUnbroken
  <2>3. c \in Moving \/ \E i \in Server : Sends(i, c)
    BY NextMoving DEF Stepping, Ground, TypeInv, WholesInv
  <2> QED
    BY <2>1, <2>2, <2>3
<1> QED
  BY <1>5, <1>6

LEMMA NextTermsUnbroken ==
    ASSUME Stepping, RunsInv
    PROVE  TermsUnbroken'
<1> SUFFICES ASSUME NEW k, NEW t, Holds(Full', k, t), NEW c \in Full'
             PROVE  Unbroken(c[1], k, t)
  BY DEF TermsUnbroken, Holds
<1>1. Holds(Full, k, t) \/ Accepted(k, t)
  BY NextFullHolds
<1>2. CASE Holds(Full, k, t)
  <2>1. CASE c \in Moving'
    BY <1>2, <2>1, RunsGoOn
  <2>2. CASE c \notin Moving'
    <3>1. PICK i \in Server : c = <<Whole(i)', currentTerm'[i]>>
      BY <2>2 DEF Full, Stored
    <3>2. c[1] = Whole(i)'
      BY <3>1
    <3> QED
      BY <1>2, <3>2, RunsGoOn
  <2> QED
    BY <2>1, <2>2
<1>3. CASE Accepted(k, t)
  <2>1. PICK i \in Server : Grows(i) /\ k = LastIndex(Whole(i)) + 1
                              /\ t = currentTerm[i]
    BY <1>3 DEF Accepted
  <2>2. state[i] = Leader /\ LastIndex(Whole(i)) \in Nat
    <3>1. LogsFit
      BY DEF Stepping, WholesInv, SeamsMatch, LogsFit
    <3> QED
      BY <2>1, <3>1, WholeIs DEF Grows
  <2>3. c[1] \in LogType
    BY NextFullHolds DEF Consistent, WellFormed
  <2>4. ASSUME NEW n \in Indices(c[1]), NEW x \in Indices(c[1]),
               TermAt(c[1], n) = t, k <= x, x <= n
        PROVE  TermAt(c[1], x) = t
    <3>1. Holds(Full', n, t)
      BY <2>4 DEF Holds
    <3>2. n \in Int /\ x \in Int
      BY <2>3, EntryOfLog
    <3>3. n <= k
      <4>1. CASE Holds(Full, n, t)
        <5>1. n <= LastIndex(Whole(i))
          BY <2>1, <2>2, <4>1, WholesHold DEF Stepping, WholesInv
        <5> QED
          BY <2>1, <2>2, <3>2, <5>1
      <4>2. CASE Accepted(n, t)
        <5>1. n = k
          BY <2>1, <2>2, <4>2, AcceptedByLeader DEF Stepping, Ground
        <5> QED
          BY <3>2, <5>1
      <4> QED
        BY <3>1, <4>1, <4>2, NextFullHolds
    <3>4. k \in Int
      BY <2>1, <2>2
    <3>5. x = n
      BY <2>4, <3>2, <3>3, <3>4
    <3> QED
      BY <2>4, <3>5
  <2> QED
    BY <2>4 DEF Unbroken
<1> QED
  BY <1>1, <1>2, <1>3

LEMMA NextLeadersReach ==
    ASSUME Stepping, RunsInv
    PROVE  LeadersReach'
<1> SUFFICES ASSUME NEW i \in Server, state'[i] = Leader
             PROVE  /\ currentTerm'[i] > 0
                    /\ \A k : Holds(Full', k, currentTerm'[i]) =>
                           LastTerm(Whole(i)') = currentTerm'[i]
  BY DEF LeadersReach, Holds
<1>1. CASE JustElected(i)
  <2>1. /\ state[i] = Candidate /\ currentTerm'[i] = currentTerm[i]
        /\ \A e \in elected : e[1] # currentTerm[i]
        /\ \A j \in Server : state[j] = Leader => currentTerm[j] # currentTerm[i]
    BY <1>1, FreshTerm DEF JustElected, Stepping, Ground, TypeInv
  <2>2. currentTerm[i] > 0
    BY <2>1 DEF Stepping, Ground, RoleInv, LeadersElected
  <2>3. ASSUME NEW k, Holds(Full', k, currentTerm[i]) PROVE FALSE
    <3>1. ~Holds(Full, k, currentTerm[i])
      BY <2>1, <2>2, WholesHold DEF Stepping, WholesInv
    <3>2. ~Accepted(k, currentTerm[i])
      BY <2>1 DEF Accepted, Grows
    <3> QED
      BY <2>3, <3>1, <3>2, NextFullHolds
  <2> QED
    BY <2>1, <2>2, <2>3
<1>2. CASE LeadsOn(i)
  <2>1. /\ state[i] = Leader /\ currentTerm'[i] = currentTerm[i]
        /\ currentTerm[i] > 0
    BY <1>2 DEF LeadsOn, RunsInv, LeadersReach
  <2>2. CASE Grows(i)
    <3>1. PICK e \in Entry : /\ e.term = currentTerm[i]
                             /\ Whole(i)' = AppendEntry(Whole(i), e)
      BY <2>2 DEF Grows
    <3>2. PICK w : w = Whole(i)
      OBVIOUS
    <3>3. w \in LogType /\ LastIndex(w) >= w.base
      BY <3>2, NextFullHolds, WholeIsFull
    <3>4. LastTerm(AppendEntry(w, e)) = e.term
      <4> DEFINE r == AppendEntry(w, e)
      <4>1. /\ r \in LogType /\ r.base = w.base
            /\ LastIndex(r) = LastIndex(w) + 1
            /\ \A k \in Indices(r) : EntryAt(r, k) =
                   IF k = LastIndex(w) + 1 THEN e ELSE EntryAt(w, k)
        BY <3>3, AppendEntryAt
      <4>2. w.base \in Nat /\ LastIndex(w) \in Int
        BY <3>3, LogIndices
      <4> HIDE DEF r
      <4>3. LastIndex(r) \in Indices(r)
        BY <3>3, <4>1, <4>2 DEF Indices
      <4>4. EntryAt(r, LastIndex(r)) = e
        BY <4>1, <4>3
      <4>5. LastTerm(r) = e.term
        BY <4>4 DEF LastTerm, TermAt
      <4> QED
        BY <4>5 DEF r
    <3> QED
      BY <2>1, <3>1, <3>2, <3>4
  <2>3. CASE ~Grows(i)
    <3>1. Whole(i)' = Whole(i)
      BY <2>1, <2>3, LeaderTakesNothing DEF Stepping, Ground, TypeInv
    <3>2. ASSUME NEW k, Holds(Full', k, currentTerm[i])
          PROVE  LastTerm(Whole(i)) = currentTerm[i]
      <4>1. ~Accepted(k, currentTerm[i])
        BY <2>1, <2>3, AcceptedByLeader DEF Stepping, Ground
      <4>2. Holds(Full, k, currentTerm[i])
        BY <3>2, <4>1, NextFullHolds
      <4> QED
        BY <2>1, <4>2 DEF RunsInv, LeadersReach
    <3> QED
      BY <2>1, <3>1, <3>2
  <2> QED
    BY <2>2, <2>3
<1> QED
  BY <1>1, <1>2, NextLeader DEF Stepping, Ground, TypeInv

LEMMA NextTermsBegin ==
    ASSUME Stepping, RunsInv
    PROVE  TermsBegin'
<1> SUFFICES ASSUME NEW k, Holds(Full', k, 0) PROVE k = 0
  BY DEF TermsBegin, Holds
<1>1. ~Accepted(k, 0)
  BY DEF Accepted, Grows, RunsInv, LeadersReach
<1>2. Holds(Full, k, 0)
  BY <1>1, NextFullHolds
<1> QED
  BY <1>2 DEF RunsInv, TermsBegin

LEMMA NextRunsInv ==
    ASSUME Stepping, RunsInv
    PROVE  RunsInv'
BY NextTermsUnbroken, NextLeadersReach, NextTermsBegin DEF RunsInv

(***************************************************************************)
(* What a rejection tells the leader that waits for it: the follower's log *)
(* ends before the probe, or the term it has there is one the leader's log *)
(* has left behind, and not the term of the first entry of all.            *)
(***************************************************************************)
Rejects(r) == ~r.success /\ r.term <= r.asked /\ Leads(r.to, r.asked)

LeftBehind(i, p, t) ==
    /\ t # currentTerm[i]
    /\ \A n \in Indices(Whole(i)) : n >= p => TermAt(Whole(i), n) # t

RejectionsTrue ==
    \A r \in appendReplies : Rejects(r) =>
        /\ r.logLength >= 1
        /\ r.prevIndex < r.logLength /\ r.conflictTerm # -1 =>
               r.conflictStart >= 1 /\ LeftBehind(r.to, r.prevIndex, r.conflictTerm)

LEMMA LeftBehindStep ==
    ASSUME Stepping, NEW i \in Server, state[i] = Leader,
           currentTerm'[i] = currentTerm[i], NEW p, NEW t, LeftBehind(i, p, t)
    PROVE  LeftBehind(i, p, t)'
<1>1. t # currentTerm'[i]
  BY DEF LeftBehind
<1>2. CASE Whole(i)' = Whole(i)
  BY <1>1, <1>2 DEF LeftBehind
<1>3. CASE Grows(i)
  <2>1. PICK e \in Entry : /\ e.term = currentTerm[i]
                           /\ Whole(i)' = AppendEntry(Whole(i), e)
    BY <1>3 DEF Grows
  <2>2. PICK w, r : w = Whole(i) /\ r = Whole(i)'
    OBVIOUS
  <2>3. w \in LogType /\ LastIndex(w) >= w.base
    BY <2>2, NextFullHolds, WholeIsFull
  <2>4. /\ r \in LogType /\ r.base = w.base /\ LastIndex(r) = LastIndex(w) + 1
        /\ \A n \in Indices(r) : EntryAt(r, n) =
               IF n = LastIndex(w) + 1 THEN e ELSE EntryAt(w, n)
    BY <2>1, <2>2, <2>3, AppendEntryAt
  <2>5. LastIndex(w) \in Int /\ w.base \in Nat
    BY <2>3, LogIndices
  <2>6. ASSUME NEW n \in Indices(r), n >= p
        PROVE  TermAt(r, n) # t
    <3>1. CASE n = LastIndex(w) + 1
      <4>1. TermAt(r, n) = currentTerm[i]
        BY <2>1, <2>4, <3>1 DEF TermAt
      <4> QED
        BY <4>1 DEF LeftBehind
    <3>2. CASE n # LastIndex(w) + 1
      <4>1. n \in Int /\ n >= r.base /\ n <= LastIndex(r)
        BY <2>4, EntryOfLog
      <4>2. n \in Indices(w) /\ TermAt(r, n) = TermAt(w, n)
        BY <2>4, <2>5, <3>2, <4>1 DEF Indices, TermAt
      <4> QED
        BY <2>2, <2>6, <4>2 DEF LeftBehind
    <3> QED
      BY <3>1, <3>2
  <2> QED
    BY <1>1, <2>2, <2>6 DEF LeftBehind
<1> QED
  BY <1>2, <1>3, LeaderTakesNothing DEF Stepping, Ground, TypeInv

LEMMA TermStartHolds ==
    ASSUME NEW l \in LogType, NEW k \in Indices(l)
    PROVE  LET s == TermStart(l, TermAt(l, k)) IN
           s \in Indices(l) /\ TermAt(l, s) = TermAt(l, k)
<1> DEFINE t == TermAt(l, k)
           S == IndicesOfTerm(l, t)
<1>1. S # {} /\ S \subseteq Int /\ \E b \in Int : \A n \in S : b <= n
  <2>1. l.base \in Int /\ LastIndex(l) \in Int
    BY LogIndices
  <2>2. k \in S /\ \A n \in S : n \in Int /\ l.base <= n
    BY <2>1 DEF IndicesOfTerm, Indices
  <2> QED
    BY <2>1, <2>2
<1> HIDE DEF S
<1>2. \E m \in S : \A n \in S : m <= n
  BY <1>1, LeastElement
<1>3. TermStart(l, t) = CHOOSE m \in S : \A n \in S : m <= n
  BY <1>1 DEF TermStart, S
<1>4. TermStart(l, t) \in S
  BY <1>2, <1>3
<1> QED
  BY <1>4 DEF S, IndicesOfTerm

LEMMA TermEndHolds ==
    ASSUME NEW l \in LogType, NEW t, TermStart(l, t) # -1
    PROVE  TermEnd(l, t) \in Indices(l) /\ TermAt(l, TermEnd(l, t)) = t
<1> DEFINE S == IndicesOfTerm(l, t)
<1>1. S # {} /\ S \subseteq Int /\ \E b \in Int : \A n \in S : n <= b
  <2>1. l.base \in Int /\ LastIndex(l) \in Int
    BY LogIndices
  <2>2. S # {} /\ \A n \in S : n \in Int /\ n <= LastIndex(l)
    BY <2>1 DEF IndicesOfTerm, Indices, TermStart
  <2> QED
    BY <2>1, <2>2
<1> HIDE DEF S
<1>2. \E m \in S : \A n \in S : n <= m
  BY <1>1, GreatestElement
<1>3. TermEnd(l, t) = CHOOSE m \in S : \A n \in S : n <= m
  BY <1>1 DEF TermEnd, S
<1>4. TermEnd(l, t) \in S
  BY <1>2, <1>3
<1> QED
  BY <1>4 DEF S, IndicesOfTerm

(***************************************************************************)
(* The follower's answer when the prefix check fails.                      *)
(***************************************************************************)
LEMMA NewRejection ==
    ASSUME Stepping, RunsInv, NEW m \in appendRequests, HandleAppendEntries(m),
           ~(m.term < currentTerm[m.to]), ~Matches(log[m.to], m),
           Leads(m.from, m.term)',
           NEW t, t = TermAt(log[m.to], m.prevIndex)
    PROVE  /\ LogLength(log[m.to]) >= 1
           /\ t # -1 => /\ TermStart(log[m.to], t) >= 1
                        /\ LeftBehind(m.from, m.prevIndex, t)'
<1> DEFINE i == m.from
           j == m.to
           p == m.prevIndex
           l == log[j]
<1>1. /\ i \in Server /\ j \in Server /\ m.term \in Nat /\ m.prevTerm \in Int
      /\ m.entries \in Seq(Entry) /\ l \in LogType
  BY DEF Stepping, Ground, TypeInv, TypeOK, TypeOfNet, AppendRequest, TypeOfLogs
<1>2. state[i] = Leader /\ currentTerm[i] = m.term /\ currentTerm'[i] = m.term
  <2>1. <<m.term, i>> \in elected
    BY DEF Stepping, Ground, RoleInv, CallersElected
  <2>2. state'[i] = Leader /\ currentTerm'[i] = m.term
    BY DEF Leads
  <2> QED
    BY <1>1, <2>1, <2>2, CallerLeadsOn DEF Stepping, Ground, TypeInv, Leads
<1>3. PICK v, w : v = Whole(j) /\ w = Whole(i)
  OBVIOUS
<1>4. w = Whole(i)'
  <2>1. log' = log /\ snapshot' = snapshot
    BY DEF HandleAppendEntries
  <2> QED
    BY <1>3, <2>1 DEF Whole
<1>5. /\ Rooted(v) /\ Rooted(w) /\ LastIndex(v) = LastIndex(l)
      /\ \A n \in Indices(l) : n \in Indices(v) /\ TermAt(v, n) = TermAt(l, n)
  <2>1. LogsFit
    BY DEF Stepping, WholesInv, SeamsMatch, LogsFit
  <2> QED
    BY <1>1, <1>3, <2>1, SteppingLogs, WholeTerms DEF WholeLogs
<1>6. PartOf(Sent(m), w)
  <2> DEFINE c == <<Sent(m), m.term>>
  <2>1. c \in Moving /\ c[1] = Sent(m) /\ c[2] = m.term
    BY DEF Moving
  <2> HIDE DEF c
  <2> QED
    BY <1>1, <1>2, <1>3, <2>1 DEF Stepping, WholesInv, MovingFromLeader
<1>7. p \in Nat
  <2>1. Sent(m) \in LogType
    BY <1>6 DEF PartOf
  <2> QED
    BY <2>1 DEF LogType, Sent, Segment
<1>8. p \in Indices(w) /\ TermAt(w, p) = m.prevTerm
  <2>1. p \in Indices(Sent(m)) /\ TermAt(Sent(m), p) = m.prevTerm
    BY <1>1, <1>7, SegmentAt DEF Sent, TermAt
  <2>2. w \in LogType
    BY <1>5 DEF Rooted
  <2> QED
    BY <1>6, <2>1, <2>2, PartOfEntry
<1>9. t # m.prevTerm
  BY DEF Matches
<1>10. LogLength(l) >= 1
  <2>1. LastIndex(l) \in Nat
    BY <1>5, RootedIndices
  <2>2. LogLength(l) = LastIndex(l) + 1
    <3>1. Len(l.entries) \in Nat /\ l.base \in Nat
      BY <1>1, LogIndices
    <3> QED
      BY <3>1 DEF LogLength, LastIndex
  <2> QED
    BY <2>1, <2>2
<1>11. ASSUME t # -1
       PROVE  TermStart(l, t) >= 1 /\ LeftBehind(i, p, t)'
  <2>1. p \in Indices(l)
    BY <1>11 DEF TermAt, EntryAt, Missing
  <2>2. p \in Indices(v) /\ TermAt(v, p) = t
    BY <1>5, <2>1
  <2>3. Holds(Full, p, t)
    <3> DEFINE c == <<v, currentTerm[j]>>
    <3>1. c \in Full /\ c[1] = v
      BY <1>1, <1>3 DEF Full, Stored
    <3> HIDE DEF c
    <3> QED
      BY <2>2, <3>1 DEF Holds
  <2>4. Unbroken(w, p, t)
    <3> DEFINE c == <<w, currentTerm[i]>>
    <3>1. c \in Full /\ c[1] = w
      BY <1>1, <1>3 DEF Full, Stored
    <3> HIDE DEF c
    <3> QED
      BY <2>3, <3>1 DEF RunsInv, TermsUnbroken
  <2>5. \A n \in Indices(w) : n >= p => TermAt(w, n) # t
    <3> SUFFICES ASSUME NEW n \in Indices(w), n >= p, TermAt(w, n) = t
                 PROVE  FALSE
      OBVIOUS
    <3>1. p <= p /\ p <= n
      <4>1. n \in Int
        BY <1>5, EntryOfLog DEF Rooted
      <4> QED
        BY <1>7, <4>1
    <3>2. TermAt(w, p) = t
      BY <1>8, <2>4, <3>1 DEF Unbroken
    <3> QED
      BY <1>8, <1>9, <3>2
  <2>6. t # m.term
    <3> SUFFICES ASSUME t = m.term PROVE FALSE
      OBVIOUS
    <3>1. TermAt(w, LastIndex(w)) = t
      BY <1>1, <1>2, <1>3, <2>3 DEF RunsInv, LeadersReach, LastTerm
    <3>2. LastIndex(w) \in Indices(w) /\ LastIndex(w) >= p
      <4>1. LastIndex(w) \in Nat /\ Indices(w) = 0 .. LastIndex(w)
        BY <1>5, RootedIndices
      <4> QED
        BY <1>7, <1>8, <4>1
    <3> QED
      BY <2>5, <3>1, <3>2
  <2>7. TermStart(l, t) >= 1
    <3> DEFINE s == TermStart(l, t)
    <3>1. s \in Indices(l) /\ TermAt(l, s) = t
      BY <1>1, <2>1, TermStartHolds
    <3> HIDE DEF s
    <3>2. s \in Indices(v) /\ TermAt(v, s) = t
      BY <1>5, <3>1
    <3>3. s \in Nat
      BY <1>5, <3>2, RootedIndices
    <3>4. CASE s = 0
      <4>1. t = 0
        BY <1>5, <3>2, <3>4, RootedIndices
      <4>2. p = 0
        BY <2>3, <4>1 DEF RunsInv, TermsBegin
      <4>3. TermAt(w, p) = 0
        BY <1>5, <4>2, RootedIndices
      <4> QED
        BY <1>8, <1>9, <4>1, <4>3
    <3>5. CASE s # 0
      BY <3>3, <3>5 DEF s
    <3> QED
      BY <3>4, <3>5
  <2>8. LeftBehind(i, p, t)'
    BY <1>2, <1>4, <2>5, <2>6 DEF LeftBehind
  <2> QED
    BY <2>7, <2>8
<1> QED
  BY <1>10, <1>11

LEMMA NextRejectionsTrue ==
    ASSUME Stepping, RunsInv, RejectionsTrue
    PROVE  RejectionsTrue'
<1> SUFFICES ASSUME NEW r \in appendReplies', Rejects(r)'
             PROVE  /\ r.logLength >= 1
                    /\ r.prevIndex < r.logLength /\ r.conflictTerm # -1 =>
                           /\ r.conflictStart >= 1
                           /\ LeftBehind(r.to, r.prevIndex, r.conflictTerm)'
  BY DEF RejectionsTrue
<1>1. /\ r.to \in Server /\ ~r.success /\ r.term <= r.asked
      /\ state'[r.to] = Leader /\ currentTerm'[r.to] = r.asked
  BY DEF Stepping, Ground, TypeInv, TypeOK, TypeOfNet, AppendReplyType,
         Rejects, Leads
<1>2. CASE r \in appendReplies
  <2>1. <<r.asked, r.to>> \in elected
    BY <1>2 DEF Stepping, Ground, RoleInv, CallersElected
  <2>2. Leads(r.to, r.asked)
    BY <1>1, <2>1, CallerLeadsOn DEF Stepping, Ground, TypeInv
  <2>3. Rejects(r) /\ state[r.to] = Leader
        /\ currentTerm'[r.to] = currentTerm[r.to]
    BY <1>1, <2>2 DEF Rejects, Leads
  <2> QED
    BY <1>1, <1>2, <2>3, LeftBehindStep DEF RejectionsTrue
<1>3. CASE r \notin appendReplies
  <2>1. PICK m \in appendRequests :
            /\ HandleAppendEntries(m)
            /\ r = AppendReply(m.to, m, /\ ~(m.term < currentTerm[m.to])
                                        /\ ~Matches(log[m.to], m))
    BY <1>3, RepliesToRequests DEF Stepping, RepliesAnswer
  <2>2. /\ r.to = m.from /\ r.asked = m.term /\ r.term = currentTerm'[m.to]
        /\ r.prevIndex = m.prevIndex
        /\ r.success <=> /\ m.term = currentTerm'[m.to]
                         /\ m.term < currentTerm[m.to] \/ Matches(log[m.to], m)
    BY <2>1 DEF AppendReply
  <2>3. /\ m.to \in Server /\ m.term \in Nat
        /\ currentTerm[m.to] \in Nat /\ currentTerm'[m.to] \in Nat
    BY DEF Stepping, Ground, TypeInv, TypeOK, TypeOfNet, AppendRequest,
           TypeOfElections
  <2>4. currentTerm'[m.to] >= m.term /\ currentTerm'[m.to] >= currentTerm[m.to]
    <3>1. currentTerm \in [Server -> Nat]
      BY DEF Stepping, Ground, TypeInv, TypeOK, TypeOfElections
    <3>2. Follow(m.to, m)
      BY <2>1 DEF HandleAppendEntries
    <3> QED
      BY <2>3, <3>1, <3>2 DEF Follow, Newer
  <2>5. ~(m.term < currentTerm[m.to]) /\ ~Matches(log[m.to], m)
    BY <1>1, <2>2, <2>3, <2>4
  <2>6. /\ r.logLength = LogLength(log[m.to])
        /\ r.conflictTerm = TermAt(log[m.to], m.prevIndex)
        /\ r.conflictStart = TermStart(log[m.to], r.conflictTerm)
    BY <2>1, <2>5 DEF AppendReply
  <2>7. Leads(m.from, m.term)'
    BY <1>1, <2>2 DEF Leads
  <2> QED
    BY <2>1, <2>2, <2>5, <2>6, <2>7, NewRejection
<1> QED
  BY <1>2, <1>3

----------------------------------------------------------------------------
ProbesInv == RunsInv /\ RejectionsTrue

LEMMA ProbesInvariance ==
    ASSUME IsFiniteSet(Server), Cardinality(Server) <= 3
    PROVE  Spec => []ProbesInv
<1>1. Init => ProbesInv
  <2> SUFFICES ASSUME Init PROVE ProbesInv
    OBVIOUS
  <2>1. /\ \A i \in Server : /\ log[i] = InitialLog /\ currentTerm[i] = 0
                             /\ state[i] = Follower /\ snapshot[i].bytes = << >>
        /\ appendRequests = {} /\ installRequests = {} /\ appendReplies = {}
    BY DEF Init
  <2>2. \A i \in Server : Whole(i) = InitialLog
    BY <2>1, InitialWhole DEF Whole
  <2>3. \A c \in Full : c = <<InitialLog, 0>>
    BY <2>1, <2>2 DEF Full, Stored, Moving
  <2>4. \A k \in Indices(InitialLog) : k = 0
    <3>1. InitialLog.base = 0 /\ LastIndex(InitialLog) = 0
      BY DEF InitialLog, LastIndex
    <3> QED
      BY <3>1 DEF Indices
  <2>5. TermsUnbroken
    BY <2>3, <2>4 DEF TermsUnbroken, Unbroken
  <2>6. TermsBegin
    BY <2>3, <2>4 DEF TermsBegin, Holds
  <2>7. LeadersReach
    BY <2>1, RolesAssumption DEF LeadersReach
  <2> QED
    BY <2>1, <2>5, <2>6, <2>7 DEF ProbesInv, RunsInv, RejectionsTrue
<1>2. Ground /\ Ground' /\ ReplicationInv /\ ReplicationInv' /\ ProbesInv
        /\ [Next]_vars => ProbesInv'
  <2> SUFFICES ASSUME Ground, Ground', ReplicationInv, ReplicationInv', ProbesInv,
                      [Next]_vars
               PROVE  ProbesInv'
    OBVIOUS
  <2>1. Stepping
    BY DEF Stepping, ReplicationInv
  <2> QED
    BY <2>1, NextRunsInv, NextRejectionsTrue DEF ProbesInv
<1> QED
  BY <1>1, <1>2, GroundInvariance, ReplicationInvariance, PTL DEF Spec

(***************************************************************************)
(* What updateFollower makes of a rejection.                               *)
(***************************************************************************)
LEMMA BacktrackedBelow ==
    ASSUME TypeInv, WholesInv, LogInv, RejectionsTrue,
           NEW m \in appendReplies, Rejects(m), ~NeedsSnapshot(m)
    PROVE  Backtracked(m.to, m) \in 1 .. m.prevIndex
<1> DEFINE i == m.to
           l == log[i]
           p == m.prevIndex
<1>1. /\ i \in Server /\ p \in Int /\ m.logLength \in Int
      /\ m.conflictTerm \in Int /\ m.conflictStart \in Int /\ l \in LogType
  BY DEF TypeInv, TypeOK, TypeOfNet, AppendReplyType, TypeOfLogs
<1>2. m.logLength >= 1
  BY DEF RejectionsTrue
<1>3. CASE m.logLength - 1 < p
  <2>1. Backtracked(i, m) = m.logLength
    BY <1>3 DEF Backtracked
  <2> QED
    BY <1>1, <1>2, <1>3, <2>1
<1>4. CASE ~(m.logLength - 1 < p)
  <2>1. m.conflictTerm # -1 /\ p < m.logLength
    BY <1>1, <1>4 DEF NeedsSnapshot
  <2>2. m.conflictStart >= 1 /\ LeftBehind(i, p, m.conflictTerm)
    BY <2>1 DEF RejectionsTrue
  <2>3. CASE TermStart(l, m.conflictTerm) = -1
    <3>1. Backtracked(i, m) = m.conflictStart
      BY <1>4, <2>3 DEF Backtracked
    <3>2. m.conflictStart <= p
      BY DEF LogInv, Probes
    <3> QED
      BY <1>1, <2>2, <3>1, <3>2
  <2>4. CASE TermStart(l, m.conflictTerm) # -1
    <3> DEFINE e == TermEnd(l, m.conflictTerm)
    <3>1. Backtracked(i, m) = e + 1
      BY <1>4, <2>4 DEF Backtracked
    <3>2. e \in Indices(l) /\ TermAt(l, e) = m.conflictTerm
      BY <1>1, <2>4, TermEndHolds
    <3> HIDE DEF e
    <3>3. e \in Indices(Whole(i)) /\ TermAt(Whole(i), e) = m.conflictTerm
      <4>1. LogsFit
        BY DEF WholesInv, SeamsMatch, LogsFit
      <4> QED
        BY <1>1, <3>2, <4>1, WholeTerms
    <3>4. ~(e >= p)
      BY <2>2, <3>3 DEF LeftBehind
    <3>5. e \in Int /\ e >= 0
      <4>1. e \in Int /\ e >= l.base /\ l.base \in Nat
        BY <1>1, <3>2, EntryOfLog, LogIndices
      <4> QED
        BY <4>1
    <3> QED
      BY <1>1, <3>1, <3>4, <3>5
  <2> QED
    BY <2>3, <2>4
<1> QED
  BY <1>3, <1>4

CountsInv == timeouts \in Nat /\ restarts \in Nat

LEMMA CountsInvariance == Spec => []CountsInv
<1>1. Init => CountsInv
  BY DEF Init, CountsInv
<1>2. CountsInv /\ [Next]_vars => CountsInv'
  <2> SUFFICES ASSUME CountsInv, [Next]_vars PROVE CountsInv'
    OBVIOUS
  <2>1. ASSUME NEW caller, NEW t, TimesOut(caller, t) PROVE CountsInv'
    BY <2>1 DEF TimesOut, CountsInv
  <2>2. ASSUME NEW n, NEW image, Boot(n, image) PROVE CountsInv'
    BY <2>2 DEF Boot, CountsInv
  <2>3. ASSUME \/ \E n \in Server : Tick(n)
               \/ \E g \in soliciting : SolicitVote(g)
               \/ \E r \in voteRequests : HandleRequestVote(r)
               \/ \E r \in voteReplies : HandleVoteReply(r)
               \/ \E n \in Server : Start(n)
               \/ \E n \in Server : \E j \in Others(n) : Replicate(n, j)
               \/ \E r \in appendRequests : HandleAppendEntries(r)
               \/ \E r \in appendReplies : HandleAppendReply(r)
               \/ \E r \in appendReplies : AnswerWithSnapshot(r)
               \/ \E n \in Server : \E k \in Indices(log[n]) : TakeSnapshot(n, k)
               \/ \E r \in installRequests : HandleInstallSnapshot(r)
               \/ \E r \in installReplies : HandleInstallReply(r)
               \/ UNCHANGED vars
        PROVE  CountsInv'
    BY <2>3 DEF CountsInv, Tick, SolicitVote, HandleRequestVote, HandleVoteReply,
                Start, Replicate, CountCall, HandleAppendEntries, HandleAppendReply,
                AnswerWithSnapshot, TakeSnapshot, HandleInstallSnapshot,
                HandleInstallReply, counters, vars
  <2> QED
    BY <2>1, <2>2, <2>3
    DEF Next, AppendTimeout, AppendReplyTooLate, InstallTimeout,
        InstallReplyTooLate, Restart, CrashInHandler
<1> QED
  BY <1>1, <1>2, PTL DEF Spec

(***************************************************************************)
(* Who takes a rejection off the network without crash or timeout.         *)
(***************************************************************************)
LEMMA RejectionHandled ==
    ASSUME CountsInv, [Next]_vars, NEW m \in appendReplies, m \notin appendReplies',
           ~NeedsSnapshot(m), timeouts' = timeouts, restarts' = restarts
    PROVE  HandleAppendReply(m)
<1>1. timeouts \in Nat /\ restarts \in Nat
  BY DEF CountsInv
<1>2. ASSUME NEW r \in appendReplies, HandleAppendReply(r)
      PROVE  HandleAppendReply(m)
  <2>1. r = m
    BY <1>2 DEF HandleAppendReply
  <2> QED
    BY <1>2, <2>1
<1>3. ASSUME NEW r \in appendReplies, AnswerWithSnapshot(r) PROVE FALSE
  BY <1>3 DEF AnswerWithSnapshot
<1>4. ASSUME NEW caller, NEW t, TimesOut(caller, t) PROVE FALSE
  BY <1>1, <1>4 DEF TimesOut
<1>5. ASSUME NEW n, NEW image, Boot(n, image) PROVE FALSE
  BY <1>1, <1>5 DEF Boot
<1>6. ASSUME \/ \E n \in Server : Tick(n)
             \/ \E g \in soliciting : SolicitVote(g)
             \/ \E r \in voteRequests : HandleRequestVote(r)
             \/ \E r \in voteReplies : HandleVoteReply(r)
             \/ \E n \in Server : Start(n)
             \/ \E n \in Server : \E j \in Others(n) : Replicate(n, j)
             \/ \E r \in appendRequests : HandleAppendEntries(r)
             \/ \E n \in Server : \E k \in Indices(log[n]) : TakeSnapshot(n, k)
             \/ \E r \in installRequests : HandleInstallSnapshot(r)
             \/ \E r \in installReplies : HandleInstallReply(r)
             \/ UNCHANGED vars
      PROVE  FALSE
  BY <1>6 DEF Tick, SolicitVote, HandleRequestVote, HandleVoteReply, Start,
              Replicate, HandleAppendEntries, TakeSnapshot, HandleInstallSnapshot,
              HandleInstallReply, appendNet, vars
<1> QED
  BY <1>2, <1>3, <1>4, <1>5, <1>6
  DEF Next, AppendTimeout, AppendReplyTooLate, InstallTimeout,
      InstallReplyTooLate, Restart, CrashInHandler

(***************************************************************************)
(* A rejected probe is never repeated in a group of three: whichever of    *)
(* the three rules of updateFollower applies, and however long the         *)
(* rejection was under way while the leader's log grew and was cut, the    *)
(* next probe is below it.                                                 *)
(***************************************************************************)
THEOREM RetriesMakeProgress ==
    ASSUME IsFiniteSet(Server), Cardinality(Server) <= 3
    PROVE  Spec => RetryMakesProgress
<1>1. Ground /\ ReplicationInv /\ ProbesInv /\ CountsInv /\ [Next]_vars =>
        [\A m \in appendReplies \ appendReplies' :
            InTime(m.to, m) /\ ~m.success /\ ~NeedsSnapshot(m)
              /\ timeouts' = timeouts /\ restarts' = restarts
              => nextIndex'[m.to][m.from] \in 1 .. m.prevIndex]_vars
  <2> SUFFICES ASSUME Ground, ReplicationInv, ProbesInv, CountsInv, [Next]_vars,
                      NEW m \in appendReplies, m \notin appendReplies',
                      InTime(m.to, m), ~m.success, ~NeedsSnapshot(m),
                      timeouts' = timeouts, restarts' = restarts
               PROVE  nextIndex'[m.to][m.from] \in 1 .. m.prevIndex
    OBVIOUS
  <2>1. /\ m.to \in Server /\ m.from \in Server /\ m.term \in Nat
        /\ currentTerm[m.to] \in Nat
        /\ nextIndex \in [Server -> [Server -> Int]]
    BY DEF Ground, TypeInv, TypeOK, TypeOfNet, AppendReplyType, TypeOfElections,
           TypeOfLogs
  <2>2. HandleAppendReply(m)
    BY RejectionHandled
  <2>3. nextIndex' = [nextIndex EXCEPT ![m.to][m.from] = Backtracked(m.to, m)]
    BY <2>2 DEF HandleAppendReply, NewerReply, LateReply, AppendSucceeded,
                AppendRejected, InTime
  <2>4. Rejects(m)
    BY <2>1 DEF InTime, Newer, Rejects, Leads
  <2>5. Backtracked(m.to, m) \in 1 .. m.prevIndex
    BY <2>4, BacktrackedBelow DEF Ground, ReplicationInv, ProbesInv
  <2> QED
    BY <2>1, <2>3, <2>5
<1> QED
  BY <1>1, GroundInvariance, ReplicationInvariance, ProbesInvariance,
     CountsInvariance, PTL DEF Spec, RetryMakesProgress
==============================================================================
