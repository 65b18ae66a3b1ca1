------------------------------ MODULE ListProofs ------------------------------
(***************************************************************************)
(* Proofs about the collaborative list: what integrate and applyUpdate do  *)
(* to the items a replica holds, for every list and every update.          *)
(***************************************************************************)
EXTENDS YataList, SequenceTheorems, FiniteSetTheorems, WellFoundedInduction,
        TLAPS

----------------------------------------------------------------------------
(* Counting up to a number, and the loops that do.                         *)

LEMMA LeastNumber ==
    ASSUME NEW S, S \subseteq Nat, S # {}
    PROVE  \E m \in S : \A n \in S : m <= n
<1> DEFINE Less == {ss \in Nat \X Nat : ss[1] < ss[2]}
<1>1. IsWellFoundedOn(Less, Nat)
  BY NatLessThanWellFounded DEF OpToRel
<1>2. PICK y \in S : \A z \in S : <<z, y>> \notin Less
  <2> HIDE DEF Less
  <2> QED
    BY <1>1, WFMin
<1>3. \A z \in S : y <= z
  <2> TAKE z \in S
  <2>1. y \in Nat /\ z \in Nat
    OBVIOUS
  <2>2. ~(z < y)
    BY <1>2, <2>1
  <2> QED
    BY <2>1, <2>2
<1> QED
  BY <1>3

LEMMA CountingUp ==
    ASSUME NEW N \in Nat, NEW S, 0 \in S, \A n \in 1 .. N : n - 1 \in S => n \in S
    PROVE  0 .. N \subseteq S
<1> DEFINE B == {n \in 0 .. N : n \notin S}
<1>1. SUFFICES ASSUME B # {} PROVE FALSE
  OBVIOUS
<1>2. PICK m \in B : \A n \in B : m <= n
  <2>1. B \subseteq Nat
    OBVIOUS
  <2> HIDE DEF B
  <2> QED
    BY <1>1, <2>1, LeastNumber
<1>3. m \in 0 .. N /\ m \notin S
  BY <1>2
<1>4. m \in 1 .. N /\ m - 1 \in 0 .. N /\ ~(m <= m - 1)
  BY <1>3
<1>5. m - 1 \in S
  BY <1>2, <1>4
<1> QED
  BY <1>3, <1>4, <1>5

IsHistory(f, N, b, g) == f[0] = b /\ \A n \in 1 .. N : f[n] = g[n][f[n - 1]]

(***************************************************************************)
(* A loop of N rounds, whose nth takes t to g[n][t], has a history.        *)
(***************************************************************************)
LEMMA LoopHistory ==
    ASSUME NEW N \in Nat, NEW T, NEW b \in T, NEW g \in [1 .. N -> [T -> T]]
    PROVE  \E f \in [0 .. N -> T] : IsHistory(f, N, b, g)
<1> DEFINE S == {n \in 0 .. N : \E f \in [0 .. n -> T] : IsHistory(f, n, b, g)}
<1>1. 0 \in S
  <2> DEFINE f == [k \in 0 .. 0 |-> b]
  <2>1. f \in [0 .. 0 -> T] /\ f[0] = b /\ 1 .. 0 = {}
    OBVIOUS
  <2> HIDE DEF f
  <2>2. IsHistory(f, 0, b, g)
    BY <2>1 DEF IsHistory
  <2> QED
    BY <2>1, <2>2
<1>2. ASSUME NEW n \in 1 .. N, n - 1 \in S
      PROVE  n \in S
  <2>1. PICK f \in [0 .. n - 1 -> T] : IsHistory(f, n - 1, b, g)
    BY <1>2
  <2>2. PICK t \in T : t = g[n][f[n - 1]]
    OBVIOUS
  <2> DEFINE h == [k \in 0 .. n |-> IF k = n THEN t ELSE f[k]]
  <2>3. h \in [0 .. n -> T]
    OBVIOUS
  <2>4. h[0] = b
    BY <2>1 DEF IsHistory
  <2>5. ASSUME NEW k \in 1 .. n
        PROVE  h[k] = g[k][h[k - 1]]
    <3>1. k \in 0 .. n /\ k - 1 \in 0 .. n /\ k - 1 # n
      OBVIOUS
    <3>2. h[k - 1] = f[k - 1]
      BY <3>1
    <3>3. CASE k = n
      BY <2>2, <3>1, <3>2, <3>3
    <3>4. CASE k # n
      <4>1. k \in 1 .. n - 1 /\ h[k] = f[k]
        BY <3>1, <3>4
      <4> QED
        BY <2>1, <3>2, <4>1 DEF IsHistory
    <3> QED
      BY <3>3, <3>4
  <2> HIDE DEF h
  <2>6. IsHistory(h, n, b, g) /\ n \in 0 .. N
    BY <2>4, <2>5 DEF IsHistory
  <2> QED
    BY <2>3, <2>6
<1>3. 0 .. N \subseteq S
  <2> HIDE DEF S
  <2> QED
    BY <1>1, <1>2, CountingUp
<1> QED
  BY <1>3

----------------------------------------------------------------------------
(* The order of an update.                                                 *)

ItemIds == User \X Nat

Items == [id : ItemIds, left : ItemIds \cup {HEAD}, right : ItemIds \cup {TAIL},
          deleted : BOOLEAN]

\* No two items have the same id.
Distinct(items) == \A a, b \in items : a.id = b.id => a = b

Rank(items, item) == Cardinality({other \in items : Precedes(other, item)})

LEMMA IdFacts ==
    ASSUME NEW i \in ItemIds
    PROVE  /\ i = <<i[1], i[2]>>
           /\ i[1] \in User /\ i[1] \in Int /\ i[2] \in Nat
           /\ i # HEAD /\ i # TAIL
<1>1. PICK u \in User, n \in Nat : i = <<u, n>>
  BY DEF ItemIds
<1>2. u \in Int /\ u # -1
  BY UserAssumption DEF Sentinel
<1> QED
  BY <1>1, <1>2 DEF HEAD, TAIL, Sentinel

LEMMA PrecedesOrders ==
    ASSUME NEW a \in Items, NEW b \in Items, NEW c \in Items
    PROVE  /\ Precedes(a, b) => ~Precedes(b, a)
           /\ Precedes(a, b) /\ Precedes(b, c) => Precedes(a, c)
           /\ a.id # b.id => Precedes(a, b) \/ Precedes(b, a)
<1>1. \A i \in ItemIds : i = <<i[1], i[2]>> /\ i[1] \in Int /\ i[2] \in Int
  BY IdFacts
<1>2. a.id \in ItemIds /\ b.id \in ItemIds /\ c.id \in ItemIds
  BY DEF Items
<1>3. /\ a.id[1] \in Int /\ a.id[2] \in Int
      /\ b.id[1] \in Int /\ b.id[2] \in Int
      /\ c.id[1] \in Int /\ c.id[2] \in Int
      /\ a.id # b.id => a.id[1] # b.id[1] \/ a.id[2] # b.id[2]
  BY <1>1, <1>2
<1> QED
  BY <1>3 DEF Precedes

LEMMA RankGrows ==
    ASSUME NEW items \in SUBSET Items, IsFiniteSet(items),
           NEW a \in items, NEW b \in items, Precedes(a, b)
    PROVE  Rank(items, a) < Rank(items, b)
<1> DEFINE A == {other \in items : Precedes(other, a)}
           B == {other \in items : Precedes(other, b)}
<1>1. IsFiniteSet(B) /\ A \subseteq B
  BY PrecedesOrders, FS_Subset
<1>2. a \in B /\ a \notin A
  BY PrecedesOrders
<1>3. IsFiniteSet(A) /\ Cardinality(A) <= Cardinality(B) /\ Cardinality(A) # Cardinality(B)
  <2> HIDE DEF A, B
  <2> QED
    BY <1>1, <1>2, FS_Subset
<1>4. Cardinality(A) \in Nat /\ Cardinality(B) \in Nat
  <2> HIDE DEF A, B
  <2> QED
    BY <1>1, <1>3, FS_CardinalityType
<1> QED
  BY <1>3, <1>4 DEF Rank

(***************************************************************************)
(* makeUpdate sorts: every item stands in the update, and nothing else.    *)
(***************************************************************************)
LEMMA InOrderIsOrder ==
    ASSUME NEW items \in SUBSET Items, IsFiniteSet(items), Distinct(items)
    PROVE  /\ InOrder(items) \in Seq(items)
           /\ ToSet(InOrder(items)) = items
<1> DEFINE N == Cardinality(items)
           rank == [item \in items |-> Rank(items, item)]
<1>1. N \in Nat
  BY FS_CardinalityType
<1>2. \A item \in items : rank[item] \in 0 .. N - 1
  <2> TAKE item \in items
  <2> DEFINE before == {other \in items : Precedes(other, item)}
  <2>1. before \subseteq items /\ item \notin before
    BY PrecedesOrders
  <2>2. IsFiniteSet(before) /\ Cardinality(before) <= N /\ Cardinality(before) # N
    <3> HIDE DEF before
    <3> QED
      BY <2>1, FS_Subset
  <2>3. Cardinality(before) \in Nat
    <3> HIDE DEF before
    <3> QED
      BY <2>2, FS_CardinalityType
  <2>4. rank[item] = Cardinality(before)
    BY DEF Rank
  <2> HIDE DEF before, rank, N
  <2> QED
    BY <1>1, <2>2, <2>3, <2>4
<1>3. \A a, b \in items : a # b => rank[a] # rank[b]
  <2> TAKE a, b \in items
  <2> HAVE a # b
  <2>1. Precedes(a, b) \/ Precedes(b, a)
    BY PrecedesOrders DEF Distinct
  <2>2. rank[a] = Rank(items, a) /\ rank[b] = Rank(items, b)
    OBVIOUS
  <2>3. rank[a] \in 0 .. N - 1 /\ rank[b] \in 0 .. N - 1
    BY <1>2
  <2>4. rank[a] < rank[b] \/ rank[b] < rank[a]
    BY <2>1, <2>2, RankGrows
  <2> HIDE DEF rank
  <2> QED
    BY <1>1, <2>3, <2>4
<1>4. rank \in Injection(items, 0 .. N - 1)
  <2> HIDE DEF N
  <2>1. rank \in [items -> 0 .. N - 1]
    BY <1>2
  <2> HIDE DEF rank
  <2> QED
    BY <1>3, <2>1 DEF Injection, IsInjective
<1>5. IsFiniteSet(0 .. N - 1) /\ Cardinality(0 .. N - 1) = N
  <2> HIDE DEF N
  <2> QED
    BY <1>1, FS_Interval
<1>6. rank \in Surjection(items, 0 .. N - 1)
  <2> HIDE DEF rank
  <2> QED
    BY <1>4, <1>5, FS_Injection
<1>7. \A n \in 1 .. N : \E item \in items : rank[item] = n - 1
  <2> HIDE DEF rank, N
  <2> QED
    BY <1>1, <1>6 DEF Surjection
<1> DEFINE chosen(n) == CHOOSE item \in items : Rank(items, item) = n - 1
<1>8. \A n \in 1 .. N : chosen(n) \in items /\ rank[chosen(n)] = n - 1
  <2> TAKE n \in 1 .. N
  <2>1. \E item \in items : Rank(items, item) = n - 1
    BY <1>7
  <2>2. chosen(n) \in items /\ Rank(items, chosen(n)) = n - 1
    BY <2>1
  <2> QED
    BY <2>2
<1>9. InOrder(items) = [n \in 1 .. N |-> chosen(n)]
  BY DEF InOrder, Rank
<1> HIDE DEF N, rank, chosen
<1>10. InOrder(items) \in Seq(items) /\ DOMAIN InOrder(items) = 1 .. N
  BY <1>1, <1>8, <1>9, IsASeq
<1>11. \A item \in items : \E n \in 1 .. N : InOrder(items)[n] = item
  <2> TAKE item \in items
  <2>1. rank[item] + 1 \in 1 .. N /\ (rank[item] + 1) - 1 = rank[item]
    BY <1>1, <1>2
  <2>2. chosen(rank[item] + 1) = item
    BY <1>3, <1>8, <2>1
  <2> QED
    BY <1>9, <2>1, <2>2
<1>12. \A n \in 1 .. N : InOrder(items)[n] \in items
  BY <1>8, <1>9
<1> QED
  BY <1>10, <1>11, <1>12 DEF ToSet

----------------------------------------------------------------------------
(* The lists a program can be in.                                          *)

Links == [left : ItemIds \cup {HEAD}, right : ItemIds \cup {TAIL}]

Linkings == UNION {[S -> Links] : S \in SUBSET ItemIds}

ListShapes == [order : Seq(ItemIds), origins : Linkings, deleted : SUBSET ItemIds,
               stateVector : [User -> Nat], opCounter : Nat, spinning : BOOLEAN]

\* The linked list and itemById hold the same items, each of them once.
HoldsItemsOnce(l) ==
    /\ ToSet(l.order) = Ids(l)
    /\ \A m, n \in DOMAIN l.order : l.order[m] = l.order[n] => m = n

OriginsHeld(l) ==
    \A id \in Ids(l) : /\ l.origins[id].left \in Ids(l) \cup {HEAD}
                       /\ l.origins[id].right \in Ids(l) \cup {TAIL}

\* Whatever items are picked, one of them does not hang on the others.
Grounded(l) ==
    \A S \in SUBSET Ids(l) :
        S # {} => \E id \in S : l.origins[id].left \notin S /\ l.origins[id].right \notin S

\* The state vector is one more than the last item held of each user.
Counted(l) ==
    /\ \A id \in Ids(l) : id[2] < l.stateVector[id[1]]
    /\ \A u \in User : l.stateVector[u] # 0 => <<u, l.stateVector[u] - 1>> \in Ids(l)

Lists == {l \in ListShapes : /\ HoldsItemsOnce(l)
                             /\ OriginsHeld(l)
                             /\ Grounded(l)
                             /\ Counted(l)
                             /\ l.deleted \subseteq Ids(l)}

LEMMA LinkingFacts ==
    /\ \A f \in Linkings : DOMAIN f \subseteq ItemIds /\ f \in [DOMAIN f -> Links]
    /\ \A S \in SUBSET ItemIds : [S -> Links] \subseteq Linkings
  BY DEF Linkings

LEMMA ListFacts ==
    ASSUME NEW l \in Lists
    PROVE  /\ l.order \in Seq(ItemIds) /\ l.origins \in Linkings
           /\ l.deleted \in SUBSET ItemIds /\ l.stateVector \in [User -> Nat]
           /\ l.opCounter \in Nat /\ l.spinning \in BOOLEAN
           /\ HoldsItemsOnce(l) /\ OriginsHeld(l) /\ Grounded(l) /\ Counted(l)
           /\ l.deleted \subseteq Ids(l)
           /\ Ids(l) \subseteq ItemIds
           /\ \A id \in Ids(l) : l.origins[id] \in Links
           /\ HEAD \notin Ids(l) /\ TAIL \notin Ids(l)
<1>1. l \in ListShapes /\ HoldsItemsOnce(l) /\ OriginsHeld(l) /\ Grounded(l)
      /\ Counted(l) /\ l.deleted \subseteq Ids(l)
  BY DEF Lists
<1>2. l.origins \in Linkings
  BY <1>1 DEF ListShapes
<1>3. Ids(l) \subseteq ItemIds /\ \A id \in Ids(l) : l.origins[id] \in Links
  BY <1>2, LinkingFacts DEF Ids
<1>4. HEAD \notin ItemIds /\ TAIL \notin ItemIds
  BY IdFacts
<1> QED
  BY <1>1, <1>3, <1>4 DEF ListShapes

LEMMA NewListIsList == NewList \in Lists
<1>1. << >> \in Seq(ItemIds) /\ DOMAIN << >> = {}
  OBVIOUS
<1>2. << >> \in Linkings
  <2>1. << >> \in [{} -> Links]
    BY <1>1
  <2> QED
    BY <2>1, LinkingFacts
<1>3. NewList \in ListShapes
  BY <1>1, <1>2 DEF NewList, ListShapes
<1>4. Ids(NewList) = {} /\ ToSet(NewList.order) = {} /\ NewList.deleted = {}
      /\ DOMAIN NewList.order = {}
  BY <1>1 DEF NewList, Ids, ToSet
<1>5. \A u \in User : NewList.stateVector[u] = 0
  BY DEF NewList
<1>6. HoldsItemsOnce(NewList) /\ Counted(NewList)
  BY <1>4, <1>5 DEF HoldsItemsOnce, Counted
<1>7. OriginsHeld(NewList) /\ Grounded(NewList)
  BY <1>4 DEF OriginsHeld, Grounded
<1> QED
  BY <1>3, <1>4, <1>6, <1>7 DEF Lists

LEMMA PositionFacts ==
    ASSUME NEW l \in Lists, NEW id \in Ids(l)
    PROVE  /\ Position(l, id) \in 1 .. Len(l.order)
           /\ l.order[Position(l, id)] = id
<1>1. id # HEAD /\ id # TAIL
  BY ListFacts
<1>2. \E k \in DOMAIN l.order : l.order[k] = id
  BY ListFacts DEF HoldsItemsOnce, ToSet
<1>3. Position(l, id) = CHOOSE k \in DOMAIN l.order : l.order[k] = id
  BY <1>1 DEF Position
<1>4. Position(l, id) \in DOMAIN l.order /\ l.order[Position(l, id)] = id
  BY <1>2, <1>3
<1>5. DOMAIN l.order = 1 .. Len(l.order)
  BY ListFacts, LenProperties
<1> QED
  BY <1>4, <1>5

LEMMA SentinelPositions ==
    ASSUME NEW l
    PROVE  Position(l, HEAD) = 0 /\ Position(l, TAIL) = Len(l.order) + 1
  BY DEF Position, HEAD, TAIL, Sentinel

LEMMA PositionAt ==
    ASSUME NEW l \in Lists, NEW k \in 1 .. Len(l.order)
    PROVE  l.order[k] \in Ids(l) /\ Position(l, l.order[k]) = k
<1>1. DOMAIN l.order = 1 .. Len(l.order)
      /\ \A m, n \in DOMAIN l.order : l.order[m] = l.order[n] => m = n
  BY ListFacts, LenProperties DEF HoldsItemsOnce
<1>2. l.order[k] \in Ids(l)
  BY <1>1, ListFacts DEF HoldsItemsOnce, ToSet
<1> DEFINE n == Position(l, l.order[k])
<1>3. n \in 1 .. Len(l.order) /\ l.order[n] = l.order[k]
  BY <1>2, PositionFacts
<1> HIDE DEF n
<1>4. n = k
  BY <1>1, <1>3
<1> QED
  BY <1>2, <1>4 DEF n

LEMMA OriginPositions ==
    ASSUME NEW l \in Lists, NEW item \in Items, OriginsKnown(l, item)
    PROVE  /\ Len(l.order) \in Nat
           /\ Position(l, item.left) \in 0 .. Len(l.order)
           /\ Position(l, item.right) \in 1 .. Len(l.order) + 1
<1>1. item.left \in Ids(l) \cup {HEAD} /\ item.right \in Ids(l) \cup {TAIL}
  BY IdFacts DEF OriginsKnown, Items
<1>2. Len(l.order) \in Nat
  BY ListFacts
<1> QED
  BY <1>1, <1>2, PositionFacts, SentinelPositions

----------------------------------------------------------------------------
(* integrate.                                                              *)

LEMMA BetweenFacts ==
    ASSUME NEW l \in Lists, NEW item \in Items, OriginsKnown(l, item)
    PROVE  /\ Between(l, item) \in Seq(Ids(l))
           /\ \A o \in ToSet(Between(l, item)) :
                  /\ o \in Ids(l)
                  /\ Position(l, item.left) < Position(l, o)
                  /\ Ordered(l, item) => Position(l, o) < Position(l, item.right)
<1> DEFINE first == Position(l, item.left) + 1
           last == IF Ordered(l, item) THEN Position(l, item.right) - 1
                   ELSE Len(l.order)
           between == Between(l, item)
<1>1. /\ Len(l.order) \in Nat
      /\ Position(l, item.left) \in 0 .. Len(l.order)
      /\ Position(l, item.right) \in 1 .. Len(l.order) + 1
  BY OriginPositions
<1>2. first \in Int /\ last \in Int /\ \A k \in first .. last : k \in 1 .. Len(l.order)
  BY <1>1
<1>3. between = SubSeq(l.order, first, last)
  BY DEF Between
<1>4. \A k \in first .. last : Position(l, item.left) < k
                               /\ (Ordered(l, item) => k < Position(l, item.right))
  BY <1>1
<1> HIDE DEF first, last, between
<1>5. \A k \in first .. last : l.order[k] \in Ids(l) /\ Position(l, l.order[k]) = k
  BY <1>2, PositionAt
<1>6. /\ between \in Seq(Ids(l))
      /\ Len(between) = IF first <= last THEN last - first + 1 ELSE 0
      /\ \A i \in 1 .. last - first + 1 : between[i] = l.order[first + i - 1]
  BY <1>2, <1>3, <1>5, SubSeqProperties
<1>7. ASSUME NEW o \in ToSet(between)
      PROVE  \E k \in first .. last : o = l.order[k]
  <2>1. PICK i \in DOMAIN between : o = between[i]
    BY DEF ToSet
  <2>2. i \in 1 .. Len(between)
    BY <1>6, <2>1, LenProperties
  <2>3. i \in 1 .. last - first + 1 /\ first + i - 1 \in first .. last
    BY <1>2, <1>6, <2>2
  <2> QED
    BY <1>6, <2>1, <2>3
<1> QED
  BY <1>4, <1>5, <1>6, <1>7 DEF between

ScanStates(l, item) ==
    [left : ToSet(Between(l, item)) \cup {item.left}, conflicting : SUBSET Ids(l),
     before : SUBSET Ids(l), done : BOOLEAN]

(***************************************************************************)
(* The scan of integrate ends behind the left origin or behind an item     *)
(* between the origins.                                                    *)
(***************************************************************************)
LEMMA ScanStaysInList ==
    ASSUME NEW l \in Lists, NEW item \in Items, OriginsKnown(l, item)
    PROVE  Scan(l, item) \in ScanStates(l, item)
<1> DEFINE between == Between(l, item)
           N == Len(between)
           T == ScanStates(l, item)
           b == [left |-> item.left, conflicting |-> {}, before |-> {}, done |-> FALSE]
<1>1. between \in Seq(Ids(l))
  BY BetweenFacts
<1>2. N \in Nat /\ \A n \in 1 .. N : between[n] \in Ids(l) \cap ToSet(between)
  <2> HIDE DEF between
  <2> QED
    BY <1>1, LenProperties DEF ToSet
<1>3. b \in T
  BY DEF ScanStates
<1>4. ASSUME NEW s \in T, NEW o \in Ids(l) \cap ToSet(between)
      PROVE  Passed(l, s, o, item) \in T
  <2>1. StopsAt(l, s, o, item) \in BOOLEAN
    <3>1. CASE l.origins[o].left = item.left
      BY <3>1, Zenon DEF StopsAt
    <3>2. CASE l.origins[o].left # item.left
      BY <3>2, Zenon DEF StopsAt
    <3> QED
      BY <3>1, <3>2
  <2>2. CASE s.done
    BY <2>2 DEF Passed
  <2>3. CASE ~s.done
    <3>1. s.left \in ToSet(between) \cup {item.left} /\ s.conflicting \in SUBSET Ids(l)
          /\ s.before \in SUBSET Ids(l)
      BY DEF ScanStates
    <3> QED
      BY <2>1, <2>3, <3>1 DEF Passed, ScanStates
  <2> QED
    BY <2>2, <2>3
<1> DEFINE g == [n \in 1 .. N |-> [s \in T |-> Passed(l, s, between[n], item)]]
<1>5. g \in [1 .. N -> [T -> T]]
  <2> HIDE DEF T, N, between
  <2> QED
    BY <1>2, <1>4
<1>6. PICK f \in [0 .. N -> T] : IsHistory(f, N, b, g)
  <2>1. N \in Nat
    BY <1>2
  <2> HIDE DEF T, N, between, g, b
  <2> QED
    BY <2>1, <1>3, <1>5, LoopHistory
<1> DEFINE scan == CHOOSE h : h = [n \in 0 .. N |->
                       IF n = 0 THEN b ELSE Passed(l, h[n - 1], between[n], item)]
<1>7. f = [n \in 0 .. N |->
              IF n = 0 THEN b ELSE Passed(l, f[n - 1], between[n], item)]
  <2>1. \A n \in 1 .. N : f[n] = Passed(l, f[n - 1], between[n], item)
    <3> TAKE n \in 1 .. N
    <3>1. n - 1 \in 0 .. N
      BY <1>2
    <3> HIDE DEF T, N, between, b
    <3> QED
      BY <1>6, <3>1 DEF IsHistory
  <2>2. \A n \in 0 .. N : n # 0 => n \in 1 .. N
    BY <1>2
  <2> HIDE DEF T, N, between, b
  <2> QED
    BY <1>6, <2>1, <2>2 DEF IsHistory
<1>8. scan = [n \in 0 .. N |->
                 IF n = 0 THEN b ELSE Passed(l, scan[n - 1], between[n], item)]
  <2> HIDE DEF T, N, between, b
  <2> QED
    BY <1>7
<1> DEFINE S == {n \in 0 .. N : scan[n] \in T}
<1>9. 0 .. N \subseteq S
  <2>1. 0 \in S
    <3> HIDE DEF T, N, between, b, scan
    <3> QED
      BY <1>2, <1>3, <1>8
  <2>2. ASSUME NEW n \in 1 .. N, n - 1 \in S PROVE n \in S
    <3>1. n \in 0 .. N /\ n # 0
      BY <1>2
    <3> HIDE DEF T, N, between, b, scan
    <3>2. scan[n] = Passed(l, scan[n - 1], between[n], item)
      BY <1>8, <3>1
    <3> QED
      BY <1>2, <1>4, <2>2, <3>1, <3>2
  <2> HIDE DEF S, N
  <2> QED
    BY <1>2, <2>1, <2>2, CountingUp
<1>10. Scan(l, item) = scan[N]
  BY DEF Scan
<1> HIDE DEF N, scan, T
<1>11. N \in S
  BY <1>2, <1>9
<1> QED
  BY <1>10, <1>11 DEF T

LEMMA InsertAtFacts ==
    ASSUME NEW S, NEW s \in Seq(S), NEW k \in 1 .. Len(s) + 1, NEW e \in S
    PROVE  /\ InsertAt(s, k, e) \in Seq(S)
           /\ Len(InsertAt(s, k, e)) = Len(s) + 1
           /\ \A i \in 1 .. Len(s) + 1 :
                  InsertAt(s, k, e)[i] =
                      IF i < k THEN s[i] ELSE IF i = k THEN e ELSE s[i - 1]
<1> DEFINE a == SubSeq(s, 1, k - 1)
           c == SubSeq(s, k, Len(s))
<1>1. Len(s) \in Nat /\ k \in Nat /\ \A i \in 1 .. Len(s) : s[i] \in S
  BY LenProperties
<1>2. a \in Seq(S) /\ Len(a) = k - 1 /\ \A i \in 1 .. k - 1 : a[i] = s[i]
  <2>1. \A i \in 1 .. k - 1 : s[i] \in S
    BY <1>1
  <2>2. /\ a \in Seq(S)
        /\ Len(a) = IF 1 <= k - 1 THEN k - 1 - 1 + 1 ELSE 0
        /\ \A i \in 1 .. k - 1 - 1 + 1 : a[i] = s[1 + i - 1]
    BY <1>1, <2>1, SubSeqProperties
  <2> HIDE DEF a
  <2> QED
    BY <1>1, <2>2
<1>3. c \in Seq(S) /\ Len(c) = Len(s) - k + 1
      /\ \A i \in 1 .. Len(s) - k + 1 : c[i] = s[k + i - 1]
  <2>1. \A i \in k .. Len(s) : s[i] \in S
    BY <1>1
  <2>2. /\ c \in Seq(S)
        /\ Len(c) = IF k <= Len(s) THEN Len(s) - k + 1 ELSE 0
        /\ \A i \in 1 .. Len(s) - k + 1 : c[i] = s[k + i - 1]
    BY <1>1, <2>1, SubSeqProperties
  <2> HIDE DEF c
  <2> QED
    BY <1>1, <2>2
<1>4. InsertAt(s, k, e) = (a \o <<e>>) \o c
  BY DEF InsertAt
<1>5. <<e>> \in Seq(S) /\ Len(<<e>>) = 1 /\ <<e>>[1] = e
  OBVIOUS
<1> HIDE DEF a, c
<1>6. /\ a \o <<e>> \in Seq(S) /\ Len(a \o <<e>>) = k
      /\ \A i \in 1 .. k : (a \o <<e>>)[i] = IF i < k THEN s[i] ELSE e
  <2>1. /\ a \o <<e>> \in Seq(S) /\ Len(a \o <<e>>) = k - 1 + 1
        /\ \A i \in 1 .. k - 1 + 1 :
               (a \o <<e>>)[i] = IF i <= k - 1 THEN a[i] ELSE <<e>>[i - (k - 1)]
    BY <1>2, <1>5, ConcatProperties
  <2>2. \A i \in 1 .. k : (a \o <<e>>)[i] = IF i < k THEN s[i] ELSE e
    <3> TAKE i \in 1 .. k
    <3>1. CASE i < k
      BY <1>1, <1>2, <2>1, <3>1
    <3>2. CASE ~(i < k)
      <4>1. i = k /\ i - (k - 1) = 1
        BY <1>1, <3>2
      <4> QED
        BY <1>1, <1>5, <2>1, <4>1
    <3> QED
      BY <3>1, <3>2
  <2> QED
    BY <1>1, <2>1, <2>2
<1> DEFINE f == a \o <<e>>
<1>7. f \in Seq(S) /\ Len(f) = k
      /\ \A i \in 1 .. k : f[i] = IF i < k THEN s[i] ELSE e
  BY <1>6
<1> HIDE DEF f
<1>8. /\ f \o c \in Seq(S) /\ Len(f \o c) = k + (Len(s) - k + 1)
      /\ \A i \in 1 .. k + (Len(s) - k + 1) :
             (f \o c)[i] = IF i <= k THEN f[i] ELSE c[i - k]
  <2>1. /\ f \o c \in Seq(S) /\ Len(f \o c) = Len(f) + Len(c)
        /\ \A i \in 1 .. Len(f) + Len(c) :
               (f \o c)[i] = IF i <= Len(f) THEN f[i] ELSE c[i - Len(f)]
    BY <1>3, <1>7, ConcatProperties
  <2>2. Len(f) = k /\ Len(c) = Len(s) - k + 1
    BY <1>3, <1>7
  <2> QED
    BY <2>1, <2>2, Zenon
<1>9. k + (Len(s) - k + 1) = Len(s) + 1
  BY <1>1
<1>10. \A i \in 1 .. Len(s) + 1 :
           (f \o c)[i] = IF i < k THEN s[i] ELSE IF i = k THEN e ELSE s[i - 1]
  <2> TAKE i \in 1 .. Len(s) + 1
  <2>1. (f \o c)[i] = IF i <= k THEN f[i] ELSE c[i - k]
    BY <1>8, <1>9
  <2>2. CASE i <= k
    <3>1. i \in 1 .. k /\ (f \o c)[i] = f[i]
      BY <1>1, <2>1, <2>2
    <3> QED
      BY <1>1, <1>7, <2>2, <3>1
  <2>3. CASE ~(i <= k)
    <3>1. i - k \in 1 .. Len(s) - k + 1 /\ k + (i - k) - 1 = i - 1 /\ ~(i < k) /\ i # k
          /\ (f \o c)[i] = c[i - k]
      BY <1>1, <2>1, <2>3
    <3> QED
      BY <1>3, <3>1
  <2> QED
    BY <2>2, <2>3
<1>11. InsertAt(s, k, e) = f \o c
  BY <1>4 DEF f
<1> QED
  BY <1>8, <1>9, <1>10, <1>11

LEMMA InsertedOnce ==
    ASSUME NEW S, NEW s \in Seq(S), NEW k \in 1 .. Len(s) + 1, NEW e \in S,
           \A m, n \in DOMAIN s : s[m] = s[n] => m = n,
           e \notin ToSet(s)
    PROVE  /\ ToSet(InsertAt(s, k, e)) = ToSet(s) \cup {e}
           /\ \A m, n \in DOMAIN InsertAt(s, k, e) :
                  InsertAt(s, k, e)[m] = InsertAt(s, k, e)[n] => m = n
<1> DEFINE t == InsertAt(s, k, e)
<1>1. /\ t \in Seq(S) /\ Len(t) = Len(s) + 1
      /\ \A i \in 1 .. Len(s) + 1 :
             t[i] = IF i < k THEN s[i] ELSE IF i = k THEN e ELSE s[i - 1]
  <2>1. t \in Seq(S) /\ Len(t) = Len(s) + 1
    BY InsertAtFacts
  <2>2. ASSUME NEW i \in 1 .. Len(s) + 1
        PROVE  t[i] = IF i < k THEN s[i] ELSE IF i = k THEN e ELSE s[i - 1]
    BY InsertAtFacts
  <2> QED
    BY <2>1, <2>2, Zenon
<1> HIDE DEF t
<1>2. Len(s) \in Nat /\ k \in Nat /\ DOMAIN s = 1 .. Len(s) /\ DOMAIN t = 1 .. Len(s) + 1
  BY <1>1, LenProperties
<1> DEFINE from(i) == IF i < k THEN i ELSE i - 1
           to(j) == IF j < k THEN j ELSE j + 1
<1>3. \A i \in DOMAIN t : i # k => from(i) \in DOMAIN s /\ t[i] = s[from(i)]
  BY <1>1, <1>2
<1>4. k \in DOMAIN t /\ t[k] = e
  BY <1>1, <1>2
<1>5. \A j \in DOMAIN s : to(j) \in DOMAIN t /\ to(j) # k /\ from(to(j)) = j
  BY <1>2
<1>6. \A m, n \in DOMAIN t : m # k /\ n # k /\ from(m) = from(n) => m = n
  BY <1>2
<1> HIDE DEF from, to
<1>7. ToSet(t) = ToSet(s) \cup {e}
  <2>1. ASSUME NEW x \in ToSet(t) PROVE x \in ToSet(s) \cup {e}
    <3>1. PICK i \in DOMAIN t : x = t[i]
      BY DEF ToSet
    <3> QED
      BY <1>3, <1>4, <3>1 DEF ToSet
  <2>2. ASSUME NEW x \in ToSet(s) PROVE x \in ToSet(t)
    <3>1. PICK j \in DOMAIN s : x = s[j]
      BY DEF ToSet
    <3>2. x = t[to(j)] /\ to(j) \in DOMAIN t
      BY <1>3, <1>5, <3>1
    <3> QED
      BY <3>2 DEF ToSet
  <2>3. e \in ToSet(t)
    BY <1>4 DEF ToSet
  <2> QED
    BY <2>1, <2>2, <2>3
<1>8. \A i \in DOMAIN s : s[i] # e
  BY DEF ToSet
<1>9. \A m, n \in DOMAIN t : t[m] = t[n] => m = n
  BY <1>3, <1>4, <1>6, <1>8
<1> QED
  BY <1>7, <1>9 DEF t

LEMMA BumpedFacts ==
    ASSUME NEW sv \in [User -> Nat], NEW id \in ItemIds
    PROVE  /\ Bumped(sv, id) \in [User -> Nat]
           /\ \A u \in User : sv[u] <= Bumped(sv, id)[u]
           /\ id[2] < Bumped(sv, id)[id[1]]
           /\ \A u \in User : Bumped(sv, id)[u] # sv[u] =>
                  u = id[1] /\ Bumped(sv, id)[u] = id[2] + 1
<1>1. id[1] \in User /\ id[2] \in Nat
  BY IdFacts
<1>2. \A u \in User : sv[u] \in Nat
  OBVIOUS
<1>3. Bumped(sv, id) = [sv EXCEPT ![id[1]] = IF id[2] + 1 > sv[id[1]] THEN id[2] + 1
                                              ELSE sv[id[1]]]
  BY DEF Bumped
<1> QED
  BY <1>1, <1>2, <1>3

\* m is l but for the scan that does not end.
Spins(l, m) ==
    /\ m.spinning
    /\ m.origins = l.origins
    /\ m.deleted = l.deleted
    /\ m.stateVector = l.stateVector

\* m is l with one more item.
Adds(l, m, item) ==
    /\ m.spinning = l.spinning
    /\ Ids(m) = Ids(l) \cup {item.id}
    /\ \A id \in Ids(l) : m.origins[id] = l.origins[id]
    /\ m.origins[item.id] = [left |-> item.left, right |-> item.right]
    /\ m.deleted = IF item.deleted THEN l.deleted \cup {item.id} ELSE l.deleted
    /\ m.stateVector = Bumped(l.stateVector, item.id)

LEMMA IntegrateAddsItem ==
    ASSUME NEW l \in Lists, NEW item \in Items,
           OriginsKnown(l, item), item.id \notin Ids(l)
    PROVE  /\ Integrate(l, item) \in Lists
           /\ Integrate(l, item).opCounter = l.opCounter
           /\ Spins(l, Integrate(l, item)) \/ Adds(l, Integrate(l, item), item)
<1> DEFINE m == Integrate(l, item)
           s == Scan(l, item)
           links == [left |-> item.left, right |-> item.right]
           origins == [id \in Ids(l) \cup {item.id} |->
                           IF id = item.id THEN links ELSE l.origins[id]]
           order == InsertAt(l.order, Position(l, s.left) + 1, item.id)
           deleted == IF item.deleted THEN l.deleted \cup {item.id} ELSE l.deleted
<1>1. l \in ListShapes
  BY DEF Lists
<1>2. item.id \in ItemIds /\ item.left \in ItemIds \cup {HEAD}
      /\ item.right \in ItemIds \cup {TAIL} /\ item.deleted \in BOOLEAN
  BY DEF Items
<1>3. CASE ~Ordered(l, item) /\ ~s.done
  <2>1. m = [l EXCEPT !.spinning = TRUE]
    BY <1>3 DEF Integrate
  <2> HIDE DEF m
  <2>2. /\ m.order = l.order /\ m.origins = l.origins /\ m.deleted = l.deleted
        /\ m.stateVector = l.stateVector /\ m.opCounter = l.opCounter
        /\ m.spinning = TRUE /\ m \in ListShapes
    BY <1>1, <2>1 DEF ListShapes
  <2>3. Spins(l, m)
    BY <2>2 DEF Spins
  <2>4. Ids(m) = Ids(l)
    BY <2>2 DEF Ids
  <2>5. m \in Lists
    BY <2>2, <2>4, ListFacts
       DEF Lists, HoldsItemsOnce, OriginsHeld, Grounded, Counted
  <2> QED
    BY <2>2, <2>3, <2>5 DEF m
<1>4. CASE ~(~Ordered(l, item) /\ ~s.done)
  <2>1. m = [l EXCEPT !.order = order, !.origins = origins, !.deleted = deleted,
                      !.stateVector = Bumped(l.stateVector, item.id)]
    BY <1>4 DEF Integrate
  <2>2. /\ DOMAIN origins = Ids(l) \cup {item.id}
        /\ origins[item.id] = links
        /\ \A id \in Ids(l) : origins[id] = l.origins[id]
    OBVIOUS
  <2>3. links \in Links
    BY <1>2 DEF Links
  <2>4. origins \in Linkings
    <3>1. DOMAIN origins \in SUBSET ItemIds
      BY <1>2, <2>2, ListFacts
    <3>2. \A id \in DOMAIN origins : origins[id] \in Links
      BY <2>2, <2>3, ListFacts
    <3>3. origins = [id \in DOMAIN origins |-> origins[id]]
      OBVIOUS
    <3> HIDE DEF origins
    <3>4. origins \in [DOMAIN origins -> Links]
      BY <3>2, <3>3
    <3> QED
      BY <3>1, <3>4, LinkingFacts
  <2>5. Position(l, s.left) + 1 \in 1 .. Len(l.order) + 1
    <3>1. s.left \in Ids(l) \cup {item.left}
      BY ScanStaysInList, BetweenFacts DEF ScanStates
    <3>2. s.left \in Ids(l) \cup {HEAD}
      BY <1>2, <3>1, IdFacts DEF OriginsKnown, HEAD, TAIL
    <3>3. Position(l, s.left) \in 0 .. Len(l.order) /\ Len(l.order) \in Nat
      BY <3>2, PositionFacts, SentinelPositions, ListFacts
    <3> QED
      BY <3>3
  <2>6. l.order \in Seq(ItemIds) /\ item.id \notin ToSet(l.order)
        /\ \A i, j \in DOMAIN l.order : l.order[i] = l.order[j] => i = j
    BY ListFacts DEF HoldsItemsOnce
  <2>7. /\ order \in Seq(ItemIds)
        /\ ToSet(order) = ToSet(l.order) \cup {item.id}
        /\ \A i, j \in DOMAIN order : order[i] = order[j] => i = j
    <3> DEFINE k == Position(l, s.left) + 1
    <3>1. k \in 1 .. Len(l.order) + 1
      BY <2>5
    <3> HIDE DEF k
    <3> DEFINE t == InsertAt(l.order, k, item.id)
    <3>2. t \in Seq(ItemIds)
      BY <1>2, <2>6, <3>1, InsertAtFacts
    <3>3. ToSet(t) = ToSet(l.order) \cup {item.id}
      BY <1>2, <2>6, <3>1, InsertedOnce
    <3>4. ASSUME NEW i \in DOMAIN t, NEW j \in DOMAIN t, t[i] = t[j]
          PROVE  i = j
      BY <1>2, <2>6, <3>1, <3>4, InsertedOnce
    <3>5. t = order
      BY DEF k
    <3> QED
      BY <3>2, <3>3, <3>4, <3>5
  <2>8. deleted \in SUBSET ItemIds /\ deleted \subseteq Ids(l) \cup {item.id}
    BY <1>2, ListFacts
  <2>9. Bumped(l.stateVector, item.id) \in [User -> Nat]
    BY <1>2, ListFacts, BumpedFacts
  <2> HIDE DEF m, order, origins, deleted
  <2>10. /\ m.order = order /\ m.origins = origins /\ m.deleted = deleted
         /\ m.stateVector = Bumped(l.stateVector, item.id)
         /\ m.opCounter = l.opCounter /\ m.spinning = l.spinning
         /\ m \in ListShapes
    BY <1>1, <2>1, <2>4, <2>7, <2>8, <2>9 DEF ListShapes
  <2>11. Ids(m) = Ids(l) \cup {item.id}
    BY <2>2, <2>10 DEF Ids
  <2>12. Adds(l, m, item)
    <3>1. m.deleted = IF item.deleted THEN l.deleted \cup {item.id} ELSE l.deleted
      BY <2>10 DEF deleted
    <3> QED
      BY <2>2, <2>10, <2>11, <3>1 DEF Adds
  <2>13. HoldsItemsOnce(m)
    BY <2>7, <2>10, <2>11, ListFacts DEF HoldsItemsOnce
  <2>14. item.left \in Ids(l) \cup {HEAD} /\ item.right \in Ids(l) \cup {TAIL}
    BY <1>2, IdFacts DEF OriginsKnown, HEAD, TAIL
  <2>15. OriginsHeld(m)
    BY <2>2, <2>10, <2>11, <2>14, ListFacts DEF OriginsHeld
  <2>16. Grounded(m)
    <3> SUFFICES ASSUME NEW S \in SUBSET Ids(m), S # {}
                 PROVE  \E id \in S : m.origins[id].left \notin S
                                      /\ m.origins[id].right \notin S
      BY DEF Grounded
    <3> DEFINE old == S \ {item.id}
    <3>1. old \in SUBSET Ids(l)
      BY <2>11
    <3>2. item.id # HEAD /\ item.id # TAIL /\ HEAD \notin Ids(l) /\ TAIL \notin Ids(l)
      BY <1>2, IdFacts, ListFacts
    <3>3. CASE old # {}
      <4>1. PICK id \in old : l.origins[id].left \notin old /\ l.origins[id].right \notin old
        BY <3>1, <3>3, ListFacts DEF Grounded
      <4>2. id \in Ids(l) /\ m.origins[id] = l.origins[id]
        BY <2>2, <2>10, <3>1, <4>1
      <4>3. l.origins[id].left # item.id /\ l.origins[id].right # item.id
        BY <3>2, <4>2, ListFacts DEF OriginsHeld
      <4> QED
        BY <4>1, <4>2, <4>3
    <3>4. CASE old = {}
      <4>1. S = {item.id}
        BY <3>4
      <4>2. m.origins[item.id].left # item.id /\ m.origins[item.id].right # item.id
        BY <2>2, <2>10, <2>14, <3>2
      <4> QED
        BY <4>1, <4>2
    <3> QED
      BY <3>3, <3>4
  <2>17. Counted(m)
    <3>1. l.stateVector \in [User -> Nat] /\ item.id = <<item.id[1], item.id[2]>>
          /\ item.id[2] \in Nat
      BY <1>2, ListFacts, IdFacts
    <3>2. ASSUME NEW id \in Ids(m) PROVE id[2] < m.stateVector[id[1]]
      <4>1. id \in ItemIds
        BY <1>2, <2>11, ListFacts
      <4>2. id[1] \in User /\ id[2] \in Nat
        BY <4>1, IdFacts
      <4>3. CASE id = item.id
        BY <1>2, <2>10, <3>1, <4>3, BumpedFacts
      <4>4. CASE id \in Ids(l)
        <5>1. id[2] < l.stateVector[id[1]]
          BY <4>4, ListFacts DEF Counted
        <5>2. l.stateVector[id[1]] <= m.stateVector[id[1]]
              /\ l.stateVector[id[1]] \in Nat /\ m.stateVector[id[1]] \in Nat
          BY <1>2, <2>9, <2>10, <3>1, <4>2, BumpedFacts
        <5> QED
          BY <4>2, <5>1, <5>2
      <4> QED
        BY <2>11, <4>3, <4>4
    <3>3. ASSUME NEW u \in User, m.stateVector[u] # 0
          PROVE  <<u, m.stateVector[u] - 1>> \in Ids(m)
      <4>1. CASE m.stateVector[u] = l.stateVector[u]
        BY <2>11, <3>3, <4>1, ListFacts DEF Counted
      <4>2. CASE m.stateVector[u] # l.stateVector[u]
        <5>1. u = item.id[1] /\ m.stateVector[u] = item.id[2] + 1
          BY <1>2, <2>10, <3>1, <4>2, BumpedFacts
        <5>2. m.stateVector[u] - 1 = item.id[2]
          BY <3>1, <5>1
        <5> QED
          BY <2>11, <3>1, <5>1, <5>2
      <4> QED
        BY <4>1, <4>2
    <3> QED
      BY <3>2, <3>3 DEF Counted
  <2>18. m \in Lists
    BY <2>8, <2>10, <2>11, <2>13, <2>15, <2>16, <2>17 DEF Lists
  <2> QED
    BY <2>10, <2>12, <2>18 DEF m
<1> QED
  BY <1>3, <1>4

----------------------------------------------------------------------------
(* The order of items.                                                     *)

Known(l) == Ids(l) \cup {HEAD, TAIL}

KeepsOrder(l, m) ==
    \A a, b \in Known(l) :
        Position(m, a) < Position(m, b) <=> Position(l, a) < Position(l, b)

BetweenOrigins(l, id) ==
    /\ Position(l, l.origins[id].left) < Position(l, id)
    /\ Position(l, id) < Position(l, l.origins[id].right)

LEMMA KnownPositions ==
    ASSUME NEW l \in Lists, NEW a \in Known(l)
    PROVE  Position(l, a) \in 0 .. Len(l.order) + 1 /\ Len(l.order) \in Nat
<1>1. Len(l.order) \in Nat
  BY ListFacts
<1> QED
  BY <1>1, PositionFacts, SentinelPositions DEF Known

LEMMA SameOrder ==
    ASSUME NEW l, NEW m, m.order = l.order
    PROVE  /\ \A a : Position(m, a) = Position(l, a)
           /\ KeepsOrder(l, m)
<1>1. \A a : Position(m, a) = Position(l, a)
  BY DEF Position
<1> QED
  BY <1>1 DEF KeepsOrder

LEMMA KeepsOrderTwice ==
    ASSUME NEW l, NEW m, NEW k, Ids(l) \subseteq Ids(m),
           KeepsOrder(l, m), KeepsOrder(m, k)
    PROVE  KeepsOrder(l, k)
  BY DEF KeepsOrder, Known

LEMMA OrderedKept ==
    ASSUME NEW l, NEW m, KeepsOrder(l, m), NEW item, OriginsKnown(l, item)
    PROVE  Ordered(m, item) <=> Ordered(l, item)
  BY DEF KeepsOrder, Known, Ordered, OriginsKnown

LEMMA BetweenKept ==
    ASSUME NEW l \in Lists, NEW m, NEW id \in Ids(l), KeepsOrder(l, m),
           m.origins[id] = l.origins[id]
    PROVE  BetweenOrigins(m, id) <=> BetweenOrigins(l, id)
<1>1. {id, l.origins[id].left, l.origins[id].right} \subseteq Known(l)
  BY ListFacts DEF OriginsHeld, Known
<1> QED
  BY <1>1 DEF KeepsOrder, BetweenOrigins

LEMMA AgreeOnKnown ==
    ASSUME NEW l \in Lists, NEW m \in Lists, Agree(l, m),
           NEW a \in Known(l) \cap Known(m), NEW b \in Known(l) \cap Known(m)
    PROVE  Position(l, a) < Position(l, b) <=> Position(m, a) < Position(m, b)
<1>1. \A k \in {l, m} :
          /\ Len(k.order) \in Nat
          /\ Position(k, HEAD) = 0 /\ Position(k, TAIL) = Len(k.order) + 1
          /\ \A id \in Ids(k) : Position(k, id) \in 1 .. Len(k.order)
  BY ListFacts, PositionFacts, SentinelPositions
<1>2. \A id \in {a, b} : id \in Ids(l) \cap Ids(m) \/ id = HEAD \/ id = TAIL
  BY ListFacts DEF Known
<1>3. CASE {a, b} \subseteq Ids(l) \cap Ids(m)
  BY <1>3 DEF Agree
<1>4. CASE ~({a, b} \subseteq Ids(l) \cap Ids(m))
  BY <1>1, <1>2, <1>4
<1> QED
  BY <1>3, <1>4

LEMMA OrderIsCounted ==
    ASSUME NEW l \in Lists
    PROVE  Len(l.order) = Cardinality(Ids(l))
<1>1. l.order \in Seq(ItemIds) /\ ToSet(l.order) = Ids(l)
      /\ \A m, n \in DOMAIN l.order : l.order[m] = l.order[n] => m = n
  BY ListFacts DEF HoldsItemsOnce
<1>2. Len(l.order) \in Nat /\ DOMAIN l.order = 1 .. Len(l.order)
      /\ l.order \in [1 .. Len(l.order) -> ItemIds]
  BY <1>1, LenProperties
<1>3. l.order \in Injection(1 .. Len(l.order), Ids(l))
  BY <1>1, <1>2 DEF Injection, IsInjective, ToSet
<1>4. l.order \in Surjection(1 .. Len(l.order), Ids(l))
  BY <1>1, <1>2 DEF Surjection, ToSet
<1>5. IsFiniteSet(1 .. Len(l.order)) /\ Cardinality(1 .. Len(l.order)) = Len(l.order)
  BY <1>2, FS_Interval
<1> QED
  BY <1>3, <1>4, <1>5, FS_Surjection

LEMMA AgreedOrder ==
    ASSUME NEW l \in Lists, NEW m \in Lists, Agree(l, m), Ids(l) = Ids(m)
    PROVE  l.order = m.order
<1> DEFINE N == Len(l.order)
           D == {k \in 1 .. N : l.order[k] # m.order[k]}
<1>1. N \in Nat /\ Len(m.order) = N
  BY ListFacts, OrderIsCounted
<1>2. l.order \in [1 .. N -> ItemIds] /\ m.order \in [1 .. N -> ItemIds]
  BY <1>1, ListFacts, LenProperties
<1>3. \A k \in 1 .. N : /\ l.order[k] \in Ids(l) /\ Position(l, l.order[k]) = k
                        /\ m.order[k] \in Ids(m) /\ Position(m, m.order[k]) = k
  BY <1>1, PositionAt
<1>4. \A a \in Ids(l) : /\ Position(l, a) \in 1 .. N /\ l.order[Position(l, a)] = a
                        /\ Position(m, a) \in 1 .. N /\ m.order[Position(m, a)] = a
  BY <1>1, PositionFacts
<1> HIDE DEF N
<1>5. ASSUME D # {} PROVE FALSE
  <2>1. D \subseteq Nat
    BY <1>1
  <2>2. PICK n \in D : \A k \in D : n <= k
    <3> HIDE DEF D
    <3> QED
      BY <1>5, <2>1, LeastNumber
  <2>3. n \in 1 .. N /\ \A k \in 1 .. N : k < n => l.order[k] = m.order[k]
    BY <1>1, <2>2
  <2> DEFINE x == l.order[n]
             y == m.order[n]
  <2>4. x \in Ids(l) /\ y \in Ids(l) /\ x # y
        /\ Position(l, x) = n /\ Position(m, y) = n
    BY <1>3, <2>2, <2>3
  <2> HIDE DEF x, y, D
  <2>5. ~(Position(m, x) < n) /\ ~(Position(l, y) < n)
    BY <1>1, <1>3, <1>4, <2>3, <2>4
  <2>6. Position(m, x) # n /\ Position(l, y) # n
    BY <1>4, <2>4 DEF x, y
  <2>7. Position(m, y) < Position(m, x) /\ ~(Position(l, y) < Position(l, x))
    BY <1>1, <1>4, <2>3, <2>4, <2>5, <2>6
  <2> QED
    BY <2>4, <2>7 DEF Agree
<1>6. \A k \in 1 .. N : l.order[k] = m.order[k]
  BY <1>5
<1> DEFINE f == l.order
           g == m.order
<1>7. f \in [1 .. N -> ItemIds] /\ g \in [1 .. N -> ItemIds] /\ \A k \in 1 .. N : f[k] = g[k]
  BY <1>2, <1>6
<1> HIDE DEF f, g
<1>8. f = [k \in 1 .. N |-> f[k]] /\ g = [k \in 1 .. N |-> g[k]]
  BY <1>7
<1>9. [k \in 1 .. N |-> f[k]] = [k \in 1 .. N |-> g[k]]
  BY <1>7
<1>10. f = g
  BY <1>8, <1>9, Zenon
<1> QED
  BY <1>10 DEF f, g

LEMMA InsertedPositions ==
    ASSUME NEW l \in Lists, NEW m \in Lists, NEW k \in 1 .. Len(l.order) + 1,
           NEW id \in ItemIds, m.order = InsertAt(l.order, k, id),
           Ids(m) = Ids(l) \cup {id}
    PROVE  /\ Position(m, id) = k
           /\ \A a \in Known(l) :
                  Position(m, a) = IF Position(l, a) < k THEN Position(l, a)
                                   ELSE Position(l, a) + 1
<1>1. l.order \in Seq(ItemIds) /\ Len(l.order) \in Nat
  BY ListFacts
<1>2. /\ Len(m.order) = Len(l.order) + 1
      /\ \A i \in 1 .. Len(l.order) + 1 :
             m.order[i] = IF i < k THEN l.order[i] ELSE IF i = k THEN id ELSE l.order[i - 1]
  <2> DEFINE s == l.order
  <2>1. s \in Seq(ItemIds) /\ k \in 1 .. Len(s) + 1
    BY <1>1
  <2> HIDE DEF s
  <2>2. Len(InsertAt(s, k, id)) = Len(s) + 1
    BY <2>1, InsertAtFacts
  <2>3. ASSUME NEW i \in 1 .. Len(s) + 1
        PROVE  InsertAt(s, k, id)[i] =
                   IF i < k THEN s[i] ELSE IF i = k THEN id ELSE s[i - 1]
    BY <2>1, InsertAtFacts
  <2> QED
    BY <2>2, <2>3, Zenon DEF s
<1>3. \A i \in 1 .. Len(l.order) + 1 : Position(m, m.order[i]) = i
  BY <1>2, PositionAt
<1>4. m.order[k] = id
  BY <1>1, <1>2
<1>5. Position(m, id) = k
  BY <1>3, <1>4
<1>6. ASSUME NEW a \in Ids(l)
      PROVE  Position(m, a) = IF Position(l, a) < k THEN Position(l, a)
                              ELSE Position(l, a) + 1
  <2> DEFINE n == Position(l, a)
  <2>1. n \in 1 .. Len(l.order) /\ l.order[n] = a
    BY PositionFacts
  <2> HIDE DEF n
  <2>2. CASE n < k
    <3>1. n \in 1 .. Len(l.order) + 1 /\ m.order[n] = a
      BY <1>1, <1>2, <2>1, <2>2
    <3>2. Position(m, a) = n
      BY <1>3, <3>1
    <3> QED
      BY <2>2, <3>2 DEF n
  <2>3. CASE ~(n < k)
    <3>1. n + 1 \in 1 .. Len(l.order) + 1 /\ ~(n + 1 < k) /\ n + 1 # k /\ n + 1 - 1 = n
      BY <1>1, <2>1, <2>3
    <3>2. m.order[n + 1] = a
      BY <1>2, <2>1, <3>1
    <3>3. Position(m, a) = n + 1
      BY <1>3, <3>1, <3>2
    <3> QED
      BY <2>3, <3>3 DEF n
  <2> QED
    BY <2>2, <2>3
<1>7. /\ Position(m, HEAD) = 0 /\ Position(l, HEAD) = 0
      /\ Position(m, TAIL) = Len(l.order) + 2 /\ Position(l, TAIL) = Len(l.order) + 1
  BY <1>1, <1>2, SentinelPositions
<1>8. ASSUME NEW a \in Known(l)
      PROVE  Position(m, a) = IF Position(l, a) < k THEN Position(l, a)
                              ELSE Position(l, a) + 1
  <2>1. CASE a = HEAD
    BY <1>7, <2>1
  <2>2. CASE a = TAIL
    BY <1>1, <1>7, <2>2
  <2> QED
    BY <1>6, <2>1, <2>2 DEF Known
<1> QED
  BY <1>5, <1>8

(***************************************************************************)
(* Nothing changes sides when an item is integrated.  If its origins are   *)
(* in their order it is put between them; the scan spins on an item only   *)
(* if they are not.                                                        *)
(***************************************************************************)
LEMMA IntegrateKeepsOrder ==
    ASSUME NEW l \in Lists, NEW item \in Items,
           OriginsKnown(l, item), item.id \notin Ids(l)
    PROVE  /\ KeepsOrder(l, Integrate(l, item))
           /\ Ordered(l, item) => /\ Adds(l, Integrate(l, item), item)
                                  /\ BetweenOrigins(Integrate(l, item), item.id)
           /\ Spins(l, Integrate(l, item)) /\ ~l.spinning => ~Ordered(l, item)
<1> DEFINE m == Integrate(l, item)
           s == Scan(l, item)
           k == Position(l, s.left) + 1
<1>1. m \in Lists /\ (Spins(l, m) \/ Adds(l, m, item))
  BY IntegrateAddsItem
<1>2. CASE ~Ordered(l, item) /\ ~s.done
  <2>1. m = [l EXCEPT !.spinning = TRUE]
    BY <1>2 DEF Integrate
  <2>2. m.order = l.order
    BY <2>1
  <2> QED
    BY <1>2, <2>2, SameOrder
<1>3. CASE ~(~Ordered(l, item) /\ ~s.done)
  <2>1. m.order = InsertAt(l.order, k, item.id) /\ m.spinning = l.spinning
        /\ Ids(m) = Ids(l) \cup {item.id}
        /\ m.origins[item.id] = [left |-> item.left, right |-> item.right]
    <3> DEFINE origins == [id \in Ids(l) \cup {item.id} |->
                              IF id = item.id
                              THEN [left |-> item.left, right |-> item.right]
                              ELSE l.origins[id]]
    <3>1. m = [l EXCEPT !.order = InsertAt(l.order, k, item.id), !.origins = origins,
                        !.deleted = IF item.deleted THEN l.deleted \cup {item.id}
                                    ELSE l.deleted,
                        !.stateVector = Bumped(l.stateVector, item.id)]
      BY <1>3 DEF Integrate
    <3>2. l \in ListShapes
      BY DEF Lists
    <3> HIDE DEF m, k, origins
    <3>3. /\ m.order = InsertAt(l.order, k, item.id) /\ m.origins = origins
          /\ m.spinning = l.spinning
      BY <3>1, <3>2 DEF ListShapes
    <3> QED
      BY <3>3 DEF Ids, origins
  <2>2. /\ Len(l.order) \in Nat
        /\ Position(l, item.left) \in 0 .. Len(l.order)
        /\ Position(l, item.right) \in 1 .. Len(l.order) + 1
    BY OriginPositions
  <2>3. s.left \in ToSet(Between(l, item)) \cup {item.left}
    BY ScanStaysInList DEF ScanStates
  <2>4. /\ k \in 1 .. Len(l.order) + 1
        /\ Position(l, item.left) < k
        /\ Ordered(l, item) => k <= Position(l, item.right)
    <3>1. CASE s.left = item.left
      BY <2>2, <3>1 DEF Ordered
    <3>2. CASE s.left # item.left
      <4>1. s.left \in ToSet(Between(l, item))
        BY <2>3, <3>2
      <4>2. /\ Position(l, s.left) \in 1 .. Len(l.order)
            /\ Position(l, item.left) < Position(l, s.left)
            /\ Ordered(l, item) => Position(l, s.left) < Position(l, item.right)
        BY <4>1, BetweenFacts, PositionFacts
      <4> QED
        BY <2>2, <4>2
    <3> QED
      BY <3>1, <3>2
  <2>5. item.id \in ItemIds
    BY DEF Items
  <2> HIDE DEF m, k, s
  <2>6. /\ Position(m, item.id) = k
        /\ \A a \in Known(l) :
               Position(m, a) = IF Position(l, a) < k THEN Position(l, a)
                                ELSE Position(l, a) + 1
    BY <1>1, <2>1, <2>4, <2>5, InsertedPositions
  <2>7. \A a \in Known(l) : Position(l, a) \in Nat
    BY KnownPositions
  <2>8. KeepsOrder(l, m)
    BY <2>2, <2>4, <2>6, <2>7 DEF KeepsOrder
  <2>9. ASSUME Ordered(l, item)
        PROVE  Adds(l, m, item) /\ BetweenOrigins(m, item.id)
    <3>1. item.left \in Known(l) /\ item.right \in Known(l)
      BY DEF OriginsKnown, Known
    <3>2. Position(m, item.left) < k /\ k < Position(m, item.right)
      BY <2>2, <2>4, <2>6, <2>9, <3>1
    <3>3. BetweenOrigins(m, item.id)
      BY <2>1, <2>6, <3>2 DEF BetweenOrigins
    <3>4. ~Spins(l, m)
      BY <2>1 DEF Spins, Ids
    <3> QED
      BY <1>1, <3>3, <3>4
  <2>10. ~(Spins(l, m) /\ ~l.spinning)
    BY <2>1 DEF Spins
  <2> QED
    BY <2>8, <2>9, <2>10 DEF m
<1> QED
  BY <1>2, <1>3

----------------------------------------------------------------------------
(* applyUpdate.                                                            *)

\* What l holds has not changed sides, and only an item whose origins have
\* changed sides makes the scan spin.
InPlace(l, m, items) ==
    /\ KeepsOrder(l, m)
    /\ m.spinning => \/ l.spinning
                     \/ \E x \in items : OriginsKnown(m, x) /\ ~Ordered(m, x)

\* m is l with some of the items, and some of the tombstones they carry.
Grown(l, m, items) ==
    /\ Ids(l) \subseteq Ids(m)
    /\ \A id \in Ids(l) : m.origins[id] = l.origins[id]
    /\ \A id \in Ids(m) \ Ids(l) :
           \E x \in items : x.id = id /\ m.origins[id] = [left |-> x.left, right |-> x.right]
    /\ l.deleted \subseteq m.deleted
    /\ \A id \in m.deleted \ l.deleted : \E x \in items : x.id = id /\ x.deleted
    /\ \A u \in User :
           /\ l.stateVector[u] <= m.stateVector[u]
           /\ m.stateVector[u] # l.stateVector[u] =>
                  \E x \in items : x.id[1] = u /\ m.stateVector[u] = x.id[2] + 1
    /\ m.opCounter = l.opCounter
    /\ l.spinning => m.spinning
    /\ InPlace(l, m, items)

\* All that an item says is in the list.
Merged(l, item) == item.id \in Ids(l) /\ (item.deleted => item.id \in l.deleted)

LEMMA GrownSame ==
    ASSUME NEW l \in Lists, NEW items
    PROVE  Grown(l, l, items)
<1>1. \A u \in User : l.stateVector[u] \in Nat
  BY ListFacts
<1>2. InPlace(l, l, items)
  BY SameOrder DEF InPlace
<1> QED
  BY <1>1, <1>2 DEF Grown

LEMMA GrownTwice ==
    ASSUME NEW l \in Lists, NEW m \in Lists, NEW k \in Lists, NEW items,
           Grown(l, m, items), Grown(m, k, items)
    PROVE  Grown(l, k, items)
<1>1. \A u \in User : /\ l.stateVector[u] \in Nat
                      /\ m.stateVector[u] \in Nat
                      /\ k.stateVector[u] \in Nat
  BY ListFacts
<1>2. Ids(l) \subseteq Ids(k) /\ \A id \in Ids(l) : k.origins[id] = l.origins[id]
  BY DEF Grown
<1>3. ASSUME NEW id \in Ids(k) \ Ids(l)
      PROVE  \E x \in items : x.id = id
                              /\ k.origins[id] = [left |-> x.left, right |-> x.right]
  <2>1. CASE id \in Ids(m)
    BY <2>1, <1>3 DEF Grown
  <2>2. CASE id \notin Ids(m)
    BY <2>2, <1>3 DEF Grown
  <2> QED
    BY <2>1, <2>2
<1>4. l.deleted \subseteq k.deleted
      /\ \A id \in k.deleted \ l.deleted : \E x \in items : x.id = id /\ x.deleted
  BY DEF Grown
<1>5. ASSUME NEW u \in User
      PROVE  /\ l.stateVector[u] <= k.stateVector[u]
             /\ k.stateVector[u] # l.stateVector[u] =>
                    \E x \in items : x.id[1] = u /\ k.stateVector[u] = x.id[2] + 1
  <2>1. l.stateVector[u] <= m.stateVector[u] /\ m.stateVector[u] <= k.stateVector[u]
    BY DEF Grown
  <2>2. CASE k.stateVector[u] = m.stateVector[u]
    BY <2>1, <2>2 DEF Grown
  <2>3. CASE k.stateVector[u] # m.stateVector[u]
    BY <1>1, <2>1, <2>3 DEF Grown
  <2> QED
    BY <2>2, <2>3
<1>6. k.opCounter = l.opCounter /\ (l.spinning => k.spinning)
  BY DEF Grown
<1>7. InPlace(l, k, items)
  <2>1. /\ InPlace(l, m, items) /\ InPlace(m, k, items)
        /\ Ids(l) \subseteq Ids(m) /\ Ids(m) \subseteq Ids(k)
    BY DEF Grown
  <2>2. KeepsOrder(l, k)
    BY <2>1, KeepsOrderTwice DEF InPlace
  <2>3. ASSUME NEW x \in items, OriginsKnown(m, x), ~Ordered(m, x)
        PROVE  OriginsKnown(k, x) /\ ~Ordered(k, x)
    <3>1. OriginsKnown(k, x)
      BY <2>1, <2>3 DEF OriginsKnown
    <3>2. KeepsOrder(m, k)
      BY <2>1 DEF InPlace
    <3> QED
      BY <2>3, <3>1, <3>2, OrderedKept
  <2>4. k.spinning => \/ l.spinning
                      \/ \E x \in items : OriginsKnown(k, x) /\ ~Ordered(k, x)
    <3>1. k.spinning => \/ m.spinning
                        \/ \E x \in items : OriginsKnown(k, x) /\ ~Ordered(k, x)
      BY <2>1, Zenon DEF InPlace
    <3>2. m.spinning => \/ l.spinning
                        \/ \E x \in items : OriginsKnown(m, x) /\ ~Ordered(m, x)
      BY <2>1, Zenon DEF InPlace
    <3> QED
      BY <2>3, <3>1, <3>2
  <2> QED
    BY <2>2, <2>4 DEF InPlace
<1> QED
  BY <1>2, <1>3, <1>4, <1>5, <1>6, <1>7 DEF Grown

LEMMA GrownKeeps ==
    ASSUME NEW l \in Lists, NEW m \in Lists, NEW items, Grown(l, m, items),
           NEW item
    PROVE  /\ OriginsKnown(l, item) => OriginsKnown(m, item)
           /\ Merged(l, item) => Merged(m, item)
  BY DEF Grown, OriginsKnown, Merged

LEMMA GrownWithItem ==
    ASSUME NEW l \in Lists, NEW m \in Lists, NEW items \in SUBSET Items,
           NEW item \in items, m.opCounter = l.opCounter, Adds(l, m, item),
           item.id \notin Ids(l), KeepsOrder(l, m)
    PROVE  Grown(l, m, items) /\ Merged(m, item)
<1>1. item.id \in ItemIds /\ item.deleted \in BOOLEAN
  BY DEF Items
<1>2. m.stateVector = Bumped(l.stateVector, item.id) /\ l.stateVector \in [User -> Nat]
  BY ListFacts DEF Adds
<1>3. \A u \in User :
          /\ l.stateVector[u] <= m.stateVector[u]
          /\ m.stateVector[u] # l.stateVector[u] =>
                 item.id[1] = u /\ m.stateVector[u] = item.id[2] + 1
  BY <1>1, <1>2, BumpedFacts
<1>4. /\ Ids(m) = Ids(l) \cup {item.id}
      /\ \A id \in Ids(l) : m.origins[id] = l.origins[id]
      /\ m.origins[item.id] = [left |-> item.left, right |-> item.right]
      /\ m.spinning = l.spinning
  BY DEF Adds
<1>5. /\ l.deleted \subseteq m.deleted
      /\ \A id \in m.deleted \ l.deleted : id = item.id /\ item.deleted
      /\ item.deleted => item.id \in m.deleted
  BY DEF Adds
<1>6. InPlace(l, m, items)
  BY <1>4 DEF InPlace
<1> QED
  BY <1>3, <1>4, <1>5, <1>6 DEF Grown, Merged

LEMMA MergeGrows ==
    ASSUME NEW l \in Lists, NEW items \in SUBSET Items, NEW item \in items,
           OriginsKnown(l, item)
    PROVE  /\ Merge(l, item) \in Lists
           /\ Grown(l, Merge(l, item), items)
           /\ ~Merge(l, item).spinning => Merged(Merge(l, item), item)
<1>1. item \in Items
  OBVIOUS
<1>2. CASE item.id \notin Ids(l)
  <2> DEFINE m == Integrate(l, item)
  <2>1. Merge(l, item) = m
    BY <1>2 DEF Merge
  <2>2. m \in Lists /\ m.opCounter = l.opCounter /\ (Spins(l, m) \/ Adds(l, m, item))
    BY <1>1, <1>2, IntegrateAddsItem
  <2>3. KeepsOrder(l, m) /\ (Spins(l, m) /\ ~l.spinning => ~Ordered(l, item))
    BY <1>1, <1>2, IntegrateKeepsOrder
  <2> HIDE DEF m
  <2>4. CASE Adds(l, m, item)
    BY <1>2, <2>1, <2>2, <2>4, <2>3, GrownWithItem
  <2>5. CASE Spins(l, m)
    <3>1. m.spinning /\ Ids(m) = Ids(l) /\ m.origins = l.origins
          /\ m.deleted = l.deleted /\ m.stateVector = l.stateVector
      BY <2>5 DEF Spins, Ids
    <3>2. \A u \in User : l.stateVector[u] <= m.stateVector[u]
      BY <2>2, <3>1, ListFacts
    <3>3. OriginsKnown(m, item) /\ (Ordered(m, item) <=> Ordered(l, item))
      BY <2>3, <3>1, OrderedKept DEF OriginsKnown
    <3>4. InPlace(l, m, items)
      BY <2>5, <2>3, <3>3 DEF InPlace
    <3> QED
      BY <2>1, <2>2, <3>1, <3>2, <3>4 DEF Grown
  <2> QED
    BY <2>2, <2>4, <2>5
<1>3. CASE item.id \in Ids(l) /\ item.deleted
  <2> DEFINE m == [l EXCEPT !.deleted = @ \cup {item.id}]
  <2>1. Merge(l, item) = m
    BY <1>3 DEF Merge
  <2>2. l \in ListShapes /\ item.id \in ItemIds
    BY <1>1 DEF Lists, Items
  <2>3. m \in ListShapes /\ m.order = l.order /\ m.origins = l.origins
        /\ m.deleted = l.deleted \cup {item.id} /\ m.stateVector = l.stateVector
        /\ m.opCounter = l.opCounter /\ m.spinning = l.spinning
    BY <2>2 DEF ListShapes
  <2> HIDE DEF m
  <2>4. Ids(m) = Ids(l)
    BY <2>3 DEF Ids
  <2>5. m \in Lists
    BY <1>3, <2>3, <2>4, ListFacts
       DEF Lists, HoldsItemsOnce, OriginsHeld, Grounded, Counted
  <2>6. \A u \in User : l.stateVector[u] <= m.stateVector[u]
    BY <2>3, ListFacts
  <2>7. InPlace(l, m, items)
    BY <2>3, SameOrder DEF InPlace
  <2>8. Grown(l, m, items) /\ Merged(m, item)
    BY <1>3, <2>3, <2>4, <2>6, <2>7 DEF Grown, Merged
  <2> QED
    BY <2>1, <2>5, <2>8
<1>4. CASE item.id \in Ids(l) /\ ~item.deleted
  <2>1. Merge(l, item) = l
    BY <1>4 DEF Merge
  <2> QED
    BY <1>4, <2>1, GrownSame DEF Merged
<1> QED
  BY <1>2, <1>3, <1>4

LEMMA GrownByMore ==
    ASSUME NEW l, NEW m, NEW few, NEW items, few \subseteq items, Grown(l, m, few)
    PROVE  Grown(l, m, items)
<1>1. InPlace(l, m, items)
  BY DEF Grown, InPlace
<1> QED
  BY <1>1 DEF Grown

Rounds(l, items) ==
    {s \in [list : Lists, pending : Seq(items)] : Grown(l, s.list, items)}

\* What trying an item does to a state of the pass that does not end up spinning.
TriedItem(s, t, item) ==
    \/ /\ OriginsKnown(s.list, item)
       /\ Merged(t.list, item)
       /\ t.pending = s.pending
    \/ /\ ~OriginsKnown(s.list, item)
       /\ t.list = s.list
       /\ t.pending = <<item>> \o s.pending

LEMMA TriedRound ==
    ASSUME NEW l \in Lists, NEW items \in SUBSET Items,
           NEW s \in Rounds(l, items), NEW item \in items
    PROVE  /\ Tried(s, item) \in Rounds(l, items)
           /\ Grown(s.list, Tried(s, item).list, items)
           /\ ~Tried(s, item).list.spinning => TriedItem(s, Tried(s, item), item)
<1> DEFINE t == Tried(s, item)
<1>1. s \in [list : Lists, pending : Seq(items)] /\ Grown(l, s.list, items)
  BY DEF Rounds
<1>2. s.list \in Lists /\ s.pending \in Seq(items)
  BY <1>1
<1>3. CASE s.list.spinning
  <2>1. t = s
    BY <1>3 DEF Tried
  <2> QED
    BY <1>2, <1>3, <2>1, GrownSame
<1>4. CASE ~s.list.spinning /\ OriginsKnown(s.list, item)
  <2> DEFINE m == Merge(s.list, item)
  <2>1. t = [s EXCEPT !.list = m]
    BY <1>4 DEF Tried
  <2>2. m \in Lists /\ Grown(s.list, m, items) /\ (~m.spinning => Merged(m, item))
    BY <1>2, <1>4, MergeGrows
  <2> HIDE DEF m, t
  <2>3. t \in [list : Lists, pending : Seq(items)] /\ t.list = m /\ t.pending = s.pending
    BY <1>1, <2>1, <2>2
  <2>4. Grown(l, m, items)
    BY <1>1, <1>2, <2>2, GrownTwice
  <2> QED
    BY <1>4, <2>2, <2>3, <2>4 DEF Rounds, TriedItem, t
<1>5. CASE ~s.list.spinning /\ ~OriginsKnown(s.list, item)
  <2>1. t = [s EXCEPT !.pending = <<item>> \o s.pending]
    BY <1>5 DEF Tried
  <2>2. <<item>> \o s.pending \in Seq(items)
    BY <1>2
  <2> HIDE DEF t
  <2>3. t \in [list : Lists, pending : Seq(items)] /\ t.list = s.list
        /\ t.pending = <<item>> \o s.pending
    BY <1>1, <2>1, <2>2
  <2> QED
    BY <1>1, <1>2, <1>5, <2>3, GrownSame DEF Rounds, TriedItem, t
<1> QED
  BY <1>3, <1>4, <1>5

(***************************************************************************)
(* What a pass leaves of the items it was given.                           *)
(***************************************************************************)
Left(l, items, p) ==
    /\ Len(p.pending) <= Len(items)
    /\ \A item \in ToSet(items) : Merged(p.list, item) \/ item \in ToSet(p.pending)
    /\ Len(p.pending) = Len(items) =>
           \A item \in ToSet(items) : ~OriginsKnown(l, item)

LEMMA PassRound ==
    ASSUME NEW l \in Lists, NEW pending \in Seq(Items),
           NEW r, r = [list |-> l, pending |-> pending]
    PROVE  /\ Pass(r) \in Rounds(l, ToSet(pending))
           /\ ~Pass(r).list.spinning => Left(l, pending, Pass(r))
<1> DEFINE N == Len(pending)
           items == ToSet(pending)
           T == Rounds(l, items)
           b == [list |-> l, pending |-> << >>]
           at(n) == pending[N + 1 - n]
<1>1. N \in Nat /\ DOMAIN pending = 1 .. N /\ items \in SUBSET Items
      /\ \A k \in 1 .. N : pending[k] \in items
  BY LenProperties DEF ToSet
<1>2. \A n \in 1 .. N : at(n) \in items
  <2> TAKE n \in 1 .. N
  <2>1. N + 1 - n \in 1 .. N
    BY <1>1
  <2> QED
    BY <1>1, <2>1
<1>3. \A item \in items : \E n \in 1 .. N : item = at(n)
  <2> TAKE item \in items
  <2>1. PICK k \in 1 .. N : item = pending[k]
    BY <1>1 DEF ToSet
  <2>2. N + 1 - k \in 1 .. N /\ N + 1 - (N + 1 - k) = k
    BY <1>1
  <2> QED
    BY <2>1, <2>2
<1> HIDE DEF items, N, at
<1>4. b \in T
  BY GrownSame DEF Rounds
<1>5. \A s \in T : \A n \in 1 .. N : Tried(s, at(n)) \in T
  BY <1>1, <1>2, TriedRound
<1> DEFINE g == [n \in 1 .. N |-> [s \in T |-> Tried(s, at(n))]]
<1>6. g \in [1 .. N -> [T -> T]]
  <2> HIDE DEF T
  <2> QED
    BY <1>5
<1>7. PICK f \in [0 .. N -> T] : IsHistory(f, N, b, g)
  <2>1. N \in Nat
    BY <1>1
  <2> HIDE DEF T, g, b
  <2> QED
    BY <2>1, <1>4, <1>6, LoopHistory
<1> DEFINE tried == CHOOSE h : h = [n \in 0 .. N |->
                        IF n = 0 THEN b ELSE Tried(h[n - 1], at(n))]
<1>8. f = [n \in 0 .. N |-> IF n = 0 THEN b ELSE Tried(f[n - 1], at(n))]
  <2>1. \A n \in 1 .. N : f[n] = Tried(f[n - 1], at(n))
    <3> TAKE n \in 1 .. N
    <3>1. n - 1 \in 0 .. N
      BY <1>1
    <3> HIDE DEF T, b
    <3> QED
      BY <1>7, <3>1 DEF IsHistory
  <2>2. \A n \in 0 .. N : n # 0 => n \in 1 .. N
    BY <1>1
  <2> HIDE DEF T, b, g
  <2> QED
    BY <1>7, <2>1, <2>2 DEF IsHistory
<1>9. tried = [n \in 0 .. N |-> IF n = 0 THEN b ELSE Tried(tried[n - 1], at(n))]
  <2> HIDE DEF T, b
  <2> QED
    BY <1>8
<1>10. tried[0] = b /\ \A n \in 1 .. N : tried[n] = Tried(tried[n - 1], at(n))
  <2>1. \A n \in 1 .. N : n \in 0 .. N /\ n # 0
    BY <1>1
  <2> HIDE DEF T, b, tried
  <2> QED
    BY <1>1, <1>9, <2>1
<1>11. Pass(r) = tried[N]
  <2>1. r.list = l /\ r.pending = pending
    OBVIOUS
  <2>2. Pass(r) = (CHOOSE h : h = [n \in 0 .. Len(r.pending) |->
                       IF n = 0 THEN [list |-> r.list, pending |-> << >>]
                       ELSE Tried(h[n - 1], r.pending[Len(r.pending) + 1 - n])])
                  [Len(r.pending)]
    BY DEF Pass
  <2> QED
    BY <2>1, <2>2, Zenon DEF N, at
<1> HIDE DEF tried, T, b
<1> DEFINE
      Good(n, s) ==
          /\ s \in T
          /\ ~s.list.spinning =>
                 /\ Len(s.pending) <= n
                 /\ \A k \in 1 .. n : Merged(s.list, at(k)) \/ at(k) \in ToSet(s.pending)
                 /\ Len(s.pending) = n => \A k \in 1 .. n : ~OriginsKnown(l, at(k))
      S == {n \in 0 .. N : Good(n, tried[n])}
<1>12. 0 \in S
  <2>1. tried[0] \in T /\ tried[0].pending = << >>
    BY <1>4, <1>10 DEF b
  <2>2. Len(<< >>) = 0 /\ 1 .. 0 = {}
    OBVIOUS
  <2> QED
    BY <1>1, <2>1, <2>2
<1>13. ASSUME NEW n \in 1 .. N, n - 1 \in S
       PROVE  n \in S
  <2> DEFINE s == tried[n - 1]
             t == tried[n]
             item == at(n)
  <2>1. Good(n - 1, s)
    BY <1>13
  <2>2. t = Tried(s, item) /\ item \in items
    BY <1>2, <1>10
  <2> HIDE DEF s, t, item
  <2>3. s \in Rounds(l, items) /\ s.list \in Lists /\ s.pending \in Seq(items)
        /\ Grown(l, s.list, items)
    BY <2>1 DEF T, Rounds
  <2>4. t \in Rounds(l, items) /\ Grown(s.list, t.list, items)
        /\ (~t.list.spinning => TriedItem(s, t, item))
    BY <1>1, <2>2, <2>3, TriedRound
  <2>5. t \in T /\ t.list \in Lists
    BY <2>4 DEF T, Rounds
  <2>6. ASSUME ~t.list.spinning
        PROVE  /\ Len(t.pending) <= n
               /\ \A k \in 1 .. n : Merged(t.list, at(k)) \/ at(k) \in ToSet(t.pending)
               /\ Len(t.pending) = n => \A k \in 1 .. n : ~OriginsKnown(l, at(k))
    <3>1. ~s.list.spinning
      BY <2>4, <2>6 DEF Grown
    <3>2. Len(s.pending) <= n - 1 /\ Len(s.pending) \in Nat
      BY <2>1, <2>3, <3>1, LenProperties
    <3>3. \A k \in 1 .. n - 1 : Merged(s.list, at(k)) \/ at(k) \in ToSet(s.pending)
      BY <2>1, <3>1
    <3>4. Len(s.pending) = n - 1 => \A k \in 1 .. n - 1 : ~OriginsKnown(l, at(k))
      BY <2>1, <3>1
    <3>5. \A k \in 1 .. n : k = n \/ k \in 1 .. n - 1
      BY <1>1
    <3>6. \A k \in 1 .. n - 1 : Merged(t.list, at(k)) \/ at(k) \in ToSet(s.pending)
      BY <2>3, <2>4, <2>5, <3>3, GrownKeeps
    <3>7. CASE OriginsKnown(s.list, item) /\ Merged(t.list, item) /\ t.pending = s.pending
      <4>1. \A k \in 1 .. n : Merged(t.list, at(k)) \/ at(k) \in ToSet(t.pending)
        BY <3>5, <3>6, <3>7 DEF item
      <4>2. Len(t.pending) <= n /\ Len(t.pending) # n
        BY <1>1, <3>2, <3>7
      <4> QED
        BY <4>1, <4>2
    <3>8. CASE ~OriginsKnown(s.list, item) /\ t.list = s.list
               /\ t.pending = <<item>> \o s.pending
      <4>1. <<item>> \in Seq(items) /\ Len(<<item>>) = 1 /\ <<item>>[1] = item
        BY <2>2
      <4>2. /\ Len(t.pending) = 1 + Len(s.pending)
            /\ \A i \in 1 .. 1 + Len(s.pending) :
                   t.pending[i] = IF i <= 1 THEN <<item>>[i] ELSE s.pending[i - 1]
            /\ t.pending \in Seq(items)
        BY <2>3, <3>8, <4>1, ConcatProperties
      <4>3. DOMAIN t.pending = 1 .. 1 + Len(s.pending)
            /\ DOMAIN s.pending = 1 .. Len(s.pending)
        BY <2>3, <4>2, LenProperties
      <4>4. item \in ToSet(t.pending)
        <5>1. 1 \in DOMAIN t.pending /\ t.pending[1] = item
          BY <3>2, <4>1, <4>2, <4>3
        <5> QED
          BY <5>1 DEF ToSet
      <4>5. ToSet(s.pending) \subseteq ToSet(t.pending)
        <5> SUFFICES ASSUME NEW i \in DOMAIN s.pending
                     PROVE  s.pending[i] \in ToSet(t.pending)
          BY DEF ToSet
        <5>1. i + 1 \in DOMAIN t.pending /\ t.pending[i + 1] = s.pending[i]
          BY <3>2, <4>2, <4>3
        <5> QED
          BY <5>1 DEF ToSet
      <4>6. \A k \in 1 .. n : Merged(t.list, at(k)) \/ at(k) \in ToSet(t.pending)
        BY <3>5, <3>6, <4>4, <4>5 DEF item
      <4>7. Len(t.pending) <= n
        BY <1>1, <3>2, <4>2
      <4>8. ~OriginsKnown(l, item)
        BY <2>3, <3>8, GrownKeeps
      <4>9. Len(t.pending) = n => \A k \in 1 .. n : ~OriginsKnown(l, at(k))
        BY <1>1, <3>2, <3>4, <3>5, <4>2, <4>8 DEF item
      <4> QED
        BY <4>6, <4>7, <4>9
    <3> QED
      BY <2>4, <2>6, <3>7, <3>8 DEF TriedItem
  <2>7. n \in 0 .. N
    BY <1>1
  <2>8. Good(n, t)
    BY <2>5, <2>6
  <2> QED
    BY <2>7, <2>8 DEF t
<1>14. 0 .. N \subseteq S
  <2> HIDE DEF S
  <2> QED
    BY <1>1, <1>12, <1>13, CountingUp
<1>15. Good(N, tried[N])
  <2>1. N \in 0 .. N
    BY <1>1
  <2> QED
    BY <1>14, <2>1
<1>16. ~tried[N].list.spinning => Left(l, pending, tried[N])
  <2> HAVE ~tried[N].list.spinning
  <2>1. \A item \in ToSet(pending) :
            Merged(tried[N].list, item) \/ item \in ToSet(tried[N].pending)
    BY <1>3, <1>15 DEF items
  <2>2. Len(tried[N].pending) = N => \A item \in ToSet(pending) : ~OriginsKnown(l, item)
    BY <1>3, <1>15 DEF items
  <2> QED
    BY <1>15, <2>1, <2>2 DEF Left, N
<1> QED
  BY <1>11, <1>15, <1>16 DEF T, items

\* Every origin is in the list or in the update, and no items hang on one another.
Applicable(l, items) ==
    /\ \A x \in items :
           {x.left, x.right} \subseteq Ids(l) \cup {y.id : y \in items} \cup {HEAD, TAIL}
    /\ \A S \in SUBSET items :
           S # {} => \E x \in S : {x.left, x.right} \cap {y.id : y \in S} = {}

LEMMA SomeOriginsKnown ==
    ASSUME NEW l \in Lists, NEW m \in Lists, NEW items \in SUBSET Items,
           Grown(l, m, items), Applicable(l, items),
           NEW left \in SUBSET items, left # {},
           \A item \in items : Merged(m, item) \/ item \in left
    PROVE  \E item \in left : OriginsKnown(m, item)
<1>1. PICK x \in left : {x.left, x.right} \cap {y.id : y \in left} = {}
  BY DEF Applicable
<1>2. {x.left, x.right} \subseteq Ids(l) \cup {y.id : y \in items} \cup {HEAD, TAIL}
  BY DEF Applicable
<1>3. \A y \in items : y \notin left => y.id \in Ids(m)
  BY DEF Merged
<1>4. ASSUME NEW o \in {x.left, x.right}
      PROVE  o \in Ids(m) \cup {HEAD, TAIL}
  <2>1. CASE o \in Ids(l) \cup {HEAD, TAIL}
    BY <2>1 DEF Grown
  <2>2. CASE o \in {y.id : y \in items}
    <3>1. PICK y \in items : o = y.id
      BY <2>2
    <3>2. y \notin left
      BY <1>1, <3>1
    <3> QED
      BY <1>3, <3>1, <3>2
  <2> QED
    BY <1>2, <2>1, <2>2
<1> QED
  BY <1>4 DEF OriginsKnown

(***************************************************************************)
(* applyUpdate takes every item of an update that brings the origins it    *)
(* needs, in whatever order it lists them: each pass over what is pending  *)
(* places at least one.                                                    *)
(***************************************************************************)
LEMMA ApplyUpdateTakesAll ==
    ASSUME NEW l \in Lists, NEW update \in Seq(Items)
    PROVE  /\ ApplyUpdate(l, update) \in Rounds(l, ToSet(update))
           /\ Applicable(l, ToSet(update)) /\ ~ApplyUpdate(l, update).list.spinning =>
                  /\ ApplyUpdate(l, update).pending = << >>
                  /\ \A item \in ToSet(update) : Merged(ApplyUpdate(l, update).list, item)
<1> DEFINE N == Len(update)
           items == ToSet(update)
           T == Rounds(l, items)
           b == [list |-> l, pending |-> update]
<1>1. N \in Nat /\ DOMAIN update = 1 .. N /\ items \in SUBSET Items /\ update \in Seq(items)
  <2>1. N \in Nat /\ DOMAIN update = 1 .. N
    BY LenProperties
  <2>2. \A k \in 1 .. N : update[k] \in items /\ update[k] \in Items
    BY <2>1, ElementOfSeq DEF ToSet
  <2>3. items \in SUBSET Items
    BY <2>1, <2>2 DEF ToSet
  <2> HIDE DEF items
  <2>4. update \in Seq(items)
    BY <2>1, <2>2
  <2> QED
    BY <2>1, <2>3, <2>4
<1> HIDE DEF items, N
<1>2. b \in T
  BY <1>1, GrownSame DEF Rounds
<1>3. ASSUME NEW s \in T
      PROVE  /\ s.list \in Lists /\ s.pending \in Seq(Items) /\ s.pending \in Seq(items)
             /\ ToSet(s.pending) \subseteq items
             /\ Grown(l, s.list, items)
             /\ Pass(s) \in T
             /\ Grown(s.list, Pass(s).list, items)
             /\ Pass(s).pending \in Seq(ToSet(s.pending))
             /\ ~Pass(s).list.spinning => Left(s.list, s.pending, Pass(s))
  <2>1. s \in [list : Lists, pending : Seq(items)] /\ Grown(l, s.list, items)
    BY DEF Rounds
  <2>2. s.list \in Lists /\ s.pending \in Seq(items)
        /\ s = [list |-> s.list, pending |-> s.pending]
    BY <2>1
  <2>3. s.pending \in Seq(Items)
    BY <1>1, <2>2, SeqMonotonic
  <2>4. ToSet(s.pending) \subseteq items
    BY <2>2, LenProperties, ElementOfSeq DEF ToSet
  <2>5. /\ Pass(s) \in Rounds(s.list, ToSet(s.pending))
        /\ ~Pass(s).list.spinning => Left(s.list, s.pending, Pass(s))
    BY <2>2, <2>3, PassRound
  <2>6. Pass(s) \in [list : Lists, pending : Seq(ToSet(s.pending))]
        /\ Grown(s.list, Pass(s).list, ToSet(s.pending))
    BY <2>5 DEF Rounds
  <2>7. Pass(s).list \in Lists /\ Pass(s).pending \in Seq(ToSet(s.pending))
        /\ Pass(s) = [list |-> Pass(s).list, pending |-> Pass(s).pending]
    BY <2>6
  <2>8. Grown(s.list, Pass(s).list, items)
    BY <2>4, <2>6, GrownByMore
  <2>9. Grown(l, Pass(s).list, items)
    BY <2>1, <2>2, <2>7, <2>8, GrownTwice
  <2>10. Pass(s).pending \in Seq(items)
    BY <2>4, <2>7, SeqMonotonic
  <2>11. Pass(s) \in [list : Lists, pending : Seq(items)]
    BY <2>7, <2>10
  <2>12. Pass(s) \in T
    BY <2>9, <2>11 DEF Rounds
  <2> QED
    BY <2>1, <2>2, <2>3, <2>4, <2>5, <2>7, <2>8, <2>12
<1> HIDE DEF T
<1> DEFINE g == [n \in 1 .. N |-> [s \in T |-> Pass(s)]]
<1>4. g \in [1 .. N -> [T -> T]]
  BY <1>3
<1>5. PICK f \in [0 .. N -> T] : IsHistory(f, N, b, g)
  <2>1. N \in Nat
    BY <1>1
  <2> HIDE DEF g, b
  <2> QED
    BY <2>1, <1>2, <1>4, LoopHistory
<1> DEFINE after == CHOOSE h : h = [n \in 0 .. N |-> IF n = 0 THEN b ELSE Pass(h[n - 1])]
<1>6. f = [n \in 0 .. N |-> IF n = 0 THEN b ELSE Pass(f[n - 1])]
  <2>1. \A n \in 1 .. N : f[n] = Pass(f[n - 1])
    <3> TAKE n \in 1 .. N
    <3>1. n - 1 \in 0 .. N
      BY <1>1
    <3> HIDE DEF b
    <3> QED
      BY <1>5, <3>1 DEF IsHistory
  <2>2. \A n \in 0 .. N : n # 0 => n \in 1 .. N
    BY <1>1
  <2> HIDE DEF b, g
  <2> QED
    BY <1>5, <2>1, <2>2 DEF IsHistory
<1>7. after = [n \in 0 .. N |-> IF n = 0 THEN b ELSE Pass(after[n - 1])]
  <2> HIDE DEF b
  <2> QED
    BY <1>6
<1>8. after[0] = b /\ \A n \in 1 .. N : after[n] = Pass(after[n - 1])
  <2>1. \A n \in 1 .. N : n \in 0 .. N /\ n # 0
    BY <1>1
  <2> HIDE DEF b, after
  <2> QED
    BY <1>1, <1>7, <2>1
<1>9. ApplyUpdate(l, update) = after[N]
  BY Zenon DEF ApplyUpdate, N
<1> HIDE DEF after
<1> DEFINE
      Good(n, s) ==
          /\ s \in T
          /\ Applicable(l, items) /\ ~s.list.spinning =>
                 /\ Len(s.pending) <= N - n
                 /\ \A item \in items : Merged(s.list, item) \/ item \in ToSet(s.pending)
      S == {n \in 0 .. N : Good(n, after[n])}
<1>10. 0 \in S
  <2>1. after[0] \in T /\ after[0].pending = update
    BY <1>2, <1>8
  <2>2. 0 \in 0 .. N /\ Len(update) <= N - 0
    BY <1>1 DEF N
  <2> HIDE DEF b
  <2> QED
    BY <2>1, <2>2 DEF items
<1>11. ASSUME NEW n \in 1 .. N, n - 1 \in S
       PROVE  n \in S
  <2> DEFINE s == after[n - 1]
             t == after[n]
  <2>1. Good(n - 1, s)
    BY <1>11
  <2>2. t = Pass(s)
    BY <1>8
  <2> HIDE DEF s, t
  <2>3. /\ s.list \in Lists /\ s.pending \in Seq(Items)
        /\ ToSet(s.pending) \subseteq items
        /\ Grown(l, s.list, items)
        /\ t \in T
        /\ Grown(s.list, t.list, items)
        /\ t.pending \in Seq(ToSet(s.pending))
        /\ ~t.list.spinning => Left(s.list, s.pending, t)
    BY <1>3, <2>1, <2>2
  <2>4. ASSUME Applicable(l, items), ~t.list.spinning
        PROVE  /\ Len(t.pending) <= N - n
               /\ \A item \in items : Merged(t.list, item) \/ item \in ToSet(t.pending)
    <3>1. ~s.list.spinning /\ Left(s.list, s.pending, t)
      BY <2>3, <2>4 DEF Grown
    <3>2. Len(s.pending) <= N - (n - 1)
          /\ \A item \in items : Merged(s.list, item) \/ item \in ToSet(s.pending)
      BY <2>1, <2>4, <3>1
    <3>3. Len(s.pending) \in Nat /\ Len(t.pending) \in Nat
          /\ DOMAIN s.pending = 1 .. Len(s.pending)
      BY <2>3, LenProperties
    <3>4. t.list \in Lists
      BY <1>3, <2>3
    <3>5. \A item \in items : Merged(t.list, item) \/ item \in ToSet(t.pending)
      BY <2>3, <3>1, <3>2, <3>4, GrownKeeps DEF Left
    <3>6. CASE Len(s.pending) = 0
      BY <1>1, <3>1, <3>3, <3>5, <3>6 DEF Left
    <3>7. CASE Len(s.pending) # 0
      <4>1. ToSet(s.pending) # {}
        <5>1. 1 \in DOMAIN s.pending
          BY <3>3, <3>7
        <5> QED
          BY <5>1 DEF ToSet
      <4>2. \E item \in ToSet(s.pending) : OriginsKnown(s.list, item)
        BY <1>1, <2>3, <2>4, <3>2, <4>1, SomeOriginsKnown
      <4>3. Len(t.pending) <= Len(s.pending) /\ Len(t.pending) # Len(s.pending)
        BY <3>1, <4>2 DEF Left
      <4>4. Len(t.pending) <= N - n
        BY <1>1, <3>2, <3>3, <4>3
      <4> QED
        BY <3>5, <4>4
    <3> QED
      BY <3>6, <3>7
  <2>5. n \in 0 .. N
    BY <1>1
  <2>6. Good(n, t)
    BY <2>3, <2>4
  <2> QED
    BY <2>5, <2>6 DEF t
<1>12. 0 .. N \subseteq S
  <2> HIDE DEF S
  <2> QED
    BY <1>1, <1>10, <1>11, CountingUp
<1>13. Good(N, after[N])
  <2>1. N \in 0 .. N
    BY <1>1
  <2> QED
    BY <1>12, <2>1
<1>14. ASSUME Applicable(l, items), ~after[N].list.spinning
       PROVE  after[N].pending = << >> /\ \A item \in items : Merged(after[N].list, item)
  <2>1. Len(after[N].pending) <= 0 /\ after[N].pending \in Seq(items)
    BY <1>1, <1>3, <1>13, <1>14
  <2>2. after[N].pending = << >>
    BY <2>1, EmptySeq, LenProperties
  <2>3. ToSet(after[N].pending) = {}
    BY <2>2 DEF ToSet
  <2> QED
    BY <1>13, <1>14, <2>2, <2>3
<1> QED
  BY <1>9, <1>13, <1>14 DEF T, items

----------------------------------------------------------------------------
(* What a replica shows, and local edits.                                  *)

\* The first n items of the list, or some of them, as they come.
AsTheyCome(l, n, s) ==
    /\ \A i \in 1 .. Len(s) : Position(l, s[i]) <= n
    /\ \A i, j \in 1 .. Len(s) : i < j => Position(l, s[i]) < Position(l, s[j])

LEMMA VisibleIsHeld ==
    ASSUME NEW l \in Lists
    PROVE  /\ Visible(l) \in Seq(Ids(l) \ l.deleted)
           /\ \A i, j \in 1 .. Len(Visible(l)) :
                  i < j => Position(l, Visible(l)[i]) < Position(l, Visible(l)[j])
<1> DEFINE N == Len(l.order)
           T == Seq(Ids(l) \ l.deleted)
           Next(s, n) == IF l.order[n] \in l.deleted THEN s ELSE Append(s, l.order[n])
<1>1. N \in Nat /\ \A n \in 1 .. N : l.order[n] \in Ids(l) /\ Position(l, l.order[n]) = n
  BY ListFacts, LenProperties, PositionAt
<1> HIDE DEF N
<1>2. << >> \in T
  BY EmptySeq
<1>3. \A s \in T : \A n \in 1 .. N : Next(s, n) \in T
  <2> TAKE s \in T
  <2> TAKE n \in 1 .. N
  <2>1. CASE l.order[n] \in l.deleted
    BY <2>1
  <2>2. CASE l.order[n] \notin l.deleted
    <3>1. l.order[n] \in Ids(l) \ l.deleted
      BY <1>1, <2>2
    <3> QED
      BY <2>2, <3>1, AppendProperties
  <2> QED
    BY <2>1, <2>2
<1>4. ASSUME NEW s \in T, NEW n \in 1 .. N, AsTheyCome(l, n - 1, s)
       PROVE  AsTheyCome(l, n, Next(s, n))
  <2>1. s \in Seq(Ids(l)) /\ Len(s) \in Nat /\ \A i \in 1 .. Len(s) : s[i] \in Ids(l)
    BY LenProperties, ElementOfSeq
  <2>2. \A i \in 1 .. Len(s) : Position(l, s[i]) \in Nat
    BY <2>1, PositionFacts
  <2>3. CASE l.order[n] \in l.deleted
    <3>1. Next(s, n) = s
      BY <2>3
    <3> QED
      BY <1>1, <1>4, <2>2, <3>1 DEF AsTheyCome
  <2>4. CASE l.order[n] \notin l.deleted
    <3> DEFINE t == Append(s, l.order[n])
    <3>1. Next(s, n) = t
      BY <2>4
    <3>2. /\ Len(t) = Len(s) + 1 /\ t[Len(s) + 1] = l.order[n]
          /\ \A i \in 1 .. Len(s) : t[i] = s[i]
      BY <1>1, <2>1, AppendProperties
    <3> HIDE DEF t, T, Next
    <3>3. \A i \in 1 .. Len(t) : i \in 1 .. Len(s) \/ i = Len(s) + 1
      BY <2>1, <3>2
    <3>4. \A i \in 1 .. Len(s) : Position(l, t[i]) < n /\ Position(l, t[i]) \in Nat
      BY <1>1, <1>4, <2>2, <3>2 DEF AsTheyCome
    <3>5. Position(l, t[Len(s) + 1]) = n
      BY <1>1, <3>2
    <3>6. \A i \in 1 .. Len(t) : Position(l, t[i]) <= n
      BY <1>1, <3>3, <3>4, <3>5
    <3>7. ASSUME NEW i \in 1 .. Len(t), NEW j \in 1 .. Len(t), i < j
          PROVE  Position(l, t[i]) < Position(l, t[j])
      <4>1. i \in 1 .. Len(s)
        BY <2>1, <3>2, <3>7
      <4>2. CASE j \in 1 .. Len(s)
        BY <1>4, <3>2, <3>7, <4>1, <4>2 DEF AsTheyCome
      <4>3. CASE j = Len(s) + 1
        BY <3>4, <3>5, <4>1, <4>3
      <4> QED
        BY <3>3, <4>2, <4>3
    <3> QED
      BY <3>1, <3>6, <3>7 DEF AsTheyCome
  <2> QED
    BY <2>3, <2>4
<1> DEFINE g == [n \in 1 .. N |-> [s \in T |-> Next(s, n)]]
<1> HIDE DEF T, Next
<1>5. g \in [1 .. N -> [T -> T]]
  BY <1>3
<1>6. PICK f \in [0 .. N -> T] : IsHistory(f, N, << >>, g)
  <2>1. N \in Nat
    BY <1>1
  <2> HIDE DEF g
  <2> QED
    BY <2>1, <1>2, <1>5, LoopHistory
<1> DEFINE visible == CHOOSE h : h = [n \in 0 .. N |->
                          IF n = 0 THEN << >> ELSE Next(h[n - 1], n)]
<1>7. f = [n \in 0 .. N |-> IF n = 0 THEN << >> ELSE Next(f[n - 1], n)]
  <2>1. \A n \in 1 .. N : f[n] = Next(f[n - 1], n)
    <3> TAKE n \in 1 .. N
    <3>1. n - 1 \in 0 .. N
      BY <1>1
    <3> QED
      BY <1>6, <3>1 DEF IsHistory
  <2>2. \A n \in 0 .. N : n # 0 => n \in 1 .. N
    BY <1>1
  <2> HIDE DEF g
  <2> QED
    BY <1>6, <2>1, <2>2 DEF IsHistory
<1>8. visible = [n \in 0 .. N |-> IF n = 0 THEN << >> ELSE Next(visible[n - 1], n)]
  BY <1>7
<1>9. Visible(l) = visible[N]
  BY Zenon DEF Visible, N, Next
<1> HIDE DEF visible
<1> DEFINE S == {n \in 0 .. N : visible[n] \in T /\ AsTheyCome(l, n, visible[n])}
<1>10. 0 \in S
  <2>1. visible[0] = << >>
    BY <1>1, <1>8
  <2>2. 1 .. Len(<< >>) = {}
    OBVIOUS
  <2>3. AsTheyCome(l, 0, << >>)
    BY <2>2 DEF AsTheyCome
  <2> QED
    BY <1>1, <1>2, <2>1, <2>3
<1>11. ASSUME NEW n \in 1 .. N, n - 1 \in S PROVE n \in S
  <2>1. n \in 0 .. N /\ n # 0
    BY <1>1
  <2>2. visible[n] = Next(visible[n - 1], n)
    BY <1>8, <2>1
  <2> QED
    BY <1>3, <1>11, <1>4, <2>1, <2>2
<1>12. 0 .. N \subseteq S
  <2> HIDE DEF S
  <2> QED
    BY <1>1, <1>10, <1>11, CountingUp
<1>13. N \in S
  BY <1>1, <1>12
<1> QED
  BY <1>9, <1>13 DEF T, AsTheyCome

(***************************************************************************)
(* A local insertion adds the next item of its user between the neighbours *)
(* the user saw, and always returns: what is visible is in order.          *)
(***************************************************************************)
LEMMA InsertItemAdds ==
    ASSUME NEW l \in Lists, NEW u \in User, NEW index \in 0 .. Len(Visible(l)),
           <<u, l.opCounter>> \notin Ids(l)
    PROVE  /\ InsertItem(l, u, index) \in Lists
           /\ InsertItem(l, u, index).opCounter = l.opCounter + 1
           /\ \E item \in Items : /\ item.id = <<u, l.opCounter>>
                                  /\ ~item.deleted
                                  /\ Adds(l, InsertItem(l, u, index), item)
           /\ KeepsOrder(l, InsertItem(l, u, index))
           /\ BetweenOrigins(InsertItem(l, u, index), <<u, l.opCounter>>)
<1> DEFINE v == Visible(l)
           k == [l EXCEPT !.opCounter = @ + 1]
           item == [id |-> <<u, l.opCounter>>,
                    left |-> IF index = 0 THEN HEAD ELSE v[index],
                    right |-> IF index = Len(v) THEN TAIL ELSE v[index + 1],
                    deleted |-> FALSE]
           m == InsertItem(l, u, index)
<1>1. /\ v \in Seq(Ids(l) \ l.deleted)
      /\ \A i, j \in 1 .. Len(v) : i < j => Position(l, v[i]) < Position(l, v[j])
  BY VisibleIsHeld
<1>2. Len(v) \in Nat /\ index \in 0 .. Len(v) /\ \A n \in 1 .. Len(v) : v[n] \in Ids(l)
  <2> HIDE DEF v
  <2>1. Len(v) \in Nat /\ \A n \in 1 .. Len(v) : v[n] \in Ids(l) \ l.deleted
    BY <1>1, LenProperties, ElementOfSeq
  <2> QED
    BY <2>1 DEF v
<1>3. l \in ListShapes /\ l.opCounter \in Nat /\ l.stateVector \in [User -> Nat]
      /\ Ids(l) \subseteq ItemIds
  BY ListFacts DEF Lists
<1>4. k \in ListShapes /\ k.order = l.order /\ k.origins = l.origins
      /\ k.deleted = l.deleted /\ k.stateVector = l.stateVector
      /\ k.opCounter = l.opCounter + 1 /\ k.spinning = l.spinning
  <2> HIDE DEF v, item, m
  <2>1. l.opCounter + 1 \in Nat
    BY <1>3
  <2>2. k = [l EXCEPT !.opCounter = l.opCounter + 1]
    OBVIOUS
  <2> HIDE DEF k
  <2> QED
    BY <1>3, <2>1, <2>2 DEF ListShapes
<1>5. m = Integrate(k, item)
  BY DEF InsertItem
<1> HIDE DEF m, v, k
<1>6. Ids(k) = Ids(l)
  BY <1>4 DEF Ids
<1>7. k \in Lists
  BY <1>4, <1>6, ListFacts DEF Lists, HoldsItemsOnce, OriginsHeld, Grounded, Counted
<1>8. item.left \in Ids(l) \cup {HEAD} /\ item.right \in Ids(l) \cup {TAIL}
  <2>1. index # 0 => index \in 1 .. Len(v)
    BY <1>2
  <2>2. index # Len(v) => index + 1 \in 1 .. Len(v)
    BY <1>2
  <2> QED
    BY <1>2, <2>1, <2>2
<1>9. item.id \in ItemIds /\ item.id \notin Ids(l)
  BY <1>3 DEF ItemIds
<1>10. item \in Items
  BY <1>3, <1>8, <1>9 DEF Items
<1>11. OriginsKnown(k, item)
  BY <1>6, <1>8 DEF OriginsKnown
<1>12. item.id = <<u, l.opCounter>> /\ ~item.deleted
  OBVIOUS
<1> HIDE DEF item
<1>13. Ordered(k, item)
  <2>1. /\ Position(k, HEAD) = 0 /\ Position(k, TAIL) = Len(l.order) + 1
        /\ \A id \in Ids(l) : /\ Position(k, id) \in 1 .. Len(l.order)
                              /\ Position(k, id) = Position(l, id)
    BY <1>4, PositionFacts, SentinelPositions, SameOrder
  <2>2. Len(l.order) \in Nat
    BY ListFacts
  <2>3. CASE index = 0 \/ index = Len(v)
    <3>1. item.left = HEAD \/ item.right = TAIL
      BY <2>3 DEF item
    <3> QED
      BY <1>8, <2>1, <2>2, <3>1 DEF Ordered
  <2>4. CASE index # 0 /\ index # Len(v)
    <3>1. index \in 1 .. Len(v) /\ index + 1 \in 1 .. Len(v) /\ index < index + 1
      BY <1>2, <2>4
    <3>2. item.left = v[index] /\ item.right = v[index + 1]
      BY <2>4 DEF item
    <3>3. Position(l, v[index]) < Position(l, v[index + 1])
      BY <1>1, <3>1
    <3> QED
      BY <1>2, <2>1, <3>1, <3>2, <3>3 DEF Ordered
  <2> QED
    BY <2>3, <2>4
<1>14. m \in Lists /\ m.opCounter = k.opCounter
  BY <1>5, <1>6, <1>7, <1>9, <1>10, <1>11, IntegrateAddsItem
<1>15. KeepsOrder(k, m) /\ Adds(k, m, item) /\ BetweenOrigins(m, item.id)
  BY <1>5, <1>6, <1>7, <1>9, <1>10, <1>11, <1>13, IntegrateKeepsOrder
<1>16. Adds(l, m, item)
  BY <1>4, <1>6, <1>15 DEF Adds
<1>17. KeepsOrder(l, m)
  BY <1>4, <1>6, <1>15, SameOrder, KeepsOrderTwice
<1> QED
  BY <1>4, <1>10, <1>12, <1>14, <1>15, <1>16, <1>17 DEF m

LEMMA DeletedMore ==
    ASSUME NEW l \in Lists, NEW ids \in SUBSET Ids(l)
    PROVE  LET m == [l EXCEPT !.deleted = @ \cup ids]
           IN  /\ m \in Lists
               /\ Ids(m) = Ids(l) /\ m.origins = l.origins
               /\ m.deleted = l.deleted \cup ids /\ m.stateVector = l.stateVector
               /\ m.opCounter = l.opCounter /\ m.spinning = l.spinning
               /\ KeepsOrder(l, m)
<1> DEFINE m == [l EXCEPT !.deleted = @ \cup ids]
<1>1. l \in ListShapes /\ Ids(l) \subseteq ItemIds
  BY ListFacts DEF Lists
<1>2. m \in ListShapes /\ m.order = l.order /\ m.origins = l.origins
      /\ m.deleted = l.deleted \cup ids /\ m.stateVector = l.stateVector
      /\ m.opCounter = l.opCounter /\ m.spinning = l.spinning
  BY <1>1 DEF ListShapes
<1> HIDE DEF m
<1>3. Ids(m) = Ids(l)
  BY <1>2 DEF Ids
<1>4. m \in Lists
  BY <1>2, <1>3, ListFacts DEF Lists, HoldsItemsOnce, OriginsHeld, Grounded, Counted
<1>5. KeepsOrder(l, m)
  BY <1>2, SameOrder
<1> QED
  BY <1>2, <1>3, <1>4, <1>5 DEF m

LEMMA DeleteItemFacts ==
    ASSUME NEW l \in Lists, NEW index \in 0 .. Len(Visible(l)) - 1
    PROVE  \E id \in Ids(l) \ l.deleted :
               /\ id = Visible(l)[index + 1]
               /\ DeleteItem(l, index) = [l EXCEPT !.deleted = @ \cup {id}]
<1>1. Visible(l) \in Seq(Ids(l) \ l.deleted)
  BY VisibleIsHeld
<1>2. Len(Visible(l)) \in Nat
  BY <1>1, LenProperties
<1>3. index + 1 \in 1 .. Len(Visible(l))
  BY <1>2
<1>4. Visible(l)[index + 1] \in Ids(l) \ l.deleted
  BY <1>1, <1>3, ElementOfSeq
<1> QED
  BY <1>4 DEF DeleteItem

----------------------------------------------------------------------------
(* What a replica sends another.                                           *)

LEMMA HeldFinite ==
    ASSUME NEW l \in Lists
    PROVE  IsFiniteSet(Ids(l))
<1>1. l.order \in Seq(ItemIds) /\ ToSet(l.order) = Ids(l)
      /\ \A m, n \in DOMAIN l.order : l.order[m] = l.order[n] => m = n
  BY ListFacts DEF HoldsItemsOnce
<1>2. Len(l.order) \in Nat /\ DOMAIN l.order = 1 .. Len(l.order)
      /\ l.order \in [1 .. Len(l.order) -> ItemIds]
  BY <1>1, LenProperties
<1>3. IsFiniteSet(1 .. Len(l.order))
  BY <1>2, FS_Interval
<1>4. l.order \in Surjection(1 .. Len(l.order), Ids(l))
  BY <1>1, <1>2 DEF Surjection, ToSet
<1> QED
  BY <1>3, <1>4, FS_Surjection

LEMMA ItemFacts ==
    ASSUME NEW l \in Lists, NEW id \in Ids(l)
    PROVE  /\ Item(l, id) \in Items /\ Item(l, id).id = id
           /\ Item(l, id).left = l.origins[id].left
           /\ Item(l, id).right = l.origins[id].right
           /\ Item(l, id).deleted = (id \in l.deleted)
<1>1. id \in ItemIds /\ l.origins[id].left \in ItemIds \cup {HEAD}
      /\ l.origins[id].right \in ItemIds \cup {TAIL}
  BY ListFacts DEF Links
<1> QED
  BY <1>1 DEF Item, Items

Missing(l, target) == {id \in Ids(l) : id[2] >= target[id[1]]}

LEMMA MakeUpdateFacts ==
    ASSUME NEW l \in Lists, NEW target \in [User -> Nat]
    PROVE  /\ MakeUpdate(l, target) \in Seq(Items)
           /\ ToSet(MakeUpdate(l, target)) = {Item(l, id) : id \in Missing(l, target)}
<1> DEFINE missing == Missing(l, target)
           items == {Item(l, id) : id \in missing}
<1>1. missing \subseteq Ids(l)
  BY DEF Missing
<1>2. IsFiniteSet(missing)
  BY <1>1, HeldFinite, FS_Subset
<1> HIDE DEF missing
<1> DEFINE f == [id \in missing |-> Item(l, id)]
<1>3. f \in Surjection(missing, items)
  BY DEF Surjection
<1>4. IsFiniteSet(items)
  <2> HIDE DEF f, items
  <2> QED
    BY <1>2, <1>3, FS_Surjection
<1>5. items \in SUBSET Items
  BY <1>1, ItemFacts
<1>6. Distinct(items)
  BY <1>1, ItemFacts DEF Distinct
<1>7. MakeUpdate(l, target) = InOrder(items)
  BY DEF MakeUpdate, missing, Missing
<1> HIDE DEF items
<1>8. InOrder(items) \in Seq(items) /\ ToSet(InOrder(items)) = items
  BY <1>4, <1>5, <1>6, InOrderIsOrder
<1>9. InOrder(items) \in Seq(Items)
  BY <1>5, <1>8, SeqMonotonic
<1> QED
  BY <1>7, <1>8, <1>9 DEF items, missing

(***************************************************************************)
(* Items of one list are applicable to whoever holds the rest of it.       *)
(***************************************************************************)
LEMMA HeldApplicable ==
    ASSUME NEW l \in Lists, NEW m, NEW ids \in SUBSET Ids(l), Ids(l) \ ids \subseteq Ids(m)
    PROVE  Applicable(m, {Item(l, id) : id \in ids})
<1> DEFINE items == {Item(l, id) : id \in ids}
<1>1. {y.id : y \in items} = ids
  BY ItemFacts
<1>2. ASSUME NEW x \in items
      PROVE  {x.left, x.right} \subseteq Ids(m) \cup {y.id : y \in items} \cup {HEAD, TAIL}
  <2>1. PICK id \in ids : x = Item(l, id)
    OBVIOUS
  <2>2. x.left \in Ids(l) \cup {HEAD} /\ x.right \in Ids(l) \cup {TAIL}
    BY <2>1, ItemFacts, ListFacts DEF OriginsHeld
  <2> QED
    BY <1>1, <2>2
<1>3. ASSUME NEW S \in SUBSET items, S # {}
      PROVE  \E x \in S : {x.left, x.right} \cap {y.id : y \in S} = {}
  <2> DEFINE R == {y.id : y \in S}
  <2>1. R \in SUBSET Ids(l) /\ R # {}
    BY <1>1, <1>3
  <2>2. PICK id \in R : l.origins[id].left \notin R /\ l.origins[id].right \notin R
    BY <2>1, ListFacts DEF Grounded
  <2>3. PICK x \in S : x.id = id
    BY <2>2
  <2>4. PICK i \in ids : x = Item(l, i)
    BY <2>3
  <2>5. x.left = l.origins[id].left /\ x.right = l.origins[id].right
    BY <2>3, <2>4, ItemFacts
  <2> QED
    BY <2>2, <2>5
<1> QED
  BY <1>2, <1>3 DEF Applicable
==============================================================================
