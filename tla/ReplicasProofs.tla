---------------------------- MODULE ReplicasProofs ----------------------------
(***************************************************************************)
(* Proofs about replicas that are synchronised in one step: what one       *)
(* answer to a state vector brings, and when items stay between the        *)
(* neighbours their authors saw.                                           *)
(***************************************************************************)
EXTENDS YataReplicas, ListProofs

\* The state vector tells exactly what is held, and never more than that.
Complete(l) ==
    \A u \in User : \A n \in Nat : n < l.stateVector[u] => <<u, n>> \in Ids(l)

(***************************************************************************)
(* The inductive invariant.  A replica that does not spin holds, of every  *)
(* user, the items up to the counter in its state vector, its own up to    *)
(* its own counter; and nobody holds an item its user has yet to insert.   *)
(***************************************************************************)
TypeInv == text \in [User -> Lists]

HoldsPrefixes ==
    \A p \in User :
        ~text[p].spinning =>
            /\ Complete(text[p])
            /\ text[p].stateVector[p] = text[p].opCounter

NothingFromTheFuture ==
    \A p \in User : \A id \in Ids(text[p]) : id[2] < text[id[1]].opCounter

(***************************************************************************)
(* Whoever holds an item, its author holds it, and has it between its      *)
(* origins.  If the scan spins, two replicas disagree on some order.       *)
(***************************************************************************)
Authors ==
    \A p \in User : \A id \in Ids(text[p]) :
        /\ id \in Ids(text[id[1]])
        /\ text[p].origins[id] = text[id[1]].origins[id]

OwnStay == \A p \in User : \A id \in Ids(text[p]) : id[1] = p => BetweenOrigins(text[p], id)

SpinsApart == \A p \in User : text[p].spinning => ~OrdersAgree

IInv ==
    /\ TypeInv
    /\ HoldsPrefixes
    /\ NothingFromTheFuture
    /\ Authors
    /\ OwnStay
    /\ SpinsApart

LEMMA InitHolds == Init => IInv
<1> SUFFICES ASSUME Init PROVE IInv
  OBVIOUS
<1>1. \A p \in User : text[p] = NewList
  BY DEF Init
<1>2. Ids(NewList) = {} /\ NewList.opCounter = 0 /\ ~NewList.spinning
      /\ \A u \in User : NewList.stateVector[u] = 0
  BY DEF NewList, Ids
<1>3. TypeInv
  BY NewListIsList DEF Init, TypeInv
<1>4. HoldsPrefixes
  BY <1>1, <1>2 DEF HoldsPrefixes, Complete
<1>5. NothingFromTheFuture
  BY <1>1, <1>2 DEF NothingFromTheFuture
<1>6. Authors /\ OwnStay /\ SpinsApart
  BY <1>1, <1>2 DEF Authors, OwnStay, SpinsApart
<1> QED
  BY <1>3, <1>4, <1>5, <1>6 DEF IInv

(***************************************************************************)
(* A step that changes the list of one replica: it keeps what it has, and  *)
(* what is new is its own or its author's.                                 *)
(***************************************************************************)
Extends(l, m) ==
    /\ Ids(l) \subseteq Ids(m)
    /\ \A id \in Ids(l) : m.origins[id] = l.origins[id]
    /\ KeepsOrder(l, m)

Fits(q, m, id) ==
    IF id[1] = q THEN BetweenOrigins(m, id)
    ELSE id \in Ids(text[id[1]]) /\ m.origins[id] = text[id[1]].origins[id]

\* An item that its author holds and that m has no place for.
Misfit(m, x) ==
    LET a == text[x.id[1]] IN
    /\ x.id \in Ids(a)
    /\ a.origins[x.id] = [left |-> x.left, right |-> x.right]
    /\ OriginsKnown(m, x) /\ ~Ordered(m, x)

LEMMA ExtendsItself ==
    ASSUME NEW l PROVE Extends(l, l)
  BY SameOrder DEF Extends

LEMMA OneListChanges ==
    ASSUME IInv, NEW q \in User, NEW m \in Lists,
           text' = [text EXCEPT ![q] = m],
           m.opCounter >= text[q].opCounter,
           \A id \in Ids(m) : id[2] < IF id[1] = q THEN m.opCounter
                                      ELSE text[id[1]].opCounter,
           ~m.spinning => Complete(m) /\ m.stateVector[q] = m.opCounter,
           Extends(text[q], m),
           \A id \in Ids(m) \ Ids(text[q]) : Fits(q, m, id),
           m.spinning => \E x \in Items : Misfit(m, x)
    PROVE  IInv'
<1>1. text'[q] = m /\ \A p \in User \ {q} : text'[p] = text[p]
  BY DEF IInv, TypeInv
<1>2. TypeInv'
  BY DEF IInv, TypeInv
<1>3. HoldsPrefixes'
  <2> SUFFICES ASSUME NEW p \in User, ~text'[p].spinning
               PROVE  Complete(text'[p]) /\ text'[p].stateVector[p] = text'[p].opCounter
    BY DEF HoldsPrefixes, Complete, Ids
  <2> QED
    BY <1>1 DEF IInv, HoldsPrefixes
<1>4. NothingFromTheFuture'
  <2> SUFFICES ASSUME NEW p \in User, NEW id \in Ids(text'[p])
               PROVE  id[2] < text'[id[1]].opCounter
    BY DEF NothingFromTheFuture, Ids
  <2>1. text'[p] \in Lists
    BY <1>2 DEF TypeInv
  <2>2. id[1] \in User /\ id[2] \in Nat
    BY <2>1, ListFacts, IdFacts
  <2>3. m.opCounter \in Nat /\ text[q].opCounter \in Nat
    BY ListFacts DEF IInv, TypeInv
  <2>4. CASE p = q
    BY <1>1, <2>2, <2>4
  <2>5. CASE p # q
    <3>1. id[2] < text[id[1]].opCounter
      BY <1>1, <2>5 DEF IInv, NothingFromTheFuture
    <3> QED
      BY <1>1, <2>2, <2>3, <3>1
  <2> QED
    BY <2>4, <2>5
<1>5. \A p \in User : /\ Extends(text[p], text'[p])
                      /\ text[p] \in Lists /\ text'[p] \in Lists
  BY <1>1, <1>2, ExtendsItself DEF IInv, TypeInv
<1>6. Authors'
  <2> SUFFICES ASSUME NEW p \in User, NEW id \in Ids(text'[p])
               PROVE  /\ id \in Ids(text'[id[1]])
                      /\ text'[p].origins[id] = text'[id[1]].origins[id]
    BY DEF Authors, Ids
  <2>1. id[1] \in User
    BY <1>5, ListFacts, IdFacts
  <2>2. CASE id \in Ids(text[p])
    BY <1>5, <2>1, <2>2 DEF IInv, Authors, Extends
  <2>3. CASE id \notin Ids(text[p])
    <3>1. p = q /\ Fits(q, m, id)
      BY <1>1, <2>3
    <3> QED
      BY <1>1, <1>5, <2>1, <3>1 DEF Fits, Extends
  <2> QED
    BY <2>2, <2>3
<1>7. OwnStay'
  <2> SUFFICES ASSUME NEW p \in User, NEW id \in Ids(text'[p]), id[1] = p
               PROVE  BetweenOrigins(text'[p], id)
    BY DEF OwnStay, Ids, BetweenOrigins, Position
  <2>1. CASE id \in Ids(text[p])
    <3>1. BetweenOrigins(text[p], id)
      BY <2>1 DEF IInv, OwnStay
    <3> QED
      BY <1>5, <2>1, <3>1, BetweenKept DEF Extends
  <2>2. CASE id \notin Ids(text[p])
    BY <1>1, <2>2 DEF Fits
  <2> QED
    BY <2>1, <2>2
<1>8. SpinsApart'
  <2> SUFFICES ASSUME NEW p \in User, text'[p].spinning, OrdersAgree' PROVE FALSE
    BY DEF SpinsApart
  <2>1. \A r, t \in User : Agree(text'[r], text'[t])
    BY DEF OrdersAgree, Agree, Ids, Position
  <2>2. OrdersAgree
    <3> SUFFICES ASSUME NEW r \in User, NEW t \in User,
                        NEW a \in Ids(text[r]) \cap Ids(text[t]),
                        NEW b \in Ids(text[r]) \cap Ids(text[t])
                 PROVE  Position(text[r], a) < Position(text[r], b)
                            <=> Position(text[t], a) < Position(text[t], b)
      BY DEF OrdersAgree, Agree
    <3>1. Extends(text[r], text'[r]) /\ Extends(text[t], text'[t])
      BY <1>5
    <3>2. Agree(text'[r], text'[t])
      BY <2>1
    <3> QED
      BY <3>1, <3>2 DEF Agree, Extends, KeepsOrder, Known
  <2>3. p = q /\ m.spinning
    BY <1>1, <2>2 DEF IInv, SpinsApart
  <2>4. PICK x \in Items : Misfit(m, x)
    BY <2>3
  <2> DEFINE u == x.id[1]
  <2>5. u \in User
    BY IdFacts DEF Items
  <2> HIDE DEF u
  <2> DEFINE a == text'[u]
  <2>6. /\ a \in Lists /\ x.id \in Ids(a)
        /\ a.origins[x.id].left = x.left /\ a.origins[x.id].right = x.right
    BY <1>5, <2>4, <2>5 DEF Misfit, Extends, u
  <2>7. BetweenOrigins(a, x.id)
    BY <1>7, <2>5, <2>6 DEF OwnStay, BetweenOrigins, Position, Ids, u
  <2>8. Agree(a, m)
    BY <1>1, <2>1, <2>5
  <2> HIDE DEF a
  <2>9. x.left \in Known(a) \cap Known(m) /\ x.right \in Known(a) \cap Known(m)
    BY <2>4, <2>6, ListFacts DEF Misfit, OriginsKnown, OriginsHeld, Known
  <2>10. x.id \in Known(a)
    BY <2>6 DEF Known
  <2>11. Position(a, x.left) < Position(a, x.right)
    BY <2>6, <2>7, <2>9, <2>10, KnownPositions DEF BetweenOrigins
  <2>12. Position(m, x.left) < Position(m, x.right)
    BY <2>6, <2>8, <2>9, <2>11, AgreeOnKnown
  <2> QED
    BY <2>4, <2>12 DEF Misfit, Ordered
<1> QED
  BY <1>2, <1>3, <1>4, <1>6, <1>7, <1>8 DEF IInv

LEMMA InsertPreserves ==
    ASSUME IInv, NEW p \in User, NEW index \in 0 .. Len(Visible(text[p])),
           Insert(p, index)
    PROVE  IInv'
<1> DEFINE l == text[p]
           m == InsertItem(l, p, index)
<1>1. l \in Lists /\ ~l.spinning /\ text' = [text EXCEPT ![p] = m]
  BY DEF IInv, TypeInv, Insert
<1>2. Complete(l) /\ l.stateVector[p] = l.opCounter /\ l.opCounter \in Nat
      /\ l.stateVector \in [User -> Nat]
  BY <1>1, ListFacts DEF IInv, HoldsPrefixes
<1>3. \A id \in Ids(l) : id[2] < text[id[1]].opCounter
  BY DEF IInv, NothingFromTheFuture
<1>4. <<p, l.opCounter>> \notin Ids(l)
  BY <1>2, <1>3
<1>5. index \in 0 .. Len(Visible(l))
  OBVIOUS
<1> HIDE DEF l
<1>6. /\ m \in Lists /\ m.opCounter = l.opCounter + 1
      /\ \E item \in Items : item.id = <<p, l.opCounter>> /\ Adds(l, m, item)
      /\ KeepsOrder(l, m) /\ BetweenOrigins(m, <<p, l.opCounter>>)
  BY <1>1, <1>4, <1>5, InsertItemAdds
<1> HIDE DEF m
<1>7. \A id \in Ids(m) : id \in Ids(l) \/ id = <<p, l.opCounter>>
  BY <1>6 DEF Adds
<1>8. \A id \in Ids(m) : id[2] < IF id[1] = p THEN m.opCounter ELSE text[id[1]].opCounter
  <2> TAKE id \in Ids(m)
  <2>1. CASE id \in Ids(l)
    <3>1. id[2] < text[id[1]].opCounter /\ id[2] \in Nat
      BY <1>1, <1>3, <2>1, ListFacts, IdFacts
    <3> QED
      BY <1>2, <1>6, <3>1 DEF l
  <2>2. CASE id = <<p, l.opCounter>>
    BY <1>2, <1>6, <2>2
  <2> QED
    BY <1>7, <2>1, <2>2
<1>9. ASSUME ~m.spinning
      PROVE  Complete(m) /\ m.stateVector[p] = m.opCounter
  <2>1. PICK item \in Items : item.id = <<p, l.opCounter>> /\ Adds(l, m, item)
    BY <1>6
  <2>2. m.stateVector = Bumped(l.stateVector, <<p, l.opCounter>>)
        /\ Ids(m) = Ids(l) \cup {<<p, l.opCounter>>}
    BY <2>1 DEF Adds
  <2>3. m.stateVector = [l.stateVector EXCEPT ![p] = l.opCounter + 1]
    BY <1>2, <2>2 DEF Bumped
  <2>4. m.stateVector[p] = m.opCounter
    BY <1>2, <1>6, <2>3
  <2>5. Complete(m)
    <3> SUFFICES ASSUME NEW u \in User, NEW n \in Nat, n < m.stateVector[u]
                 PROVE  <<u, n>> \in Ids(m)
      BY DEF Complete
    <3>1. CASE u = p /\ n = l.opCounter
      BY <2>2, <3>1
    <3>2. CASE ~(u = p /\ n = l.opCounter)
      <4>1. n < l.stateVector[u]
        BY <1>2, <2>3, <3>2
      <4> QED
        BY <1>2, <2>2, <4>1 DEF Complete
    <3> QED
      BY <3>1, <3>2
  <2> QED
    BY <2>4, <2>5
<1>10. m.opCounter >= text[p].opCounter
  BY <1>2, <1>6 DEF l
<1>11. Extends(text[p], m) /\ ~m.spinning
  BY <1>1, <1>6 DEF Extends, Adds, l
<1>12. \A id \in Ids(m) \ Ids(text[p]) : Fits(p, m, id)
  BY <1>6, <1>7 DEF Fits, l
<1> QED
  BY <1>1, <1>6, <1>8, <1>9, <1>10, <1>11, <1>12, OneListChanges

LEMMA DeletePreserves ==
    ASSUME IInv, NEW p \in User, NEW index \in 0 .. Len(Visible(text[p])) - 1,
           Delete(p, index)
    PROVE  IInv'
<1> DEFINE l == text[p]
           m == DeleteItem(l, index)
<1>1. l \in Lists /\ ~l.spinning /\ text' = [text EXCEPT ![p] = m]
  BY DEF IInv, TypeInv, Delete
<1>2. Complete(l) /\ l.stateVector[p] = l.opCounter /\ l.opCounter \in Nat
  BY <1>1, ListFacts DEF IInv, HoldsPrefixes
<1>3. PICK id \in Ids(l) : m = [l EXCEPT !.deleted = @ \cup {id}]
  BY <1>1, DeleteItemFacts
<1> HIDE DEF m
<1>4. m \in Lists /\ Ids(m) = Ids(l) /\ m.stateVector = l.stateVector
      /\ m.opCounter = l.opCounter /\ m.spinning = l.spinning
      /\ m.origins = l.origins /\ KeepsOrder(l, m)
  <2> HIDE DEF l
  <2>1. {id} \in SUBSET Ids(l)
    OBVIOUS
  <2> QED
    BY <1>1, <1>3, <2>1, DeletedMore
<1>5. Complete(m)
  BY <1>2, <1>4 DEF Complete
<1>6. \A i \in Ids(m) : i[2] < IF i[1] = p THEN m.opCounter ELSE text[i[1]].opCounter
  BY <1>4 DEF IInv, NothingFromTheFuture
<1>7. m.opCounter >= text[p].opCounter
  BY <1>2, <1>4
<1>8. Extends(text[p], m) /\ ~m.spinning /\ Ids(m) \ Ids(text[p]) = {}
  BY <1>1, <1>4 DEF Extends
<1>9. m.stateVector[p] = m.opCounter
  BY <1>2, <1>4
<1>10. m \in Lists /\ text' = [text EXCEPT ![p] = m]
  BY <1>1, <1>4
<1> HIDE DEF l
<1>11. \A i \in Ids(m) \ Ids(text[p]) : Fits(p, m, i)
  BY <1>8
<1> QED
  BY <1>5, <1>6, <1>7, <1>8, <1>9, <1>10, <1>11, OneListChanges

(***************************************************************************)
(* One answer, and what the replica that asked has then.                   *)
(***************************************************************************)
NewFrom(l, m, items) ==
    \A id \in Ids(m) \ Ids(l) :
        \E x \in items : x.id = id /\ m.origins[id] = [left |-> x.left, right |-> x.right]

CountedFrom(l, m, items) ==
    \A u \in User :
        /\ l.stateVector[u] <= m.stateVector[u]
        /\ m.stateVector[u] # l.stateVector[u] =>
               \E x \in items : x.id[1] = u /\ m.stateVector[u] = x.id[2] + 1

Answered(p, q, items, m) ==
    /\ m \in Lists
    /\ Extends(text[q], m)
    /\ NewFrom(text[q], m, items)
    /\ CountedFrom(text[q], m, items)
    /\ m.opCounter = text[q].opCounter
    /\ ~m.spinning =>
           /\ \A x \in items : x.id \in Ids(m)
           /\ text[q].deleted \cup text[p].deleted \subseteq m.deleted
    /\ m.spinning => \E x \in items : OriginsKnown(m, x) /\ ~Ordered(m, x)

LEMMA AnswerBringsAll ==
    ASSUME IInv, NEW p \in User, NEW q \in User, Sync(p, q)
    PROVE  /\ text' = [text EXCEPT ![q] = text'[q]]
           /\ Answered(p, q, {Item(text[p], id) :
                                  id \in Missing(text[p], text[q].stateVector)},
                       text'[q])
           /\ Ids(text[p]) \ Missing(text[p], text[q].stateVector) \subseteq Ids(text[q])
<1> DEFINE l == text[p]
           k == text[q]
           update == MakeUpdate(l, k.stateVector)
           missing == Missing(l, k.stateVector)
           items == {Item(l, id) : id \in missing}
           r == ApplyUpdate(k, update)
           m == text'[q]
<1>1. l \in Lists /\ k \in Lists /\ ~l.spinning /\ ~k.spinning
  BY DEF IInv, TypeInv, Sync
<1>2. /\ text' = [text EXCEPT ![q] = IF r.pending # << >> \/ r.list.spinning THEN r.list
                                     ELSE ApplyTombstones(r.list, l.deleted)]
      /\ text \in [User -> Lists]
  BY DEF IInv, TypeInv, Sync
<1>3. m = IF r.pending # << >> \/ r.list.spinning THEN r.list
          ELSE ApplyTombstones(r.list, l.deleted)
  BY <1>2
<1>4. text' = [text EXCEPT ![q] = m]
  BY <1>2, <1>3
<1>5. Complete(k) /\ k.stateVector \in [User -> Nat]
  BY <1>1, ListFacts DEF IInv, HoldsPrefixes
<1> HIDE DEF l, k, r, m, missing, update
<1>6. update \in Seq(Items) /\ ToSet(update) = items
  BY <1>1, <1>5, MakeUpdateFacts DEF update, missing
<1>7. Ids(l) \ missing \subseteq Ids(k)
  <2> SUFFICES ASSUME NEW id \in Ids(l), id \notin missing PROVE id \in Ids(k)
    OBVIOUS
  <2>1. id = <<id[1], id[2]>> /\ id[1] \in User /\ id[2] \in Nat
    BY <1>1, ListFacts, IdFacts
  <2>2. id[2] < k.stateVector[id[1]]
    BY <1>5, <2>1 DEF missing, Missing
  <2>3. <<id[1], id[2]>> \in Ids(k)
    BY <1>5, <2>1, <2>2 DEF Complete
  <2> QED
    BY <2>1, <2>3
<1>8. Applicable(k, items)
  <2>1. missing \in SUBSET Ids(l)
    BY DEF missing, Missing
  <2> QED
    BY <1>1, <1>7, <2>1, HeldApplicable
<1> HIDE DEF items
<1>9. /\ r \in Rounds(k, items)
      /\ ~r.list.spinning => r.pending = << >> /\ \A x \in items : Merged(r.list, x)
  BY <1>1, <1>6, <1>8, ApplyUpdateTakesAll DEF r
<1>10. r.list \in Lists /\ Grown(k, r.list, items)
  BY <1>9 DEF Rounds
<1>11. /\ Extends(k, r.list) /\ k.deleted \subseteq r.list.deleted
       /\ NewFrom(k, r.list, items) /\ CountedFrom(k, r.list, items)
       /\ r.list.opCounter = k.opCounter
       /\ r.list.spinning => \E x \in items : OriginsKnown(r.list, x) /\ ~Ordered(r.list, x)
  <2>1. NewFrom(k, r.list, items)
    BY <1>10, Zenon DEF Grown, NewFrom
  <2>2. CountedFrom(k, r.list, items)
    BY <1>10, Zenon DEF Grown, CountedFrom
  <2>3. InPlace(k, r.list, items)
    BY <1>10, Zenon DEF Grown
  <2>4. Extends(k, r.list)
    BY <1>10, <2>3 DEF Grown, InPlace, Extends
  <2>5. r.list.spinning => \E x \in items : OriginsKnown(r.list, x) /\ ~Ordered(r.list, x)
    BY <1>1, <2>3 DEF InPlace
  <2>6. k.deleted \subseteq r.list.deleted /\ r.list.opCounter = k.opCounter
    BY <1>10, Zenon DEF Grown
  <2> QED
    BY <2>1, <2>2, <2>4, <2>5, <2>6
<1>12. CASE r.list.spinning
  <2>1. m = r.list
    BY <1>3, <1>12
  <2>2. Answered(p, q, items, m)
    BY <1>10, <1>12, <1>11, <2>1 DEF Answered, k
  <2> QED
    BY <1>4, <1>7, <2>2 DEF l, k, m, missing, items
<1>13. CASE ~r.list.spinning
  <2> DEFINE keys == l.deleted \cap Ids(r.list)
  <2>1. m = [r.list EXCEPT !.deleted = @ \cup keys]
    BY <1>3, <1>9, <1>13 DEF ApplyTombstones
  <2>2. keys \in SUBSET Ids(r.list)
    OBVIOUS
  <2> HIDE DEF keys
  <2>3. /\ m \in Lists /\ Ids(m) = Ids(r.list) /\ m.deleted = r.list.deleted \cup keys
        /\ m.stateVector = r.list.stateVector /\ m.opCounter = r.list.opCounter
        /\ m.spinning = r.list.spinning /\ m.origins = r.list.origins
        /\ KeepsOrder(r.list, m)
    BY <1>10, <2>1, <2>2, DeletedMore
  <2>4. \A x \in items : x.id \in Ids(m)
    BY <1>9, <1>13, <2>3 DEF Merged
  <2>5. Ids(l) \subseteq Ids(m)
    <3>1. \A id \in missing : id \in Ids(m)
      <4> TAKE id \in missing
      <4>1. id \in Ids(l) /\ Item(l, id) \in items
        BY DEF missing, Missing, items
      <4>2. Item(l, id).id = id
        BY <1>1, <4>1, ItemFacts
      <4> QED
        BY <2>4, <4>1, <4>2
    <3>2. Ids(k) \subseteq Ids(m)
      BY <1>11, <2>3 DEF Extends
    <3> QED
      BY <1>7, <3>1, <3>2
  <2>6. k.deleted \cup l.deleted \subseteq m.deleted
    <3>1. l.deleted \subseteq Ids(l)
      BY <1>1, ListFacts
    <3>2. k.deleted \subseteq r.list.deleted
      BY <1>10 DEF Grown
    <3> QED
      BY <2>3, <2>5, <3>1, <3>2 DEF keys
  <2>7. Answered(p, q, items, m)
    <3>1. NewFrom(k, m, items)
      BY <1>11, <2>3 DEF NewFrom
    <3>2. CountedFrom(k, m, items)
      BY <1>11, <2>3 DEF CountedFrom
    <3>3. Extends(k, m)
      BY <1>11, <2>3, KeepsOrderTwice DEF Extends
    <3> QED
      BY <1>13, <1>11, <2>3, <2>4, <2>6, <3>1, <3>2, <3>3 DEF Answered, l, k
  <2> QED
    BY <1>4, <1>7, <2>7 DEF l, k, m, missing, items
<1> QED
  BY <1>12, <1>13

LEMMA SyncPreserves ==
    ASSUME IInv, NEW p \in User, NEW q \in User, Sync(p, q)
    PROVE  IInv'
<1> DEFINE l == text[p]
           k == text[q]
           missing == Missing(l, k.stateVector)
           items == {Item(l, id) : id \in missing}
           m == text'[q]
<1>1. /\ l \in Lists /\ k \in Lists /\ ~l.spinning /\ ~k.spinning
      /\ text \in [User -> Lists]
  BY DEF IInv, TypeInv, Sync
<1>2. /\ Complete(l) /\ Complete(k) /\ k.stateVector[q] = k.opCounter
      /\ k.opCounter \in Nat /\ k.stateVector \in [User -> Nat]
      /\ l.stateVector \in [User -> Nat]
  BY <1>1, ListFacts DEF IInv, HoldsPrefixes
<1>3. /\ text' = [text EXCEPT ![q] = m]
      /\ Answered(p, q, items, m)
      /\ Ids(l) \ missing \subseteq Ids(k)
  BY AnswerBringsAll
<1>4. \A x \in items : x.id \in missing /\ x.id \in Ids(l)
  BY <1>1, ItemFacts DEF Missing
<1>5. \A id \in missing : \E x \in items : x.id = id
  <2> TAKE id \in missing
  <2>1. id \in Ids(l)
    BY DEF Missing
  <2>2. Item(l, id) \in items /\ Item(l, id).id = id
    BY <1>1, <2>1, ItemFacts
  <2> QED
    BY <2>2
<1>6. m \in Lists /\ m.stateVector \in [User -> Nat] /\ m.opCounter = k.opCounter
  BY <1>3, ListFacts DEF Answered
<1>7. \A id \in Ids(m) : id[2] < text[id[1]].opCounter
  <2>1. \A id \in Ids(m) : id \in Ids(k) \/ id \in Ids(l)
    <3> SUFFICES ASSUME NEW id \in Ids(m), id \notin Ids(k) PROVE id \in Ids(l)
      OBVIOUS
    <3>1. NewFrom(k, m, items)
      BY <1>3, Zenon DEF Answered
    <3>2. \E x \in items : x.id = id
      BY <3>1, Zenon DEF NewFrom
    <3> HIDE DEF items, l, k, m
    <3> QED
      BY <1>4, <3>2
  <2> QED
    BY <2>1 DEF IInv, NothingFromTheFuture
<1>8. \A id \in Ids(m) : id[2] < IF id[1] = q THEN m.opCounter ELSE text[id[1]].opCounter
  BY <1>6, <1>7
<1>9. ASSUME ~m.spinning
      PROVE  Complete(m) /\ m.stateVector[q] = m.opCounter
  <2>1. Ids(k) \subseteq Ids(m) /\ \A id \in missing : id \in Ids(m)
    BY <1>3, <1>5, <1>9 DEF Answered, Extends
  <2>2. Complete(m)
    <3> SUFFICES ASSUME NEW u \in User, NEW n \in Nat, n < m.stateVector[u]
                 PROVE  <<u, n>> \in Ids(m)
      BY DEF Complete
    <3>1. CASE n < k.stateVector[u]
      BY <1>2, <2>1, <3>1 DEF Complete
    <3>2. CASE ~(n < k.stateVector[u])
      <4>1. m.stateVector[u] # k.stateVector[u]
        BY <3>2
      <4>2. PICK x \in items : x.id[1] = u /\ m.stateVector[u] = x.id[2] + 1
        BY <1>3, <4>1 DEF Answered, CountedFrom
      <4>3. x.id \in Ids(l) /\ x.id[2] \in Nat
        BY <1>1, <1>4, ListFacts, IdFacts
      <4>4. x.id[2] < l.stateVector[u]
        BY <1>1, <4>2, <4>3, ListFacts DEF Counted
      <4>5. n < l.stateVector[u]
        BY <1>2, <4>2, <4>3, <4>4
      <4>6. <<u, n>> \in Ids(l)
        BY <1>2, <4>5 DEF Complete
      <4>7. <<u, n>> \in missing
        BY <1>2, <3>2, <4>6 DEF Missing
      <4> QED
        BY <2>1, <4>7
    <3> QED
      BY <3>1, <3>2
  <2>3. m.stateVector[q] = m.opCounter
    <3> SUFFICES ASSUME m.stateVector[q] # k.stateVector[q] PROVE FALSE
      BY <1>2, <1>6
    <3>1. PICK x \in items : x.id[1] = q /\ m.stateVector[q] = x.id[2] + 1
      BY <1>3 DEF Answered, CountedFrom
    <3>2. x.id \in Ids(l) /\ x.id[2] \in Nat
      BY <1>1, <1>4, ListFacts, IdFacts
    <3>3. x.id[2] < k.opCounter
      BY <3>1, <3>2 DEF IInv, NothingFromTheFuture
    <3>4. k.stateVector[q] <= m.stateVector[q]
      BY <1>3 DEF Answered, CountedFrom
    <3> QED
      BY <1>2, <1>6, <3>1, <3>2, <3>3, <3>4
  <2> QED
    BY <2>2, <2>3
<1>10. m.opCounter >= text[q].opCounter
  BY <1>2, <1>6
<1>11. ASSUME NEW x \in items
       PROVE  /\ x \in Items /\ x.id[1] \in User
              /\ x.id \in Ids(text[x.id[1]])
              /\ text[x.id[1]].origins[x.id] = [left |-> x.left, right |-> x.right]
  <2>1. PICK id \in missing : x = Item(l, id)
    OBVIOUS
  <2>2. id \in Ids(l)
    BY DEF Missing
  <2>3. /\ x \in Items /\ x.id = id
        /\ x.left = l.origins[id].left /\ x.right = l.origins[id].right
        /\ l.origins[id] \in Links /\ id[1] \in User
    BY <1>1, <2>1, <2>2, ItemFacts, ListFacts, IdFacts
  <2>4. l.origins[id] = [left |-> x.left, right |-> x.right]
    BY <2>3 DEF Links
  <2>5. id \in Ids(text[id[1]]) /\ text[id[1]].origins[id] = l.origins[id]
    BY <2>2 DEF IInv, Authors
  <2> QED
    BY <2>3, <2>4, <2>5
<1>12. Extends(text[q], m)
  BY <1>3 DEF Answered
<1>13. \A id \in Ids(m) \ Ids(text[q]) : Fits(q, m, id)
  <2> TAKE id \in Ids(m) \ Ids(text[q])
  <2>1. PICK x \in items : x.id = id /\ m.origins[id] = [left |-> x.left, right |-> x.right]
    BY <1>3 DEF Answered, NewFrom
  <2> QED
    BY <1>11, <2>1 DEF Fits
<1>14. m.spinning => \E x \in Items : Misfit(m, x)
  <2> SUFFICES ASSUME m.spinning PROVE \E x \in Items : Misfit(m, x)
    OBVIOUS
  <2>1. PICK x \in items : OriginsKnown(m, x) /\ ~Ordered(m, x)
    BY <1>3 DEF Answered
  <2> QED
    BY <1>11, <2>1 DEF Misfit
<1> HIDE DEF m
<1> QED
  BY <1>3, <1>6, <1>8, <1>9, <1>10, <1>12, <1>13, <1>14, OneListChanges

LEMMA NextPreserves == IInv /\ [Next]_vars => IInv'
<1> SUFFICES ASSUME IInv, [Next]_vars PROVE IInv'
  OBVIOUS
<1>1. CASE UNCHANGED vars
  <2>1. text' = text
    BY <1>1 DEF vars
  <2>2. TypeInv' /\ HoldsPrefixes' /\ NothingFromTheFuture' /\ Authors'
    BY <2>1 DEF IInv, TypeInv, HoldsPrefixes, Complete, NothingFromTheFuture, Authors, Ids
  <2>3. OwnStay'
    <3> SUFFICES ASSUME NEW p \in User, NEW id \in Ids(text'[p]), id[1] = p
                 PROVE  BetweenOrigins(text'[p], id)
      BY DEF OwnStay, Ids, BetweenOrigins, Position
    <3> QED
      BY <2>1 DEF IInv, OwnStay
  <2>4. OrdersAgree' <=> OrdersAgree
    BY <2>1 DEF OrdersAgree, Agree, Position, Ids
  <2>5. SpinsApart'
    BY <2>1, <2>4 DEF IInv, SpinsApart
  <2> QED
    BY <2>2, <2>3, <2>5 DEF IInv
<1>2. ASSUME NEW p \in User, NEW index \in 0 .. Len(Visible(text[p])), Insert(p, index)
      PROVE  IInv'
  BY <1>2, InsertPreserves
<1>3. ASSUME NEW p \in User, NEW index \in 0 .. Len(Visible(text[p])) - 1,
             Delete(p, index)
      PROVE  IInv'
  BY <1>3, DeletePreserves
<1>4. ASSUME NEW p \in User, NEW q \in User, Sync(p, q)
      PROVE  IInv'
  BY <1>4, SyncPreserves
<1> QED
  BY <1>1, <1>2, <1>3, <1>4 DEF Next

THEOREM Invariance == Spec => []IInv
  BY InitHolds, NextPreserves, PTL DEF Spec

(***************************************************************************)
(* One answer to its state vector is all a replica needs (Sync: the update *)
(* that list.ts makes and applies, and the tombstones after it), for every *)
(* number of replicas and edits: no item stays pending, none is missing,   *)
(* and every tombstone of the other has its item there to mark.            *)
(***************************************************************************)
LEMMA SyncBringsAll ==
    ASSUME IInv, NEW p \in User, NEW q \in User, Sync(p, q), ~text'[q].spinning
    PROVE  /\ Ids(text[p]) \subseteq Ids(text'[q])
           /\ text[p].deleted \subseteq text'[q].deleted
<1> DEFINE missing == Missing(text[p], text[q].stateVector)
           items == {Item(text[p], id) : id \in missing}
<1>1. Answered(p, q, items, text'[q]) /\ Ids(text[p]) \ missing \subseteq Ids(text[q])
  BY AnswerBringsAll
<1>2. text[p] \in Lists
  BY DEF IInv, TypeInv
<1>3. \A id \in missing : id \in Ids(text'[q])
  <2> TAKE id \in missing
  <2>1. id \in Ids(text[p])
    BY DEF Missing
  <2>2. Item(text[p], id) \in items /\ Item(text[p], id).id = id
    BY <1>2, <2>1, ItemFacts
  <2> QED
    BY <1>1, <2>2 DEF Answered
<1>4. Ids(text[q]) \subseteq Ids(text'[q])
  BY <1>1 DEF Answered, Extends
<1>5. text[p].deleted \subseteq text'[q].deleted
  BY <1>1 DEF Answered
<1> HIDE DEF missing
<1> QED
  BY <1>1, <1>3, <1>4, <1>5

THEOREM AnswersSuffice == Spec => SyncCompletes
<1> DEFINE Brings == \A p, q \in User :
               text'[q] # text[q] /\ Sync(p, q) /\ ~text'[q].spinning =>
                   /\ Ids(text[p]) \subseteq Ids(text'[q])
                   /\ text[p].deleted \subseteq text'[q].deleted
<1>1. IInv => Brings
  BY SyncBringsAll
<1>2. Spec => []IInv
  BY Invariance
<1> HIDE DEF Brings
<1>3. Spec => [][Brings]_vars
  BY <1>1, <1>2, PTL
<1> QED
  BY <1>3 DEF SyncCompletes, Brings

(***************************************************************************)
(* Whatever is typed, deleted and synchronised, the linked list of a       *)
(* replica and its itemById hold the same items, each of them once: the    *)
(* scan of integrate never loses the place it inserts at.                  *)
(***************************************************************************)
THEOREM EachItemOnce == Spec => []ItemsOnce
<1>1. IInv => ItemsOnce
  <2> SUFFICES ASSUME IInv, NEW p \in User
               PROVE  /\ ToSet(text[p].order) = Ids(text[p])
                      /\ Len(text[p].order) = Cardinality(Ids(text[p]))
    BY DEF ItemsOnce
  <2>1. text[p] \in Lists
    BY DEF IInv, TypeInv
  <2> QED
    BY <2>1, ListFacts, OrderIsCounted DEF HoldsItemsOnce
<1> QED
  BY <1>1, Invariance, PTL

(***************************************************************************)
(* Typing never hangs: insertItem returns, whatever has been integrated    *)
(* before, since the neighbours of a place in the text are in order.       *)
(***************************************************************************)
THEOREM TypingReturns ==
    Spec => [][\A p \in User : \A index \in 0 .. Len(Visible(text[p])) :
                  Insert(p, index) => ~text'[p].spinning]_vars
<1> DEFINE Returns == \A p \in User : \A index \in 0 .. Len(Visible(text[p])) :
                          Insert(p, index) => ~text'[p].spinning
<1>1. IInv => Returns
  <2> SUFFICES ASSUME IInv, NEW p \in User, NEW index \in 0 .. Len(Visible(text[p])),
                      Insert(p, index)
               PROVE  ~text'[p].spinning
    OBVIOUS
  <2> DEFINE l == text[p]
  <2>1. l \in Lists /\ ~l.spinning /\ text'[p] = InsertItem(l, p, index)
    BY DEF IInv, TypeInv, Insert
  <2>2. l.stateVector[p] = l.opCounter /\ l.opCounter \in Nat
    BY <2>1, ListFacts DEF IInv, HoldsPrefixes
  <2>3. \A id \in Ids(l) : id[2] < text[id[1]].opCounter
    BY DEF IInv, NothingFromTheFuture
  <2>4. <<p, l.opCounter>> \notin Ids(l)
    BY <2>2, <2>3
  <2>5. index \in 0 .. Len(Visible(l))
    OBVIOUS
  <2> HIDE DEF l
  <2>6. \E item \in Items : Adds(l, InsertItem(l, p, index), item)
    BY <2>1, <2>4, <2>5, InsertItemAdds
  <2>7. InsertItem(l, p, index).spinning = l.spinning
    BY <2>6 DEF Adds
  <2> QED
    BY <2>1, <2>7
<1> HIDE DEF Returns
<1>2. Spec => [][Returns]_vars
  BY <1>1, Invariance, PTL
<1> QED
  BY <1>2 DEF Returns

(***************************************************************************)
(* As long as replicas have what they share in one order, every item is    *)
(* between the neighbours its author saw, on every replica, and integrate  *)
(* has returned every time: it hangs only after texts have come apart.     *)
(***************************************************************************)
THEOREM AgreedItemsStay == Spec => []ItemsStay
<1>1. IInv /\ ItemsOnce /\ OrdersAgree => ItemsBetweenOrigins
  <2> SUFFICES ASSUME IInv, OrdersAgree, NEW p \in User, NEW id \in Ids(text[p])
               PROVE  BetweenOrigins(text[p], id)
    BY DEF ItemsBetweenOrigins, BetweenOrigins
  <2> DEFINE l == text[p]
             a == text[id[1]]
  <2>1. id[1] \in User /\ l \in Lists /\ a \in Lists
    BY ListFacts, IdFacts DEF IInv, TypeInv
  <2>2. id \in Ids(a) /\ l.origins[id] = a.origins[id] /\ BetweenOrigins(a, id)
    BY <2>1 DEF IInv, Authors, OwnStay
  <2>3. Agree(l, a)
    BY <2>1 DEF OrdersAgree
  <2>4. id \in Ids(l)
    OBVIOUS
  <2> HIDE DEF l, a
  <2>5. {id, l.origins[id].left, l.origins[id].right} \subseteq Known(l) \cap Known(a)
    BY <2>1, <2>2, <2>4, ListFacts DEF OriginsHeld, Known
  <2>6. BetweenOrigins(l, id)
    BY <2>1, <2>2, <2>3, <2>5, AgreeOnKnown DEF BetweenOrigins
  <2> QED
    BY <2>6 DEF l
<1>2. IInv /\ OrdersAgree => IntegrateReturns
  BY DEF IInv, SpinsApart, IntegrateReturns
<1>3. IInv /\ ItemsOnce => ItemsStay
  BY <1>1, <1>2 DEF ItemsStay
<1> QED
  BY <1>3, Invariance, EachItemOnce, PTL

(***************************************************************************)
(* Then replicas with the same items show the same text: what makes texts  *)
(* differ is nothing but the order in which integrate puts items.          *)
(***************************************************************************)
THEOREM AgreedTextsAreSame == Spec => [](OrdersAgree => SameItemsSameText)
<1>1. IInv /\ OrdersAgree => SameItemsSameText
  <2> SUFFICES ASSUME IInv, OrdersAgree, NEW p \in User, NEW q \in User,
                      Ids(text[p]) = Ids(text[q]), text[p].deleted = text[q].deleted
               PROVE  Visible(text[p]) = Visible(text[q])
    BY DEF SameItemsSameText
  <2>1. text[p] \in Lists /\ text[q] \in Lists /\ Agree(text[p], text[q])
    BY DEF IInv, TypeInv, OrdersAgree
  <2>2. text[p].order = text[q].order
    BY <2>1, AgreedOrder
  <2> QED
    BY <2>2 DEF Visible
<1> QED
  BY <1>1, Invariance, PTL
===============================================================================
