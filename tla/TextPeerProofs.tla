---------------------------- MODULE TextPeerProofs ----------------------------
(***************************************************************************)
(* Proofs about browsers that edit one text: over its first data channel a *)
(* peer learns everything, whatever races with the catch-up.               *)
(***************************************************************************)
EXTENDS TextPeerProperties, ListProofs

StateVectors == [kind : {"stateVector"}, sv : [User -> Nat]]

Updates == [kind : {"update"}, items : Seq(Items), deletes : SUBSET ItemIds]

Messages == StateVectors \cup Updates

TypeInv ==
    /\ text \in [User -> Lists]
    /\ tombstoneOrder \in [User -> SUBSET ItemIds]
    /\ broadcastTombstones \in [User -> SUBSET ItemIds]
    /\ lastBroadcastSV \in [User -> [User -> Nat]]
    /\ open \in SUBSET (User \X User)
    /\ channel \in [User \X User -> Seq(Messages)]
    /\ links \in Nat

(***************************************************************************)
(* Over any number of data channels: an item is held by who inserted it,   *)
(* what is under way is no more than its sender holds, and the cursors of  *)
(* a peer are behind its list.                                             *)
(***************************************************************************)
Authors ==
    /\ \A p \in User : text[p].stateVector[p] <= text[p].opCounter
    /\ \A p \in User : \A id \in Ids(text[p]) : id \in Ids(text[id[1]])

Says(m, l) ==
    /\ \A x \in ToSet(m.items) :
           /\ x.id \in Ids(l)
           /\ x.left = l.origins[x.id].left /\ x.right = l.origins[x.id].right
           /\ x.deleted => x.id \in l.deleted
    /\ m.deletes \subseteq l.deleted

Sayings ==
    \A p, q \in User :
        \A k \in DOMAIN channel[<<p, q>>] :
            channel[<<p, q>>][k].kind = "update" => Says(channel[<<p, q>>][k], text[p])

Cursors ==
    \A p \in User :
        /\ \A u \in User : lastBroadcastSV[p][u] <= text[p].stateVector[u]
        /\ tombstoneOrder[p] \subseteq text[p].deleted
        /\ broadcastTombstones[p] \subseteq text[p].deleted

(***************************************************************************)
(* The first data channel: who sends on it has opened it, and of two peers *)
(* of which one has opened it the state vector is still to be handled.     *)
(***************************************************************************)
OneLink ==
    /\ links = 0 => linked = {}
    /\ \A a, b \in linked : a = b
    /\ \A p \in User : {p} \notin linked
    /\ \A p, q \in User :
           /\ <<p, q>> \in open => {p, q} \in linked
           /\ channel[<<p, q>>] # << >> => <<p, q>> \in open

Asks(ch) == \E k \in DOMAIN ch : ch[k].kind = "stateVector"

Asked(p, q) == Asks(channel[<<p, q>>])

OpensAsking ==
    \A p, q \in User : <<p, q>> \in open /\ <<q, p>> \notin open => Asked(p, q)

(***************************************************************************)
(* Whose items a peer holds, and that who asks holds none of the other.    *)
(***************************************************************************)
OwnOnly(p) == \A id \in Ids(text[p]) : id[1] = p

Holders ==
    /\ links = 0 => \A p \in User : OwnOnly(p)
    /\ \A p, q \in User :
           {p, q} \in linked =>
               /\ \A id \in Ids(text[p]) : id[1] \in {p, q}
               /\ <<p, q>> \notin open => OwnOnly(p)

AsksForAll ==
    \A p, q \in User :
        \A k \in DOMAIN channel[<<p, q>>] :
            channel[<<p, q>>][k].kind = "stateVector" => channel[<<p, q>>][k].sv[q] = 0

(***************************************************************************)
(* From the message b on, what q sends p can be taken as it comes, and it  *)
(* is everything p lacks but for what q has yet to broadcast.  The answer  *)
(* to the state vector of p is the first such message: broadcasts that     *)
(* overtook it may need what only the answer brings.                       *)
(***************************************************************************)
ItemIdsIn(m) == {x.id : x \in ToSet(m.items)}

Tombstones(m) == m.deletes \cup {x.id : x \in {y \in ToSet(m.items) : y.deleted}}

Brought(ch, b, k) == UNION {ItemIdsIn(ch[j]) : j \in b .. k}

\* Nothing in the update m refers to an item that is not known.
Refers(m, known) ==
    /\ \A x \in ToSet(m.items) : {x.left, x.right} \subseteq known \cup {HEAD, TAIL}
    /\ m.deletes \subseteq known

Takes(ch, held, b) ==
    \A k \in b .. Len(ch) :
        ch[k].kind = "update" /\ Refers(ch[k], held \cup Brought(ch, b, k))

CoversItems(ch, held, b, ids) == ids \subseteq held \cup Brought(ch, b, Len(ch))

CoversTombstones(ch, deleted, b, ids) ==
    \A id \in ids : id \in deleted \/ \E k \in b .. Len(ch) : id \in Tombstones(ch[k])

Covers(ch, held, deleted, b, ids, tombstones) ==
    /\ b \in 1 .. Len(ch) + 1
    /\ Takes(ch, held, b)
    /\ CoversItems(ch, held, b, ids)
    /\ CoversTombstones(ch, deleted, b, tombstones)

\* What p has inserted, and what it knows to be deleted, and has broadcast.
Sent(p) == {id \in Ids(text[p]) : id[1] = p /\ id[2] < lastBroadcastSV[p][p]}

Told(p) == text[p].deleted \ (tombstoneOrder[p] \ broadcastTombstones[p])

Caught(q, p) ==
    \E b \in 1 .. Len(channel[<<q, p>>]) + 1 :
        Covers(channel[<<q, p>>], Ids(text[p]), text[p].deleted, b, Sent(q), Told(q))

Catching(q, p) ==
    /\ Alive(p) /\ Alive(q)
    /\ {<<p, q>>, <<q, p>>} \subseteq open
    /\ ~Asked(p, q)

CatchUp == \A p, q \in User : Catching(q, p) => Caught(q, p)

FirstLink ==
    /\ OneLink
    /\ OpensAsking
    /\ Holders
    /\ AsksForAll
    /\ CatchUp

Inv == TypeInv /\ Authors /\ Sayings /\ Cursors

IInv == Inv /\ (links <= 1 => FirstLink)

----------------------------------------------------------------------------
(* Channels.                                                               *)

LEMMA CoversMore ==
    ASSUME NEW ch, NEW held, NEW deleted, NEW b, NEW ids, NEW tombstones,
           Covers(ch, held, deleted, b, ids, tombstones),
           NEW held2, held \subseteq held2, NEW deleted2, deleted \subseteq deleted2,
           NEW ids2, ids2 \subseteq ids \cup held2,
           NEW tombstones2, tombstones2 \subseteq tombstones \cup deleted2
    PROVE  Covers(ch, held2, deleted2, b, ids2, tombstones2)
<1>1. Takes(ch, held2, b)
  BY DEF Covers, Takes, Refers
<1>2. CoversItems(ch, held2, b, ids2)
  BY DEF Covers, CoversItems
<1>3. CoversTombstones(ch, deleted2, b, tombstones2)
  BY DEF Covers, CoversTombstones
<1> QED
  BY <1>1, <1>2, <1>3 DEF Covers

(***************************************************************************)
(* One more message, which may refer to what the others bring.             *)
(***************************************************************************)
LEMMA CoversAppended ==
    ASSUME NEW ch \in Seq(Messages), NEW held, NEW deleted, NEW b \in Nat,
           NEW ids, NEW tombstones,
           Covers(ch, held, deleted, b, ids, tombstones),
           NEW m \in Updates,
           Refers(m, held \cup Brought(ch, b, Len(ch)) \cup ItemIdsIn(m)),
           NEW ids2, ids2 \subseteq ids \cup ItemIdsIn(m),
           NEW tombstones2, tombstones2 \subseteq tombstones \cup Tombstones(m)
    PROVE  Covers(Append(ch, m), held, deleted, b, ids2, tombstones2)
<1> DEFINE h == Append(ch, m)
           N == Len(ch)
<1>1. N \in Nat /\ h \in Seq(Messages) /\ Len(h) = N + 1 /\ h[N + 1] = m
      /\ \A k \in 1 .. N : h[k] = ch[k]
  BY LenProperties, AppendProperties DEF Messages
<1>2. b \in 1 .. N + 1 /\ b \in 1 .. Len(h) + 1
  BY <1>1 DEF Covers
<1> HIDE DEF h, N
<1>3. \A k \in b .. N : h[k] = ch[k] /\ Brought(h, b, k) = Brought(ch, b, k)
  <2> TAKE k \in b .. N
  <2>1. \A j \in b .. k : h[j] = ch[j]
    BY <1>1, <1>2
  <2>2. Brought(h, b, k) = Brought(ch, b, k)
    BY <2>1 DEF Brought
  <2> QED
    BY <1>1, <1>2, <2>2
<1>4. Brought(h, b, N + 1) = Brought(ch, b, N) \cup ItemIdsIn(m)
  <2>1. b .. N + 1 = (b .. N) \cup {N + 1}
    BY <1>1, <1>2
  <2>2. \A j \in b .. N : h[j] = ch[j]
    BY <1>1, <1>2
  <2> QED
    BY <1>1, <2>1, <2>2 DEF Brought
<1>5. m.kind = "update"
  BY DEF Updates
<1>6. Takes(h, held, b)
  <2> SUFFICES ASSUME NEW k \in b .. N + 1
               PROVE  h[k].kind = "update" /\ Refers(h[k], held \cup Brought(h, b, k))
    BY <1>1 DEF Takes
  <2>1. CASE k \in b .. N
    BY <1>3, <2>1 DEF Covers, Takes, N
  <2>2. CASE k = N + 1
    <3>1. held \cup Brought(h, b, k) = held \cup Brought(ch, b, N) \cup ItemIdsIn(m)
      BY <1>4, <2>2
    <3>2. Refers(h[k], held \cup Brought(h, b, k))
      BY <1>1, <2>2, <3>1 DEF N
    <3> QED
      BY <1>1, <1>5, <2>2, <3>2
  <2> QED
    BY <1>1, <1>2, <2>1, <2>2
<1>7. CoversItems(h, held, b, ids2)
  <2>1. ids \subseteq held \cup Brought(ch, b, N)
    BY DEF Covers, CoversItems, N
  <2> QED
    BY <1>1, <1>4, <2>1 DEF CoversItems
<1>8. CoversTombstones(h, deleted, b, tombstones2)
  <2> SUFFICES ASSUME NEW id \in tombstones2, id \notin deleted
               PROVE  \E k \in b .. N + 1 : id \in Tombstones(h[k])
    BY <1>1 DEF CoversTombstones
  <2>1. CASE id \in Tombstones(m)
    <3>1. N + 1 \in b .. N + 1
      BY <1>1, <1>2
    <3> QED
      BY <1>1, <2>1, <3>1
  <2>2. CASE id \in tombstones
    <3>1. PICK k \in b .. N : id \in Tombstones(ch[k])
      BY <2>2 DEF Covers, CoversTombstones, N
    <3>2. k \in b .. N + 1 /\ h[k] = ch[k]
      BY <1>1, <1>2, <1>3, <3>1
    <3> QED
      BY <3>1, <3>2
  <2> QED
    BY <2>1, <2>2
<1> QED
  BY <1>2, <1>6, <1>7, <1>8 DEF Covers, h

LEMMA TailFacts ==
    ASSUME NEW S, NEW ch \in Seq(S), ch # << >>
    PROVE  /\ Len(ch) \in Nat \ {0} /\ Len(Tail(ch)) = Len(ch) - 1
           /\ Tail(ch) \in Seq(S) /\ Head(ch) = ch[1] /\ Head(ch) \in S
           /\ \A k \in 1 .. Len(ch) - 1 : Tail(ch)[k] = ch[k + 1]
           /\ DOMAIN Tail(ch) = 1 .. Len(ch) - 1 /\ DOMAIN ch = 1 .. Len(ch)
<1>1. Len(ch) \in Nat \ {0}
  BY EmptySeq
<1>2. Head(ch) = ch[1]
  BY <1>1
<1> QED
  BY <1>1, <1>2, HeadTailProperties, LenProperties

(***************************************************************************)
(* The first message is handled: one of those before b, of which nothing   *)
(* is asked, or b itself, which is taken in full.                          *)
(***************************************************************************)
LEMMA CoversEarlier ==
    ASSUME NEW ch \in Seq(Messages), ch # << >>, NEW held, NEW deleted,
           NEW b \in Nat, b > 1, NEW ids, NEW tombstones,
           Covers(ch, held, deleted, b, ids, tombstones)
    PROVE  Covers(Tail(ch), held, deleted, b - 1, ids, tombstones)
<1> DEFINE h == Tail(ch)
           N == Len(ch)
<1>1. N \in Nat \ {0} /\ Len(h) = N - 1 /\ \A k \in 1 .. N - 1 : h[k] = ch[k + 1]
  BY TailFacts
<1>2. b \in 1 .. N + 1 /\ b - 1 \in 1 .. Len(h) + 1
  BY <1>1 DEF Covers
<1> HIDE DEF h, N
<1>3. ASSUME NEW k \in b - 1 .. N - 1
      PROVE  /\ k + 1 \in b .. N /\ h[k] = ch[k + 1]
             /\ Brought(h, b - 1, k) = Brought(ch, b, k + 1)
  <2>1. k + 1 \in b .. N /\ h[k] = ch[k + 1]
    BY <1>1, <1>2
  <2>2. \A j \in b - 1 .. k : j + 1 \in b .. k + 1 /\ h[j] = ch[j + 1]
    BY <1>1, <1>2
  <2>3. \A j \in b .. k + 1 : j - 1 \in b - 1 .. k /\ h[j - 1] = ch[j]
    BY <1>1, <1>2
  <2>4. Brought(h, b - 1, k) \subseteq Brought(ch, b, k + 1)
    BY <2>2 DEF Brought
  <2>5. Brought(ch, b, k + 1) \subseteq Brought(h, b - 1, k)
    BY <2>3 DEF Brought
  <2> QED
    BY <2>1, <2>4, <2>5
<1>4. Takes(h, held, b - 1)
  <2> SUFFICES ASSUME NEW k \in b - 1 .. N - 1
               PROVE  h[k].kind = "update" /\ Refers(h[k], held \cup Brought(h, b - 1, k))
    BY <1>1 DEF Takes
  <2>1. k + 1 \in b .. N /\ h[k] = ch[k + 1]
        /\ Brought(h, b - 1, k) = Brought(ch, b, k + 1)
    BY <1>3
  <2>2. ch[k + 1].kind = "update" /\ Refers(ch[k + 1], held \cup Brought(ch, b, k + 1))
    BY <2>1 DEF Covers, Takes, N
  <2> QED
    BY <2>1, <2>2
<1>5. Brought(ch, b, N) \subseteq Brought(h, b - 1, N - 1)
  <2>1. \A j \in b .. N : j - 1 \in b - 1 .. N - 1 /\ h[j - 1] = ch[j]
    BY <1>1, <1>2
  <2> QED
    BY <2>1 DEF Brought
<1>6. CoversItems(h, held, b - 1, ids)
  BY <1>1, <1>5 DEF Covers, CoversItems, N
<1>7. CoversTombstones(h, deleted, b - 1, tombstones)
  <2> SUFFICES ASSUME NEW id \in tombstones, id \notin deleted
               PROVE  \E k \in b - 1 .. N - 1 : id \in Tombstones(h[k])
    BY <1>1 DEF CoversTombstones
  <2>1. PICK k \in b .. N : id \in Tombstones(ch[k])
    BY DEF Covers, CoversTombstones, N
  <2>2. k - 1 \in b - 1 .. N - 1 /\ h[k - 1] = ch[k]
    BY <1>1, <1>2
  <2> QED
    BY <2>1, <2>2
<1> QED
  BY <1>2, <1>4, <1>6, <1>7 DEF Covers, h

LEMMA CoversTaken ==
    ASSUME NEW ch \in Seq(Messages), ch # << >>, NEW held, NEW deleted,
           NEW ids, NEW tombstones,
           Covers(ch, held, deleted, 1, ids, tombstones),
           NEW held2, held \cup ItemIdsIn(Head(ch)) \subseteq held2,
           NEW deleted2, deleted \cup Tombstones(Head(ch)) \subseteq deleted2
    PROVE  Covers(Tail(ch), held2, deleted2, 1, ids, tombstones)
<1> DEFINE h == Tail(ch)
           N == Len(ch)
<1>1. N \in Nat \ {0} /\ Len(h) = N - 1 /\ \A k \in 1 .. N - 1 : h[k] = ch[k + 1]
  BY TailFacts
<1>2. ItemIdsIn(ch[1]) \subseteq held2 /\ Tombstones(ch[1]) \subseteq deleted2
      /\ held \subseteq held2 /\ deleted \subseteq deleted2
  BY TailFacts
<1>3. 1 \in 1 .. Len(h) + 1
  BY <1>1
<1> HIDE DEF h, N
<1>4. ASSUME NEW k \in 1 .. N - 1
      PROVE  /\ k + 1 \in 1 .. N /\ h[k] = ch[k + 1]
             /\ held \cup Brought(ch, 1, k + 1) \subseteq held2 \cup Brought(h, 1, k)
  <2>1. k + 1 \in 1 .. N /\ h[k] = ch[k + 1]
    BY <1>1
  <2>2. \A j \in 1 .. k + 1 : j = 1 \/ (j - 1 \in 1 .. k /\ h[j - 1] = ch[j])
    BY <1>1
  <2>3. Brought(ch, 1, k + 1) \subseteq ItemIdsIn(ch[1]) \cup Brought(h, 1, k)
    BY <2>2 DEF Brought
  <2> QED
    BY <1>2, <2>1, <2>3
<1>5. Takes(h, held2, 1)
  <2> SUFFICES ASSUME NEW k \in 1 .. N - 1
               PROVE  h[k].kind = "update" /\ Refers(h[k], held2 \cup Brought(h, 1, k))
    BY <1>1 DEF Takes
  <2>1. k + 1 \in 1 .. N /\ h[k] = ch[k + 1]
        /\ held \cup Brought(ch, 1, k + 1) \subseteq held2 \cup Brought(h, 1, k)
    BY <1>4
  <2>2. ch[k + 1].kind = "update" /\ Refers(ch[k + 1], held \cup Brought(ch, 1, k + 1))
    BY <2>1 DEF Covers, Takes, N
  <2> QED
    BY <2>1, <2>2 DEF Refers
<1>6. Brought(ch, 1, N) \subseteq held2 \cup Brought(h, 1, N - 1)
  <2>1. \A j \in 1 .. N : j = 1 \/ (j - 1 \in 1 .. N - 1 /\ h[j - 1] = ch[j])
    BY <1>1
  <2> QED
    BY <1>2, <2>1 DEF Brought
<1>7. CoversItems(h, held2, 1, ids)
  BY <1>2, <1>1, <1>6 DEF Covers, CoversItems, N
<1>8. CoversTombstones(h, deleted2, 1, tombstones)
  <2> SUFFICES ASSUME NEW id \in tombstones, id \notin deleted2
               PROVE  \E k \in 1 .. N - 1 : id \in Tombstones(h[k])
    BY <1>1 DEF CoversTombstones
  <2>1. PICK k \in 1 .. N : id \in Tombstones(ch[k])
    BY <1>2 DEF Covers, CoversTombstones, N
  <2>2. k # 1
    BY <1>2, <2>1
  <2>3. k - 1 \in 1 .. N - 1 /\ h[k - 1] = ch[k]
    BY <1>1, <2>2
  <2> QED
    BY <2>1, <2>3
<1> QED
  BY <1>3, <1>5, <1>7, <1>8 DEF Covers, h

----------------------------------------------------------------------------
(* The beginning.                                                          *)

LEMMA InitHolds == Init => IInv
<1> SUFFICES ASSUME Init PROVE IInv
  OBVIOUS
<1>1. \A p \in User : text[p] = NewList
  BY DEF Init
<1>2. /\ Ids(NewList) = {} /\ NewList.opCounter = 0 /\ NewList.deleted = {}
      /\ \A u \in User : NewList.stateVector[u] = 0
  BY DEF NewList, Ids
<1>3. \A c \in User \X User : channel[c] = << >>
  BY DEF Init
<1>4. TypeInv
  <2>1. channel \in [User \X User -> Seq(Messages)]
    BY EmptySeq DEF Init
  <2> QED
    BY <2>1, NewListIsList DEF Init, TypeInv, NothingSeen
<1>5. Authors
  BY <1>1, <1>2 DEF Authors
<1>6. \A p, q \in User : DOMAIN channel[<<p, q>>] = {}
  BY <1>3
<1>7. Sayings
  BY <1>6 DEF Sayings
<1>8. Cursors
  BY <1>1, <1>2 DEF Init, Cursors, NothingSeen
<1>9. FirstLink
  <2>1. OneLink
    BY <1>3 DEF Init, OneLink
  <2>2. OpensAsking
    BY DEF Init, OpensAsking
  <2>3. Holders
    BY <1>1, <1>2 DEF Init, Holders, OwnOnly
  <2>4. AsksForAll
    BY <1>6 DEF AsksForAll
  <2>5. CatchUp
    BY DEF Init, CatchUp, Catching
  <2> QED
    BY <2>1, <2>2, <2>3, <2>4, <2>5 DEF FirstLink
<1> QED
  BY <1>4, <1>5, <1>7, <1>8, <1>9 DEF IInv, Inv

----------------------------------------------------------------------------
(* A list that grows.                                                      *)

Extends(l, m) ==
    /\ Ids(l) \subseteq Ids(m)
    /\ \A id \in Ids(l) : m.origins[id] = l.origins[id]
    /\ l.deleted \subseteq m.deleted
    /\ \A u \in User : l.stateVector[u] <= m.stateVector[u]
    /\ l.spinning => m.spinning

LEMMA ExtendsItself ==
    ASSUME NEW l \in Lists
    PROVE  Extends(l, l)
<1>1. l.stateVector \in [User -> Nat]
  BY ListFacts
<1> QED
  BY <1>1 DEF Extends

LEMMA SaysMore ==
    ASSUME NEW l, NEW m, Extends(l, m), NEW msg, Says(msg, l)
    PROVE  Says(msg, m)
  BY DEF Extends, Says

(***************************************************************************)
(* What p holds and has noted grows to m and T, and nothing else changes   *)
(* but for the channels.                                                   *)
(***************************************************************************)
Grows(p, m, T) ==
    /\ m \in Lists
    /\ Extends(text[p], m)
    /\ m.stateVector[p] <= m.opCounter
    /\ \A id \in Ids(m) \ Ids(text[p]) :
           IF id[1] = p THEN id[2] >= lastBroadcastSV[p][p]
           ELSE id \in Ids(text[id[1]])
    /\ T \subseteq m.deleted
    /\ tombstoneOrder[p] \subseteq T
    /\ text' = [text EXCEPT ![p] = m]
    /\ tombstoneOrder' = [tombstoneOrder EXCEPT ![p] = T]
    /\ UNCHANGED <<lastBroadcastSV, broadcastTombstones, linked, open, links>>

LEMMA GrowsFacts ==
    ASSUME Inv, NEW p \in User, NEW m, NEW T, Grows(p, m, T)
    PROVE  /\ text'[p] = m /\ tombstoneOrder'[p] = T
           /\ \A q \in User : Extends(text[q], text'[q])
           /\ \A q \in User \ {p} : text'[q] = text[q]
           /\ \A q \in User : Sent(q)' \subseteq Sent(q)
           /\ \A q \in User \ {p} : Told(q)' \subseteq Told(q)
           /\ Told(p)' \subseteq Told(p) \cup (m.deleted \ (text[p].deleted \cup T))
<1>1. /\ text'[p] = m /\ tombstoneOrder'[p] = T
      /\ \A q \in User \ {p} : text'[q] = text[q] /\ tombstoneOrder'[q] = tombstoneOrder[q]
      /\ lastBroadcastSV' = lastBroadcastSV /\ broadcastTombstones' = broadcastTombstones
  BY DEF Grows, Inv, TypeInv
<1>2. \A q \in User : text[q] \in Lists
  BY DEF Inv, TypeInv
<1>3. \A q \in User : Extends(text[q], text'[q])
  BY <1>1, <1>2, ExtendsItself DEF Grows
<1>4. \A q \in User : Sent(q)' \subseteq Sent(q)
  <2> SUFFICES ASSUME NEW q \in User, NEW id \in Sent(q)' PROVE id \in Sent(q)
    OBVIOUS
  <2>1. id \in Ids(text'[q]) /\ id[1] = q /\ id[2] < lastBroadcastSV[q][q]
    BY <1>1 DEF Sent
  <2>2. id[2] \in Nat /\ lastBroadcastSV[q][q] \in Nat
    <3>1. text'[q] \in Lists
      BY <1>1, <1>2 DEF Grows
    <3> QED
      BY <2>1, <3>1, ListFacts, IdFacts DEF Inv, TypeInv
  <2>3. id \in Ids(text[q])
    BY <1>1, <2>1, <2>2 DEF Grows
  <2> QED
    BY <2>1, <2>3 DEF Sent
<1>5. \A q \in User \ {p} : Told(q)' \subseteq Told(q)
  BY <1>1 DEF Told
<1>6. Told(p)' \subseteq Told(p) \cup (m.deleted \ (text[p].deleted \cup T))
  <2>1. Told(p)' = m.deleted \ (T \ broadcastTombstones[p])
    BY <1>1 DEF Told
  <2>2. broadcastTombstones[p] \subseteq text[p].deleted /\ tombstoneOrder[p] \subseteq T
    BY DEF Inv, Cursors, Grows
  <2> QED
    BY <2>1, <2>2 DEF Told
<1> QED
  BY <1>1, <1>3, <1>4, <1>5, <1>6

LEMMA AuthorsKept ==
    ASSUME Inv, NEW p \in User, NEW m, NEW T, Grows(p, m, T)
    PROVE  Authors' /\ Cursors'
<1>1. /\ text'[p] = m /\ tombstoneOrder'[p] = T
      /\ \A q \in User : Extends(text[q], text'[q])
      /\ \A q \in User \ {p} : text'[q] = text[q]
  BY GrowsFacts
<1>2. /\ \A q \in User \ {p} : tombstoneOrder'[q] = tombstoneOrder[q]
      /\ lastBroadcastSV' = lastBroadcastSV /\ broadcastTombstones' = broadcastTombstones
  BY DEF Grows, Inv, TypeInv
<1>3. \A q \in User : text[q] \in Lists /\ text'[q] \in Lists
  BY <1>1 DEF Inv, TypeInv, Grows
<1>4. ASSUME NEW q \in User, NEW id \in Ids(text'[q])
      PROVE  id \in Ids(text'[id[1]])
  <2>1. id[1] \in User
    BY <1>3, <1>4, ListFacts, IdFacts
  <2>2. CASE id \in Ids(text[q])
    <3>1. id \in Ids(text[id[1]])
      BY <2>2 DEF Inv, Authors
    <3> QED
      BY <1>1, <2>1, <3>1 DEF Extends
  <2>3. CASE id \notin Ids(text[q])
    <3>1. q = p /\ id \in Ids(m) \ Ids(text[p])
      BY <1>1, <2>3
    <3>2. CASE id[1] = p
      BY <1>1, <3>1, <3>2
    <3>3. CASE id[1] # p
      <4>1. id \in Ids(text[id[1]])
        BY <3>1, <3>3 DEF Grows
      <4> QED
        BY <1>1, <2>1, <4>1 DEF Extends
    <3> QED
      BY <3>2, <3>3
  <2> QED
    BY <2>2, <2>3
<1>5. \A q \in User : text'[q].stateVector[q] <= text'[q].opCounter
  BY <1>1 DEF Inv, Authors, Grows
<1>6. Authors'
  BY <1>4, <1>5 DEF Authors
<1>7. Cursors'
  <2> SUFFICES ASSUME NEW q \in User
               PROVE  /\ \A u \in User : lastBroadcastSV[q][u] <= text'[q].stateVector[u]
                      /\ tombstoneOrder'[q] \subseteq text'[q].deleted
                      /\ broadcastTombstones[q] \subseteq text'[q].deleted
    BY <1>2 DEF Cursors
  <2>1. /\ \A u \in User : lastBroadcastSV[q][u] <= text[q].stateVector[u]
        /\ tombstoneOrder[q] \subseteq text[q].deleted
        /\ broadcastTombstones[q] \subseteq text[q].deleted
    BY DEF Inv, Cursors
  <2>2. /\ \A u \in User : text[q].stateVector[u] <= text'[q].stateVector[u]
        /\ text[q].deleted \subseteq text'[q].deleted
    BY <1>1 DEF Extends
  <2>3. text[q].stateVector \in [User -> Nat] /\ text'[q].stateVector \in [User -> Nat]
        /\ lastBroadcastSV[q] \in [User -> Nat]
    BY <1>3, ListFacts DEF Inv, TypeInv
  <2>4. \A u \in User : lastBroadcastSV[q][u] <= text'[q].stateVector[u]
    <3> TAKE u \in User
    <3>1. text[q].stateVector[u] \in Nat /\ text'[q].stateVector[u] \in Nat
          /\ lastBroadcastSV[q][u] \in Nat
      BY <2>3
    <3> QED
      BY <2>1, <2>2, <3>1
  <2>5. tombstoneOrder'[q] \subseteq text'[q].deleted
    BY <1>1, <1>2, <2>1, <2>2 DEF Grows
  <2> QED
    BY <2>1, <2>2, <2>4, <2>5
<1> QED
  BY <1>6, <1>7

(***************************************************************************)
(* Channels that carry nothing but what they did, or what is true.         *)
(***************************************************************************)
LEMMA SayingsKept ==
    ASSUME Inv, \A p \in User : Extends(text[p], text'[p]),
           \A p, q \in User : \A k \in DOMAIN channel'[<<p, q>>] :
               \/ \E j \in DOMAIN channel[<<p, q>>] :
                      channel'[<<p, q>>][k] = channel[<<p, q>>][j]
               \/ channel'[<<p, q>>][k].kind = "update" =>
                      Says(channel'[<<p, q>>][k], text'[p])
    PROVE  Sayings'
<1> SUFFICES ASSUME NEW p \in User, NEW q \in User, NEW k \in DOMAIN channel'[<<p, q>>],
                    channel'[<<p, q>>][k].kind = "update"
             PROVE  Says(channel'[<<p, q>>][k], text'[p])
  BY DEF Sayings
<1>1. CASE \E j \in DOMAIN channel[<<p, q>>] : channel'[<<p, q>>][k] = channel[<<p, q>>][j]
  <2>1. PICK j \in DOMAIN channel[<<p, q>>] : channel'[<<p, q>>][k] = channel[<<p, q>>][j]
    BY <1>1
  <2>2. Says(channel[<<p, q>>][j], text[p])
    BY <2>1 DEF Inv, Sayings
  <2> QED
    BY <2>1, <2>2, SaysMore
<1> QED
  BY <1>1

LEMMA CaughtKept ==
    ASSUME NEW p \in User, NEW q \in User, Caught(q, p),
           channel'[<<q, p>>] = channel[<<q, p>>],
           Extends(text[p], text'[p]),
           Sent(q)' \subseteq Sent(q) \cup Ids(text'[p]),
           Told(q)' \subseteq Told(q) \cup text'[p].deleted
    PROVE  Caught(q, p)'
<1>1. PICK b \in 1 .. Len(channel[<<q, p>>]) + 1 :
          Covers(channel[<<q, p>>], Ids(text[p]), text[p].deleted, b, Sent(q), Told(q))
  BY DEF Caught
<1>2. Ids(text[p]) \subseteq Ids(text'[p]) /\ text[p].deleted \subseteq text'[p].deleted
  BY DEF Extends
<1>3. Covers(channel'[<<q, p>>], Ids(text'[p]), text'[p].deleted, b, Sent(q)', Told(q)')
  BY <1>1, <1>2, CoversMore
<1> QED
  BY <1>3 DEF Caught

----------------------------------------------------------------------------
(* Insert and Delete.                                                      *)

LEMMA ListsTyped ==
    ASSUME Inv, NEW p \in User, NEW m, NEW T, Grows(p, m, T),
           channel' \in [User \X User -> Seq(Messages)],
           UNCHANGED broadcastTombstones
    PROVE  TypeInv'
<1>1. T \in SUBSET ItemIds
  BY ListFacts DEF Grows
<1> QED
  BY <1>1 DEF Inv, TypeInv, Grows

LEMMA EditKeeps ==
    ASSUME IInv, NEW p \in User, NEW m, NEW T, Grows(p, m, T), UNCHANGED channel,
           \A id \in Ids(m) \ Ids(text[p]) : id[1] = p,
           m.deleted \subseteq text[p].deleted \cup T
    PROVE  IInv'
<1>1. Inv
  BY DEF IInv
<1>2. /\ text'[p] = m
      /\ \A q \in User : Extends(text[q], text'[q])
      /\ \A q \in User \ {p} : text'[q] = text[q]
      /\ \A q \in User : Sent(q)' \subseteq Sent(q) /\ Told(q)' \subseteq Told(q)
  BY <1>1, GrowsFacts
<1>3. linked' = linked /\ open' = open /\ links' = links /\ channel' = channel
  BY DEF Grows
<1>4. TypeInv'
  <2>1. channel' \in [User \X User -> Seq(Messages)] /\ UNCHANGED broadcastTombstones
    BY <1>1, <1>3 DEF Inv, TypeInv, Grows
  <2> QED
    BY <1>1, <2>1, ListsTyped
<1>5. Authors' /\ Cursors'
  BY <1>1, AuthorsKept
<1>6. Sayings'
  BY <1>1, <1>2, <1>3, SayingsKept
<1>7. ASSUME links' <= 1 PROVE FirstLink'
  <2>1. FirstLink
    BY <1>3, <1>7 DEF IInv
  <2>2. OneLink' /\ OpensAsking' /\ AsksForAll'
    BY <1>3, <2>1 DEF FirstLink, OneLink, OpensAsking, AsksForAll, Asked
  <2>3. \A q \in User : \A id \in Ids(text'[q]) : id \in Ids(text[q]) \/ id[1] = q
    BY <1>2
  <2>4. Holders'
    <3>1. \A q \in User : OwnOnly(q) => OwnOnly(q)'
      BY <2>3 DEF OwnOnly
    <3>2. links' = 0 => \A q \in User : OwnOnly(q)'
      BY <1>3, <2>1, <3>1 DEF FirstLink, Holders
    <3>3. ASSUME NEW q \in User, NEW r \in User, {q, r} \in linked'
          PROVE  /\ \A id \in Ids(text'[q]) : id[1] \in {q, r}
                 /\ <<q, r>> \notin open' => OwnOnly(q)'
      BY <1>3, <2>1, <2>3, <3>1, <3>3 DEF FirstLink, Holders
    <3> QED
      BY <3>2, <3>3 DEF Holders
  <2>5. CatchUp'
    <3> SUFFICES ASSUME NEW q \in User, NEW r \in User, Catching(q, r)'
                 PROVE  Caught(q, r)'
      BY DEF CatchUp
    <3>1. Catching(q, r)
      BY <1>2, <1>3 DEF Catching, Alive, Asked, Extends
    <3>2. Caught(q, r)
      BY <2>1, <3>1 DEF FirstLink, CatchUp
    <3> QED
      BY <1>2, <1>3, <3>2, CaughtKept
  <2> QED
    BY <2>2, <2>4, <2>5 DEF FirstLink
<1> QED
  BY <1>4, <1>5, <1>6, <1>7 DEF IInv, Inv

LEMMA InsertPreserves ==
    ASSUME IInv, NEW p \in User, NEW index \in 0 .. Len(Visible(text[p])),
           Insert(p, index)
    PROVE  IInv'
<1> DEFINE l == text[p]
           m == InsertItem(l, p, index)
           T == tombstoneOrder[p]
<1>1. l \in Lists /\ ~l.spinning /\ text' = [text EXCEPT ![p] = m]
      /\ text \in [User -> Lists]
  BY DEF IInv, Inv, TypeInv, Insert, Alive
<1>2. /\ l.opCounter \in Nat /\ l.stateVector \in [User -> Nat]
      /\ l.stateVector[p] <= l.opCounter
      /\ \A id \in Ids(l) : id[2] < l.stateVector[id[1]] /\ id[2] \in Nat
  BY <1>1, ListFacts, IdFacts DEF IInv, Inv, Authors, Counted
<1>3. <<p, l.opCounter>> \notin Ids(l)
  BY <1>2
<1>4. index \in 0 .. Len(Visible(l))
  OBVIOUS
<1> HIDE DEF l
<1>5. /\ m \in Lists /\ m.opCounter = l.opCounter + 1
      /\ \/ Spins(l, m)
         \/ \E item \in Items : /\ item.id = <<p, l.opCounter>>
                                /\ ~item.deleted /\ Adds(l, m, item)
  BY <1>1, <1>3, <1>4, InsertItemAdds
<1> HIDE DEF m
<1>6. /\ Ids(l) \subseteq Ids(m)
      /\ \A id \in Ids(l) : m.origins[id] = l.origins[id]
      /\ \A id \in Ids(m) \ Ids(l) : id = <<p, l.opCounter>>
      /\ m.deleted = l.deleted
      /\ \/ m.stateVector = l.stateVector
         \/ m.stateVector = Bumped(l.stateVector, <<p, l.opCounter>>)
  BY <1>5 DEF Adds, Spins, Ids
<1>7. <<p, l.opCounter>> \in ItemIds
  BY <1>2 DEF ItemIds
<1>8. /\ \A u \in User : l.stateVector[u] <= m.stateVector[u]
      /\ m.stateVector[p] <= m.opCounter
  <2>1. CASE m.stateVector = l.stateVector
    BY <1>2, <1>5, <2>1
  <2>2. CASE m.stateVector = Bumped(l.stateVector, <<p, l.opCounter>>)
    <3> DEFINE id == <<p, l.opCounter>>
               sv == Bumped(l.stateVector, id)
    <3>1. id[1] = p /\ id[2] = l.opCounter /\ id \in ItemIds
      BY <1>7
    <3> HIDE DEF id
    <3>2. /\ \A u \in User : l.stateVector[u] <= sv[u]
          /\ sv[p] # l.stateVector[p] => sv[p] = l.opCounter + 1
      BY <1>2, <3>1, BumpedFacts
    <3>3. m.stateVector = sv
      BY <2>2 DEF id
    <3> HIDE DEF sv
    <3> QED
      BY <1>2, <1>5, <3>2, <3>3
  <2> QED
    BY <1>6, <2>1, <2>2
<1>9. Extends(l, m)
  BY <1>1, <1>6, <1>8 DEF Extends
<1>10. lastBroadcastSV[p][p] <= l.opCounter
  <2>1. lastBroadcastSV[p][p] <= l.stateVector[p] /\ lastBroadcastSV[p][p] \in Nat
    BY DEF IInv, Inv, TypeInv, Cursors, l
  <2> QED
    BY <1>2, <2>1
<1>11. T \subseteq m.deleted
  BY <1>6 DEF IInv, Inv, Cursors, l
<1>12. tombstoneOrder' = [tombstoneOrder EXCEPT ![p] = T]
  BY DEF Insert, IInv, Inv, TypeInv
<1>13. Grows(p, m, T)
  <2>1. \A id \in Ids(m) \ Ids(l) : id[1] = p /\ id[2] >= lastBroadcastSV[p][p]
    BY <1>6, <1>10
  <2>2. UNCHANGED <<lastBroadcastSV, broadcastTombstones, linked, open, links>>
    BY DEF Insert, linkVars
  <2> QED
    BY <1>1, <1>5, <1>8, <1>9, <1>11, <1>12, <2>1, <2>2 DEF Grows, l
<1>14. UNCHANGED channel
  BY DEF Insert
<1>15. /\ \A id \in Ids(m) \ Ids(text[p]) : id[1] = p
       /\ m.deleted \subseteq text[p].deleted \cup T
  BY <1>6 DEF l
<1> HIDE DEF T
<1> QED
  BY <1>13, <1>14, <1>15, EditKeeps

LEMMA DeletePreserves ==
    ASSUME IInv, NEW p \in User, NEW index \in 0 .. Len(Visible(text[p])) - 1,
           Delete(p, index)
    PROVE  IInv'
<1> DEFINE l == text[p]
           m == DeleteItem(l, index)
           T == tombstoneOrder[p] \cup m.deleted
<1>1. l \in Lists /\ text' = [text EXCEPT ![p] = m] /\ text \in [User -> Lists]
  BY DEF IInv, Inv, TypeInv, Delete
<1>2. tombstoneOrder' = [tombstoneOrder EXCEPT ![p] = T]
  <2>1. text'[p] = m
    BY <1>1
  <2> QED
    BY <2>1 DEF Delete
<1>3. PICK id \in Ids(l) : m = [l EXCEPT !.deleted = @ \cup {id}]
  BY <1>1, DeleteItemFacts
<1> HIDE DEF m
<1>4. /\ m \in Lists /\ Ids(m) = Ids(l) /\ m.origins = l.origins
      /\ m.deleted = l.deleted \cup {id} /\ m.stateVector = l.stateVector
      /\ m.opCounter = l.opCounter /\ m.spinning = l.spinning
  <2> HIDE DEF l
  <2>1. {id} \in SUBSET Ids(l)
    OBVIOUS
  <2> QED
    BY <1>1, <1>3, <2>1, DeletedMore
<1>5. l.stateVector[p] <= l.opCounter /\ tombstoneOrder[p] \subseteq l.deleted
      /\ l.stateVector \in [User -> Nat]
  BY <1>1, ListFacts DEF IInv, Inv, Authors, Cursors
<1>6. Extends(l, m)
  BY <1>4, <1>5 DEF Extends
<1>7. Grows(p, m, T)
  <2>1. UNCHANGED <<lastBroadcastSV, broadcastTombstones, linked, open, links>>
    BY DEF Delete, linkVars
  <2> QED
    BY <1>1, <1>2, <1>4, <1>5, <1>6, <2>1 DEF Grows
<1>8. UNCHANGED channel
  BY DEF Delete
<1>9. /\ \A i \in Ids(m) \ Ids(text[p]) : i[1] = p
      /\ m.deleted \subseteq text[p].deleted \cup T
  BY <1>4
<1> HIDE DEF T
<1> QED
  BY <1>7, <1>8, <1>9, EditKeeps

----------------------------------------------------------------------------
(* What a step does to the channels.                                       *)

\* The channel new carries what old did, and perhaps m.
Among(new, old, m) ==
    \A k \in DOMAIN new : new[k] = m \/ \E j \in DOMAIN old : new[k] = old[j]

LEMMA AppendFacts ==
    ASSUME NEW ch \in Seq(Messages), NEW m \in Messages
    PROVE  /\ Append(ch, m) \in Seq(Messages) /\ Append(ch, m) # << >>
           /\ Among(Append(ch, m), ch, m)
           /\ Asks(ch) => Asks(Append(ch, m))
           /\ m.kind = "stateVector" => Asks(Append(ch, m))
           /\ m.kind = "update" => (Asks(Append(ch, m)) => Asks(ch))
<1> DEFINE h == Append(ch, m)
<1>1. /\ Len(ch) \in Nat /\ DOMAIN ch = 1 .. Len(ch)
      /\ h \in Seq(Messages) /\ DOMAIN h = 1 .. Len(ch) + 1
      /\ h[Len(ch) + 1] = m /\ \A k \in 1 .. Len(ch) : h[k] = ch[k]
  BY LenProperties, AppendProperties
<1>2. h # << >>
  BY <1>1
<1> HIDE DEF h
<1>3. \A k \in DOMAIN h : h[k] = m \/ (k \in DOMAIN ch /\ h[k] = ch[k])
  BY <1>1
<1>4. \A k \in DOMAIN ch : k \in DOMAIN h /\ h[k] = ch[k]
  BY <1>1
<1>5. Len(ch) + 1 \in DOMAIN h
  BY <1>1
<1>6. Among(h, ch, m)
  BY <1>3 DEF Among
<1>7. Asks(ch) => Asks(h)
  BY <1>4 DEF Asks
<1>8. m.kind = "stateVector" => Asks(h)
  BY <1>1, <1>5 DEF Asks
<1>9. m.kind = "update" => (Asks(h) => Asks(ch))
  BY <1>3 DEF Asks
<1> QED
  BY <1>1, <1>2, <1>6, <1>7, <1>8, <1>9 DEF h

LEMMA TailKeeps ==
    ASSUME NEW ch \in Seq(Messages), ch # << >>
    PROVE  /\ Tail(ch) \in Seq(Messages)
           /\ \A m : Among(Tail(ch), ch, m)
           /\ Asks(Tail(ch)) => Asks(ch)
           /\ Head(ch).kind = "update" => (Asks(ch) => Asks(Tail(ch)))
<1> DEFINE h == Tail(ch)
<1>1. /\ Len(ch) \in Nat \ {0} /\ h \in Seq(Messages) /\ Head(ch) = ch[1]
      /\ \A k \in 1 .. Len(ch) - 1 : h[k] = ch[k + 1]
      /\ DOMAIN h = 1 .. Len(ch) - 1 /\ DOMAIN ch = 1 .. Len(ch)
  BY TailFacts
<1> HIDE DEF h
<1>2. \A k \in DOMAIN h : k + 1 \in DOMAIN ch /\ h[k] = ch[k + 1]
  BY <1>1
<1>3. \A k \in DOMAIN ch : k = 1 \/ (k - 1 \in DOMAIN h /\ h[k - 1] = ch[k])
  BY <1>1
<1>4. \A m : Among(h, ch, m)
  BY <1>2 DEF Among
<1>5. Asks(h) => Asks(ch)
  BY <1>2 DEF Asks
<1>6. Head(ch).kind = "update" => (Asks(ch) => Asks(h))
  BY <1>1, <1>3 DEF Asks
<1> QED
  BY <1>1, <1>4, <1>5, <1>6 DEF h

LEMMA CoversNothing ==
    ASSUME NEW ch \in Seq(Messages), NEW held, NEW deleted,
           NEW ids, ids \subseteq held, NEW tombstones, tombstones \subseteq deleted
    PROVE  Covers(ch, held, deleted, Len(ch) + 1, ids, tombstones)
<1>1. Len(ch) \in Nat
  BY LenProperties
<1>2. (Len(ch) + 1) .. Len(ch) = {} /\ Len(ch) + 1 \in 1 .. Len(ch) + 1
  BY <1>1
<1> QED
  BY <1>2 DEF Covers, Takes, CoversItems, CoversTombstones

(***************************************************************************)
(* Messages that are sent.                                                 *)
(***************************************************************************)
LEMMA UpdateMsgFacts ==
    ASSUME NEW l \in Lists, NEW target \in [User -> Nat], NEW ds \in SUBSET l.deleted,
           NEW m, m = UpdateMsg(MakeUpdate(l, target), ds)
    PROVE  /\ m \in Updates /\ m \in Messages /\ m.kind = "update" /\ m.deletes = ds
           /\ Says(m, l)
           /\ ItemIdsIn(m) = Missing(l, target)
           /\ \A x \in ToSet(m.items) : {x.left, x.right} \subseteq Ids(l) \cup {HEAD, TAIL}
           /\ ~SomethingIn(m) => Missing(l, target) = {} /\ ds = {}
<1> DEFINE items == {Item(l, id) : id \in Missing(l, target)}
<1>1. m.items \in Seq(Items) /\ ToSet(m.items) = items
  BY MakeUpdateFacts DEF UpdateMsg
<1>2. ds \in SUBSET ItemIds
  BY ListFacts
<1>3. m \in Updates /\ m.kind = "update" /\ m.deletes = ds
  BY <1>1, <1>2 DEF Updates, UpdateMsg
<1>4. \A x \in items : /\ x.id \in Missing(l, target) /\ x.id \in Ids(l)
                       /\ x.left = l.origins[x.id].left /\ x.right = l.origins[x.id].right
                       /\ x.deleted = (x.id \in l.deleted)
  <2> SUFFICES ASSUME NEW id \in Missing(l, target)
               PROVE  LET x == Item(l, id)
                      IN  /\ x.id = id /\ id \in Ids(l)
                          /\ x.left = l.origins[id].left /\ x.right = l.origins[id].right
                          /\ x.deleted = (id \in l.deleted)
    OBVIOUS
  <2>1. id \in Ids(l)
    BY DEF Missing
  <2> QED
    BY <2>1, ItemFacts
<1>5. \A id \in Missing(l, target) : Item(l, id) \in items /\ Item(l, id).id = id
  <2> TAKE id \in Missing(l, target)
  <2>1. id \in Ids(l)
    BY DEF Missing
  <2> QED
    BY <2>1, ItemFacts
<1>6. \A x \in items : {x.left, x.right} \subseteq Ids(l) \cup {HEAD, TAIL}
  <2>1. \A id \in Ids(l) : /\ l.origins[id].left \in Ids(l) \cup {HEAD}
                           /\ l.origins[id].right \in Ids(l) \cup {TAIL}
    BY ListFacts DEF OriginsHeld
  <2> HIDE DEF items
  <2> QED
    BY <1>4, <2>1
<1> HIDE DEF items
<1>7. Says(m, l)
  BY <1>1, <1>3, <1>4 DEF Says
<1>8. ItemIdsIn(m) = Missing(l, target)
  BY <1>1, <1>4, <1>5 DEF ItemIdsIn
<1>9. ASSUME ~SomethingIn(m) PROVE Missing(l, target) = {} /\ ds = {}
  <2>1. m.items = << >> /\ ds = {}
    BY <1>3, <1>9 DEF SomethingIn
  <2>2. ToSet(m.items) = {}
    BY <2>1 DEF ToSet
  <2> QED
    BY <1>1, <1>5, <2>1, <2>2
<1> QED
  BY <1>1, <1>3, <1>6, <1>7, <1>8, <1>9 DEF Messages

\* What an answer leaves out is what the vector counts already.
LEMMA MissingUnlessBefore ==
    ASSUME NEW l \in Lists, NEW target \in [User -> Nat], NEW id \in Ids(l),
           ~(id[2] < target[id[1]])
    PROVE  id \in Missing(l, target)
<1>1. id[1] \in User /\ id[2] \in Nat
  BY ListFacts, IdFacts
<1>2. target[id[1]] \in Nat
  BY <1>1
<1>3. id[2] >= target[id[1]]
  BY <1>1, <1>2
<1> QED
  BY <1>3, Zenon DEF Missing

(***************************************************************************)
(* Steps that change no list.                                              *)
(***************************************************************************)
LEMMA ListsStay ==
    ASSUME Inv, UNCHANGED peerVars
    PROVE  /\ Authors' /\ Cursors'
           /\ \A p \in User : Extends(text[p], text'[p])
           /\ \A p \in User : Sent(p)' = Sent(p) /\ Told(p)' = Told(p)
<1>1. text' = text /\ tombstoneOrder' = tombstoneOrder
      /\ lastBroadcastSV' = lastBroadcastSV /\ broadcastTombstones' = broadcastTombstones
  BY DEF peerVars
<1>2. \A p \in User : Extends(text[p], text'[p])
  BY <1>1, ExtendsItself DEF Inv, TypeInv
<1> QED
  BY <1>1, <1>2 DEF Inv, Authors, Cursors, Sent, Told

LEMMA AsksKept ==
    ASSUME FirstLink,
           \A p, q \in User : \A k \in DOMAIN channel'[<<p, q>>] :
               \/ \E j \in DOMAIN channel[<<p, q>>] :
                      channel'[<<p, q>>][k] = channel[<<p, q>>][j]
               \/ channel'[<<p, q>>][k].kind = "stateVector" =>
                      channel'[<<p, q>>][k].sv[q] = 0
    PROVE  AsksForAll'
<1> SUFFICES ASSUME NEW p \in User, NEW q \in User, NEW k \in DOMAIN channel'[<<p, q>>],
                    channel'[<<p, q>>][k].kind = "stateVector"
             PROVE  channel'[<<p, q>>][k].sv[q] = 0
  BY DEF AsksForAll
<1>1. CASE \E j \in DOMAIN channel[<<p, q>>] : channel'[<<p, q>>][k] = channel[<<p, q>>][j]
  <2>1. PICK j \in DOMAIN channel[<<p, q>>] : channel'[<<p, q>>][k] = channel[<<p, q>>][j]
    BY <1>1
  <2> QED
    BY <2>1 DEF FirstLink, AsksForAll
<1> QED
  BY <1>1

(***************************************************************************)
(* There is but one pair of peers that can have opened its channels.       *)
(***************************************************************************)
LEMMA OnePair ==
    ASSUME FirstLink, NEW p \in User, NEW q \in User, {p, q} \in linked
    PROVE  /\ p # q
           /\ \A a, b \in User : {a, b} \in linked => <<a, b>> \in {<<p, q>>, <<q, p>>}
           /\ \A a, b \in User : <<a, b>> \in open => <<a, b>> \in {<<p, q>>, <<q, p>>}
<1>1. p # q
  BY DEF FirstLink, OneLink
<1>2. ASSUME NEW a \in User, NEW b \in User, {a, b} \in linked
      PROVE  <<a, b>> \in {<<p, q>>, <<q, p>>}
  <2>1. {a, b} = {p, q}
    BY <1>2 DEF FirstLink, OneLink
  <2>2. a # b
    BY <1>2 DEF FirstLink, OneLink
  <2> QED
    BY <2>1, <2>2
<1> QED
  BY <1>1, <1>2 DEF FirstLink, OneLink

----------------------------------------------------------------------------
(* Link and Unlink.                                                        *)

LEMMA LinkPreserves ==
    ASSUME IInv, NEW p \in User, NEW q \in User, Link(p, q)
    PROVE  IInv'
<1>1. /\ p # q /\ linked' = linked \cup {{p, q}} /\ links' = links + 1
      /\ UNCHANGED peerVars /\ open' = open /\ channel' = channel
  BY DEF Link
<1>2. Inv /\ links \in Nat
  BY DEF IInv, Inv, TypeInv
<1>3. /\ Authors' /\ Cursors'
      /\ \A r \in User : Extends(text[r], text'[r])
  BY <1>1, <1>2, ListsStay
<1>4. Sayings'
  BY <1>1, <1>2, <1>3, SayingsKept
<1>5. TypeInv'
  BY <1>1, <1>2 DEF Inv, TypeInv, peerVars
<1>6. ASSUME links' <= 1 PROVE FirstLink'
  <2>1. links = 0 /\ links' = 1
    BY <1>1, <1>2, <1>6
  <2>2. FirstLink
    BY <2>1 DEF IInv
  <2>3. linked = {} /\ linked' = {{p, q}}
    BY <1>1, <2>1, <2>2 DEF FirstLink, OneLink
  <2>4. \A a, b \in User : <<a, b>> \notin open' /\ channel'[<<a, b>>] = << >>
    BY <1>1, <2>2, <2>3 DEF FirstLink, OneLink
  <2>5. OneLink'
    BY <1>1, <2>1, <2>3, <2>4 DEF OneLink
  <2>6. OpensAsking' /\ CatchUp'
    BY <2>4 DEF OpensAsking, CatchUp, Catching
  <2>7. AsksForAll'
    BY <1>1, <2>2 DEF FirstLink, AsksForAll
  <2>8. \A r \in User : \A id \in Ids(text'[r]) : id[1] = r
    BY <1>1, <2>1, <2>2 DEF FirstLink, Holders, OwnOnly, peerVars
  <2>9. Holders'
    BY <2>1, <2>8 DEF Holders, OwnOnly
  <2> QED
    BY <2>5, <2>6, <2>7, <2>9 DEF FirstLink
<1> QED
  BY <1>3, <1>4, <1>5, <1>6 DEF IInv, Inv

LEMMA UnlinkPreserves ==
    ASSUME IInv, NEW p \in User, NEW q \in User, Unlink(p, q)
    PROVE  IInv'
<1>1. /\ {p, q} \in linked /\ linked' = linked \ {{p, q}} /\ links' = links
      /\ UNCHANGED peerVars /\ open' = open \ {<<p, q>>, <<q, p>>}
      /\ channel' = [channel EXCEPT ![<<p, q>>] = << >>, ![<<q, p>>] = << >>]
  BY DEF Unlink
<1>2. Inv /\ channel \in [User \X User -> Seq(Messages)]
  BY DEF IInv, Inv, TypeInv
<1>3. /\ Authors' /\ Cursors'
      /\ \A r \in User : Extends(text[r], text'[r])
  BY <1>1, <1>2, ListsStay
<1>4. /\ channel'[<<p, q>>] = << >> /\ channel'[<<q, p>>] = << >>
      /\ \A a, b \in User : <<a, b>> \notin {<<p, q>>, <<q, p>>} =>
             channel'[<<a, b>>] = channel[<<a, b>>]
  BY <1>1, <1>2
<1>5. ASSUME NEW a \in User, NEW b \in User
      PROVE  DOMAIN channel'[<<a, b>>] = {} \/ channel'[<<a, b>>] = channel[<<a, b>>]
  <2>1. CASE <<a, b>> \in {<<p, q>>, <<q, p>>}
    <3>1. channel'[<<a, b>>] = << >>
      BY <1>4, <2>1
    <3> QED
      BY <3>1
  <2> QED
    BY <1>4, <2>1
<1>6. Sayings'
  BY <1>2, <1>3, <1>5, SayingsKept
<1>7. TypeInv'
  <2>1. channel' \in [User \X User -> Seq(Messages)]
    BY <1>1, <1>2, EmptySeq
  <2> QED
    BY <1>1, <1>2, <2>1 DEF Inv, TypeInv, peerVars
<1>8. ASSUME links' <= 1 PROVE FirstLink'
  <2>1. FirstLink
    BY <1>1, <1>8 DEF IInv
  <2>2. linked' = {}
    BY <1>1, <2>1 DEF FirstLink, OneLink
  <2>3. \A a, b \in User : <<a, b>> \notin open'
    BY <1>1, <2>1, OnePair
  <2>4. ASSUME NEW a \in User, NEW b \in User PROVE channel'[<<a, b>>] = << >>
    <3>1. CASE <<a, b>> \in {<<p, q>>, <<q, p>>}
      BY <1>4, <3>1
    <3>2. CASE <<a, b>> \notin {<<p, q>>, <<q, p>>}
      <4>1. <<a, b>> \notin open
        BY <1>1, <2>1, <3>2, OnePair
      <4>2. channel[<<a, b>>] = << >>
        BY <2>1, <4>1 DEF FirstLink, OneLink
      <4> QED
        BY <1>4, <3>2, <4>2
    <3> QED
      BY <3>1, <3>2
  <2>5. OneLink'
    BY <2>2, <2>3, <2>4 DEF OneLink
  <2>6. OpensAsking' /\ CatchUp'
    BY <2>3 DEF OpensAsking, CatchUp, Catching
  <2>7. AsksForAll'
    BY <1>5, <2>1, AsksKept
  <2>8. links' = 0 => FALSE
    BY <1>1, <2>1 DEF FirstLink, OneLink
  <2>9. Holders'
    BY <2>2, <2>8 DEF Holders
  <2> QED
    BY <2>5, <2>6, <2>7, <2>9 DEF FirstLink
<1> QED
  BY <1>3, <1>6, <1>7, <1>8 DEF IInv, Inv

----------------------------------------------------------------------------
(* SyncWithPeer: who asks holds nothing of the other, and until the state  *)
(* vector is handled nothing is asked of the channel back.                 *)

LEMMA SyncWithPeerPreserves ==
    ASSUME IInv, NEW p \in User, NEW q \in User, SyncWithPeer(p, q)
    PROVE  IInv'
<1> DEFINE m == StateVectorMsg(text[p])
           ch == channel[<<p, q>>]
<1>1. /\ {p, q} \in linked /\ <<p, q>> \notin open /\ open' = open \cup {<<p, q>>}
      /\ channel' = [channel EXCEPT ![<<p, q>>] = Append(@, m)]
      /\ UNCHANGED peerVars /\ linked' = linked /\ links' = links /\ text' = text
  BY DEF SyncWithPeer, peerVars
<1>2. Inv /\ channel \in [User \X User -> Seq(Messages)] /\ text[p] \in Lists
  BY DEF IInv, Inv, TypeInv
<1>3. m \in Messages /\ m.kind = "stateVector" /\ m.sv = text[p].stateVector
  BY <1>2, ListFacts DEF Messages, StateVectors, StateVectorMsg
<1> HIDE DEF m
<1>4. ch \in Seq(Messages)
  BY <1>2
<1>5. /\ Append(ch, m) \in Seq(Messages) /\ Append(ch, m) # << >>
      /\ Among(Append(ch, m), ch, m) /\ Asks(Append(ch, m))
  BY <1>3, <1>4, AppendFacts
<1>6. /\ channel'[<<p, q>>] = Append(ch, m)
      /\ \A a, b \in User : <<a, b>> # <<p, q>> => channel'[<<a, b>>] = channel[<<a, b>>]
  BY <1>1, <1>2
<1> DEFINE old(a, b, k) == \E j \in DOMAIN channel[<<a, b>>] :
                               channel'[<<a, b>>][k] = channel[<<a, b>>][j]
<1>7. \A a, b \in User : \A k \in DOMAIN channel'[<<a, b>>] :
          old(a, b, k) \/ (a = p /\ b = q /\ channel'[<<a, b>>][k] = m)
  <2> TAKE a \in User, b \in User
  <2> TAKE k \in DOMAIN channel'[<<a, b>>]
  <2>1. CASE a = p /\ b = q
    <3>1. k \in DOMAIN Append(ch, m) /\ channel'[<<a, b>>][k] = Append(ch, m)[k]
      BY <1>6, <2>1
    <3>2. \/ channel'[<<a, b>>][k] = m
          \/ \E j \in DOMAIN ch : channel'[<<a, b>>][k] = ch[j]
      BY <1>5, <3>1 DEF Among
    <3> QED
      BY <2>1, <3>2
  <2>2. CASE ~(a = p /\ b = q)
    <3>1. <<a, b>> # <<p, q>>
      BY <2>2
    <3>2. channel'[<<a, b>>] = channel[<<a, b>>]
      BY <1>6, <3>1
    <3> QED
      BY <3>2
  <2> QED
    BY <2>1, <2>2
<1> HIDE DEF old
<1>8. /\ Authors' /\ Cursors'
      /\ \A r \in User : Extends(text[r], text'[r])
  BY <1>1, <1>2, ListsStay
<1>9. Sayings'
  BY <1>2, <1>3, <1>7, <1>8, SayingsKept DEF old
<1>10. TypeInv'
  <2>1. channel' \in [User \X User -> Seq(Messages)]
    BY <1>1, <1>2, <1>5
  <2>2. open' \in SUBSET (User \X User)
    BY <1>1, <1>2 DEF Inv, TypeInv
  <2> QED
    BY <1>1, <1>2, <2>1, <2>2 DEF Inv, TypeInv, peerVars
<1>11. ASSUME links' <= 1 PROVE FirstLink'
  <2>1. FirstLink
    BY <1>1, <1>11 DEF IInv
  <2>2. p # q /\ \A a, b \in User : <<a, b>> \in open' => <<a, b>> \in {<<p, q>>, <<q, p>>}
    BY <1>1, <2>1, OnePair
  <2>3. OneLink'
    BY <1>1, <1>6, <2>1 DEF FirstLink, OneLink
  <2>4. Asked(p, q)'
    BY <1>5, <1>6 DEF Asked
  <2>5. OpensAsking'
    BY <1>1, <2>2, <2>4 DEF OpensAsking
  <2>6. Holders'
    BY <1>1, <2>1 DEF FirstLink, Holders, OwnOnly
  <2>7. m.sv[q] = 0
    <3> SUFFICES ASSUME text[p].stateVector[q] # 0 PROVE FALSE
      BY <1>3
    <3>1. <<q, text[p].stateVector[q] - 1>> \in Ids(text[p])
      BY <1>2, ListFacts DEF Counted
    <3>2. OwnOnly(p)
      BY <1>1, <2>1 DEF FirstLink, Holders
    <3> QED
      BY <2>2, <3>1, <3>2 DEF OwnOnly
  <2>8. AsksForAll'
    BY <1>7, <2>1, <2>7, AsksKept DEF old
  <2>9. CatchUp'
    <3> SUFFICES ASSUME NEW b \in User, NEW a \in User, Catching(b, a)' PROVE FALSE
      BY DEF CatchUp
    <3>1. /\ <<a, b>> \in open' /\ <<b, a>> \in open' /\ ~Asked(a, b)'
          /\ <<a, b>> \in {<<p, q>>, <<q, p>>}
      BY <2>2 DEF Catching
    <3>2. <<a, b>> # <<p, q>>
      BY <2>4, <3>1
    <3>3. a = q /\ b = p
      BY <3>1, <3>2
    <3>4. <<q, p>> \in open
      BY <1>1, <2>2, <3>1, <3>3
    <3>5. Asked(q, p)
      BY <1>1, <2>1, <3>4 DEF FirstLink, OpensAsking
    <3>6. channel'[<<q, p>>] = channel[<<q, p>>]
      BY <1>6, <2>2
    <3> QED
      BY <3>1, <3>3, <3>5, <3>6 DEF Asked
  <2> QED
    BY <2>3, <2>5, <2>6, <2>8, <2>9 DEF FirstLink
<1> QED
  BY <1>8, <1>9, <1>10, <1>11 DEF IInv, Inv

----------------------------------------------------------------------------
(* HandleStateVector: the answer is all that the peer that asked lacks.    *)

\* What the peers of the only channel refer to is held by one of them.
LEMMA HeldByEither ==
    ASSUME Inv, FirstLink, NEW p \in User, NEW q \in User, {p, q} \in linked,
           NEW id \in Ids(text[p])
    PROVE  id[1] = p \/ id \in Ids(text[q])
<1>1. id[1] \in {p, q}
  BY DEF FirstLink, Holders
<1>2. id \in Ids(text[id[1]])
  BY DEF Inv, Authors
<1> QED
  BY <1>1, <1>2

LEMMA HandleStateVectorPreserves ==
    ASSUME IInv, NEW p \in User, NEW q \in User, HandleStateVector(q, p)
    PROVE  IInv'
<1> DEFINE m == Head(channel[<<q, p>>])
           reply == UpdateMsg(MakeUpdate(text[p], m.sv), text[p].deleted)
           rest == [channel EXCEPT ![<<q, p>>] = Tail(@)]
           old(a, b, k) == \E j \in DOMAIN channel[<<a, b>>] :
                               channel'[<<a, b>>][k] = channel[<<a, b>>][j]
<1>1. /\ ~text[p].spinning /\ <<p, q>> \in open /\ channel[<<q, p>>] # << >>
      /\ m.kind = "stateVector"
      /\ channel' = [rest EXCEPT ![<<p, q>>] =
                         IF SomethingIn(reply) THEN Append(@, reply) ELSE @]
      /\ UNCHANGED peerVars /\ linked' = linked /\ links' = links /\ open' = open
      /\ text' = text
  BY DEF HandleStateVector, Arrives, Alive, Taken, peerVars, linkVars
<1>2. Inv /\ channel \in [User \X User -> Seq(Messages)] /\ text[p] \in Lists
      /\ channel[<<q, p>>] \in Seq(Messages)
  BY DEF IInv, Inv, TypeInv
<1>3. m.sv \in [User -> Nat]
  <2>1. m \in Messages
    BY <1>1, <1>2, TailFacts
  <2> QED
    BY <1>1, <2>1 DEF Messages, StateVectors, Updates
<1>4. /\ reply \in Messages /\ reply \in Updates /\ reply.kind = "update"
      /\ Says(reply, text[p]) /\ reply.deletes = text[p].deleted
      /\ ItemIdsIn(reply) = Missing(text[p], m.sv)
      /\ \A x \in ToSet(reply.items) :
             {x.left, x.right} \subseteq Ids(text[p]) \cup {HEAD, TAIL}
      /\ ~SomethingIn(reply) => Missing(text[p], m.sv) = {} /\ text[p].deleted = {}
  <2> DEFINE d == text[p].deleted
  <2>1. d \in SUBSET text[p].deleted
    OBVIOUS
  <2> HIDE DEF d
  <2>2. reply = UpdateMsg(MakeUpdate(text[p], m.sv), d)
    BY DEF d
  <2> HIDE DEF reply, m
  <2>3. /\ reply \in Messages /\ reply \in Updates /\ reply.kind = "update"
        /\ Says(reply, text[p]) /\ reply.deletes = d
        /\ ItemIdsIn(reply) = Missing(text[p], m.sv)
        /\ \A x \in ToSet(reply.items) :
               {x.left, x.right} \subseteq Ids(text[p]) \cup {HEAD, TAIL}
        /\ ~SomethingIn(reply) => Missing(text[p], m.sv) = {} /\ d = {}
    BY <1>2, <1>3, <2>1, <2>2, UpdateMsgFacts
  <2> QED
    BY <2>3 DEF d
<1> HIDE DEF reply
<1>5. /\ rest \in [User \X User -> Seq(Messages)]
      /\ rest[<<q, p>>] = Tail(channel[<<q, p>>])
      /\ \A a, b \in User : <<a, b>> # <<q, p>> => rest[<<a, b>>] = channel[<<a, b>>]
  <2>1. Tail(channel[<<q, p>>]) \in Seq(Messages)
    BY <1>1, <1>2, TailKeeps
  <2> QED
    BY <1>2, <2>1
<1>6. \A a, b \in User : Among(rest[<<a, b>>], channel[<<a, b>>], reply)
  <2> TAKE a \in User, b \in User
  <2>1. CASE <<a, b>> = <<q, p>>
    BY <1>1, <1>2, <1>5, <2>1, TailKeeps
  <2>2. CASE <<a, b>> # <<q, p>>
    <3>1. rest[<<a, b>>] = channel[<<a, b>>]
      BY <1>5, <2>2
    <3> QED
      BY <3>1 DEF Among
  <2> QED
    BY <2>1, <2>2
<1> HIDE DEF rest
<1>7. /\ channel' \in [User \X User -> Seq(Messages)]
      /\ \/ SomethingIn(reply) /\ channel'[<<p, q>>] = Append(rest[<<p, q>>], reply)
         \/ ~SomethingIn(reply) /\ channel'[<<p, q>>] = rest[<<p, q>>]
      /\ \A a, b \in User : <<a, b>> # <<p, q>> => channel'[<<a, b>>] = rest[<<a, b>>]
  <2>1. Append(rest[<<p, q>>], reply) \in Seq(Messages)
    BY <1>4, <1>5, AppendFacts
  <2> QED
    BY <1>1, <1>5, <2>1
<1>8. ASSUME NEW a \in User, NEW b \in User, NEW k \in DOMAIN channel'[<<a, b>>]
      PROVE  old(a, b, k) \/ (a = p /\ b = q /\ channel'[<<a, b>>][k] = reply)
  <2>1. CASE <<a, b>> = <<p, q>>
    <3>1. Among(Append(rest[<<p, q>>], reply), rest[<<p, q>>], reply)
      BY <1>4, <1>5, AppendFacts
    <3>2. Among(channel'[<<p, q>>], rest[<<p, q>>], reply)
      BY <1>7, <3>1 DEF Among
    <3>3. Among(channel'[<<p, q>>], channel[<<p, q>>], reply)
      BY <1>6, <3>2 DEF Among
    <3> QED
      BY <2>1, <3>3 DEF Among
  <2>2. CASE <<a, b>> # <<p, q>>
    <3>1. channel'[<<a, b>>] = rest[<<a, b>>]
      BY <1>7, <2>2
    <3>2. Among(channel'[<<a, b>>], channel[<<a, b>>], reply)
      BY <1>6, <3>1
    <3>3. channel'[<<a, b>>][k] = reply => old(a, b, k)
      <4>1. CASE <<a, b>> = <<q, p>>
        <5>1. PICK j \in DOMAIN channel[<<q, p>>] :
                  Tail(channel[<<q, p>>])[k] = channel[<<q, p>>][j]
          <6>1. k \in DOMAIN Tail(channel[<<q, p>>])
            BY <1>5, <3>1, <4>1
          <6> QED
            BY <1>1, <1>2, <6>1, TailFacts
        <5> QED
          BY <1>5, <3>1, <4>1, <5>1
      <4>2. CASE <<a, b>> # <<q, p>>
        <5>1. channel'[<<a, b>>] = channel[<<a, b>>]
          BY <1>5, <3>1, <4>2
        <5> QED
          BY <5>1
      <4> QED
        BY <4>1, <4>2
    <3> QED
      BY <3>2, <3>3 DEF Among
  <2> QED
    BY <2>1, <2>2
<1>9. /\ Authors' /\ Cursors'
      /\ \A r \in User : Extends(text[r], text'[r])
      /\ \A r \in User : Sent(r)' = Sent(r) /\ Told(r)' = Told(r)
  BY <1>1, <1>2, ListsStay
<1>10. Sayings'
  <2> HIDE DEF old
  <2>1. \A a, b \in User : \A k \in DOMAIN channel'[<<a, b>>] :
            old(a, b, k) \/ (channel'[<<a, b>>][k].kind = "update" =>
                                 Says(channel'[<<a, b>>][k], text'[a]))
    BY <1>1, <1>4, <1>8
  <2> QED
    BY <1>2, <1>9, <2>1, SayingsKept DEF old
<1>11. TypeInv'
  BY <1>1, <1>2, <1>7 DEF Inv, TypeInv, peerVars
<1>12. ASSUME links' <= 1 PROVE FirstLink'
  <2>1. FirstLink
    BY <1>1, <1>12 DEF IInv
  <2>2. <<q, p>> \in open /\ {p, q} \in linked /\ {q, p} \in linked
    BY <1>1, <2>1 DEF FirstLink, OneLink
  <2>3. p # q /\ \A a, b \in User : <<a, b>> \in open => <<a, b>> \in {<<p, q>>, <<q, p>>}
    BY <2>1, <2>2, OnePair
  <2> DEFINE ch == channel[<<p, q>>]
             back == channel[<<q, p>>]
  <2>4. /\ channel'[<<q, p>>] = Tail(back)
        /\ \/ SomethingIn(reply) /\ channel'[<<p, q>>] = Append(ch, reply)
           \/ ~SomethingIn(reply) /\ channel'[<<p, q>>] = ch
        /\ \A a, b \in User : <<a, b>> \notin {<<p, q>>, <<q, p>>} =>
               channel'[<<a, b>>] = channel[<<a, b>>]
    BY <1>5, <1>7, <2>3
  <2>5. ch \in Seq(Messages) /\ back \in Seq(Messages)
    BY <1>2
  <2>6. OneLink'
    <3>1. ASSUME NEW a \in User, NEW b \in User, channel'[<<a, b>>] # << >>
          PROVE  <<a, b>> \in open
      BY <1>1, <2>1, <2>2, <2>4, <3>1 DEF FirstLink, OneLink
    <3> QED
      BY <1>1, <2>1, <3>1 DEF FirstLink, OneLink
  <2>7. OpensAsking'
    BY <1>1, <2>2, <2>3 DEF OpensAsking
  <2>8. Holders'
    BY <1>1, <2>1 DEF FirstLink, Holders, OwnOnly
  <2>9. AsksForAll'
    <3>1. \A a, b \in User : \A k \in DOMAIN channel'[<<a, b>>] :
              old(a, b, k) \/ channel'[<<a, b>>][k].kind # "stateVector"
      <4> HIDE DEF old
      <4> QED
        BY <1>4, <1>8
    <3> QED
      BY <2>1, <3>1, AsksKept
  <2>10. Catching(q, p)' => Caught(q, p)'
    <3> SUFFICES ASSUME Catching(q, p)' PROVE Caught(q, p)'
      OBVIOUS
    <3>1. ~Asked(p, q)
      <4>1. Asks(ch) => Asks(channel'[<<p, q>>])
        BY <1>4, <2>4, <2>5, AppendFacts
      <4> QED
        BY <4>1 DEF Catching, Asked
    <3>2. Catching(q, p)
      BY <1>1, <3>1 DEF Catching, Alive
    <3>3. PICK c \in 1 .. Len(back) + 1 :
              Covers(back, Ids(text[p]), text[p].deleted, c, Sent(q), Told(q))
      BY <2>1, <3>2 DEF FirstLink, CatchUp, Caught
    <3>4. Len(back) \in Nat \ {0} /\ back[1] = m /\ Len(Tail(back)) = Len(back) - 1
      BY <1>1, <2>5, TailFacts
    <3>5. c # 1
      <4>1. back[1].kind # "update"
        BY <1>1, <3>4
      <4>2. \A k \in c .. Len(back) : back[k].kind = "update"
        BY <3>3 DEF Covers, Takes
      <4>3. c = 1 => 1 \in c .. Len(back)
        BY <3>4
      <4> QED
        BY <4>1, <4>2, <4>3
    <3>6. c \in Nat /\ c > 1 /\ c - 1 \in 1 .. Len(Tail(back)) + 1
      BY <3>3, <3>4, <3>5
    <3>7. Covers(Tail(back), Ids(text[p]), text[p].deleted, c - 1, Sent(q), Told(q))
      BY <1>1, <2>5, <3>3, <3>6, CoversEarlier
    <3>8. Covers(channel'[<<q, p>>], Ids(text'[p]), text'[p].deleted, c - 1, Sent(q)', Told(q)')
      BY <1>1, <1>9, <2>4, <3>7
    <3>9. c - 1 \in 1 .. Len(channel'[<<q, p>>]) + 1
      BY <2>4, <3>6
    <3> QED
      BY <3>8, <3>9 DEF Caught
  <2>11. Catching(p, q)' => Caught(p, q)'
    <3>1. Len(ch) \in Nat
      BY <2>5, LenProperties
    <3>2. m.sv[p] = 0
      <4>1. 1 \in DOMAIN back /\ back[1] = m
        BY <1>1, <2>5, TailFacts
      <4> QED
        BY <1>1, <2>1, <4>1 DEF FirstLink, AsksForAll
    <3>3. \A id \in Ids(text[p]) : id[1] = p => id \in Missing(text[p], m.sv)
      <4> TAKE id \in Ids(text[p])
      <4>1. id[2] \in Nat
        BY <1>2, ListFacts, IdFacts
      <4> QED
        BY <3>2, <4>1 DEF Missing
    <3>4. Sent(p) \subseteq Missing(text[p], m.sv) /\ Told(p) \subseteq text[p].deleted
      BY <3>3 DEF Sent, Told
    <3>5. Covers(ch, Ids(text[q]), text[q].deleted, Len(ch) + 1, {}, {})
      BY <2>5, CoversNothing
    <3>6. CASE SomethingIn(reply)
      <4>1. \A id \in Ids(text[p]) : id \in Ids(text[q]) \cup ItemIdsIn(reply)
        <5> TAKE id \in Ids(text[p])
        <5>1. id[1] = p \/ id \in Ids(text[q])
          BY <1>2, <2>1, <2>2, HeldByEither
        <5>2. ItemIdsIn(reply) = Missing(text[p], m.sv)
          BY <1>4
        <5> HIDE DEF m
        <5> QED
          BY <3>3, <5>1, <5>2
      <4>2. text[p].deleted \subseteq Ids(text[p])
        BY <1>2, ListFacts
      <4> DEFINE known == Ids(text[q]) \cup Brought(ch, Len(ch) + 1, Len(ch)) \cup ItemIdsIn(reply)
      <4>3. Ids(text[p]) \subseteq known
        BY <4>1
      <4> HIDE DEF known
      <4>4. Refers(reply, known)
        BY <1>4, <4>2, <4>3 DEF Refers
      <4>5. Told(p) \subseteq Tombstones(reply)
        BY <1>4, <3>4 DEF Tombstones
      <4>6. Covers(Append(ch, reply), Ids(text[q]), text[q].deleted, Len(ch) + 1,
                   Sent(p), Told(p))
        <5>1. Sent(p) \subseteq {} \cup ItemIdsIn(reply) /\ Told(p) \subseteq {} \cup Tombstones(reply)
          BY <1>4, <3>4, <4>5
        <5>2. Len(ch) + 1 \in Nat
          BY <3>1
        <5> QED
          BY <1>4, <2>5, <3>5, <4>4, <5>1, <5>2, CoversAppended DEF known
      <4>7. Len(ch) + 1 \in 1 .. Len(channel'[<<p, q>>]) + 1
        BY <2>4, <3>6, <4>6 DEF Covers
      <4> QED
        BY <1>1, <1>9, <2>4, <3>6, <4>6, <4>7 DEF Caught
    <3>7. CASE ~SomethingIn(reply)
      <4>1. Sent(p) \subseteq Ids(text[q]) /\ Told(p) \subseteq text[q].deleted
        BY <1>4, <3>4, <3>7
      <4>2. Covers(ch, Ids(text[q]), text[q].deleted, Len(ch) + 1, Sent(p), Told(p))
        BY <2>5, <4>1, CoversNothing
      <4>3. channel'[<<p, q>>] = ch
        BY <2>4, <3>7
      <4>4. Len(ch) + 1 \in 1 .. Len(channel'[<<p, q>>]) + 1
        BY <3>1, <4>3
      <4> QED
        BY <1>1, <1>9, <4>2, <4>3, <4>4 DEF Caught
    <3> QED
      BY <3>6, <3>7
  <2>12. CatchUp'
    <3> SUFFICES ASSUME NEW a \in User, NEW b \in User, Catching(a, b)' PROVE Caught(a, b)'
      BY DEF CatchUp
    <3>1. <<a, b>> \in {<<p, q>>, <<q, p>>}
      BY <1>1, <2>3 DEF Catching
    <3> QED
      BY <2>10, <2>11, <3>1
  <2> QED
    BY <2>6, <2>7, <2>8, <2>9, <2>12 DEF FirstLink
<1> QED
  BY <1>9, <1>10, <1>11, <1>12 DEF IInv, Inv

----------------------------------------------------------------------------
(* BroadcastChanges: what is broadcast refers to what was, or to what the  *)
(* other peer has inserted itself.                                         *)

LEMMA BroadcastChangesPreserves ==
    ASSUME IInv, NEW p \in User, BroadcastChanges(p)
    PROVE  IInv'
<1> DEFINE l == text[p]
           m == Unsent(p)
           ds == tombstoneOrder[p] \ broadcastTombstones[p]
           old(a, b, k) == \E j \in DOMAIN channel[<<a, b>>] :
                               channel'[<<a, b>>][k] = channel[<<a, b>>][j]
<1>1. /\ channel' = [c \in User \X User |->
                         IF c[1] = p /\ c \in open THEN Append(channel[c], m) ELSE channel[c]]
      /\ lastBroadcastSV' = [lastBroadcastSV EXCEPT ![p] = l.stateVector]
      /\ broadcastTombstones' = [broadcastTombstones EXCEPT ![p] = tombstoneOrder[p]]
      /\ text' = text /\ tombstoneOrder' = tombstoneOrder
      /\ linked' = linked /\ links' = links /\ open' = open
  BY DEF BroadcastChanges, linkVars
<1>2. /\ Inv /\ channel \in [User \X User -> Seq(Messages)]
      /\ l \in Lists /\ l.stateVector \in [User -> Nat]
      /\ lastBroadcastSV \in [User -> [User -> Nat]]
      /\ \A r \in User : text[r] \in Lists
      /\ broadcastTombstones \in [User -> SUBSET ItemIds]
  BY ListFacts DEF IInv, Inv, TypeInv
<1>3. /\ tombstoneOrder[p] \subseteq l.deleted /\ ds \in SUBSET l.deleted
      /\ l.deleted \subseteq Ids(l)
      /\ \A id \in Ids(l) : id[2] \in Nat
  BY <1>2, ListFacts, IdFacts DEF Inv, Cursors
<1>4. /\ m \in Messages /\ m \in Updates /\ m.kind = "update"
      /\ Says(m, l) /\ m.deletes = ds
      /\ ItemIdsIn(m) = Missing(l, lastBroadcastSV[p])
      /\ \A x \in ToSet(m.items) : {x.left, x.right} \subseteq Ids(l) \cup {HEAD, TAIL}
  <2> DEFINE target == lastBroadcastSV[p]
  <2>1. m = UpdateMsg(MakeUpdate(l, target), ds)
    BY DEF Unsent
  <2>2. target \in [User -> Nat] /\ l \in Lists /\ ds \in SUBSET l.deleted
    BY <1>2, <1>3
  <2> HIDE DEF m, ds, l, target
  <2>3. /\ m \in Messages /\ m \in Updates /\ m.kind = "update"
        /\ Says(m, l) /\ m.deletes = ds
        /\ ItemIdsIn(m) = Missing(l, target)
        /\ \A x \in ToSet(m.items) : {x.left, x.right} \subseteq Ids(l) \cup {HEAD, TAIL}
    BY <2>1, <2>2, UpdateMsgFacts
  <2> QED
    BY <2>3 DEF target
<1> HIDE DEF m
<1>5. ASSUME NEW a \in User, NEW b \in User
      PROVE  /\ a = p /\ <<a, b>> \in open =>
                    channel'[<<a, b>>] = Append(channel[<<a, b>>], m)
             /\ ~(a = p /\ <<a, b>> \in open) => channel'[<<a, b>>] = channel[<<a, b>>]
             /\ channel'[<<a, b>>] \in Seq(Messages)
             /\ Asks(channel[<<a, b>>]) <=> Asks(channel'[<<a, b>>])
             /\ channel[<<a, b>>] \in Seq(Messages)
  <2>1. channel[<<a, b>>] \in Seq(Messages)
    BY <1>2
  <2>2. /\ Append(channel[<<a, b>>], m) \in Seq(Messages)
        /\ Asks(channel[<<a, b>>]) <=> Asks(Append(channel[<<a, b>>], m))
    BY <1>4, <2>1, AppendFacts
  <2>3. channel'[<<a, b>>] = IF a = p /\ <<a, b>> \in open
                             THEN Append(channel[<<a, b>>], m) ELSE channel[<<a, b>>]
    BY <1>1
  <2>4. CASE a = p /\ <<a, b>> \in open
    BY <2>2, <2>3, <2>4, <2>1
  <2>5. CASE ~(a = p /\ <<a, b>> \in open)
    <3>1. channel'[<<a, b>>] = channel[<<a, b>>]
      BY <2>3, <2>5
    <3> QED
      BY <2>1, <2>5, <3>1
  <2> QED
    BY <2>4, <2>5
<1>6. ASSUME NEW a \in User, NEW b \in User, NEW k \in DOMAIN channel'[<<a, b>>]
      PROVE  old(a, b, k) \/ (a = p /\ channel'[<<a, b>>][k] = m)
  <2>1. CASE a = p /\ <<a, b>> \in open
    <3>1. channel'[<<a, b>>] = Append(channel[<<a, b>>], m) /\ channel[<<a, b>>] \in Seq(Messages)
      BY <1>5, <2>1
    <3>2. Among(channel'[<<a, b>>], channel[<<a, b>>], m)
      BY <1>4, <3>1, AppendFacts
    <3> QED
      BY <2>1, <3>2 DEF Among
  <2>2. CASE ~(a = p /\ <<a, b>> \in open)
    <3>1. channel'[<<a, b>>] = channel[<<a, b>>]
      BY <1>5, <2>2
    <3> QED
      BY <3>1
  <2> QED
    BY <2>1, <2>2
<1> HIDE DEF old
<1>7. \A r \in User : Extends(text[r], text'[r])
  BY <1>1, <1>2, ExtendsItself
<1>8. Sayings'
  <2>1. \A a, b \in User : \A k \in DOMAIN channel'[<<a, b>>] :
            old(a, b, k) \/ (channel'[<<a, b>>][k].kind = "update" =>
                                 Says(channel'[<<a, b>>][k], text'[a]))
    <3>1. Says(m, text'[p])
      BY <1>1, <1>4
    <3> QED
      BY <1>6, <3>1
  <2> QED
    BY <1>2, <1>7, <2>1, SayingsKept DEF old
<1>9. /\ lastBroadcastSV'[p] = l.stateVector /\ broadcastTombstones'[p] = tombstoneOrder[p]
      /\ \A r \in User \ {p} : /\ lastBroadcastSV'[r] = lastBroadcastSV[r]
                              /\ broadcastTombstones'[r] = broadcastTombstones[r]
  BY <1>1, <1>2
<1>10. Authors' /\ Cursors'
  <2>1. Authors'
    BY <1>1, <1>2 DEF Inv, Authors
  <2>2. ASSUME NEW r \in User
        PROVE  /\ \A u \in User : lastBroadcastSV'[r][u] <= text'[r].stateVector[u]
               /\ tombstoneOrder'[r] \subseteq text'[r].deleted
               /\ broadcastTombstones'[r] \subseteq text'[r].deleted
    <3>1. CASE r = p
      BY <1>1, <1>2, <1>3, <1>9, <3>1
    <3>2. CASE r # p
      BY <1>1, <1>2, <1>9, <3>2 DEF Inv, Cursors
    <3> QED
      BY <3>1, <3>2
  <2>3. Cursors'
    BY <2>2 DEF Cursors
  <2> QED
    BY <2>1, <2>3
<1>11. TypeInv'
  <2>1. channel' \in [User \X User -> Seq(Messages)]
    <3>1. \A c \in User \X User : channel'[c] \in Seq(Messages)
      BY <1>5
    <3> QED
      BY <1>1, <3>1
  <2>2. lastBroadcastSV' \in [User -> [User -> Nat]]
    BY <1>1, <1>2
  <2>3. broadcastTombstones' \in [User -> SUBSET ItemIds]
    BY <1>1, <1>2 DEF Inv, TypeInv
  <2> QED
    BY <1>1, <1>2, <2>1, <2>2, <2>3 DEF Inv, TypeInv
<1>12. ASSUME links' <= 1 PROVE FirstLink'
  <2>1. FirstLink
    BY <1>1, <1>12 DEF IInv
  <2>2. OneLink'
    <3>1. ASSUME NEW a \in User, NEW b \in User, channel'[<<a, b>>] # << >>
          PROVE  <<a, b>> \in open
      BY <1>5, <2>1, <3>1 DEF FirstLink, OneLink
    <3> QED
      BY <1>1, <2>1, <3>1 DEF FirstLink, OneLink
  <2>3. \A a, b \in User : Asked(a, b)' <=> Asked(a, b)
    BY <1>5 DEF Asked
  <2>4. OpensAsking'
    BY <1>1, <2>1, <2>3 DEF FirstLink, OpensAsking
  <2>5. Holders'
    BY <1>1, <2>1 DEF FirstLink, Holders, OwnOnly
  <2>6. AsksForAll'
    <3>1. \A a, b \in User : \A k \in DOMAIN channel'[<<a, b>>] :
              old(a, b, k) \/ channel'[<<a, b>>][k].kind # "stateVector"
      BY <1>4, <1>6
    <3> QED
      BY <2>1, <3>1, AsksKept DEF old
  <2>7. ASSUME NEW a \in User, NEW b \in User, Catching(a, b)'
        PROVE  Caught(a, b)'
    <3>1. Catching(a, b) /\ <<a, b>> \in open
      BY <1>1, <2>3, <2>7 DEF Catching, Alive
    <3>2. Caught(a, b)
      BY <2>1, <3>1 DEF FirstLink, CatchUp
    <3>3. CASE a # p
      <4>1. channel'[<<a, b>>] = channel[<<a, b>>]
        BY <1>5, <3>3
      <4>2. Sent(a)' = Sent(a) /\ Told(a)' = Told(a)
        BY <1>1, <1>9, <3>3 DEF Sent, Told
      <4> QED
        BY <1>7, <3>2, <4>1, <4>2, CaughtKept
    <3>4. CASE a = p
      <4> DEFINE ch == channel[<<p, b>>]
      <4>1. ch \in Seq(Messages) /\ channel'[<<p, b>>] = Append(ch, m)
        BY <1>5, <3>1, <3>4
      <4>2. PICK c \in 1 .. Len(ch) + 1 :
                Covers(ch, Ids(text[b]), text[b].deleted, c, Sent(p), Told(p))
        BY <3>2, <3>4 DEF Caught
      <4>3. {p, b} \in linked
        BY <2>1, <3>1, <3>4 DEF FirstLink, OneLink
      <4> DEFINE known == Ids(text[b]) \cup Brought(ch, c, Len(ch)) \cup ItemIdsIn(m)
      <4>4. ASSUME NEW id \in Ids(l) PROVE id \in known
        <5>1. CASE id[1] # p
          BY <1>2, <2>1, <4>3, <5>1, HeldByEither
        <5>2. CASE id[1] = p /\ id[2] < lastBroadcastSV[p][p]
          <6>1. id \in Sent(p)
            BY <5>2 DEF Sent
          <6> QED
            BY <4>2, <6>1 DEF Covers, CoversItems
        <5>3. CASE id[1] = p /\ ~(id[2] < lastBroadcastSV[p][p])
          <6>1. id \in Missing(l, lastBroadcastSV[p])
            BY <1>2, <5>3, MissingUnlessBefore
          <6> QED
            BY <1>4, <6>1
        <5> QED
          BY <5>1, <5>2, <5>3
      <4>5. Ids(l) \subseteq known
        BY <4>4
      <4> HIDE DEF known
      <4>6. Refers(m, known)
        <5>1. \A x \in ToSet(m.items) : {x.left, x.right} \subseteq known \cup {HEAD, TAIL}
          BY <1>4, <4>5
        <5>2. m.deletes \subseteq known
          BY <1>3, <1>4, <4>5
        <5> QED
          BY <5>1, <5>2 DEF Refers
      <4>7. Sent(p)' \subseteq Sent(p) \cup ItemIdsIn(m)
        <5> SUFFICES ASSUME NEW id \in Sent(p)', id \notin Sent(p)
                     PROVE  id \in Missing(l, lastBroadcastSV[p])
          BY <1>4
        <5>1. id \in Ids(l) /\ id[1] = p /\ ~(id[2] < lastBroadcastSV[p][p])
          BY <1>1 DEF Sent
        <5> QED
          BY <1>2, <5>1, MissingUnlessBefore
      <4>8. Told(p)' \subseteq Told(p) \cup Tombstones(m)
        <5>1. Told(p)' \subseteq l.deleted /\ ds \subseteq Tombstones(m)
          BY <1>1, <1>4 DEF Told, Tombstones
        <5> QED
          BY <5>1 DEF Told
      <4>9. Covers(Append(ch, m), Ids(text[b]), text[b].deleted, c, Sent(p)', Told(p)')
        <5>1. c \in Nat
          BY <4>1, LenProperties
        <5> QED
          BY <1>4, <4>1, <4>2, <4>6, <4>7, <4>8, <5>1, CoversAppended DEF known
      <4>10. c \in 1 .. Len(channel'[<<p, b>>]) + 1
        BY <4>1, <4>9 DEF Covers
      <4> QED
        BY <1>1, <3>4, <4>1, <4>9, <4>10 DEF Caught
    <3> QED
      BY <3>3, <3>4
  <2>8. CatchUp'
    BY <2>7 DEF CatchUp
  <2> QED
    BY <2>2, <2>4, <2>5, <2>6, <2>8 DEF FirstLink
<1> QED
  BY <1>8, <1>10, <1>11, <1>12 DEF IInv, Inv

----------------------------------------------------------------------------
(* HandleUpdate.                                                           *)

LEMMA SaidApplicable ==
    ASSUME NEW l \in Lists, NEW m \in Updates, Says(m, l),
           NEW k, Refers(m, Ids(k) \cup ItemIdsIn(m))
    PROVE  Applicable(k, ToSet(m.items))
<1> DEFINE items == ToSet(m.items)
<1>1. \A x \in items :
          {x.left, x.right} \subseteq Ids(k) \cup {y.id : y \in items} \cup {HEAD, TAIL}
  BY DEF Refers, ItemIdsIn
<1>2. ASSUME NEW S \in SUBSET items, S # {}
      PROVE  \E x \in S : {x.left, x.right} \cap {y.id : y \in S} = {}
  <2> DEFINE R == {y.id : y \in S}
  <2>1. R \in SUBSET Ids(l) /\ R # {}
    BY <1>2 DEF Says
  <2>2. PICK id \in R : l.origins[id].left \notin R /\ l.origins[id].right \notin R
    BY <2>1, ListFacts DEF Grounded
  <2>3. PICK x \in S : x.id = id
    BY <2>2
  <2>4. x.left = l.origins[id].left /\ x.right = l.origins[id].right
    BY <2>3 DEF Says
  <2> QED
    BY <2>2, <2>4
<1> QED
  BY <1>1, <1>2 DEF Applicable

\* What the list of p has learnt is what q says.
Learns(p, q, k) ==
    /\ k \in Lists
    /\ Extends(text[p], k)
    /\ k.stateVector[p] <= k.opCounter
    /\ \A id \in Ids(k) \ Ids(text[p]) : id[1] # p /\ id \in Ids(text[q])
    /\ k.deleted \subseteq text[p].deleted \cup text[q].deleted

LEMMA ItemsLearnt ==
    ASSUME Inv, NEW p \in User, NEW q \in User, NEW m \in Updates, Says(m, text[q]),
           NEW k \in Lists, Grown(text[p], k, ToSet(m.items))
    PROVE  Learns(p, q, k)
<1> DEFINE l == text[p]
           items == ToSet(m.items)
<1>1. /\ l \in Lists /\ text[q] \in Lists
      /\ l.stateVector \in [User -> Nat] /\ k.stateVector \in [User -> Nat]
      /\ l.opCounter \in Nat /\ l.stateVector[p] <= l.opCounter
  BY ListFacts DEF Inv, TypeInv, Authors
<1>2. \A x \in items : /\ x.id \in Ids(text[q])
                       /\ x.deleted => x.id \in text[q].deleted
  BY DEF Says
<1>3. \A x \in items : x.id[1] = p => x.id \in Ids(l)
  BY <1>2 DEF Inv, Authors
<1> HIDE DEF l, items
<1>4. Grown(l, k, items)
  BY DEF l, items
<1>5. \A id \in Ids(k) \ Ids(l) : \E x \in items : x.id = id
  BY <1>4, Zenon DEF Grown
<1>6. \A id \in k.deleted \ l.deleted : \E x \in items : x.id = id /\ x.deleted
  BY <1>4, Zenon DEF Grown
<1>7. /\ Ids(l) \subseteq Ids(k) /\ \A id \in Ids(l) : k.origins[id] = l.origins[id]
      /\ l.deleted \subseteq k.deleted /\ k.opCounter = l.opCounter
      /\ l.spinning => k.spinning
      /\ \A u \in User : l.stateVector[u] <= k.stateVector[u]
  BY <1>4 DEF Grown
<1>8. k.stateVector[p] # l.stateVector[p] =>
          \E x \in items : x.id[1] = p /\ k.stateVector[p] = x.id[2] + 1
  BY <1>4, Zenon DEF Grown
<1>9. k.stateVector[p] <= k.opCounter
  <2> SUFFICES ASSUME k.stateVector[p] # l.stateVector[p] PROVE FALSE
    BY <1>1, <1>7
  <2>1. PICK x \in items : x.id[1] = p /\ k.stateVector[p] = x.id[2] + 1
    BY <1>8
  <2>2. x.id \in Ids(l)
    BY <1>3, <2>1
  <2>3. x.id[2] \in Nat /\ x.id[2] < l.stateVector[p]
    BY <1>1, <2>1, <2>2, ListFacts, IdFacts DEF Counted
  <2>4. k.stateVector[p] \in Nat /\ l.stateVector[p] \in Nat /\ l.stateVector[p] <= k.stateVector[p]
    BY <1>1, <1>7
  <2> QED
    BY <2>1, <2>3, <2>4
<1>10. \A id \in Ids(k) \ Ids(l) : id[1] # p /\ id \in Ids(text[q])
  BY <1>2, <1>3, <1>5
<1>11. k.deleted \subseteq l.deleted \cup text[q].deleted
  BY <1>2, <1>6
<1>12. Extends(l, k)
  BY <1>7 DEF Extends
<1> QED
  BY <1>9, <1>10, <1>11, <1>12 DEF Learns, l

(***************************************************************************)
(* An update is taken in full when it refers to nothing that is not known. *)
(***************************************************************************)
LEMMA UpdateTaken ==
    ASSUME Inv, NEW p \in User, NEW q \in User, HandleUpdate(q, p),
           NEW msg, msg = Head(channel[<<q, p>>]),
           NEW m, m = text'[p], NEW T, T = tombstoneOrder'[p]
    PROVE  /\ Learns(p, q, m) /\ Grows(p, m, T)
           /\ Refers(msg, Ids(text[p]) \cup ItemIdsIn(msg)) /\ ~m.spinning =>
                  ItemIdsIn(msg) \subseteq Ids(m) /\ Tombstones(msg) \subseteq m.deleted
<1> DEFINE l == text[p]
           r == ApplyUpdate(l, msg.items)
           k == r.list
           noted == tombstoneOrder[p]
           stuck == r.pending # << >> \/ k.spinning
<1>1. /\ channel[<<q, p>>] # << >> /\ msg.kind = "update"
      /\ text' = [text EXCEPT ![p] = IF stuck THEN k ELSE ApplyTombstones(k, msg.deletes)]
      /\ tombstoneOrder' = [tombstoneOrder EXCEPT ![p] =
                                IF stuck THEN @ ELSE @ \cup text'[p].deleted]
      /\ UNCHANGED <<lastBroadcastSV, broadcastTombstones, linked, open, links>>
  BY DEF HandleUpdate, Arrives, linkVars
<1>2. /\ l \in Lists /\ text[q] \in Lists /\ channel[<<q, p>>] \in Seq(Messages)
      /\ text \in [User -> Lists] /\ tombstoneOrder \in [User -> SUBSET ItemIds]
      /\ noted \subseteq l.deleted
  BY DEF Inv, TypeInv, Cursors
<1>3. m = (IF stuck THEN k ELSE ApplyTombstones(k, msg.deletes))
  BY <1>1, <1>2
<1>4. T = IF stuck THEN noted ELSE noted \cup m.deleted
  BY <1>1, <1>2
<1>5. /\ text' = [text EXCEPT ![p] = m]
      /\ tombstoneOrder' = [tombstoneOrder EXCEPT ![p] = T]
  BY <1>1, <1>2, <1>3, <1>4
<1>6. msg \in Updates /\ Says(msg, text[q])
  <2>1. /\ msg \in Messages /\ 1 \in DOMAIN channel[<<q, p>>]
        /\ channel[<<q, p>>][1] = msg
    <3> DEFINE ch == channel[<<q, p>>]
    <3>1. ch \in Seq(Messages) /\ ch # << >> /\ msg = Head(ch)
      BY <1>1, <1>2
    <3> HIDE DEF ch
    <3>2. msg \in Messages /\ 1 \in DOMAIN ch /\ ch[1] = msg
      BY <3>1, TailFacts
    <3> QED
      BY <3>2 DEF ch
  <2>2. msg \in Updates
    BY <1>1, <2>1 DEF Messages, StateVectors
  <2> QED
    BY <1>1, <2>1, <2>2 DEF Inv, Sayings
<1>7. msg.items \in Seq(Items) /\ msg.deletes \in SUBSET ItemIds
  BY <1>6 DEF Updates
<1> DEFINE items == ToSet(msg.items)
<1> HIDE DEF r
<1>8. /\ r \in Rounds(l, items)
      /\ Applicable(l, items) /\ ~k.spinning =>
             r.pending = << >> /\ \A item \in items : Merged(k, item)
  <2> HIDE DEF l
  <2> QED
    BY <1>2, <1>7, ApplyUpdateTakesAll DEF r
<1>9. k \in Lists /\ Grown(l, k, items)
  BY <1>8 DEF Rounds
<1>10. Learns(p, q, k)
  BY <1>6, <1>9, ItemsLearnt
<1> HIDE DEF k
<1>11. CASE stuck
  <2>1. m = k /\ T = noted
    BY <1>3, <1>4, <1>11
  <2>2. noted \subseteq m.deleted
    BY <1>2, <1>10, <2>1 DEF Learns, Extends
  <2>3. Grows(p, m, T)
    BY <1>1, <1>5, <1>10, <2>1, <2>2 DEF Grows, Learns, Inv, Authors
  <2>4. Refers(msg, Ids(l) \cup ItemIdsIn(msg)) => k.spinning
    BY <1>2, <1>6, <1>8, <1>11, SaidApplicable
  <2> QED
    BY <1>10, <2>1, <2>3, <2>4
<1>12. CASE ~stuck
  <2> DEFINE keys == msg.deletes \cap Ids(k)
  <2>1. m = [k EXCEPT !.deleted = @ \cup keys] /\ T = noted \cup m.deleted
    BY <1>3, <1>4, <1>12 DEF ApplyTombstones
  <2>2. keys \in SUBSET Ids(k) /\ k \in Lists
    BY <1>9
  <2> HIDE DEF keys
  <2>3. /\ m \in Lists /\ Ids(m) = Ids(k) /\ m.origins = k.origins
        /\ m.deleted = k.deleted \cup keys /\ m.stateVector = k.stateVector
        /\ m.opCounter = k.opCounter /\ m.spinning = k.spinning
    BY <2>1, <2>2, DeletedMore
  <2>4. Extends(l, m)
    BY <1>10, <2>3 DEF Learns, Extends
  <2>5. m.deleted \subseteq l.deleted \cup text[q].deleted
    BY <1>6, <1>10, <2>3 DEF Learns, Says, keys
  <2>6. Learns(p, q, m)
    BY <1>10, <2>3, <2>4, <2>5 DEF Learns
  <2>7. T \subseteq m.deleted
    BY <1>2, <2>1, <2>4 DEF Extends
  <2>8. Grows(p, m, T)
    BY <1>1, <1>5, <2>1, <2>6, <2>7 DEF Grows, Learns, Inv, Authors
  <2>9. ASSUME Refers(msg, Ids(l) \cup ItemIdsIn(msg))
        PROVE  ItemIdsIn(msg) \subseteq Ids(m) /\ Tombstones(msg) \subseteq m.deleted
    <3>1. Applicable(l, items)
      BY <1>2, <1>6, <2>9, SaidApplicable
    <3>2. \A item \in items : Merged(k, item)
      BY <1>8, <1>12, <3>1
    <3>3. /\ ItemIdsIn(msg) \subseteq Ids(k)
          /\ \A item \in items : item.deleted => item.id \in k.deleted
      BY <3>2 DEF Merged, ItemIdsIn
    <3>4. msg.deletes \subseteq Ids(k)
      BY <1>10, <2>9, <3>3 DEF Refers, Learns, Extends
    <3> QED
      BY <2>3, <3>3, <3>4 DEF Tombstones, keys
  <2> QED
    BY <2>6, <2>8, <2>9
<1> QED
  BY <1>11, <1>12

LEMMA HandleUpdatePreserves ==
    ASSUME IInv, NEW p \in User, NEW q \in User, HandleUpdate(q, p)
    PROVE  IInv'
<1> DEFINE msg == Head(channel[<<q, p>>])
           m == text'[p]
           T == tombstoneOrder'[p]
<1>1. /\ channel[<<q, p>>] # << >> /\ msg.kind = "update" /\ <<p, q>> \in open
      /\ channel' = [channel EXCEPT ![<<q, p>>] = Tail(@)]
  BY DEF HandleUpdate, Arrives, Taken
<1>2. Inv /\ channel \in [User \X User -> Seq(Messages)]
  BY DEF IInv, Inv, TypeInv
<1>3. /\ Learns(p, q, m) /\ Grows(p, m, T)
      /\ Refers(msg, Ids(text[p]) \cup ItemIdsIn(msg)) /\ ~m.spinning =>
             ItemIdsIn(msg) \subseteq Ids(m) /\ Tombstones(msg) \subseteq m.deleted
  BY <1>2, UpdateTaken
<1> DEFINE back == channel[<<q, p>>]
<1>4. back \in Seq(Messages) /\ back # << >>
  BY <1>1, <1>2
<1>5. /\ channel'[<<q, p>>] = Tail(back)
      /\ \A a, b \in User : <<a, b>> # <<q, p>> => channel'[<<a, b>>] = channel[<<a, b>>]
  BY <1>1, <1>2
<1>6. channel' \in [User \X User -> Seq(Messages)]
  <2>1. Tail(back) \in Seq(Messages)
    BY <1>4, TailKeeps
  <2> QED
    BY <1>1, <1>2, <2>1
<1>7. ASSUME NEW a \in User, NEW b \in User
      PROVE  /\ \A k \in DOMAIN channel'[<<a, b>>] : \E j \in DOMAIN channel[<<a, b>>] :
                    channel'[<<a, b>>][k] = channel[<<a, b>>][j]
             /\ Asked(a, b)' <=> Asked(a, b)
  <2>1. CASE <<a, b>> = <<q, p>>
    <3>1. channel'[<<a, b>>] = Tail(back) /\ channel[<<a, b>>] = back
      BY <1>5, <2>1
    <3>2. \A k \in DOMAIN Tail(back) : k + 1 \in DOMAIN back /\ Tail(back)[k] = back[k + 1]
      BY <1>4, TailFacts
    <3>3. Asks(Tail(back)) <=> Asks(back)
      BY <1>1, <1>4, TailKeeps
    <3> QED
      BY <3>1, <3>2, <3>3 DEF Asked
  <2>2. CASE <<a, b>> # <<q, p>>
    <3>1. channel'[<<a, b>>] = channel[<<a, b>>]
      BY <1>5, <2>2
    <3> QED
      BY <3>1 DEF Asked
  <2> QED
    BY <2>1, <2>2
<1> HIDE DEF m, T, msg
<1>8. /\ text'[p] = m
      /\ \A r \in User : Extends(text[r], text'[r])
      /\ \A r \in User \ {p} : text'[r] = text[r]
      /\ \A r \in User : Sent(r)' \subseteq Sent(r)
      /\ \A r \in User \ {p} : Told(r)' \subseteq Told(r)
      /\ Told(p)' \subseteq Told(p) \cup (m.deleted \ (text[p].deleted \cup T))
  BY <1>2, <1>3, GrowsFacts
<1>9. linked' = linked /\ open' = open /\ links' = links /\ UNCHANGED broadcastTombstones
  BY <1>3 DEF Grows
<1>10. Authors' /\ Cursors'
  BY <1>2, <1>3, AuthorsKept
<1>11. TypeInv'
  BY <1>2, <1>3, <1>6, <1>9, ListsTyped
<1>12. Sayings'
  BY <1>2, <1>7, <1>8, SayingsKept
<1>13. ASSUME links' <= 1 PROVE FirstLink'
  <2>1. FirstLink
    BY <1>9, <1>13 DEF IInv
  <2>2. {p, q} \in linked
    BY <1>1, <2>1 DEF FirstLink, OneLink
  <2>3. /\ p # q
        /\ \A a, b \in User : <<a, b>> \in open => <<a, b>> \in {<<p, q>>, <<q, p>>}
        /\ \A a, b \in User : {a, b} \in linked => <<a, b>> \in {<<p, q>>, <<q, p>>}
    BY <2>1, <2>2, OnePair
  <2>4. OneLink'
    <3>1. ASSUME NEW a \in User, NEW b \in User, channel'[<<a, b>>] # << >>
          PROVE  channel[<<a, b>>] # << >>
      BY <1>4, <1>5, <3>1
    <3> QED
      BY <1>9, <2>1, <3>1 DEF FirstLink, OneLink
  <2>5. OpensAsking'
    BY <1>7, <1>9, <2>1 DEF FirstLink, OpensAsking
  <2>6. AsksForAll'
    BY <1>7, <2>1, AsksKept
  <2>7. \A r \in User : \A id \in Ids(text'[r]) :
            id \in Ids(text[r]) \/ (r = p /\ id \in Ids(text[q]))
    BY <1>3, <1>8 DEF Learns
  <2>8. Holders'
    <3>1. links # 0
      BY <2>1, <2>2 DEF FirstLink, OneLink
    <3>2. ASSUME NEW a \in User, NEW b \in User, {a, b} \in linked
          PROVE  /\ \A id \in Ids(text'[a]) : id[1] \in {a, b}
                 /\ <<a, b>> \notin open => OwnOnly(a)'
      <4>1. {a, b} = {p, q} /\ <<a, b>> \in {<<p, q>>, <<q, p>>}
        BY <2>3, <3>2
      <4>2. ASSUME NEW id \in Ids(text'[a]) PROVE id[1] \in {a, b}
        <5>1. CASE id \in Ids(text[a])
          BY <2>1, <3>2, <5>1 DEF FirstLink, Holders
        <5>2. CASE id \in Ids(text[q])
          <6>1. {q, p} \in linked
            BY <2>2
          <6>2. id[1] \in {q, p}
            BY <2>1, <5>2, <6>1 DEF FirstLink, Holders
          <6> QED
            BY <4>1, <6>2
        <5> QED
          BY <2>7, <5>1, <5>2
      <4>3. ASSUME <<a, b>> \notin open PROVE OwnOnly(a)'
        <5>1. a # p
          BY <1>1, <2>3, <4>1, <4>3
        <5>2. OwnOnly(a)
          BY <2>1, <3>2, <4>3 DEF FirstLink, Holders
        <5> QED
          BY <1>8, <5>1, <5>2 DEF OwnOnly
      <4> QED
        BY <4>2, <4>3
    <3> QED
      BY <1>9, <3>1, <3>2 DEF Holders
  <2>9. ASSUME NEW a \in User, NEW b \in User, Catching(a, b)'
        PROVE  Catching(a, b) /\ <<a, b>> \in {<<p, q>>, <<q, p>>}
    BY <1>7, <1>8, <1>9, <2>3, <2>9 DEF Catching, Alive, Extends
  <2>10. Catching(p, q)' => Caught(p, q)'
    <3> SUFFICES ASSUME Catching(p, q)' PROVE Caught(p, q)'
      OBVIOUS
    <3>1. Caught(p, q)
      BY <2>1, <2>9 DEF FirstLink, CatchUp
    <3>2. channel'[<<p, q>>] = channel[<<p, q>>] /\ text'[q] = text[q]
      BY <1>5, <1>8, <2>3
    <3>3. Told(p)' \subseteq Told(p) \cup text'[q].deleted
      BY <1>3, <1>8, <3>2 DEF Learns
    <3>4. Extends(text[q], text'[q]) /\ Sent(p)' \subseteq Sent(p) \cup Ids(text'[q])
      BY <1>8
    <3> QED
      BY <3>1, <3>2, <3>3, <3>4, CaughtKept
  <2>11. Catching(q, p)' => Caught(q, p)'
    <3> SUFFICES ASSUME Catching(q, p)' PROVE Caught(q, p)'
      OBVIOUS
    <3>1. Caught(q, p) /\ ~m.spinning
      BY <1>8, <2>1, <2>9 DEF FirstLink, CatchUp, Catching, Alive
    <3>2. PICK c \in 1 .. Len(back) + 1 :
              Covers(back, Ids(text[p]), text[p].deleted, c, Sent(q), Told(q))
      BY <3>1 DEF Caught
    <3>3. /\ Len(back) \in Nat \ {0} /\ back[1] = msg /\ Head(back) = msg
          /\ Len(Tail(back)) = Len(back) - 1
      BY <1>4, TailFacts DEF msg
    <3>4. /\ Ids(text[p]) \subseteq Ids(m) /\ text[p].deleted \subseteq m.deleted
          /\ Sent(q)' \subseteq Sent(q) /\ Told(q)' \subseteq Told(q)
      BY <1>8, <2>3 DEF Extends
    <3>5. CASE c > 1
      <4>1. c \in Nat /\ c - 1 \in 1 .. Len(Tail(back)) + 1
        BY <3>2, <3>3, <3>5
      <4>2. Covers(Tail(back), Ids(text[p]), text[p].deleted, c - 1, Sent(q), Told(q))
        BY <1>4, <3>2, <3>5, <4>1, CoversEarlier
      <4>3. Covers(Tail(back), Ids(m), m.deleted, c - 1, Sent(q)', Told(q)')
        <5>1. Sent(q)' \subseteq Sent(q) \cup Ids(m) /\ Told(q)' \subseteq Told(q) \cup m.deleted
          BY <3>4
        <5> QED
          BY <3>4, <4>2, <5>1, CoversMore
      <4> QED
        BY <1>5, <1>8, <4>1, <4>3 DEF Caught
    <3>6. CASE c = 1
      <4>1. Refers(msg, Ids(text[p]) \cup ItemIdsIn(msg))
        <5>1. 1 \in 1 .. Len(back)
          BY <3>3
        <5>2. Refers(msg, Ids(text[p]) \cup Brought(back, 1, 1))
          BY <3>2, <3>3, <3>6, <5>1 DEF Covers, Takes
        <5>3. Brought(back, 1, 1) = ItemIdsIn(msg)
          BY <3>3 DEF Brought
        <5> QED
          BY <5>2, <5>3
      <4>2. ItemIdsIn(msg) \subseteq Ids(m) /\ Tombstones(msg) \subseteq m.deleted
        BY <1>3, <3>1, <4>1
      <4>3. Covers(Tail(back), Ids(m), m.deleted, 1, Sent(q), Told(q))
        <5>1. /\ Ids(text[p]) \cup ItemIdsIn(Head(back)) \subseteq Ids(m)
              /\ text[p].deleted \cup Tombstones(Head(back)) \subseteq m.deleted
          BY <3>3, <3>4, <4>2
        <5> QED
          BY <1>4, <3>2, <3>6, <5>1, CoversTaken
      <4>4. Covers(Tail(back), Ids(m), m.deleted, 1, Sent(q)', Told(q)')
        <5>1. Sent(q)' \subseteq Sent(q) \cup Ids(m) /\ Told(q)' \subseteq Told(q) \cup m.deleted
          BY <3>4
        <5> QED
          BY <4>3, <5>1, CoversMore
      <4>5. 1 \in 1 .. Len(Tail(back)) + 1
        BY <3>3
      <4> QED
        BY <1>5, <1>8, <4>4, <4>5 DEF Caught
    <3> QED
      BY <3>2, <3>3, <3>5, <3>6
  <2>12. CatchUp'
    <3> SUFFICES ASSUME NEW a \in User, NEW b \in User, Catching(a, b)' PROVE Caught(a, b)'
      BY DEF CatchUp
    <3>1. <<a, b>> \in {<<p, q>>, <<q, p>>}
      BY <2>9
    <3> QED
      BY <2>10, <2>11, <3>1
  <2> QED
    BY <2>4, <2>5, <2>6, <2>8, <2>12 DEF FirstLink
<1> QED
  BY <1>10, <1>11, <1>12, <1>13 DEF IInv, Inv

----------------------------------------------------------------------------

LEMMA NextPreserves == IInv /\ [Next]_vars => IInv'
<1> SUFFICES ASSUME IInv, [Next]_vars PROVE IInv'
  OBVIOUS
<1>1. CASE UNCHANGED vars
  <2>1. UNCHANGED <<text, tombstoneOrder, lastBroadcastSV, broadcastTombstones,
                    linked, open, links, channel>>
    BY <1>1 DEF vars, peerVars, linkVars
  <2>2. Inv'
    BY <2>1 DEF IInv, Inv, TypeInv, Authors, Sayings, Cursors
  <2>3. OneLink => OneLink'
    BY <2>1 DEF OneLink
  <2>4. OpensAsking => OpensAsking'
    BY <2>1 DEF OpensAsking, Asked
  <2>5. Holders => Holders'
    BY <2>1 DEF Holders, OwnOnly
  <2>6. AsksForAll => AsksForAll'
    BY <2>1 DEF AsksForAll
  <2>7. CatchUp => CatchUp'
    BY <2>1 DEF CatchUp, Catching, Caught, Alive, Asked, Sent, Told
  <2> QED
    BY <2>1, <2>2, <2>3, <2>4, <2>5, <2>6, <2>7 DEF IInv, FirstLink
<1>2. ASSUME NEW p \in User, NEW index \in 0 .. Len(Visible(text[p])), Insert(p, index)
      PROVE  IInv'
  BY <1>2, InsertPreserves
<1>3. ASSUME NEW p \in User, NEW index \in 0 .. Len(Visible(text[p])) - 1,
             Delete(p, index)
      PROVE  IInv'
  BY <1>3, DeletePreserves
<1>4. ASSUME NEW p \in User, BroadcastChanges(p) PROVE IInv'
  BY <1>4, BroadcastChangesPreserves
<1>5. ASSUME NEW p \in User, NEW q \in User, SyncWithPeer(p, q) PROVE IInv'
  BY <1>5, SyncWithPeerPreserves
<1>6. ASSUME NEW p \in User, NEW q \in User, HandleStateVector(q, p) PROVE IInv'
  BY <1>6, HandleStateVectorPreserves
<1>7. ASSUME NEW p \in User, NEW q \in User, HandleUpdate(q, p) PROVE IInv'
  BY <1>7, HandleUpdatePreserves
<1>8. ASSUME NEW p \in User, NEW q \in User, Link(p, q) PROVE IInv'
  BY <1>8, LinkPreserves
<1>9. ASSUME NEW p \in User, NEW q \in User, Unlink(p, q) PROVE IInv'
  BY <1>9, UnlinkPreserves
<1> QED
  BY <1>1, <1>2, <1>3, <1>4, <1>5, <1>6, <1>7, <1>8, <1>9 DEF Next

(***************************************************************************)
(* The inductive invariant of textPeer.ts on its data channels holds in    *)
(* every state, for any number of browsers, edits and channels.            *)
(***************************************************************************)
THEOREM Invariance == Spec => []IInv
  BY InitHolds, NextPreserves, PTL DEF Spec

(***************************************************************************)
(* Whatever the data channels lose, a browser holds no item that its       *)
(* author does not hold, and a message of textPeer.ts says nothing that    *)
(* its sender has not got: the cursors of broadcastChanges never run ahead *)
(* of the list.                                                            *)
(***************************************************************************)
THEOREM NothingInvented == Spec => [](Authors /\ Sayings /\ Cursors)
  BY Invariance, PTL DEF IInv, Inv

(***************************************************************************)
(* What one of two idle peers holds, the other holds.                      *)
(***************************************************************************)
LEMMA IdleHolds ==
    ASSUME IInv, links <= 1, NEW p \in User, NEW q \in User, Idle(p, q)
    PROVE  /\ Ids(text[q]) \subseteq Ids(text[p])
           /\ text[q].deleted \subseteq text[p].deleted
<1>1. /\ Inv /\ FirstLink
      /\ text[q] \in Lists /\ lastBroadcastSV[q] \in [User -> Nat]
      /\ ~text[p].spinning /\ ~text[q].spinning
      /\ <<p, q>> \in open /\ <<q, p>> \in open
      /\ channel[<<p, q>>] = << >> /\ channel[<<q, p>>] = << >>
      /\ ~SomethingIn(Unsent(q))
  BY DEF IInv, Inv, TypeInv, Idle, Alive
<1>2. ~Asked(p, q)
  BY <1>1 DEF Asked, Asks
<1>3. Caught(q, p)
  BY <1>1, <1>2 DEF FirstLink, CatchUp, Catching, Alive
<1> DEFINE ch == channel[<<q, p>>]
<1>4. Len(ch) = 0
  BY <1>1
<1>5. PICK b \in 1 .. Len(ch) + 1 :
          Covers(ch, Ids(text[p]), text[p].deleted, b, Sent(q), Told(q))
  BY <1>3 DEF Caught
<1>6. b .. Len(ch) = {}
  BY <1>4, <1>5
<1>7. Sent(q) \subseteq Ids(text[p])
  BY <1>5, <1>6 DEF Covers, CoversItems, Brought
<1>8. Told(q) \subseteq text[p].deleted
  BY <1>5, <1>6 DEF Covers, CoversTombstones
<1> DEFINE ds == tombstoneOrder[q] \ broadcastTombstones[q]
           target == lastBroadcastSV[q]
<1>9. Missing(text[q], target) = {} /\ ds = {}
  <2>1. ds \in SUBSET text[q].deleted
    BY <1>1 DEF Inv, Cursors
  <2>2. Unsent(q) = UpdateMsg(MakeUpdate(text[q], target), ds)
    BY DEF Unsent
  <2>3. target \in [User -> Nat]
    BY <1>1
  <2> HIDE DEF ds, target
  <2> QED
    BY <1>1, <2>1, <2>2, <2>3, UpdateMsgFacts
<1>10. text[q].deleted \subseteq text[p].deleted
  BY <1>8, <1>9 DEF Told
<1>11. {q, p} \in linked
  BY <1>1 DEF FirstLink, OneLink
<1>12. ASSUME NEW id \in Ids(text[q]) PROVE id \in Ids(text[p])
  <2>1. CASE id[1] # q
    BY <1>1, <1>11, <2>1, HeldByEither
  <2>2. CASE id[1] = q
    <3>1. id[2] \in Nat
      BY <1>1, ListFacts, IdFacts
    <3>2. id[2] < target[q]
      <4>1. id \notin Missing(text[q], target)
        BY <1>9
      <4>2. target[q] \in Nat
        BY <1>1
      <4> QED
        BY <2>2, <3>1, <4>1, <4>2 DEF Missing
    <3>3. id \in Sent(q)
      BY <2>2, <3>2 DEF Sent
    <3> QED
      BY <1>7, <3>3
  <2> QED
    BY <2>1, <2>2
<1> QED
  BY <1>10, <1>12

(***************************************************************************)
(* Over the first data channel, whatever broadcasts, edits and answers     *)
(* race with the catch-up of syncWithPeer, two peers that have nothing     *)
(* more to tell each other hold the same items and tombstones, for any     *)
(* number of browsers and edits.  (After a reconnection they may not.)     *)
(***************************************************************************)
THEOREM FirstLinkAgrees == Spec => [](links <= 1 => IdlePeersAgree)
<1>1. IInv => (links <= 1 => IdlePeersAgree)
  <2> SUFFICES ASSUME IInv, links <= 1, NEW p \in User, NEW q \in User, Idle(p, q)
               PROVE  Ids(text[p]) = Ids(text[q]) /\ text[p].deleted = text[q].deleted
    BY DEF IdlePeersAgree
  <2>1. Idle(q, p)
    BY DEF Idle
  <2>2. Ids(text[q]) \subseteq Ids(text[p]) /\ text[q].deleted \subseteq text[p].deleted
    BY IdleHolds
  <2>3. Ids(text[p]) \subseteq Ids(text[q]) /\ text[p].deleted \subseteq text[q].deleted
    BY <2>1, IdleHolds
  <2> QED
    BY <2>2, <2>3
<1> QED
  BY <1>1, Invariance, PTL
===============================================================================
