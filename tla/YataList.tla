------------------------------ MODULE YataList ------------------------------
(***************************************************************************)
(* One replica of the collaborative list: src/crdt/list.ts.                *)
(*                                                                         *)
(* An item is known by its id, the user who inserted it and that user's    *)
(* operation counter; what it shows plays no part in any decision.  The    *)
(* linked list through left and right is the sequence order, itemById the  *)
(* domain of origins, and a tombstone an id in deleted.                    *)
(***************************************************************************)
EXTENDS Integers, FiniteSets, SequencesExt

CONSTANT User       \* the UUIDs: hashes of the ids the server assigns

Sentinel == -1

ASSUME UserAssumption == User \subseteq Int \ {Sentinel}

HEAD == <<Sentinel, 0>>
TAIL == <<Sentinel, 1>>

(***************************************************************************)
(* spinning: integrate walks past the tail and never returns.              *)
(***************************************************************************)
NewList ==
    [order |-> << >>, origins |-> << >>, deleted |-> {},
     stateVector |-> [u \in User |-> 0], opCounter |-> 0, spinning |-> FALSE]

Ids(l) == DOMAIN l.origins

Visible(l) ==
    LET visible[n \in 0 .. Len(l.order)] ==
            IF n = 0 THEN << >>
            ELSE IF l.order[n] \in l.deleted THEN visible[n - 1]
            ELSE Append(visible[n - 1], l.order[n])
    IN visible[Len(l.order)]

Position(l, id) ==
    CASE id = HEAD -> 0
      [] id = TAIL -> Len(l.order) + 1
      [] OTHER -> CHOOSE k \in DOMAIN l.order : l.order[k] = id

----------------------------------------------------------------------------
(* integrate                                                               *)

(***************************************************************************)
(* The items the scan passes: those between the origins of the new item.   *)
(* If the right origin does not follow the left one, the scan meets the    *)
(* end of the list before it.                                              *)
(***************************************************************************)
Ordered(l, item) == Position(l, item.left) < Position(l, item.right)

\* Mutant of Between: the scan does not look for the right origin.
BetweenToEnd(l, item) ==
    SubSeq(l.order, Position(l, item.left) + 1, Len(l.order))

Between(l, item) ==
    SubSeq(l.order, Position(l, item.left) + 1,
           IF Ordered(l, item) THEN Position(l, item.right) - 1 ELSE Len(l.order))

(***************************************************************************)
(* How the scan s takes an item o on its way: the new item goes behind o,  *)
(* or the scan is over, or o is one more item in conflict.                 *)
(***************************************************************************)
\* Mutant of GoesBehind: siblings are not told apart by their users.
GoesBehindAny(l, s, o, item) ==
    \/ l.origins[o].left = item.left
    \/ l.origins[o].left \in s.before \ s.conflicting

GoesBehind(l, s, o, item) ==
    IF l.origins[o].left = item.left THEN o[1] < item.id[1]
    ELSE l.origins[o].left \in s.before \ s.conflicting

StopsAt(l, s, o, item) ==
    IF l.origins[o].left = item.left
    THEN o[1] >= item.id[1] /\ l.origins[o].right = item.right
    ELSE l.origins[o].left \notin s.before

Passed(l, s, o, item) ==
    IF s.done THEN s
    ELSE [left |-> IF GoesBehind(l, s, o, item) THEN o ELSE s.left,
          conflicting |-> IF GoesBehind(l, s, o, item) THEN {}
                          ELSE s.conflicting \cup {o},
          before |-> s.before \cup {o},
          done |-> StopsAt(l, s, o, item)]

Scan(l, item) ==
    LET between == Between(l, item)
        scan[n \in 0 .. Len(between)] ==
            IF n = 0
            THEN [left |-> item.left, conflicting |-> {}, before |-> {}, done |-> FALSE]
            ELSE Passed(l, scan[n - 1], between[n], item)
    IN scan[Len(between)]

(***************************************************************************)
(* bumpStateVector: the largest counter seen of a user, plus one.          *)
(***************************************************************************)
Bumped(sv, id) ==
    [sv EXCEPT ![id[1]] = IF id[2] + 1 > @ THEN id[2] + 1 ELSE @]

Integrate(l, item) ==
    LET s == Scan(l, item) IN
    IF ~Ordered(l, item) /\ ~s.done
    THEN [l EXCEPT !.spinning = TRUE]
    ELSE [l EXCEPT
            !.order = InsertAt(@, Position(l, s.left) + 1, item.id),
            !.origins = [id \in Ids(l) \cup {item.id} |->
                             IF id = item.id
                             THEN [left |-> item.left, right |-> item.right]
                             ELSE l.origins[id]],
            !.deleted = IF item.deleted THEN @ \cup {item.id} ELSE @,
            !.stateVector = Bumped(@, item.id)]

----------------------------------------------------------------------------
(* Local edits.  The caller has checked that the index is in the text.     *)

InsertItem(l, u, index) ==
    LET v == Visible(l) IN
    Integrate([l EXCEPT !.opCounter = @ + 1],
              [id |-> <<u, l.opCounter>>,
               left |-> IF index = 0 THEN HEAD ELSE v[index],
               right |-> IF index = Len(v) THEN TAIL ELSE v[index + 1],
               deleted |-> FALSE])

DeleteItem(l, index) == [l EXCEPT !.deleted = @ \cup {Visible(l)[index + 1]}]

----------------------------------------------------------------------------
(* Updates.                                                                *)

Precedes(a, b) ==
    a.id[1] < b.id[1] \/ (a.id[1] = b.id[1] /\ a.id[2] < b.id[2])

(***************************************************************************)
(* makeUpdate: the items a state vector does not cover, by user and then   *)
(* counter.                                                                *)
(***************************************************************************)
InOrder(items) ==
    [n \in 1 .. Cardinality(items) |->
        CHOOSE item \in items :
            Cardinality({other \in items : Precedes(other, item)}) = n - 1]

Item(l, id) == [id |-> id, left |-> l.origins[id].left,
                right |-> l.origins[id].right, deleted |-> id \in l.deleted]

\* Mutant of MakeUpdate: off by one.
MakeUpdateStrict(l, target) ==
    InOrder({Item(l, id) : id \in {i \in Ids(l) : i[2] > target[i[1]]}})

MakeUpdate(l, target) ==
    InOrder({Item(l, id) : id \in {i \in Ids(l) : i[2] >= target[i[1]]}})

OriginsKnown(l, item) == {item.left, item.right} \subseteq Ids(l) \cup {HEAD, TAIL}

Merge(l, item) ==
    IF item.id \notin Ids(l) THEN Integrate(l, item)
    ELSE IF item.deleted THEN [l EXCEPT !.deleted = @ \cup {item.id}]
    ELSE l

(***************************************************************************)
(* One pass of applyUpdate over what is pending, from the last item to the *)
(* first, and as many passes as make progress: a pass that makes none      *)
(* leaves everything as it is.                                             *)
(***************************************************************************)
Tried(s, item) ==
    IF s.list.spinning THEN s
    ELSE IF OriginsKnown(s.list, item) THEN [s EXCEPT !.list = Merge(@, item)]
    ELSE [s EXCEPT !.pending = <<item>> \o @]

Pass(r) ==
    LET count == Len(r.pending)
        tried[n \in 0 .. count] ==
            IF n = 0 THEN [list |-> r.list, pending |-> << >>]
            ELSE Tried(tried[n - 1], r.pending[count + 1 - n])
    IN tried[count]

\* Mutant of ApplyUpdate: one pass only.
ApplyOnce(l, items) == Pass([list |-> l, pending |-> items])

ApplyUpdate(l, items) ==
    LET after[n \in 0 .. Len(items)] ==
            IF n = 0 THEN [list |-> l, pending |-> items] ELSE Pass(after[n - 1])
    IN after[Len(items)]

(***************************************************************************)
(* applyTombstones: unknown keys are ignored.                              *)
(***************************************************************************)
ApplyTombstones(l, keys) == [l EXCEPT !.deleted = @ \cup (keys \cap Ids(l))]

----------------------------------------------------------------------------
(* Of what is said about several lists.                                    *)

\* Two lists that have the items both hold in the same order.
Agree(l, m) ==
    \A a, b \in Ids(l) \cap Ids(m) :
        Position(l, a) < Position(l, b) <=> Position(m, a) < Position(m, b)
=============================================================================
