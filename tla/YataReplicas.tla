----------------------------- MODULE YataReplicas -----------------------------
(***************************************************************************)
(* Replicas of one list that are edited and synchronised at any time, as   *)
(* the tests in src/crdt/list.test.ts do it: one replica answers another's *)
(* state vector in one step, with nothing under way in between.            *)
(***************************************************************************)
EXTENDS YataList, FiniteSets

CONSTANTS
    MaxEdits,           \* bound: edits of all replicas together
    MaxDeletes          \* bound: those of them that delete an item

ASSUME EditsAssumption == MaxEdits \in Nat /\ MaxDeletes \in Nat

VARIABLES text, inserts, deletes
vars == <<text, inserts, deletes>>

Init ==
    /\ text = [p \in User |-> NewList]
    /\ inserts = 0
    /\ deletes = 0

Insert(p, index) ==
    /\ ~text[p].spinning
    /\ inserts + deletes < MaxEdits
    /\ text' = [text EXCEPT ![p] = InsertItem(@, p, index)]
    /\ inserts' = inserts + 1
    /\ UNCHANGED deletes

Delete(p, index) ==
    /\ ~text[p].spinning
    /\ inserts + deletes < MaxEdits
    /\ deletes < MaxDeletes
    /\ text' = [text EXCEPT ![p] = DeleteItem(@, index)]
    /\ deletes' = deletes + 1
    /\ UNCHANGED inserts

(***************************************************************************)
(* q applies what p has and its own state vector does not cover, then p's  *)
(* tombstones.  An update with an unknown origin throws before them.       *)
(***************************************************************************)
Sync(p, q) ==
    LET r == ApplyUpdate(text[q], MakeUpdate(text[p], text[q].stateVector)) IN
    /\ ~text[p].spinning /\ ~text[q].spinning
    /\ text' = [text EXCEPT ![q] =
                    IF r.pending # << >> \/ r.list.spinning THEN r.list
                    ELSE ApplyTombstones(r.list, text[p].deleted)]
    /\ UNCHANGED <<inserts, deletes>>

Next ==
    \/ \E p \in User : \E index \in 0 .. Len(Visible(text[p])) : Insert(p, index)
    \/ \E p \in User : \E index \in 0 .. Len(Visible(text[p])) - 1 : Delete(p, index)
    \/ \E p, q \in User : Sync(p, q)

Spec == Init /\ [][Next]_vars

----------------------------------------------------------------------------

(***************************************************************************)
(* Two replicas that hold the same items and the same tombstones show the  *)
(* same text, in whatever order and grouping the updates reached them.     *)
(***************************************************************************)
SameItemsSameText ==
    \A p, q \in User :
        /\ Ids(text[p]) = Ids(text[q])
        /\ text[p].deleted = text[q].deleted
        => Visible(text[p]) = Visible(text[q])

(***************************************************************************)
(* The same as long as nothing is deleted: the conflict rules of integrate *)
(* settle every concurrent insertion the same way everywhere.              *)
(***************************************************************************)
InsertionsConverge == deletes = 0 => SameItemsSameText

\* The linked list holds the items that itemById knows, each of them once.
ItemsOnce ==
    \A p \in User :
        /\ ToSet(text[p].order) = Ids(text[p])
        /\ Len(text[p].order) = Cardinality(Ids(text[p]))

\* Every item is between the neighbours its author saw, at each replica.
ItemsBetweenOrigins ==
    /\ ItemsOnce
    /\ \A p \in User :
          LET l == text[p] IN
          \A id \in Ids(l) :
              /\ Position(l, l.origins[id].left) < Position(l, id)
              /\ Position(l, id) < Position(l, l.origins[id].right)

(***************************************************************************)
(* applyUpdate tries "until the queue drains or no progress can be made"   *)
(* (list.ts:115-117) and comes back.  The code does not keep it: the scan  *)
(* of integrate stops at the right origin, and where that stands before    *)
(* the left one it walks on to the tail, whose right is itself.            *)
(***************************************************************************)
IntegrateReturns == \A p \in User : ~text[p].spinning

\* Any two replicas have the items both hold in the same order.
OrdersAgree == \A p, q \in User : Agree(text[p], text[q])

(***************************************************************************)
(* Unless the orders of two replicas have come apart, every replica holds  *)
(* each of its items once in the linked list, between the neighbours its   *)
(* author saw (what was typed next to each other does not change sides),   *)
(* and integrate has always met the right origin and returned.             *)
(***************************************************************************)
ItemsStay == (ItemsBetweenOrigins /\ IntegrateReturns) \/ ~OrdersAgree

(***************************************************************************)
(* One answer to its state vector is all a replica needs: every origin is  *)
(* held already or in the update, whatever order the items come in, and    *)
(* tombstones arrive with or after their items.  (An answer that changes   *)
(* nothing is no step of the replicas.)                                    *)
(***************************************************************************)
SyncCompletes ==
    [][\A p, q \in User :
          text'[q] # text[q] /\ Sync(p, q) /\ ~text'[q].spinning =>
              /\ Ids(text[p]) \subseteq Ids(text'[q])
              /\ text[p].deleted \subseteq text'[q].deleted]_vars
===============================================================================
