------------------------------ MODULE MCReplicas ------------------------------
(***************************************************************************)
(* YataReplicas for TLC: one edit less than MaxEdits from empty texts, and *)
(* all of them where the first two are given, on the way to an integrate   *)
(* that does not return.                                                   *)
(***************************************************************************)
EXTENDS YataReplicas

(* User 1 has inserted an item; user 2 has got it; user 1 has deleted it.  *)
First == InsertItem(NewList, 1, 0)

Started ==
    \/ /\ text = [p \in User |-> NewList]
       /\ inserts = 1 /\ deletes = 0
    \/ /\ text = [p \in User |->
                     CASE p = 1 -> DeleteItem(First, 0)
                       [] p = 2 -> ApplyUpdate(NewList, <<Item(First, <<1, 0>>)>>).list
                       [] OTHER -> NewList]
       /\ inserts = 1 /\ deletes = 1

StartedSpec == Started /\ [][Next]_vars
===============================================================================
