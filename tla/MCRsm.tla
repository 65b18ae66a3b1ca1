-------------------------------- MODULE MCRsm --------------------------------
(***************************************************************************)
(* A small instance of Rsm for TLC: in one run the node is sent a snapshot *)
(* or has an entry overwritten by another leader, not both; where it may   *)
(* be overwritten, the log the node starts with is compacted.              *)
(***************************************************************************)
EXTENDS RsmProperties

(* Init, but one of the two troubles is used up. *)
Started ==
    /\ Boot
    /\ elections = 0
    /\ \/ overwrites = 0 /\ installs = MaxInstalls /\ base = BootEntries
       \/ overwrites = MaxOverwrites /\ installs = 0

OneTrouble == Started /\ [][Next]_vars /\ Fairness
==============================================================================
