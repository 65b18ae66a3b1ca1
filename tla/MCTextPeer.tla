------------------------------ MODULE MCTextPeer ------------------------------
(***************************************************************************)
(* Small instances of TextPeer for TLC.                                    *)
(***************************************************************************)
EXTENDS TextPeerProperties

(***************************************************************************)
(* Everybody has joined before the first edit: all channels are open and   *)
(* the state vectors, all zero, have been answered with nothing.           *)
(***************************************************************************)
Pairs == {<<p, q>> \in User \X User : p # q}

EverybodyJoined ==
    /\ text = [p \in User |-> NewList]
    /\ tombstoneOrder = [p \in User |-> {}]
    /\ lastBroadcastSV = [p \in User |-> NothingSeen]
    /\ broadcastTombstones = [p \in User |-> {}]
    /\ linked = {{c[1], c[2]} : c \in Pairs}
    /\ open = Pairs
    /\ channel = [c \in User \X User |-> << >>]
    /\ inserts = 0 /\ deletes = 0 /\ links = 0 /\ drops = 0

Joined == EverybodyJoined /\ [][Next]_vars
===============================================================================
