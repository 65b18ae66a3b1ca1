---------------------------- MODULE RoomsProperties ----------------------------
(***************************************************************************)
(* What makes the rooms of src/server.go correct.                          *)
(***************************************************************************)
EXTENDS Rooms

(***************************************************************************)
(* A room's code is given out once: of the browsers that create a room     *)
(* (handleCreateRoom), at most one is told this one, even when the answer  *)
(* to its Put is lost.                                                     *)
(***************************************************************************)
OneCreator == Cardinality(created) <= 1

(***************************************************************************)
(* Whoever asks where the room is, while the nodes agree on who is alive,  *)
(* is told where it is: lookups that race to reassign it (the loop of      *)
(* assignedSignaling) answer alike.                                        *)
(***************************************************************************)
Tells(t) == lookup[t].step \in {"listing", "moving"} /\ lookup'[t].step = "told"
AnswersAgree ==
    [][\A t \in Threads :
           Tells(t) /\ lookup[t].calm => lookup'[t].server = row']_vars

(***************************************************************************)
(* A peer in the room of a node has a handler there that will take it out  *)
(* again, whichever way handleJoinRoom ends.                               *)
(***************************************************************************)
NoLeakedPeers ==
    \A s \in Server : \A p \in rooms[s] : handler[p] # "none" /\ at[p] = s

(***************************************************************************)
(* If some node keeps running, the browsers in the room end up on the node *)
(* it is assigned to, in its room, and of any two one was told of the      *)
(* other in its welcome, so that they can connect (handleJoinRoom,         *)
(* evictWrongRooms, assignedSignaling, signaling.ts connect).              *)
(***************************************************************************)
InRoom(b) == stage[b] \notin {"home", "creating", "elsewhere"}
PeerOf(b) == <<b, target[b]>>
Settled(b) ==
    /\ stage[b] = "connected"
    /\ PeerOf(b) \in rooms[row]
    /\ handler[PeerOf(b)] = "open"

Introduced(a, b) ==
    PeerOf(a) \in knows[PeerOf(b)] \/ PeerOf(b) \in knows[PeerOf(a)]

Gathered ==
    /\ \A b \in Browser : InRoom(b) => Settled(b)
    /\ \A a, b \in Browser : a # b /\ InRoom(a) /\ InRoom(b) => Introduced(a, b)

RoomGathers == (\E s \in Server : <>[](s \in up)) => <>[]Gathered
==============================================================================
