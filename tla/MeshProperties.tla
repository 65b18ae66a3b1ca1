---------------------------- MODULE MeshProperties ----------------------------
(***************************************************************************)
(* What makes the mesh of src/web/src/lib/rtc.ts correct.                  *)
(***************************************************************************)
EXTENDS Mesh

Registered(a) == {channels[a][id] : id \in Id} \ {None}

Linked(a, b) ==
    \E p \in Registered(a), q \in Registered(b) :
        /\ PC(p).remote = q /\ PC(q).remote = p
        /\ PC(p).channel = "open" /\ PC(q).channel = "open"

(***************************************************************************)
(* Any two browsers that stay and meet for the first time under their ids  *)
(* end up with a channel that is open and registered at both ends, so that *)
(* each broadcast reaches the other: whatever order offers, answers,       *)
(* candidates and departures are handled in, also if a websocket breaks    *)
(* before they have met, or the node stops in the middle and both are      *)
(* given new ids.  What becomes of those who meet again under an id that   *)
(* one of them knows is ConnectionsSurvive.                                *)
(***************************************************************************)
NewPairsConnect ==
    <>[](\A a, b \in Browser \ left :
            a # b /\ {a, b} \notin overwritten => Linked(a, b))

(***************************************************************************)
(* Two browsers that are connected and stay are connected in the end,      *)
(* though a websocket breaks: "existing WebRTC peer connections survive"   *)
(* (src/README.md:42), for "The RTC is NOT torn down on signaling drops"   *)
(* (signaling.ts:48-49).  The code does not keep it: the browser that      *)
(* comes back is welcomed to the room it never left, offers a second       *)
(* connection, and what the end of the first one reports drops it.         *)
(***************************************************************************)
ConnectionsSurvive ==
    \A a, b \in Browser :
        a # b => (Linked(a, b) ~> [](Linked(a, b) \/ {a, b} \cap left # {}))

(***************************************************************************)
(* A browser that closes its page is forgotten by the others, who neither  *)
(* show it nor send to it, unless they miss the message that says so       *)
(* (server.go handleJoinRoom, rtc.ts dropPeer).                            *)
(***************************************************************************)
LeaversForgotten ==
    <>[](\A a \in Browser \ deaf, b \in left, id \in Id :
            id[1] = b => channels[a][id] = None)
==============================================================================
