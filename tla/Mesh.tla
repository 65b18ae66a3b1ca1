--------------------------------- MODULE Mesh ---------------------------------
(***************************************************************************)
(* The browsers of one room and how they come to be connected: RTC of      *)
(* src/web/src/lib/rtc.ts on top of a websocket that startSignaling opens  *)
(* again and again, and the hub of src/server.go, which passes their       *)
(* messages on.  What RTCPeerConnection does is modelled from its use.     *)
(*                                                                         *)
(* A connection is named by its browser and a number.  A description says  *)
(* whose connection it describes, a candidate whose address it is: both    *)
(* are the name of that connection.                                        *)
(***************************************************************************)
EXTENDS Naturals, SequencesExt

CONSTANTS
    Browser,
    None,
    MaxTroubles         \* bound: websockets that break, nodes that stop, pages
                        \* that are closed

ASSUME MeshAssumption ==
    /\ None \notin Browser
    /\ MaxTroubles \in Nat

(* Peer ids: a browser gets a new one with every websocket. *)
Id == Browser \X (1 .. MaxTroubles + 1)

VARIABLES
    left,               \* browsers whose page is closed
    sockets,            \* browser -> number of websockets it has opened
    online,             \* browser -> the id of its open websocket, or None
    inbox               \* browser -> what it has been sent on it
socketVars == <<left, sockets, online, inbox>>

VARIABLES
    room                \* ids in the room of the hub

VARIABLES
    pcs,                \* browser -> its RTCPeerConnections, oldest first
    connections,        \* browser -> id -> connection, or None
    channels,           \* browser -> id -> connection of its channel, or None
    pendingIce,         \* browser -> id -> candidates that wait, or None
    awaiting            \* what asynchronous functions are waiting for
rtcVars == <<pcs, connections, channels, pendingIce, awaiting>>

VARIABLES
    overwritten,        \* history: pairs of browsers one of which has put a new
                        \* connection to the other in the place of an old one
    deaf,               \* history: browsers that have lost a websocket
    troubles            \* what the bound counts
vars == <<socketVars, room, rtcVars, overwritten, deaf, troubles>>

Trouble == troubles < MaxTroubles /\ troubles' = troubles + 1

Nobody == [id \in Id |-> None]

Init ==
    /\ left = {}
    /\ sockets = [b \in Browser |-> 0]
    /\ online = [b \in Browser |-> None]
    /\ inbox = [b \in Browser |-> << >>]
    /\ room = {}
    /\ pcs = [b \in Browser |-> << >>]
    /\ connections = [b \in Browser |-> Nobody]
    /\ channels = [b \in Browser |-> Nobody]
    /\ pendingIce = [b \in Browser |-> Nobody]
    /\ awaiting = {}
    /\ overwritten = {}
    /\ deaf = {}
    /\ troubles = 0

----------------------------------------------------------------------------
(* The hub: handleJoinRoom, routeMessage, deliver. *)

Current(id) == online[id[1]] = id

Welcome(peers) == [type |-> "welcome", peers |-> peers]
PeerLeft(id) == [type |-> "peer-left", id |-> id]

(* A browser opens a websocket, enters the room and is welcomed. *)
Join(b) ==
    LET id == <<b, sockets[b] + 1>> IN
    /\ b \notin left
    /\ online[b] = None
    /\ sockets' = [sockets EXCEPT ![b] = @ + 1]
    /\ online' = [online EXCEPT ![b] = id]
    /\ inbox' = [inbox EXCEPT ![b] = <<Welcome(room)>>]
    /\ room' = room \cup {id}
    /\ UNCHANGED <<left, rtcVars, overwritten, deaf, troubles>>

(* The handler of a websocket that is gone ends; the others are told. *)
Leave(id) ==
    /\ id \in room
    /\ ~Current(id)
    /\ room' = room \ {id}
    /\ inbox' = [b \in Browser |->
                    IF online[b] \in room THEN Append(inbox[b], PeerLeft(id))
                    ELSE inbox[b]]
    /\ UNCHANGED <<left, sockets, online, rtcVars, overwritten, deaf, troubles>>

(***************************************************************************)
(* What a browser sends goes to the peer it names if that is in the room,  *)
(* and is lost otherwise, or while the browser has no websocket.  The way  *)
(* to the hub takes no time here: the functions that send wait before they *)
(* do.                                                                     *)
(***************************************************************************)
Send(b, type, to, of) ==
    inbox' = IF online[b] # None /\ to \in room /\ Current(to)
             THEN [inbox EXCEPT ![to[1]] =
                      Append(@, [type |-> type, from |-> online[b], of |-> of])]
             ELSE inbox

----------------------------------------------------------------------------
(* Connections, by the name of a browser and a number. *)

PC(p) == pcs[p[1]][p[2]]
Update(p, new) == pcs' = [pcs EXCEPT ![p[1]][p[2]] = new]
Live(p) == PC(p).state = "open"

NewPC(peer, channel) ==
    [peer |-> peer, state |-> "open", local |-> FALSE, gathered |-> FALSE,
     remote |-> None, reachable |-> FALSE, up |-> FALSE, channel |-> channel]

Name(b, i) == <<b, Len(pcs[b]) + i>>
Names(b, peers) == {Name(b, i) : i \in 1 .. Len(peers)}

(* A map of b with an entry for the new connection to each of some peers.  *)
ByPeer(b, peers, old, Entry(_)) ==
    [id \in Id |-> IF Contains(peers, id)
                   THEN Entry(Name(b, SelectInSeq(peers, LAMBDA x : x = id)))
                   ELSE old[id]]

(* createPeerConnection for each of some peers, with their channels if it  *)
(* is this browser that makes the offers.                                  *)
CreatePeerConnections(b, peers, channel) ==
    /\ pcs' = [pcs EXCEPT ![b] = @ \o [i \in 1 .. Len(peers) |-> NewPC(peers[i], channel)]]
    /\ connections' = [connections EXCEPT ![b] = ByPeer(b, peers, @, LAMBDA p : p)]
    /\ pendingIce' = [pendingIce EXCEPT ![b] = ByPeer(b, peers, @, LAMBDA p : {})]
    /\ overwritten' = overwritten \cup
           {{b, id[1]} : id \in {i \in ToSet(peers) : connections[b][i] # None}}

Await(what, p, of) == [what |-> what, pc |-> p, of |-> of]

----------------------------------------------------------------------------
(* handleSignal. *)

Receive(b, type) ==
    /\ inbox[b] # << >>
    /\ Head(inbox[b]).type = type
    /\ inbox' = [inbox EXCEPT ![b] = Tail(@)]
    /\ UNCHANGED <<left, sockets, online, room, deaf, troubles>>

(* initiate, for everybody in the room. *)
HandleWelcome(b) ==
    LET peers == SetToSeq(Head(inbox[b]).peers) IN
    /\ Receive(b, "welcome")
    /\ CreatePeerConnections(b, peers, "connecting")
    /\ channels' = [channels EXCEPT ![b] = ByPeer(b, peers, @, LAMBDA p : p)]
    /\ awaiting' = awaiting \cup {Await("offer", p, None) : p \in Names(b, peers)}

(* Mutant of DropPeer: the channel stays registered. *)
DropConnection(b, id) ==
    /\ connections' = [connections EXCEPT ![b][id] = None]
    /\ UNCHANGED channels

(* dropPeer forgets what is registered under the id, which is closed.      *)
DropPeer(b, id) ==
    /\ connections' = [connections EXCEPT ![b][id] = None]
    /\ channels' = [channels EXCEPT ![b][id] = None]

(* A connection that has ended; all else about it no longer matters. *)
Ended(p, state) == [NewPC(PC(p).peer, "closed") EXCEPT !.state = state]
Closed(p) == Ended(p, "closed")

HandlePeerLeft(b) ==
    LET id == Head(inbox[b]).id
        p == connections[b][id] IN
    /\ Receive(b, "peer-left")
    /\ DropPeer(b, id)
    /\ IF p = None THEN UNCHANGED pcs ELSE Update(p, Closed(p))
    /\ UNCHANGED <<pendingIce, awaiting, overwritten>>

HandleOffer(b) ==
    LET msg == Head(inbox[b])
        peers == <<msg.from>> IN
    /\ Receive(b, "offer")
    /\ CreatePeerConnections(b, peers, "none")
    /\ awaiting' = awaiting \cup {Await("set offer", Name(b, 1), msg.of)}
    /\ UNCHANGED channels

HandleAnswer(b) ==
    LET msg == Head(inbox[b])
        p == connections[b][msg.from] IN
    /\ Receive(b, "answer")
    /\ awaiting' = IF p = None THEN awaiting
                   ELSE awaiting \cup {Await("set answer", p, msg.of)}
    /\ UNCHANGED <<pcs, connections, channels, pendingIce, overwritten>>

(* addIceCandidate: an address helps if it is of the connection described. *)
Reached(p, of) == [PC(p) EXCEPT !.reachable = @ \/ (PC(p).remote = of /\ Live(p))]

(* Mutant of MustWait: a candidate is added as soon as it comes. *)
NeverWaits(b, id, p) == FALSE

MustWait(b, id, p) == pendingIce[b][id] # None /\ PC(p).remote = None

HandleIce(b) ==
    LET msg == Head(inbox[b])
        id == msg.from
        p == connections[b][id] IN
    /\ Receive(b, "ice-candidate")
    /\ IF p = None THEN UNCHANGED <<pcs, pendingIce>>
       ELSE IF MustWait(b, id, p)
       THEN /\ pendingIce' = [pendingIce EXCEPT ![b][id] = @ \cup {<<p, msg.of>>}]
            /\ UNCHANGED pcs
       ELSE /\ Update(p, Reached(p, msg.of))
            /\ UNCHANGED pendingIce
    /\ UNCHANGED <<connections, channels, awaiting, overwritten>>

HandleSignal(b) ==
    \/ HandleWelcome(b) \/ HandlePeerLeft(b) \/ HandleOffer(b)
    \/ HandleAnswer(b) \/ HandleIce(b)

----------------------------------------------------------------------------
(* The asynchronous functions go on.  On a connection that has been closed *)
(* meanwhile the awaited call fails, and they end.                         *)

Resumed(t, what) ==
    /\ t.what = what
    /\ UNCHANGED <<left, sockets, online, room, connections, channels, overwritten,
                   deaf, troubles>>

(* sendOffer, sendAnswer: the local description is set, and sent. *)
SendDescription(t, type) ==
    LET p == t.pc IN
    /\ Resumed(t, type)
    /\ awaiting' = awaiting \ {t}
    /\ IF Live(p)
       THEN /\ Update(p, [PC(p) EXCEPT !.local = TRUE])
            /\ Send(p[1], type, PC(p).peer, p)
       ELSE UNCHANGED <<pcs, inbox>>
    /\ UNCHANGED pendingIce

(* flushPendingIce: what waited under the id is added, to the connection   *)
(* it waited for.                                                          *)
Waiting(b, id) == IF pendingIce[b][id] = None THEN {} ELSE pendingIce[b][id]

Flushed(b, id, map) ==
    [i \in DOMAIN map |->
        [map[i] EXCEPT !.reachable = @ \/ <<<<b, i>>, map[i].remote>> \in Waiting(b, id)]]

Describe(p, of) ==
    LET b == p[1]
        id == PC(p).peer IN
    /\ pcs' = [pcs EXCEPT ![b] = Flushed(b, id, [@ EXCEPT ![p[2]].remote = of])]
    /\ pendingIce' = [pendingIce EXCEPT ![b][id] = None]

SetOffer(t) ==
    /\ Resumed(t, "set offer")
    /\ IF Live(t.pc)
       THEN /\ Describe(t.pc, t.of)
            /\ awaiting' = (awaiting \ {t}) \cup {Await("answer", t.pc, None)}
       ELSE /\ awaiting' = awaiting \ {t}
            /\ UNCHANGED <<pcs, pendingIce>>
    /\ UNCHANGED inbox

(* An answer is refused by a connection that has one, or has no offer out. *)
SetAnswer(t) ==
    /\ Resumed(t, "set answer")
    /\ awaiting' = awaiting \ {t}
    /\ IF Live(t.pc) /\ PC(t.pc).local /\ PC(t.pc).remote = None
       THEN Describe(t.pc, t.of)
       ELSE UNCHANGED <<pcs, pendingIce>>
    /\ UNCHANGED inbox

Resume(t) ==
    \/ SendDescription(t, "offer") \/ SendDescription(t, "answer")
    \/ SetOffer(t) \/ SetAnswer(t)

----------------------------------------------------------------------------
(* What an RTCPeerConnection reports. *)

(* It has found its address, once it has a local description. *)
FindCandidate(p) ==
    /\ Live(p) /\ PC(p).local /\ ~PC(p).gathered
    /\ Update(p, [PC(p) EXCEPT !.gathered = TRUE])
    /\ Send(p[1], "ice-candidate", PC(p).peer, p)
    /\ UNCHANGED <<left, sockets, online, room, connections, channels,
                   pendingIce, awaiting, overwritten, deaf, troubles>>

Ready(p) == Live(p) /\ PC(p).local /\ PC(p).reachable

(* Two connections that describe each other connect. *)
Connect(p, q) ==
    /\ PC(p).remote = q /\ PC(q).remote = p
    /\ Ready(p) /\ Ready(q)
    /\ ~PC(p).up /\ ~PC(q).up
    /\ pcs' = [b \in Browser |->
                  [i \in DOMAIN pcs[b] |->
                      IF <<b, i>> \in {p, q} THEN [pcs[b][i] EXCEPT !.up = TRUE]
                      ELSE pcs[b][i]]]
    /\ UNCHANGED <<socketVars, room, connections, channels, pendingIce, awaiting,
                   overwritten, deaf, troubles>>

(* The channel opens; the side that answered sees it for the first time. *)
OpenChannel(p) ==
    LET b == p[1] IN
    /\ PC(p).up
    /\ PC(p).channel \in {"none", "connecting"}
    /\ Update(p, [PC(p) EXCEPT !.channel = "open"])
    /\ channels' = IF PC(p).channel = "none"
                   THEN [channels EXCEPT ![b][PC(p).peer] = p] ELSE channels
    /\ UNCHANGED <<socketVars, room, connections, pendingIce, awaiting, overwritten,
                   deaf, troubles>>

OtherEndClosed(p) == PC(p).remote # None /\ ~Live(PC(p).remote)

(* onclose of the channel. *)
CloseChannel(p) ==
    /\ Live(p) /\ PC(p).channel = "open"
    /\ OtherEndClosed(p)
    /\ Update(p, [PC(p) EXCEPT !.channel = "closed"])
    /\ channels' = [channels EXCEPT ![p[1]][PC(p).peer] = None]
    /\ UNCHANGED <<socketVars, room, connections, pendingIce, awaiting, overwritten,
                   deaf, troubles>>

(* connectionState is "failed": dropPeer closes what is registered now. *)
Fail(p) ==
    LET b == p[1]
        id == PC(p).peer
        q == connections[b][id] IN
    /\ Live(p)
    /\ OtherEndClosed(p)
    /\ pcs' = [pcs EXCEPT ![b] = [i \in DOMAIN @ |->
                  IF <<b, i>> = q THEN Closed(q)
                  ELSE IF <<b, i>> = p THEN Ended(p, "failed")
                  ELSE @[i]]]
    /\ DropPeer(b, id)
    /\ UNCHANGED <<socketVars, room, pendingIce, awaiting, overwritten, deaf, troubles>>

Report(p) == FindCandidate(p) \/ OpenChannel(p) \/ CloseChannel(p) \/ Fail(p)

----------------------------------------------------------------------------
(* What goes wrong, and who goes away. *)

Offline(bs) ==
    /\ online' = [b \in Browser |-> IF b \in bs THEN None ELSE online[b]]
    /\ inbox' = [b \in Browser |-> IF b \in bs THEN << >> ELSE inbox[b]]
    /\ UNCHANGED sockets

(* One websocket breaks. *)
Break(b) ==
    /\ online[b] # None
    /\ Trouble
    /\ Offline({b})
    /\ deaf' = deaf \cup {b}
    /\ UNCHANGED <<left, room, rtcVars, overwritten>>

(* The node stops, and the room goes to another one. *)
Outage ==
    /\ Trouble
    /\ Offline(Browser)
    /\ deaf' = Browser
    /\ room' = {}
    /\ UNCHANGED <<left, rtcVars, overwritten>>

(* The page is closed: close, in startSignaling and in RTC. *)
ClosePage(b) ==
    /\ b \notin left
    /\ Trouble
    /\ left' = left \cup {b}
    /\ Offline({b})
    /\ pcs' = [pcs EXCEPT ![b] = [i \in DOMAIN @ |-> Closed(<<b, i>>)]]
    /\ connections' = [connections EXCEPT ![b] = Nobody]
    /\ channels' = [channels EXCEPT ![b] = Nobody]
    /\ UNCHANGED <<room, pendingIce, awaiting, overwritten, deaf>>

----------------------------------------------------------------------------
PCs == UNION {{<<b, i>> : i \in DOMAIN pcs[b]} : b \in Browser}

(* What somebody waits for: code that can go on, and what connections report. *)
Progress ==
    \/ \E b \in Browser : Join(b) \/ HandleSignal(b)
    \/ \E id \in Id : Leave(id)
    \/ \E t \in awaiting : Resume(t)
    \/ \E p \in PCs : Report(p) \/ \E q \in PCs : Connect(p, q)

Next ==
    \/ Progress
    \/ \E b \in Browser : Break(b) \/ ClosePage(b)
    \/ Outage

Spec == Init /\ [][Next]_vars
Fairness == WF_vars(Progress)
FairSpec == Spec /\ Fairness
==============================================================================
