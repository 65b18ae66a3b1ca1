-------------------------------- MODULE Rooms --------------------------------
(***************************************************************************)
(* One room of src/server.go: the row of the table that assigns it to a    *)
(* node, the nodes that look it up, reassign it and evict its browsers,    *)
(* and the browsers, which come back as src/web/src/lib/signaling.ts does. *)
(*                                                                         *)
(* The table is what module VersionedStore promises of it.  Versions are   *)
(* compared for equality only, and grow with every Put that takes effect;  *)
(* so a reader keeps whether the version it read is still the current one. *)
(* ErrMaybe answers a repeated Put that met a newer version than its own   *)
(* (module Clerk): its own, or another's.                                  *)
(***************************************************************************)
EXTENDS Naturals, FiniteSets

CONSTANTS
    Server,             \* nodes, by their advertiseAddr
    Browser,
    None,
    Tabs,               \* numbers a browser's connections are told apart by
    MaxTroubles         \* bound: nodes that stop or miss their heartbeats,
                        \* sockets that break

ASSUME RoomsAssumption ==
    /\ Server \cap Browser = {}
    /\ None \notin Server \cup Browser
    /\ MaxTroubles \in Nat

(* A peer of handleJoinRoom: one websocket of one browser. *)
Peer == Browser \X Tabs

VARIABLES
    up,                 \* nodes that run
    beat,               \* node -> "fresh", "expiring", "expired": what the
                        \* clocks of its readers make of its heartbeat
    row                 \* the node in room/<room>, None before it is created
tableVars == <<up, beat, row>>

VARIABLES
    stage,              \* browser -> what it is doing
    target,             \* browser -> the node it was told, or chose
    lookup,             \* browser or node -> its call of assignedSignaling
    created             \* browsers told that they created the room
browserVars == <<stage, target, lookup, created>>

VARIABLES
    rooms,              \* node -> the peers it has in the room
    handler,            \* peer -> where its handleJoinRoom is
    at,                 \* peer -> the node its handler runs on
    knows,              \* peer -> those it was told of in its welcome
    evicting            \* node -> where evictWrongRooms is
hubVars == <<rooms, handler, at, knows, evicting>>

VARIABLE troubles       \* what the bound counts
vars == <<tableVars, browserVars, hubVars, troubles>>

Trouble == troubles < MaxTroubles /\ troubles' = troubles + 1

NoLookup == [step |-> "none"]
Threads == Browser \cup Server

Init ==
    /\ up = Server
    /\ beat = [s \in Server |-> "fresh"]
    /\ row = None
    /\ stage = [b \in Browser |-> "home"]
    /\ target = [b \in Browser |-> None]
    /\ lookup = [t \in Threads |-> NoLookup]
    /\ created = {}
    /\ rooms = [s \in Server |-> {}]
    /\ handler = [p \in Peer |-> "none"]
    /\ at = [p \in Peer |-> None]
    /\ knows = [p \in Peer |-> {}]
    /\ evicting = [s \in Server |-> "idle"]
    /\ troubles = 0

----------------------------------------------------------------------------
(* Heartbeats (clerk.go RegisterWithLease, Signalings). *)

(* Two clocks may disagree on an expiring row; nobody's on the others. *)
LiveSets ==
    {live \in SUBSET Server : \A s \in Server :
        /\ beat[s] = "fresh" => s \in live
        /\ beat[s] = "expired" => s \notin live}

(* The nodes agree on who is alive, and no lookup is still under way from  *)
(* a time when they saw it otherwise.                                      *)
Calm ==
    /\ \A s \in Server : beat[s] # "expiring"
    /\ \A t \in Threads :
           lookup[t].step \in {"listing", "moving"} => lookup[t].calm

(* The table of heartbeats changes under the lookups that are under way.   *)
Disturbed ==
    [t \in Threads |-> IF lookup[t] = NoLookup THEN NoLookup
                       ELSE [lookup[t] EXCEPT !.calm = FALSE]]

Older(age) == IF age = "fresh" THEN "expiring" ELSE "expired"

Age(s) ==
    /\ beat[s] # "expired"
    /\ beat' = [beat EXCEPT ![s] = Older(@)]
    /\ lookup' = Disturbed
    /\ UNCHANGED <<up, row, stage, target, created, hubVars>>

(* The row of a node that has stopped grows old; that of a node that runs  *)
(* does so when a few of its heartbeats fail.                              *)
Forgotten(s) == s \notin up /\ Age(s) /\ UNCHANGED troubles
Lapse(s) ==
    /\ s \in up
    /\ IF beat[s] = "fresh" THEN Trouble ELSE UNCHANGED troubles
    /\ Age(s)

Heartbeat(s) ==
    /\ s \in up
    /\ beat[s] # "fresh"
    /\ beat' = [beat EXCEPT ![s] = "fresh"]
    /\ lookup' = Disturbed
    /\ UNCHANGED <<up, row, stage, target, created, hubVars, troubles>>

----------------------------------------------------------------------------
(* assignedSignaling, for a browser's GET /rooms/:room or for a node's own *)
(* evictWrongRooms.                                                        *)

In(t, step) == lookup[t].step = step

(* It reads the assigned server, with the version of the row. *)
ReadRow(calm) == [step |-> "listing", server |-> row, current |-> TRUE, calm |-> calm]

Answer(server, step) ==
    [step |-> step, server |-> server, current |-> FALSE, calm |-> FALSE]
Tell(t, server) == lookup' = [lookup EXCEPT ![t] = Answer(server, "told")]
NoAnswer(t) == lookup' = [lookup EXCEPT ![t] = Answer(None, "error")]

(* The live nodes: the assigned one if it is among them, none (an error),  *)
(* or one of them at random to take the room over.                         *)
ListLive(t) ==
    /\ In(t, "listing")
    /\ \E live \in LiveSets :
           \/ lookup[t].server \in live /\ Tell(t, lookup[t].server)
           \/ live = {} /\ NoAnswer(t)
           \/ /\ lookup[t].server \notin live
              /\ \E new \in live :
                     lookup' = [lookup EXCEPT ![t].step = "moving",
                                              ![t].server = new]
    /\ UNCHANGED <<tableVars, stage, target, created, hubVars, troubles>>

(* The row has a new version. *)
Overtaken(look) ==
    [t \in Threads |-> IF look[t] = NoLookup THEN NoLookup
                       ELSE [look[t] EXCEPT !.current = FALSE]]

Moved(t) ==
    /\ In(t, "moving")
    /\ lookup[t].current
    /\ row' = lookup[t].server
    /\ lookup' = Overtaken([lookup EXCEPT ![t] = Answer(@.server, "told")])
    /\ UNCHANGED <<up, beat, stage, target, created, hubVars, troubles>>

(* Mutant of Raced: the caller is told what this lookup would have written. *)
RacedButTold(t) == Tell(t, lookup[t].server)

(* Somebody else was faster: the loop starts again. *)
Raced(t) == lookup' = [lookup EXCEPT ![t] = ReadRow(@.calm)]

MoveConflict(t) ==
    /\ In(t, "moving")
    /\ ~lookup[t].current
    /\ Raced(t)
    /\ UNCHANGED <<tableVars, stage, target, created, hubVars, troubles>>

MoveMaybe(t) ==
    /\ In(t, "moving")
    /\ IF lookup[t].current
       THEN /\ row' = lookup[t].server
            /\ lookup' = Overtaken([lookup EXCEPT ![t] = Answer(None, "error")])
       ELSE /\ NoAnswer(t)
            /\ UNCHANGED row
    /\ UNCHANGED <<up, beat, stage, target, created, hubVars, troubles>>

Lookup(t) == ListLive(t) \/ Moved(t) \/ MoveConflict(t)

----------------------------------------------------------------------------
(* A browser: handleCreateRoom, handleLookupRoom, wsGate and startSignaling. *)

(* POST /rooms: a live node is drawn before the room is named. *)
ChooseServer(b) ==
    /\ stage[b] = "home"
    /\ \E live \in LiveSets : \E s \in live : target' = [target EXCEPT ![b] = s]
    /\ stage' = [stage EXCEPT ![b] = "creating"]
    /\ UNCHANGED <<tableVars, lookup, created, hubVars, troubles>>

(* It got this room's name: Put with version 0 answers OK, and the browser *)
(* goes to the node it is told without a lookup.                           *)
Created(b) ==
    /\ stage[b] = "creating"
    /\ row = None
    /\ row' = target[b]
    /\ created' = created \cup {b}
    /\ stage' = [stage EXCEPT ![b] = "dialing"]
    /\ UNCHANGED <<up, beat, target, lookup, hubVars, troubles>>

(* Mutant of Rejected: whatever the Put answers is taken for OK. *)
RejectedOrTold(b) ==
    /\ stage' = [stage EXCEPT ![b] = "dialing"]
    /\ UNCHANGED target
    /\ created' = created \cup {b}

(* It drew a name that is taken, or whose Put answers ErrMaybe, whoever    *)
(* created that room: it draws another name, which is not followed here.   *)
Rejected(b) ==
    /\ stage' = [stage EXCEPT ![b] = "elsewhere"]
    /\ target' = [target EXCEPT ![b] = None]
    /\ UNCHANGED created

NameTaken(b) ==
    /\ stage[b] = "creating"
    /\ row # None
    /\ Rejected(b)
    /\ UNCHANGED <<tableVars, lookup, hubVars, troubles>>

CreateMaybe(b) ==
    /\ stage[b] = "creating"
    /\ row = None
    /\ row' = target[b]
    /\ Rejected(b)
    /\ UNCHANGED <<up, beat, lookup, hubVars, troubles>>

(* Somebody follows the link to a room. *)
Visit(b) ==
    /\ stage[b] = "home"
    /\ row # None
    /\ stage' = [stage EXCEPT ![b] = "seeking"]
    /\ UNCHANGED <<tableVars, target, lookup, created, hubVars, troubles>>

(* GET /rooms/:room at some node that runs. *)
AskForRoom(b) ==
    /\ stage[b] = "seeking"
    /\ up # {}
    /\ stage' = [stage EXCEPT ![b] = "waiting"]
    /\ lookup' = [lookup EXCEPT ![b] = ReadRow(Calm)]
    /\ UNCHANGED <<tableVars, target, created, hubVars, troubles>>

RoomFound(b) ==
    /\ stage[b] = "waiting"
    /\ In(b, "told")
    /\ stage' = [stage EXCEPT ![b] = "dialing"]
    /\ target' = [target EXCEPT ![b] = lookup[b].server]
    /\ lookup' = [lookup EXCEPT ![b] = NoLookup]
    /\ UNCHANGED <<tableVars, created, hubVars, troubles>>

(* 503, or no node reached: the next one, or the same later. *)
RoomNotFound(b) ==
    /\ stage[b] = "waiting"
    /\ In(b, "error")
    /\ stage' = [stage EXCEPT ![b] = "seeking"]
    /\ lookup' = [lookup EXCEPT ![b] = NoLookup]
    /\ UNCHANGED <<tableVars, target, created, hubVars, troubles>>

(* The websocket request meets wsGate, before the upgrade. *)
PassGate(b) ==
    /\ stage[b] = "dialing"
    /\ target[b] \in up
    /\ row = target[b]
    /\ stage' = [stage EXCEPT ![b] = "upgrading"]
    /\ UNCHANGED <<tableVars, target, lookup, created, hubVars, troubles>>

Seek(b) ==
    /\ stage' = [stage EXCEPT ![b] = "seeking"]
    /\ target' = [target EXCEPT ![b] = None]

TurnedAway(b) ==
    /\ stage[b] = "dialing"
    /\ target[b] \notin up \/ row # target[b]
    /\ Seek(b)
    /\ UNCHANGED <<tableVars, lookup, created, hubVars, troubles>>

----------------------------------------------------------------------------
(* The hub of a node: handleJoinRoom and its defers. *)

(* A connection gets an id that no handler has. *)
NewPeer(b) ==
    LET free == {i \in Tabs : handler[<<b, i>>] = "none"} IN
    {<<b, i>> : i \in {j \in free : \A k \in free : j <= k}}

(* The browser's side of the connection of p is open. *)
Connected(p) == stage[p[1]] = "connected" /\ target[p[1]] = p[2]

Without(p) == [q \in Peer |-> IF q = p THEN {} ELSE knows[q] \ {p}]

(* The new peer takes note of those in the room and enters it. *)
Join(b) ==
    /\ stage[b] = "upgrading"
    /\ target[b] \in up
    /\ \E p \in NewPeer(b) :
           /\ knows' = [Without(p) EXCEPT ![p] = rooms[target[b]]]
           /\ rooms' = [rooms EXCEPT ![target[b]] = @ \cup {p}]
           /\ handler' = [handler EXCEPT ![p] = "welcoming"]
           /\ at' = [at EXCEPT ![p] = target[b]]
           /\ target' = [target EXCEPT ![b] = p[2]]
    /\ stage' = [stage EXCEPT ![b] = "connected"]
    /\ UNCHANGED <<tableVars, lookup, created, evicting, troubles>>

UpgradeFails(b) ==
    /\ stage[b] = "upgrading"
    /\ target[b] \notin up
    /\ Seek(b)
    /\ UNCHANGED <<tableVars, lookup, created, hubVars, troubles>>

(* Mutant of Removed: a peer whose welcome failed stays in the room. *)
RemovedIfWelcomed(p) ==
    rooms' = IF handler[p] = "welcoming" THEN rooms
             ELSE [rooms EXCEPT ![at[p]] = @ \ {p}]

(* Mutant of Removed: the room goes with the first peer that leaves. *)
RemovedAll(p) == rooms' = [rooms EXCEPT ![at[p]] = {}]

(* removePeer, where the handler of p ends. *)
Removed(p) == rooms' = [rooms EXCEPT ![at[p]] = @ \ {p}]

EndHandler(p) ==
    /\ handler' = [handler EXCEPT ![p] = "none"]
    /\ at' = [at EXCEPT ![p] = None]
    /\ knows' = [knows EXCEPT ![p] = {}]

(* The welcome is sent, and peer-joined to the others, who only wait.  On  *)
(* a socket that has just broken the write may fail or not.                *)
Welcome(p) ==
    /\ handler[p] = "welcoming"
    /\ handler' = [handler EXCEPT ![p] = "open"]
    /\ UNCHANGED <<tableVars, browserVars, rooms, at, knows, evicting, troubles>>

WelcomeFails(p) ==
    /\ handler[p] = "welcoming"
    /\ ~Connected(p)
    /\ Removed(p)
    /\ EndHandler(p)
    /\ UNCHANGED <<tableVars, browserVars, evicting, troubles>>

(* Those a message of p to the whole room is sent to. *)
Recipients(p) == rooms[at[p]] \ {p}

(* ReadMessage fails: ws.Close and the peer-left of the deferred calls. *)
SayPeerLeft(p) ==
    /\ handler[p] = "open"
    /\ ~Connected(p)
    /\ handler' = [handler EXCEPT ![p] = "leaving"]
    /\ knows' = [q \in Peer |->
                    IF q \in Recipients(p) /\ handler[q] = "open"
                    THEN knows[q] \ {p} ELSE knows[q]]
    /\ UNCHANGED <<tableVars, browserVars, rooms, at, evicting, troubles>>

RemovePeer(p) ==
    /\ handler[p] = "leaving"
    /\ Removed(p)
    /\ EndHandler(p)
    /\ UNCHANGED <<tableVars, browserVars, evicting, troubles>>

----------------------------------------------------------------------------
(* evictWrongRooms, once per tick of the ticker in makeServer. *)

EvictTick(s) ==
    /\ s \in up
    /\ evicting[s] = "idle"
    /\ rooms[s] # {}
    /\ evicting' = [evicting EXCEPT ![s] = "asking"]
    /\ lookup' = [lookup EXCEPT ![s] = ReadRow(Calm)]
    /\ UNCHANGED <<tableVars, stage, target, created, rooms, handler, at, knows,
                   troubles>>

Ours(s) == lookup[s].server = s

(* Still ours, or an error of the table: next time. *)
KeepRoom(s) ==
    /\ evicting[s] = "asking"
    /\ In(s, "error") \/ (In(s, "told") /\ Ours(s))
    /\ evicting' = [evicting EXCEPT ![s] = "idle"]
    /\ lookup' = [lookup EXCEPT ![s] = NoLookup]
    /\ UNCHANGED <<tableVars, stage, target, created, rooms, handler, at, knows,
                   troubles>>

(* evictRoom drops the room, and then closes the sockets of those it had;  *)
(* their browsers look the room up again.                                  *)
EvictRoom(s) ==
    /\ evicting[s] = "asking"
    /\ In(s, "told")
    /\ ~Ours(s)
    /\ evicting' = [evicting EXCEPT ![s] = "closing"]
    /\ rooms' = [rooms EXCEPT ![s] = {}]
    /\ lookup' = [lookup EXCEPT ![s] = NoLookup]
    /\ UNCHANGED <<tableVars, stage, target, created, handler, at, knows, troubles>>

Evicted(s) == {p \in Peer : at[p] = s /\ p \notin rooms[s]}

Cut(peers) ==
    LET cut == {b \in Browser : \E p \in peers : p[1] = b /\ Connected(p)} IN
    /\ stage' = [b \in Browser |-> IF b \in cut THEN "seeking" ELSE stage[b]]
    /\ target' = [b \in Browser |-> IF b \in cut THEN None ELSE target[b]]

CloseEvicted(s) ==
    /\ evicting[s] = "closing"
    /\ Cut(Evicted(s))
    /\ evicting' = [evicting EXCEPT ![s] = "idle"]
    /\ UNCHANGED <<tableVars, lookup, created, rooms, handler, at, knows, troubles>>

----------------------------------------------------------------------------
(* What goes wrong. *)

(* The socket breaks on the way; the node notices later. *)
Disconnect(b) ==
    /\ stage[b] = "connected"
    /\ Trouble
    /\ Seek(b)
    /\ UNCHANGED <<tableVars, lookup, created, hubVars>>

(***************************************************************************)
(* The node stops, with its handlers and sockets; lookups it was serving   *)
(* for browsers come to nothing.                                           *)
(***************************************************************************)
Stop(s) ==
    /\ s \in up
    /\ Trouble
    /\ up' = up \ {s}
    /\ \E served \in SUBSET {b \in Browser : stage[b] = "waiting"} :
           LET mine == {p \in Peer : at[p] = s}
               cut == {b \in Browser : b \in served \/
                                       \E p \in mine : p[1] = b /\ Connected(p)} IN
           /\ stage' = [b \in Browser |-> IF b \in cut THEN "seeking" ELSE stage[b]]
           /\ target' = [b \in Browser |-> IF b \in cut THEN None ELSE target[b]]
           /\ lookup' = [t \in Threads |->
                            IF t \in served \cup {s} THEN NoLookup ELSE lookup[t]]
           /\ handler' = [p \in Peer |-> IF p \in mine THEN "none" ELSE handler[p]]
           /\ at' = [p \in Peer |-> IF p \in mine THEN None ELSE at[p]]
           /\ knows' = [p \in Peer |-> IF p \in mine THEN {} ELSE knows[p]]
    /\ rooms' = [rooms EXCEPT ![s] = {}]
    /\ evicting' = [evicting EXCEPT ![s] = "idle"]
    /\ UNCHANGED <<beat, row, created>>

Restart(s) ==
    /\ s \notin up
    /\ up' = up \cup {s}
    /\ UNCHANGED <<beat, row, browserVars, hubVars, troubles>>

----------------------------------------------------------------------------
Nodes(s) ==
    \/ Forgotten(s) \/ Heartbeat(s) \/ EvictTick(s) \/ KeepRoom(s)
    \/ EvictRoom(s) \/ CloseEvicted(s)

Joining(b) ==
    \/ AskForRoom(b) \/ RoomFound(b) \/ RoomNotFound(b)
    \/ PassGate(b) \/ TurnedAway(b) \/ Join(b) \/ UpgradeFails(b)

Handler(p) == Welcome(p) \/ WelcomeFails(p) \/ SayPeerLeft(p) \/ RemovePeer(p)

Next ==
    \/ \E s \in Server : Nodes(s) \/ Lapse(s) \/ Stop(s) \/ Restart(s)
    \/ \E t \in Threads : Lookup(t) \/ MoveMaybe(t)
    \/ \E b \in Browser :
           \/ ChooseServer(b) \/ Created(b) \/ NameTaken(b) \/ CreateMaybe(b)
           \/ Visit(b) \/ Joining(b) \/ Disconnect(b)
    \/ \E p \in Peer : Handler(p)

Spec == Init /\ [][Next]_vars

Fairness ==
    /\ \A s \in Server :
           /\ WF_vars(Forgotten(s)) /\ WF_vars(Heartbeat(s))
           /\ WF_vars(EvictTick(s) \/ KeepRoom(s) \/ EvictRoom(s) \/ CloseEvicted(s))
    /\ \A t \in Threads : WF_vars(Lookup(t))
    /\ \A b \in Browser : WF_vars(Joining(b))
    /\ \A p \in Peer : WF_vars(Handler(p))

FairSpec == Spec /\ Fairness
==============================================================================
