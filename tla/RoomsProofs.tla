------------------------------ MODULE RoomsProofs ------------------------------
(***************************************************************************)
(* Proofs about the rooms: who creates one, what racing lookups answer,    *)
(* and what handleJoinRoom leaves behind.                                  *)
(***************************************************************************)
EXTENDS RoomsProperties, FiniteSetTheorems, TLAPS

----------------------------------------------------------------------------
(* The invariant.                                                          *)

Stages == {"home", "creating", "elsewhere", "seeking", "waiting", "dialing",
           "upgrading", "connected"}

LookupType ==
    [step : {"listing", "moving", "told", "error"}, server : Server \cup {None},
     current : BOOLEAN, calm : BOOLEAN]

RoomTypes ==
    /\ up \subseteq Server
    /\ beat \in [Server -> {"fresh", "expiring", "expired"}]
    /\ row \in Server \cup {None}
    /\ stage \in [Browser -> Stages]
    /\ target \in [Browser -> Server \cup Tabs \cup {None}]
    /\ lookup \in [Threads -> {NoLookup} \cup LookupType]
    /\ rooms \in [Server -> SUBSET Peer]
    /\ handler \in [Peer -> {"none", "welcoming", "open", "leaving"}]
    /\ at \in [Peer -> Server \cup {None}]

(***************************************************************************)
(* The row of the room exists from the first creation on, nobody writes    *)
(* None into it, and nobody looks for the room before.                     *)
(***************************************************************************)
NotCreated ==
    /\ \A b \in Browser : stage[b] \in {"home", "creating", "elsewhere"}
    /\ \A t \in Threads : lookup[t] = NoLookup
    /\ \A s \in Server : rooms[s] = {}

CreationInv ==
    /\ row = None => NotCreated
    /\ \A b \in Browser : stage[b] = "creating" => target[b] \in Server
    /\ \A t \in Threads : In(t, "moving") => lookup[t].server \in Server
    /\ created # {} => row # None
    /\ created = {} \/ \E b \in Browser : created = {b}

(***************************************************************************)
(* A calm lookup is one of many that see the same live nodes: one that has *)
(* read the row in its present version knows it; one whose version is old  *)
(* has read a node that was dead, and so was whatever a node that moves    *)
(* the room moves it from.                                                 *)
(***************************************************************************)
Fresh == {s \in Server : beat[s] = "fresh"}

Active(t) == lookup[t].step \in {"listing", "moving"}

LookupsInv ==
    /\ (\E t \in Threads : Active(t) /\ lookup[t].calm) => Calm
    /\ \A t \in Threads : In(t, "listing") =>
           /\ lookup[t].current => lookup[t].server = row
           /\ lookup[t].calm /\ ~lookup[t].current => lookup[t].server \notin Fresh
    /\ \A t \in Threads :
           In(t, "moving") /\ lookup[t].calm /\ lookup[t].current => row \notin Fresh

RoomsInv == RoomTypes /\ CreationInv /\ LookupsInv /\ NoLeakedPeers

----------------------------------------------------------------------------
(* Types.                                                                  *)

LEMMA LookupSteps ==
    ASSUME RoomTypes, NEW t \in Threads
    PROVE  /\ lookup[t] \in {NoLookup} \cup LookupType
           /\ lookup[t].step # "none" => lookup[t] \in LookupType
           /\ NoLookup \notin LookupType
           /\ NoLookup.step = "none"
BY DEF RoomTypes, NoLookup, LookupType

LEMMA AnswerSteps ==
    \A server, step : Answer(server, step).step = step /\ Answer(server, step).server = server
BY DEF Answer

LEMMA AnswersAreLookups ==
    ASSUME NEW server \in Server \cup {None}, NEW step \in {"told", "error"}
    PROVE  Answer(server, step) \in LookupType
BY DEF Answer, LookupType

LEMMA DisturbedTypes ==
    ASSUME RoomTypes
    PROVE  Disturbed \in [Threads -> {NoLookup} \cup LookupType]
BY DEF RoomTypes, Disturbed, LookupType

LEMMA OvertakenTypes ==
    ASSUME NEW look \in [Threads -> {NoLookup} \cup LookupType]
    PROVE  Overtaken(look) \in [Threads -> {NoLookup} \cup LookupType]
BY DEF Overtaken, LookupType

LEMMA NewPeerIsPeer ==
    ASSUME NEW b \in Browser, NEW p \in NewPeer(b)
    PROVE  p \in Peer /\ p[2] \in Tabs /\ handler[p] = "none"
<1>1. PICK i \in Tabs : handler[<<b, i>>] = "none" /\ p = <<b, i>>
  BY DEF NewPeer
<1> QED
  BY <1>1 DEF Peer

LEMMA LookupKeepsTypes ==
    ASSUME RoomTypes, NEW t \in Threads, Lookup(t) \/ MoveMaybe(t)
    PROVE  RoomTypes'
<1>1. lookup[t] \in LookupType
  <2>1. lookup[t].step # "none"
    BY DEF Lookup, ListLive, Moved, MoveConflict, MoveMaybe, In
  <2> QED
    BY <2>1, LookupSteps
<1>2. UNCHANGED <<up, beat, stage, target, rooms, handler, at>>
  BY DEF Lookup, ListLive, Moved, MoveConflict, MoveMaybe, tableVars, hubVars
<1>3. /\ lookup \in [Threads -> {NoLookup} \cup LookupType]
      /\ lookup[t].server \in Server \cup {None} /\ lookup[t].calm \in BOOLEAN
      /\ row \in Server \cup {None}
  BY <1>1 DEF RoomTypes, LookupType
<1>4. \A v \in LookupType :
          [lookup EXCEPT ![t] = v] \in [Threads -> {NoLookup} \cup LookupType]
  BY <1>3
<1>5. CASE ListLive(t)
  <2>1. row' = row
    BY <1>5 DEF ListLive, tableVars
  <2>2. PICK live \in LiveSets :
            \/ Tell(t, lookup[t].server)
            \/ NoAnswer(t)
            \/ \E new \in live :
                   lookup' = [lookup EXCEPT ![t].step = "moving", ![t].server = new]
    BY <1>5 DEF ListLive
  <2>3. live \subseteq Server
    BY DEF LiveSets
  <2>4. CASE Tell(t, lookup[t].server)
    BY <1>2, <1>3, <1>4, <2>1, <2>4, AnswersAreLookups DEF Tell, RoomTypes
  <2>5. CASE NoAnswer(t)
    BY <1>2, <1>3, <1>4, <2>1, <2>5, AnswersAreLookups DEF NoAnswer, RoomTypes
  <2>6. ASSUME NEW new \in live,
               lookup' = [lookup EXCEPT ![t].step = "moving", ![t].server = new]
        PROVE  RoomTypes'
    <3>1. PICK v : v = [lookup[t] EXCEPT !.step = "moving", !.server = new]
      OBVIOUS
    <3>2. v \in LookupType
      BY <1>1, <2>3, <3>1 DEF LookupType
    <3>3. lookup' = [lookup EXCEPT ![t] = v]
      BY <1>1, <1>3, <2>6, <3>1 DEF LookupType
    <3> QED
      BY <1>2, <1>3, <1>4, <2>1, <3>2, <3>3 DEF RoomTypes
  <2> QED
    BY <2>2, <2>4, <2>5, <2>6
<1>6. CASE Moved(t)
  <2>1. Answer(lookup[t].server, "told") \in LookupType
    BY <1>3, AnswersAreLookups
  <2>2. lookup' \in [Threads -> {NoLookup} \cup LookupType]
    BY <1>4, <1>6, <2>1, OvertakenTypes DEF Moved
  <2> QED
    BY <1>2, <1>3, <1>6, <2>2 DEF Moved, RoomTypes
<1>7. CASE MoveConflict(t)
  <2>1. ReadRow(lookup[t].calm) \in LookupType
    BY <1>3 DEF ReadRow, LookupType
  <2>2. lookup' \in [Threads -> {NoLookup} \cup LookupType] /\ row' = row
    BY <1>4, <1>7, <2>1 DEF MoveConflict, Raced, tableVars
  <2> QED
    BY <1>2, <2>2 DEF RoomTypes
<1>8. CASE MoveMaybe(t)
  <2>1. Answer(None, "error") \in LookupType
    BY AnswersAreLookups
  <2>2. [lookup EXCEPT ![t] = Answer(None, "error")]
            \in [Threads -> {NoLookup} \cup LookupType]
    BY <1>4, <2>1
  <2>3. lookup' \in [Threads -> {NoLookup} \cup LookupType]
    BY <1>8, <2>2, OvertakenTypes DEF MoveMaybe, NoAnswer
  <2>4. row' \in {row, lookup[t].server}
    BY <1>8 DEF MoveMaybe
  <2> QED
    BY <1>2, <1>3, <2>3, <2>4 DEF RoomTypes
<1> QED
  BY <1>5, <1>6, <1>7, <1>8 DEF Lookup

LEMMA NextRoomTypes ==
    ASSUME RoomTypes, CreationInv, [Next]_vars
    PROVE  RoomTypes'
<1>1. CASE UNCHANGED vars
  BY <1>1 DEF vars, tableVars, browserVars, hubVars, RoomTypes
<1>2. ASSUME NEW t \in Threads, Lookup(t) \/ MoveMaybe(t) PROVE RoomTypes'
  BY <1>2, LookupKeepsTypes
<1>3. ASSUME NEW s \in Server, Forgotten(s) \/ Lapse(s) \/ Heartbeat(s)
      PROVE  RoomTypes'
  <2>1. /\ beat' \in [Server -> {"fresh", "expiring", "expired"}]
        /\ lookup' = Disturbed
        /\ UNCHANGED <<up, row, stage, target, rooms, handler, at>>
    BY <1>3 DEF Forgotten, Lapse, Heartbeat, Age, Older, hubVars, RoomTypes
  <2> QED
    BY <2>1, DisturbedTypes DEF RoomTypes
<1>4. ASSUME NEW s \in Server, EvictTick(s) \/ KeepRoom(s) \/ EvictRoom(s)
      PROVE  RoomTypes'
  <2>1. s \in Threads
    BY DEF Threads
  <2>2. ReadRow(Calm) \in LookupType
    BY DEF ReadRow, LookupType, RoomTypes, Calm
  <2>3. lookup' \in [Threads -> {NoLookup} \cup LookupType]
    BY <1>4, <2>1, <2>2 DEF EvictTick, KeepRoom, EvictRoom, RoomTypes
  <2>4. rooms' \in [Server -> SUBSET Peer]
    BY <1>4 DEF EvictTick, KeepRoom, EvictRoom, RoomTypes
  <2> QED
    BY <1>4, <2>3, <2>4 DEF EvictTick, KeepRoom, EvictRoom, tableVars, RoomTypes
<1>5. ASSUME NEW s \in Server, CloseEvicted(s) PROVE RoomTypes'
  <2>1. /\ stage' \in [Browser -> Stages]
        /\ target' \in [Browser -> Server \cup Tabs \cup {None}]
    BY <1>5 DEF CloseEvicted, Cut, Stages, RoomTypes
  <2> QED
    BY <1>5, <2>1 DEF CloseEvicted, tableVars, RoomTypes
<1>6. ASSUME NEW s \in Server, Stop(s) PROVE RoomTypes'
  <2>1. /\ stage' \in [Browser -> Stages]
        /\ target' \in [Browser -> Server \cup Tabs \cup {None}]
    BY <1>6 DEF Stop, Stages, RoomTypes
  <2>2. lookup' \in [Threads -> {NoLookup} \cup LookupType]
    BY <1>6 DEF Stop, RoomTypes
  <2>3. /\ handler' \in [Peer -> {"none", "welcoming", "open", "leaving"}]
        /\ at' \in [Peer -> Server \cup {None}]
    BY <1>6 DEF Stop, RoomTypes
  <2>4. rooms' \in [Server -> SUBSET Peer] /\ up' \subseteq Server
    BY <1>6 DEF Stop, RoomTypes
  <2> QED
    BY <1>6, <2>1, <2>2, <2>3, <2>4 DEF Stop, RoomTypes
<1>7. ASSUME NEW s \in Server, Restart(s) PROVE RoomTypes'
  BY <1>7 DEF Restart, browserVars, hubVars, RoomTypes
<1>8. ASSUME NEW b \in Browser,
             ChooseServer(b) \/ Created(b) \/ NameTaken(b) \/ CreateMaybe(b) \/ Visit(b)
      PROVE  RoomTypes'
  <2>1. target' \in [Browser -> Server \cup Tabs \cup {None}]
    BY <1>8 DEF ChooseServer, Created, NameTaken, CreateMaybe, Rejected, Visit,
                LiveSets, RoomTypes
  <2>2. stage' \in [Browser -> Stages]
    BY <1>8 DEF ChooseServer, Created, NameTaken, CreateMaybe, Rejected, Visit,
                Stages, RoomTypes
  <2>3. row' \in Server \cup {None}
    BY <1>8 DEF ChooseServer, Created, NameTaken, CreateMaybe, Visit, tableVars,
                CreationInv, RoomTypes
  <2>4. UNCHANGED <<up, beat, lookup, rooms, handler, at>>
    BY <1>8 DEF ChooseServer, Created, NameTaken, CreateMaybe, Visit, tableVars, hubVars
  <2> QED
    BY <2>1, <2>2, <2>3, <2>4 DEF RoomTypes
<1>9. ASSUME NEW b \in Browser, AskForRoom(b) \/ RoomFound(b) \/ RoomNotFound(b)
      PROVE  RoomTypes'
  <2>1. b \in Threads
    BY DEF Threads
  <2>2. ReadRow(Calm) \in LookupType
    BY DEF ReadRow, LookupType, RoomTypes, Calm
  <2>3. lookup' \in [Threads -> {NoLookup} \cup LookupType]
    BY <1>9, <2>1, <2>2 DEF AskForRoom, RoomFound, RoomNotFound, RoomTypes
  <2>4. stage' \in [Browser -> Stages]
    BY <1>9 DEF AskForRoom, RoomFound, RoomNotFound, Stages, RoomTypes
  <2>5. target' \in [Browser -> Server \cup Tabs \cup {None}]
    <3>1. RoomFound(b) => lookup[b].server \in Server \cup {None}
      BY <2>1, LookupSteps DEF RoomFound, In, LookupType
    <3> QED
      BY <1>9, <3>1 DEF AskForRoom, RoomFound, RoomNotFound, RoomTypes
  <2> QED
    BY <1>9, <2>3, <2>4, <2>5
    DEF AskForRoom, RoomFound, RoomNotFound, tableVars, hubVars, RoomTypes
<1>10. ASSUME NEW b \in Browser,
              PassGate(b) \/ TurnedAway(b) \/ UpgradeFails(b) \/ Disconnect(b)
       PROVE  RoomTypes'
  <2>1. stage' \in [Browser -> Stages]
    BY <1>10 DEF PassGate, TurnedAway, UpgradeFails, Disconnect, Seek, Stages, RoomTypes
  <2>2. target' \in [Browser -> Server \cup Tabs \cup {None}]
    BY <1>10 DEF PassGate, TurnedAway, UpgradeFails, Disconnect, Seek, RoomTypes
  <2> QED
    BY <1>10, <2>1, <2>2
    DEF PassGate, TurnedAway, UpgradeFails, Disconnect, tableVars, hubVars, RoomTypes
<1>11. ASSUME NEW b \in Browser, Join(b) PROVE RoomTypes'
  <2>1. PICK p \in NewPeer(b) :
            /\ rooms' = [rooms EXCEPT ![target[b]] = @ \cup {p}]
            /\ handler' = [handler EXCEPT ![p] = "welcoming"]
            /\ at' = [at EXCEPT ![p] = target[b]]
            /\ target' = [target EXCEPT ![b] = p[2]]
    BY <1>11 DEF Join
  <2>2. p \in Peer /\ p[2] \in Tabs
    BY NewPeerIsPeer
  <2>3. target[b] \in Server
    BY <1>11 DEF Join, RoomTypes
  <2>4. /\ rooms' \in [Server -> SUBSET Peer]
        /\ handler' \in [Peer -> {"none", "welcoming", "open", "leaving"}]
        /\ at' \in [Peer -> Server \cup {None}]
        /\ target' \in [Browser -> Server \cup Tabs \cup {None}]
    BY <2>1, <2>2, <2>3 DEF RoomTypes
  <2>5. stage' \in [Browser -> Stages]
    BY <1>11 DEF Join, Stages, RoomTypes
  <2> QED
    BY <1>11, <2>4, <2>5 DEF Join, tableVars, RoomTypes
<1>12. ASSUME NEW p \in Peer, Handler(p) PROVE RoomTypes'
  <2>1. /\ rooms' \in [Server -> SUBSET Peer]
        /\ handler' \in [Peer -> {"none", "welcoming", "open", "leaving"}]
        /\ at' \in [Peer -> Server \cup {None}]
    BY <1>12 DEF Handler, Welcome, WelcomeFails, SayPeerLeft, RemovePeer, Removed,
                 EndHandler, RoomTypes
  <2> QED
    BY <1>12, <2>1 DEF Handler, Welcome, WelcomeFails, SayPeerLeft, RemovePeer,
                       tableVars, browserVars, RoomTypes
<1> QED
  BY <1>1, <1>2, <1>3, <1>4, <1>5, <1>6, <1>7, <1>8, <1>9, <1>10, <1>11, <1>12
  DEF Next, Nodes, Joining

----------------------------------------------------------------------------
(* The peers in the rooms.                                                 *)

LEMMA NextNoLeakedPeers ==
    ASSUME RoomTypes, NoLeakedPeers, [Next]_vars
    PROVE  NoLeakedPeers'
<1>1. CASE UNCHANGED <<rooms, handler, at>>
  BY <1>1 DEF NoLeakedPeers
<1>2. ASSUME NEW s \in Server, EvictRoom(s) PROVE NoLeakedPeers'
  BY <1>2 DEF EvictRoom, NoLeakedPeers, RoomTypes
<1>3. ASSUME NEW s \in Server, Stop(s) PROVE NoLeakedPeers'
  <2>1. /\ \A r \in Server : rooms'[r] = IF r = s THEN {} ELSE rooms[r]
        /\ \A p \in Peer : at[p] # s => handler'[p] = handler[p] /\ at'[p] = at[p]
    BY <1>3 DEF Stop, RoomTypes
  <2>2. \A r \in Server : rooms[r] \subseteq Peer
    BY DEF RoomTypes
  <2> QED
    BY <2>1, <2>2 DEF NoLeakedPeers
<1>4. ASSUME NEW b \in Browser, Join(b) PROVE NoLeakedPeers'
  <2>1. PICK p \in NewPeer(b) :
            /\ rooms' = [rooms EXCEPT ![target[b]] = @ \cup {p}]
            /\ handler' = [handler EXCEPT ![p] = "welcoming"]
            /\ at' = [at EXCEPT ![p] = target[b]]
    BY <1>4 DEF Join
  <2>2. p \in Peer /\ handler[p] = "none"
    BY NewPeerIsPeer
  <2>3. \A r \in Server : p \notin rooms[r]
    BY <2>2 DEF NoLeakedPeers
  <2>4. /\ handler'[p] = "welcoming" /\ at'[p] = target[b]
        /\ \A q \in Peer : q # p => handler'[q] = handler[q] /\ at'[q] = at[q]
    BY <2>1, <2>2 DEF RoomTypes
  <2>5. \A r \in Server : /\ rooms[r] \subseteq Peer
                          /\ rooms'[r] = IF r = target[b] THEN rooms[r] \cup {p}
                                         ELSE rooms[r]
    BY <2>1 DEF RoomTypes
  <2> SUFFICES ASSUME NEW r \in Server, NEW q \in rooms'[r]
               PROVE  handler'[q] # "none" /\ at'[q] = r
    BY DEF NoLeakedPeers
  <2>6. CASE q = p
    BY <2>3, <2>4, <2>5, <2>6
  <2>7. CASE q # p
    <3>1. q \in rooms[r] /\ q \in Peer
      BY <2>5, <2>7
    <3> QED
      BY <2>4, <2>7, <3>1 DEF NoLeakedPeers
  <2> QED
    BY <2>6, <2>7
<1>5. ASSUME NEW p \in Peer, Welcome(p) \/ SayPeerLeft(p) PROVE NoLeakedPeers'
  <2>1. /\ UNCHANGED <<rooms, at>>
        /\ \A q \in Peer : handler'[q] # handler[q] => handler'[q] # "none"
    BY <1>5 DEF Welcome, SayPeerLeft, RoomTypes
  <2>2. \A r \in Server : rooms[r] \subseteq Peer
    BY DEF RoomTypes
  <2> QED
    BY <2>1, <2>2 DEF NoLeakedPeers
<1>6. ASSUME NEW p \in Peer, WelcomeFails(p) \/ RemovePeer(p) PROVE NoLeakedPeers'
  <2>1. /\ rooms' = [rooms EXCEPT ![at[p]] = @ \ {p}]
        /\ handler' = [handler EXCEPT ![p] = "none"]
        /\ at' = [at EXCEPT ![p] = None]
    BY <1>6 DEF WelcomeFails, RemovePeer, Removed, EndHandler
  <2>2. \A q \in Peer : q # p => handler'[q] = handler[q] /\ at'[q] = at[q]
    BY <2>1 DEF RoomTypes
  <2>3. \A r \in Server :
            /\ rooms[r] \subseteq Peer
            /\ rooms'[r] = IF r = at[p] THEN rooms[r] \ {p} ELSE rooms[r]
    BY <2>1 DEF RoomTypes
  <2>4. \A r \in Server : p \notin rooms'[r] /\ rooms'[r] \subseteq rooms[r]
    BY <2>3 DEF NoLeakedPeers
  <2> QED
    BY <2>2, <2>3, <2>4 DEF NoLeakedPeers
<1>7. ASSUME NEW s \in Server,
             \/ Forgotten(s) \/ Lapse(s) \/ Heartbeat(s) \/ EvictTick(s)
             \/ KeepRoom(s) \/ CloseEvicted(s) \/ Restart(s)
      PROVE  UNCHANGED <<rooms, handler, at>>
  BY <1>7 DEF Forgotten, Lapse, Heartbeat, Age, EvictTick, KeepRoom, CloseEvicted,
              Restart, hubVars
<1>8. ASSUME NEW t \in Threads, Lookup(t) \/ MoveMaybe(t)
      PROVE  UNCHANGED <<rooms, handler, at>>
  BY <1>8 DEF Lookup, ListLive, Moved, MoveConflict, MoveMaybe, hubVars
<1>9. ASSUME NEW b \in Browser,
             \/ ChooseServer(b) \/ Created(b) \/ NameTaken(b) \/ CreateMaybe(b)
             \/ Visit(b) \/ AskForRoom(b) \/ RoomFound(b) \/ RoomNotFound(b)
             \/ PassGate(b) \/ TurnedAway(b) \/ UpgradeFails(b) \/ Disconnect(b)
      PROVE  UNCHANGED <<rooms, handler, at>>
  BY <1>9 DEF ChooseServer, Created, NameTaken, CreateMaybe, Visit, AskForRoom,
              RoomFound, RoomNotFound, PassGate, TurnedAway, UpgradeFails,
              Disconnect, hubVars
<1>10. CASE UNCHANGED vars
  BY <1>1, <1>10 DEF vars, hubVars
<1> QED
  BY <1>1, <1>2, <1>3, <1>4, <1>5, <1>6, <1>7, <1>8, <1>9, <1>10
  DEF Next, Nodes, Joining, Handler

----------------------------------------------------------------------------
(* The creation of the room.                                               *)

LEMMA DisturbedKeeps ==
    ASSUME RoomTypes, NEW t \in Threads
    PROVE  /\ Disturbed[t].step = lookup[t].step
           /\ lookup[t].step # "none" =>
                  /\ Disturbed[t].server = lookup[t].server
                  /\ Disturbed[t].current = lookup[t].current
                  /\ ~Disturbed[t].calm
BY LookupSteps DEF Disturbed, LookupType

LEMMA OvertakenKeeps ==
    ASSUME NEW look \in [Threads -> {NoLookup} \cup LookupType], NEW t \in Threads
    PROVE  /\ Overtaken(look)[t].step = look[t].step
           /\ look[t].step # "none" =>
                  /\ Overtaken(look)[t].server = look[t].server
                  /\ ~Overtaken(look)[t].current
                  /\ Overtaken(look)[t].calm = look[t].calm
BY DEF Overtaken, LookupType, NoLookup

(* What the steps do to the row and to the lookups of it. *)
KeepsLookups ==
    /\ UNCHANGED <<row, beat>>
    /\ \A t \in Threads : lookup'[t] \in {lookup[t], NoLookup, ReadRow(Calm)}

CreatesRoom(b) ==
    /\ row = None
    /\ row' = target[b] /\ target[b] \in Server
    /\ UNCHANGED <<beat, lookup>>

Writes(t) ==
    /\ In(t, "moving") /\ lookup[t].current
    /\ row' = lookup[t].server /\ beat' = beat
    /\ lookup'[t].step \in {"told", "error"}
    /\ lookup'[t].step = "told" => lookup'[t].server = lookup[t].server
    /\ \A u \in Threads : u # t =>
           /\ lookup'[u].step = lookup[u].step
           /\ lookup[u].step # "none" =>
                  /\ lookup'[u].server = lookup[u].server
                  /\ ~lookup'[u].current
                  /\ lookup'[u].calm = lookup[u].calm

TakeOver(look, new) == [look EXCEPT !.step = "moving", !.server = new]

Others(t) == \A u \in Threads : u # t => lookup'[u] = lookup[u]

Lists(t) ==
    /\ UNCHANGED <<row, beat>> /\ Others(t)
    /\ In(t, "listing") /\ lookup[t] \in LookupType
    /\ \E live \in LiveSets :
           \/ lookup'[t] = Answer(lookup[t].server, "told") /\ lookup[t].server \in live
           \/ lookup'[t] = Answer(None, "error")
           \/ /\ lookup[t].server \notin live
              /\ \E new \in live : lookup'[t] = TakeOver(lookup[t], new)

Retries(t) ==
    /\ UNCHANGED <<row, beat>> /\ Others(t)
    /\ In(t, "moving") /\ lookup[t] \in LookupType
    /\ lookup'[t] \in {ReadRow(lookup[t].calm), Answer(None, "error")}

LEMMA LookupEffects ==
    ASSUME RoomTypes, NEW t \in Threads, Lookup(t) \/ MoveMaybe(t)
    PROVE  Lists(t) \/ Writes(t) \/ Retries(t)
<1>1. lookup[t] \in LookupType
  <2>1. lookup[t].step # "none"
    BY DEF Lookup, ListLive, Moved, MoveConflict, MoveMaybe, In
  <2> QED
    BY <2>1, LookupSteps
<1>2. lookup \in [Threads -> {NoLookup} \cup LookupType]
  BY DEF RoomTypes
<1>3. \A v : /\ [lookup EXCEPT ![t] = v][t] = v
             /\ \A u \in Threads : u # t => [lookup EXCEPT ![t] = v][u] = lookup[u]
  BY <1>2
<1>4. \A v \in LookupType :
          [lookup EXCEPT ![t] = v] \in [Threads -> {NoLookup} \cup LookupType]
  BY <1>2
<1>5. beat' = beat
  BY DEF Lookup, ListLive, Moved, MoveConflict, MoveMaybe, tableVars
<1>6. ASSUME NEW v \in LookupType, v.step \in {"told", "error"},
             v.step = "told" => v.server = lookup[t].server,
             In(t, "moving"), lookup[t].current, row' = lookup[t].server,
             lookup' = Overtaken([lookup EXCEPT ![t] = v])
      PROVE  Writes(t)
  <2> DEFINE look == [lookup EXCEPT ![t] = v]
  <2>1. look \in [Threads -> {NoLookup} \cup LookupType]
    BY <1>4
  <2>2. look[t] = v /\ \A u \in Threads : u # t => look[u] = lookup[u]
    BY <1>3
  <2>3. lookup' = Overtaken(look)
    BY <1>6
  <2> HIDE DEF look
  <2>4. \A u \in Threads :
            /\ lookup'[u].step = look[u].step
            /\ look[u].step # "none" =>
                   /\ lookup'[u].server = look[u].server
                   /\ ~lookup'[u].current
                   /\ lookup'[u].calm = look[u].calm
    BY <2>1, <2>3, OvertakenKeeps
  <2>5. lookup'[t].step = v.step /\ lookup'[t].server = v.server
    BY <1>6, <2>2, <2>4
  <2>6. \A u \in Threads : u # t =>
           /\ lookup'[u].step = lookup[u].step
           /\ lookup[u].step # "none" =>
                  /\ lookup'[u].server = lookup[u].server
                  /\ ~lookup'[u].current
                  /\ lookup'[u].calm = lookup[u].calm
    BY <2>2, <2>4
  <2> QED
    BY <1>5, <1>6, <2>5, <2>6 DEF Writes
<1>7. CASE ListLive(t)
  <2>1. PICK live \in LiveSets :
            \/ lookup[t].server \in live /\ Tell(t, lookup[t].server)
            \/ NoAnswer(t)
            \/ /\ lookup[t].server \notin live
               /\ \E new \in live :
                      lookup' = [lookup EXCEPT ![t].step = "moving", ![t].server = new]
    BY <1>7 DEF ListLive
  <2>2. row' = row /\ In(t, "listing")
    BY <1>7 DEF ListLive, tableVars
  <2>3. CASE lookup[t].server \in live /\ Tell(t, lookup[t].server)
    <3>1. lookup'[t] = Answer(lookup[t].server, "told") /\ Others(t)
      BY <1>3, <2>3 DEF Tell, Others
    <3> QED
      BY <1>1, <1>5, <2>2, <2>3, <3>1 DEF Lists
  <2>4. CASE NoAnswer(t)
    <3>1. lookup'[t] = Answer(None, "error") /\ Others(t)
      BY <1>3, <2>4 DEF NoAnswer, Others
    <3> QED
      BY <1>1, <1>5, <2>2, <3>1 DEF Lists
  <2>5. ASSUME lookup[t].server \notin live, NEW new \in live,
               lookup' = [lookup EXCEPT ![t].step = "moving", ![t].server = new]
        PROVE  Lists(t)
    <3>1. PICK v : v = TakeOver(lookup[t], new)
      OBVIOUS
    <3>2. lookup' = [lookup EXCEPT ![t] = v]
      BY <1>1, <1>2, <2>5, <3>1 DEF LookupType, TakeOver
    <3>3. lookup'[t] = v /\ Others(t)
      BY <1>3, <3>2 DEF Others
    <3> QED
      BY <1>1, <1>5, <2>2, <2>5, <3>1, <3>3 DEF Lists
  <2> QED
    BY <2>1, <2>3, <2>4, <2>5
<1>8. CASE Moved(t)
  <2>1. Answer(lookup[t].server, "told") \in LookupType
    BY <1>1, AnswersAreLookups DEF LookupType
  <2>2. /\ Answer(lookup[t].server, "told").step = "told"
        /\ Answer(lookup[t].server, "told").server = lookup[t].server
    BY DEF Answer
  <2>3. /\ In(t, "moving") /\ lookup[t].current /\ row' = lookup[t].server
        /\ lookup' = Overtaken([lookup EXCEPT ![t] = Answer(lookup[t].server, "told")])
    BY <1>2, <1>8 DEF Moved
  <2> QED
    BY <1>6, <2>1, <2>2, <2>3
<1>9. CASE MoveConflict(t)
  <2>1. lookup' = [lookup EXCEPT ![t] = ReadRow(lookup[t].calm)]
    BY <1>2, <1>9 DEF MoveConflict, Raced
  <2>2. lookup'[t] = ReadRow(lookup[t].calm) /\ Others(t)
    BY <1>3, <2>1 DEF Others
  <2> QED
    BY <1>1, <1>5, <1>9, <2>2 DEF Retries, MoveConflict, tableVars
<1>10. CASE MoveMaybe(t) /\ lookup[t].current
  <2>1. Answer(None, "error") \in LookupType /\ Answer(None, "error").step = "error"
    BY AnswersAreLookups DEF Answer
  <2> QED
    BY <1>6, <1>10, <2>1 DEF MoveMaybe
<1>11. CASE MoveMaybe(t) /\ ~lookup[t].current
  <2>1. lookup'[t] = Answer(None, "error") /\ Others(t)
    <3>1. NoAnswer(t)
      BY <1>11 DEF MoveMaybe
    <3> QED
      BY <1>3, <3>1 DEF NoAnswer, Others
  <2> QED
    BY <1>1, <1>5, <1>11, <2>1 DEF Retries, MoveMaybe
<1> QED
  BY <1>7, <1>8, <1>9, <1>10, <1>11 DEF Lookup

LEMMA OtherEffects ==
    ASSUME RoomTypes, CreationInv, [Next]_vars
    PROVE  \/ KeepsLookups
           \/ lookup' = Disturbed /\ row' = row
           \/ \E t \in Threads : Lookup(t) \/ MoveMaybe(t)
           \/ \E b \in Browser : CreatesRoom(b)
<1>1. \A t \in Threads : \A v :
          \A u \in Threads : [lookup EXCEPT ![t] = v][u] \in {lookup[u], v}
  BY DEF RoomTypes
<1>2. ASSUME UNCHANGED <<row, beat, lookup>> PROVE KeepsLookups
  BY <1>2 DEF KeepsLookups
<1>3. ASSUME UNCHANGED <<row, beat>>, NEW t \in Threads, NEW v \in {NoLookup, ReadRow(Calm)},
             lookup' = [lookup EXCEPT ![t] = v]
      PROVE  KeepsLookups
  BY <1>1, <1>3 DEF KeepsLookups
<1>4. ASSUME NEW s \in Server, Forgotten(s) \/ Lapse(s) \/ Heartbeat(s)
      PROVE  lookup' = Disturbed /\ row' = row
  BY <1>4 DEF Forgotten, Lapse, Heartbeat, Age
<1>5. ASSUME NEW s \in Server, EvictTick(s) \/ KeepRoom(s) \/ EvictRoom(s)
      PROVE  KeepsLookups
  <2>1. s \in Threads
    BY DEF Threads
  <2> QED
    BY <1>3, <1>5, <2>1 DEF EvictTick, KeepRoom, EvictRoom, tableVars
<1>6. ASSUME NEW s \in Server, CloseEvicted(s) \/ Restart(s) PROVE KeepsLookups
  BY <1>2, <1>6 DEF CloseEvicted, Restart, tableVars, browserVars
<1>7. ASSUME NEW s \in Server, Stop(s) PROVE KeepsLookups
  <2>1. \A t \in Threads : lookup'[t] \in {lookup[t], NoLookup}
    BY <1>7 DEF Stop
  <2> QED
    BY <1>7, <2>1 DEF Stop, KeepsLookups
<1>8. ASSUME NEW b \in Browser,
             \/ ChooseServer(b) \/ NameTaken(b) \/ Visit(b) \/ PassGate(b)
             \/ TurnedAway(b) \/ Join(b) \/ UpgradeFails(b) \/ Disconnect(b)
      PROVE  KeepsLookups
  BY <1>2, <1>8 DEF ChooseServer, NameTaken, Visit, PassGate, TurnedAway, Join,
                    UpgradeFails, Disconnect, tableVars
<1>9. ASSUME NEW b \in Browser, AskForRoom(b) \/ RoomFound(b) \/ RoomNotFound(b)
      PROVE  KeepsLookups
  <2>1. b \in Threads
    BY DEF Threads
  <2> QED
    BY <1>3, <1>9, <2>1 DEF AskForRoom, RoomFound, RoomNotFound, tableVars
<1>10. ASSUME NEW b \in Browser, Created(b) \/ CreateMaybe(b) PROVE CreatesRoom(b)
  BY <1>10 DEF Created, CreateMaybe, CreatesRoom, CreationInv
<1>11. ASSUME NEW p \in Peer, Handler(p) PROVE KeepsLookups
  BY <1>2, <1>11 DEF Handler, Welcome, WelcomeFails, SayPeerLeft, RemovePeer,
                     tableVars, browserVars
<1>12. CASE UNCHANGED vars
  BY <1>2, <1>12 DEF vars, tableVars, browserVars
<1> QED
  BY <1>4, <1>5, <1>6, <1>7, <1>8, <1>9, <1>10, <1>11, <1>12 DEF Next, Nodes, Joining

LEMMA StaysUnknown ==
    ASSUME RoomTypes, CreationInv, [Next]_vars, row = None, row' = None
    PROVE  NotCreated'
<1>1. NotCreated
  BY DEF CreationInv
<1>2. \A t \in Threads : ~In(t, "moving") /\ ~In(t, "listing")
  BY <1>1 DEF NotCreated, In, NoLookup
<1>3. CASE UNCHANGED <<stage, lookup, rooms>>
  BY <1>1, <1>3 DEF NotCreated
<1>4. ASSUME NEW s \in Server, Forgotten(s) \/ Lapse(s) \/ Heartbeat(s)
      PROVE  NotCreated'
  <2>1. lookup' = Disturbed /\ UNCHANGED <<stage, rooms>>
    BY <1>4 DEF Forgotten, Lapse, Heartbeat, Age, hubVars
  <2>2. \A t \in Threads : lookup'[t] = NoLookup
    BY <1>1, <2>1 DEF Disturbed, NotCreated
  <2> QED
    BY <1>1, <2>1, <2>2 DEF NotCreated
<1>5. ASSUME NEW s \in Server,
             EvictTick(s) \/ KeepRoom(s) \/ EvictRoom(s)
      PROVE  FALSE
  BY <1>1, <1>5 DEF EvictTick, KeepRoom, EvictRoom, In, NotCreated, NoLookup, Threads
<1>6. ASSUME NEW s \in Server, CloseEvicted(s) \/ Stop(s) PROVE NotCreated'
  <2>1. /\ \A b \in Browser : stage[b] \notin {"waiting", "connected"}
        /\ \A p \in Peer : ~Connected(p)
    BY <1>1 DEF NotCreated, Connected, Peer
  <2>2. \A b \in Browser : stage'[b] = stage[b]
    BY <1>6, <2>1 DEF CloseEvicted, Stop, Cut, Evicted
  <2>3. \A r \in Server : rooms'[r] = rooms[r]
    BY <1>1, <1>6 DEF CloseEvicted, Stop, NotCreated, RoomTypes
  <2>4. \A t \in Threads : lookup'[t] = NoLookup
    BY <1>1, <1>6 DEF CloseEvicted, Stop, NotCreated
  <2> QED
    BY <1>1, <2>2, <2>3, <2>4 DEF NotCreated
<1>7. ASSUME NEW b \in Browser, ChooseServer(b) \/ CreateMaybe(b) PROVE NotCreated'
  <2>1. UNCHANGED <<lookup, rooms>>
    BY <1>7 DEF ChooseServer, CreateMaybe, hubVars
  <2>2. \A c \in Browser : stage'[c] \in {stage[c], "creating", "elsewhere"}
    BY <1>7 DEF ChooseServer, CreateMaybe, Rejected, RoomTypes
  <2> QED
    BY <1>1, <2>1, <2>2 DEF NotCreated
<1>8. ASSUME NEW b \in Browser, Created(b) PROVE FALSE
  BY <1>8, RoomsAssumption DEF Created, CreationInv
<1>9. ASSUME NEW b \in Browser,
             \/ NameTaken(b) \/ Visit(b) \/ AskForRoom(b) \/ RoomFound(b)
             \/ RoomNotFound(b) \/ PassGate(b) \/ TurnedAway(b) \/ Join(b)
             \/ UpgradeFails(b) \/ Disconnect(b)
      PROVE  FALSE
  <2>1. stage[b] \in {"home", "creating", "elsewhere"}
    BY <1>1 DEF NotCreated
  <2> QED
    BY <1>9, <2>1 DEF NameTaken, Visit, AskForRoom, RoomFound, RoomNotFound, PassGate,
                      TurnedAway, Join, UpgradeFails, Disconnect
<1>10. ASSUME NEW p \in Peer, Handler(p) PROVE NotCreated'
  <2>1. UNCHANGED <<stage, lookup>>
    BY <1>10 DEF Handler, Welcome, WelcomeFails, SayPeerLeft, RemovePeer, browserVars
  <2>2. \A r \in Server : rooms'[r] \subseteq rooms[r]
    BY <1>10 DEF Handler, Welcome, WelcomeFails, SayPeerLeft, RemovePeer, Removed,
                 RoomTypes
  <2> QED
    BY <1>1, <2>1, <2>2 DEF NotCreated
<1>11. ASSUME NEW t \in Threads, Lookup(t) \/ MoveMaybe(t) PROVE FALSE
  BY <1>2, <1>11 DEF Lookup, ListLive, Moved, MoveConflict, MoveMaybe
<1>12. ASSUME NEW s \in Server, Restart(s) PROVE UNCHANGED <<stage, lookup, rooms>>
  BY <1>12 DEF Restart, browserVars, hubVars
<1>13. CASE UNCHANGED vars
  BY <1>3, <1>13 DEF vars, browserVars, hubVars
<1> QED
  BY <1>3, <1>4, <1>5, <1>6, <1>7, <1>8, <1>9, <1>10, <1>11, <1>12, <1>13
  DEF Next, Nodes, Joining

LEMMA CreatorsChooseNodes ==
    ASSUME RoomTypes, CreationInv, [Next]_vars,
           NEW b \in Browser, stage'[b] = "creating"
    PROVE  target'[b] \in Server
<1>1. CASE UNCHANGED <<stage, target>>
  BY <1>1 DEF CreationInv
<1>2. ASSUME NEW c \in Browser, ChooseServer(c) PROVE target'[b] \in Server
  <2>1. /\ \E s \in Server : target' = [target EXCEPT ![c] = s]
        /\ stage' = [stage EXCEPT ![c] = "creating"]
    BY <1>2 DEF ChooseServer, LiveSets
  <2>2. CASE b = c
    BY <2>1, <2>2 DEF RoomTypes
  <2>3. CASE b # c
    <3>1. stage[b] = "creating" /\ target'[b] = target[b]
      BY <2>1, <2>3 DEF RoomTypes
    <3> QED
      BY <3>1 DEF CreationInv
  <2> QED
    BY <2>2, <2>3
<1>3. ASSUME NEW step \in Stages, step # "creating", NEW v, NEW c \in Browser,
             stage' = [stage EXCEPT ![c] = step],
             target' = target \/ target' = [target EXCEPT ![c] = v]
      PROVE  target'[b] \in Server
  <2>1. b # c
    BY <1>3 DEF RoomTypes
  <2>2. stage[b] = "creating" /\ target'[b] = target[b]
    BY <1>3, <2>1 DEF RoomTypes
  <2> QED
    BY <2>2 DEF CreationInv
<1>4. ASSUME NEW c \in Browser, Created(c) \/ NameTaken(c) \/ CreateMaybe(c) \/ Visit(c)
      PROVE  target'[b] \in Server
  BY <1>3, <1>4 DEF Created, NameTaken, CreateMaybe, Rejected, Visit, Stages
<1>5. ASSUME NEW c \in Browser,
             \/ AskForRoom(c) \/ RoomFound(c) \/ RoomNotFound(c) \/ PassGate(c)
      PROVE  target'[b] \in Server
  BY <1>3, <1>5 DEF AskForRoom, RoomFound, RoomNotFound, PassGate, Stages
<1>6. ASSUME NEW c \in Browser, TurnedAway(c) \/ UpgradeFails(c) \/ Disconnect(c)
      PROVE  target'[b] \in Server
  BY <1>3, <1>6 DEF TurnedAway, UpgradeFails, Disconnect, Seek, Stages
<1>7. ASSUME NEW c \in Browser, Join(c) PROVE target'[b] \in Server
  <2>1. /\ \E p \in NewPeer(c) : target' = [target EXCEPT ![c] = p[2]]
        /\ stage' = [stage EXCEPT ![c] = "connected"]
    BY <1>7 DEF Join
  <2> QED
    BY <1>3, <2>1 DEF Stages
<1>8. ASSUME NEW s \in Server, CloseEvicted(s) \/ Stop(s) PROVE target'[b] \in Server
  <2>1. stage[b] = "creating" /\ target'[b] = target[b]
    BY <1>8 DEF CloseEvicted, Stop, Cut
  <2> QED
    BY <2>1 DEF CreationInv
<1>9. ASSUME NEW s \in Server,
             \/ Forgotten(s) \/ Lapse(s) \/ Heartbeat(s) \/ EvictTick(s)
             \/ KeepRoom(s) \/ EvictRoom(s) \/ Restart(s)
      PROVE  UNCHANGED <<stage, target>>
  BY <1>9 DEF Forgotten, Lapse, Heartbeat, Age, EvictTick, KeepRoom, EvictRoom,
              Restart, browserVars
<1>10. ASSUME NEW t \in Threads, Lookup(t) \/ MoveMaybe(t)
       PROVE  UNCHANGED <<stage, target>>
  BY <1>10 DEF Lookup, ListLive, Moved, MoveConflict, MoveMaybe
<1>11. ASSUME NEW p \in Peer, Handler(p) PROVE UNCHANGED <<stage, target>>
  BY <1>11 DEF Handler, Welcome, WelcomeFails, SayPeerLeft, RemovePeer, browserVars
<1>12. CASE UNCHANGED vars
  BY <1>1, <1>12 DEF vars, browserVars
<1> QED
  BY <1>1, <1>2, <1>4, <1>5, <1>6, <1>7, <1>8, <1>9, <1>10, <1>11, <1>12
  DEF Next, Nodes, Joining

LEMMA WhoIsTold ==
    ASSUME [Next]_vars
    PROVE  \/ created' = created
           \/ \E b \in Browser : row = None /\ row' = target[b]
                                 /\ stage[b] = "creating" /\ created' = created \cup {b}
<1>1. ASSUME NEW s \in Server, Nodes(s) \/ Lapse(s) \/ Stop(s) \/ Restart(s)
      PROVE  created' = created
  BY <1>1 DEF Nodes, Forgotten, Lapse, Heartbeat, Age, EvictTick, KeepRoom, EvictRoom,
              CloseEvicted, Stop, Restart, browserVars
<1>2. ASSUME NEW t \in Threads, Lookup(t) \/ MoveMaybe(t) PROVE created' = created
  BY <1>2 DEF Lookup, ListLive, Moved, MoveConflict, MoveMaybe
<1>3. ASSUME NEW b \in Browser,
             \/ ChooseServer(b) \/ NameTaken(b) \/ CreateMaybe(b) \/ Visit(b)
             \/ Disconnect(b)
      PROVE  created' = created
  BY <1>3 DEF ChooseServer, NameTaken, CreateMaybe, Rejected, Visit, Disconnect
<1>4. ASSUME NEW b \in Browser, Joining(b) PROVE created' = created
  BY <1>4 DEF Joining, AskForRoom, RoomFound, RoomNotFound, PassGate, TurnedAway,
              Join, UpgradeFails
<1>5. ASSUME NEW p \in Peer, Handler(p) PROVE created' = created
  BY <1>5 DEF Handler, Welcome, WelcomeFails, SayPeerLeft, RemovePeer, browserVars
<1>6. CASE UNCHANGED vars
  BY <1>6 DEF vars, browserVars
<1>7. ASSUME NEW b \in Browser, Created(b)
      PROVE  row = None /\ row' = target[b] /\ stage[b] = "creating"
             /\ created' = created \cup {b}
  BY <1>7 DEF Created
<1> QED
  BY <1>1, <1>2, <1>3, <1>4, <1>5, <1>6, <1>7 DEF Next

LEMMA NextCreation ==
    ASSUME RoomTypes, CreationInv, [Next]_vars
    PROVE  CreationInv'
<1>1. \A b \in Browser : stage'[b] = "creating" => target'[b] \in Server
  BY CreatorsChooseNodes
<1>2. \A t \in Threads : In(t, "moving")' => lookup'[t].server \in Server
  <2> SUFFICES ASSUME NEW t \in Threads, lookup'[t].step = "moving"
               PROVE  lookup'[t].server \in Server
    BY DEF In
  <2>1. lookup[t].step = "moving" => lookup[t].server \in Server
    BY DEF CreationInv, In
  <2>2. CASE KeepsLookups
    BY <2>1, <2>2 DEF KeepsLookups, NoLookup, ReadRow
  <2>3. CASE lookup' = Disturbed
    BY <2>1, <2>3, DisturbedKeeps
  <2>4. ASSUME NEW u \in Threads, Lookup(u) \/ MoveMaybe(u)
        PROVE  lookup'[t].server \in Server
    <3>1. CASE Writes(u)
      BY <2>1, <3>1 DEF Writes
    <3>2. CASE Retries(u)
      BY <2>1, <3>2 DEF Retries, Others, ReadRow, Answer
    <3>3. CASE Lists(u)
      <4>1. CASE t # u
        BY <2>1, <3>3, <4>1 DEF Lists, Others
      <4>2. CASE t = u
        <5>1. lookup[t] \in LookupType
          BY <3>3, <4>2 DEF Lists
        <5>2. PICK live \in LiveSets : \E new \in live : lookup'[t] = TakeOver(lookup[t], new)
          <6>1. /\ lookup'[t] # Answer(lookup[t].server, "told")
                /\ lookup'[t] # Answer(None, "error")
            BY AnswerSteps
          <6> QED
            BY <3>3, <4>2, <6>1 DEF Lists
        <5> QED
          BY <5>1, <5>2 DEF LiveSets, LookupType, TakeOver
      <4> QED
        BY <4>1, <4>2
    <3> QED
      BY <2>4, <3>1, <3>2, <3>3, LookupEffects
  <2>5. ASSUME NEW b \in Browser, CreatesRoom(b) PROVE lookup'[t].server \in Server
    BY <2>1, <2>5 DEF CreatesRoom
  <2> QED
    BY <2>2, <2>3, <2>4, <2>5, OtherEffects
<1>3. row # None => row' # None
  <2>1. ASSUME NEW t \in Threads, Lookup(t) \/ MoveMaybe(t) PROVE row' \in {row} \cup Server
    <3>1. In(t, "moving") => lookup[t].server \in Server
      BY DEF CreationInv
    <3> QED
      BY <2>1, <3>1, LookupEffects DEF Lists, Writes, Retries
  <2>2. row' \in {row} \cup Server
    BY <2>1, OtherEffects DEF KeepsLookups, CreatesRoom
  <2> QED
    BY <2>2, RoomsAssumption
<1>4. row' = None => NotCreated'
  BY <1>3, StaysUnknown
<1>5. /\ created' # {} => row' # None
      /\ created' = {} \/ \E b \in Browser : created' = {b}
  <2>1. CASE created' = created
    BY <1>3, <2>1 DEF CreationInv
  <2>2. ASSUME NEW b \in Browser, row = None, row' = target[b], stage[b] = "creating",
               created' = created \cup {b}
        PROVE  created' = {b} /\ row' # None
    BY <2>2, RoomsAssumption DEF CreationInv
  <2> QED
    BY <2>1, <2>2, WhoIsTold
<1> QED
  BY <1>1, <1>2, <1>4, <1>5 DEF CreationInv

----------------------------------------------------------------------------
(* Lookups that see the same live nodes.                                   *)

LEMMA CalmLive ==
    ASSUME RoomTypes, Calm, NEW live \in LiveSets
    PROVE  live = Fresh
BY DEF RoomTypes, Calm, LiveSets, Fresh

LEMMA StaysCalm ==
    ASSUME LookupsInv, beat' = beat,
           \A t \in Threads : Active(t)' => Active(t) /\ lookup'[t].calm = lookup[t].calm
    PROVE  (\E t \in Threads : Active(t) /\ lookup[t].calm)' => Calm'
<1> SUFFICES ASSUME NEW t \in Threads, Active(t)', lookup'[t].calm PROVE Calm'
  OBVIOUS
<1>1. Calm
  BY DEF LookupsInv
<1> QED
  BY <1>1 DEF Calm, Active

LEMMA NextLookups ==
    ASSUME RoomTypes, CreationInv, LookupsInv, [Next]_vars
    PROVE  LookupsInv'
<1> DEFINE Agree(t) ==
        /\ In(t, "listing") =>
               /\ lookup[t].current => lookup[t].server = row
               /\ lookup[t].calm /\ ~lookup[t].current => lookup[t].server \notin Fresh
        /\ In(t, "moving") /\ lookup[t].calm /\ lookup[t].current => row \notin Fresh
<1>1. \A t \in Threads : Agree(t)
  BY DEF LookupsInv
<1>2. ASSUME (\E t \in Threads : Active(t) /\ lookup[t].calm)' => Calm',
             \A t \in Threads : Agree(t)'
      PROVE  LookupsInv'
  BY <1>2 DEF LookupsInv
<1>3. ASSUME beat' = beat PROVE Fresh' = Fresh
  BY <1>3 DEF Fresh
<1>4. CASE KeepsLookups
  <2>1. (\E t \in Threads : Active(t) /\ lookup[t].calm)' => Calm'
    <3> SUFFICES ASSUME NEW t \in Threads, Active(t)', lookup'[t].calm PROVE Calm'
      OBVIOUS
    <3>1. Calm
      BY <1>4 DEF LookupsInv, KeepsLookups, Active, NoLookup, ReadRow
    <3>2. \A u \in Threads : Active(u)' => lookup'[u].calm
      BY <1>4, <3>1 DEF KeepsLookups, Active, NoLookup, ReadRow, Calm
    <3> QED
      BY <1>4, <3>1, <3>2 DEF KeepsLookups, Calm, Active
  <2>2. ASSUME NEW t \in Threads PROVE Agree(t)'
    <3>1. row' = row /\ Fresh' = Fresh /\ Agree(t)
      BY <1>1, <1>3, <1>4 DEF KeepsLookups
    <3>2. CASE lookup'[t] = lookup[t]
      BY <3>1, <3>2 DEF In
    <3>3. CASE lookup'[t] = NoLookup
      BY <3>3 DEF In, NoLookup
    <3>4. CASE lookup'[t] = ReadRow(Calm)
      BY <3>1, <3>4 DEF In, ReadRow
    <3> QED
      BY <1>4, <3>2, <3>3, <3>4 DEF KeepsLookups
  <2> QED
    BY <1>2, <2>1, <2>2
<1>5. CASE lookup' = Disturbed /\ row' = row
  <2>1. \A t \in Threads : /\ lookup'[t].step = lookup[t].step
                           /\ lookup[t].step # "none" =>
                                  /\ lookup'[t].server = lookup[t].server
                                  /\ lookup'[t].current = lookup[t].current
                                  /\ ~lookup'[t].calm
    BY <1>5, DisturbedKeeps
  <2>2. \A t \in Threads : Agree(t)'
    BY <1>1, <1>5, <2>1 DEF In
  <2>3. \A t \in Threads : Active(t)' => ~lookup'[t].calm
    BY <2>1 DEF Active
  <2> QED
    BY <1>2, <2>2, <2>3
<1>6. ASSUME NEW b \in Browser, CreatesRoom(b) PROVE LookupsInv'
  <2>1. \A t \in Threads : lookup'[t] = NoLookup
    BY <1>6 DEF CreatesRoom, CreationInv, NotCreated
  <2> QED
    BY <1>2, <2>1 DEF Active, In, NoLookup
<1>7. ASSUME NEW u \in Threads, Lists(u) PROVE LookupsInv'
  <2>1. row' = row /\ beat' = beat /\ Fresh' = Fresh
    BY <1>3, <1>7 DEF Lists
  <2>2. lookup[u].step = "listing" /\ lookup[u] \in LookupType
    BY <1>7 DEF Lists, In
  <2>3. PICK live \in LiveSets :
           \/ lookup'[u].step \in {"told", "error"}
           \/ /\ lookup[u].server \notin live
              /\ \E new \in live : lookup'[u] = TakeOver(lookup[u], new)
    BY <1>7, AnswerSteps DEF Lists
  <2>4. CASE lookup'[u].step \in {"told", "error"}
    <3>1. \A t \in Threads : Agree(t)'
      BY <1>1, <1>7, <2>1, <2>4 DEF Lists, Others, In
    <3>2. \A t \in Threads :
              Active(t)' => Active(t) /\ lookup'[t].calm = lookup[t].calm
      BY <1>7, <2>4 DEF Lists, Others, Active
    <3> QED
      BY <1>2, <2>1, <3>1, <3>2, StaysCalm
  <2>5. ASSUME lookup[u].server \notin live, NEW new \in live,
               lookup'[u] = TakeOver(lookup[u], new)
        PROVE  LookupsInv'
    <3>1. /\ lookup'[u].step = "moving" /\ lookup'[u].calm = lookup[u].calm
          /\ lookup'[u].current = lookup[u].current
      BY <2>2, <2>5 DEF LookupType, TakeOver
    <3>2. \A t \in Threads :
              Active(t)' => Active(t) /\ lookup'[t].calm = lookup[t].calm
      BY <1>7, <2>2, <3>1 DEF Lists, Others, Active
    <3>3. lookup[u].calm /\ lookup[u].current => row \notin Fresh
      <4> SUFFICES ASSUME lookup[u].calm, lookup[u].current PROVE row \notin Fresh
        OBVIOUS
      <4>1. Calm
        BY <2>2 DEF LookupsInv, Active
      <4>2. lookup[u].server = row
        BY <1>1, <2>2 DEF In
      <4> QED
        BY <2>5, <4>1, <4>2, CalmLive
    <3>4. ASSUME NEW t \in Threads PROVE Agree(t)'
      <4>1. CASE t = u
        BY <2>1, <3>1, <3>3, <4>1 DEF In
      <4>2. CASE t # u
        <5>1. lookup'[t] = lookup[t] /\ Agree(t)
          BY <1>1, <1>7, <4>2 DEF Lists, Others
        <5> QED
          BY <2>1, <5>1 DEF In
      <4> QED
        BY <4>1, <4>2
    <3> QED
      BY <1>2, <2>1, <3>2, <3>4, StaysCalm
  <2> QED
    BY <2>3, <2>4, <2>5
<1>8. ASSUME NEW u \in Threads, Retries(u) PROVE LookupsInv'
  <2>1. row' = row /\ beat' = beat /\ Fresh' = Fresh
    BY <1>3, <1>8 DEF Retries
  <2>2. \A t \in Threads :
            Active(t)' => Active(t) /\ lookup'[t].calm = lookup[t].calm
    BY <1>8 DEF Retries, Others, Active, In, ReadRow, Answer
  <2>3. ASSUME NEW t \in Threads PROVE Agree(t)'
    <3>1. CASE t = u
      BY <1>8, <2>1, <3>1 DEF Retries, In, ReadRow, Answer
    <3>2. CASE t # u
      <4>1. lookup'[t] = lookup[t] /\ Agree(t)
        BY <1>1, <1>8, <3>2 DEF Retries, Others
      <4> QED
        BY <2>1, <4>1 DEF In
    <3> QED
      BY <3>1, <3>2
  <2> QED
    BY <1>2, <2>1, <2>2, <2>3, StaysCalm
<1>9. ASSUME NEW u \in Threads, Writes(u) PROVE LookupsInv'
  <2>1. beat' = beat /\ Fresh' = Fresh
    BY <1>3, <1>9 DEF Writes
  <2>2. \A t \in Threads :
            Active(t)' => Active(t) /\ lookup'[t].calm = lookup[t].calm
    BY <1>9 DEF Writes, Active
  <2>3. ASSUME NEW t \in Threads, Active(t)' PROVE ~lookup'[t].current /\ Active(t) /\ t # u
                                                   /\ lookup'[t].server = lookup[t].server
                                                   /\ lookup'[t].step = lookup[t].step
    BY <1>9, <2>3 DEF Writes, Active
  <2>4. ASSUME NEW t \in Threads, lookup'[t].step = "listing", lookup'[t].calm
        PROVE  lookup'[t].server \notin Fresh
    <3>1. /\ lookup[t].step = "listing" /\ lookup[t].calm
          /\ lookup'[t].server = lookup[t].server
      BY <2>2, <2>3, <2>4 DEF Active
    <3>2. CASE ~lookup[t].current
      BY <1>1, <3>1, <3>2 DEF In
    <3>3. CASE lookup[t].current
      <4>1. Calm
        BY <3>1 DEF LookupsInv, Active
      <4>2. lookup[u].step = "moving" /\ lookup[u].current
        BY <1>9 DEF Writes, In
      <4>3. lookup[u].calm
        BY <4>1, <4>2 DEF Calm
      <4>4. row \notin Fresh
        BY <1>1, <4>2, <4>3 DEF In
      <4>5. lookup[t].server = row
        BY <1>1, <3>1, <3>3 DEF In
      <4> QED
        BY <3>1, <4>4, <4>5
    <3> QED
      BY <3>2, <3>3
  <2>5. ASSUME NEW t \in Threads PROVE Agree(t)'
    BY <2>1, <2>3, <2>4 DEF In, Active
  <2> QED
    BY <1>2, <2>1, <2>2, <2>5, StaysCalm
<1> QED
  BY <1>4, <1>5, <1>6, <1>7, <1>8, <1>9, OtherEffects, LookupEffects

----------------------------------------------------------------------------
(* The theorems.                                                           *)

LEMMA InitRoomsInv == Init => RoomsInv
<1> SUFFICES ASSUME Init PROVE RoomsInv
  OBVIOUS
<1>1. RoomTypes
  BY DEF Init, RoomTypes, Stages
<1>2. \A t \in Threads : lookup[t] = NoLookup
  BY DEF Init
<1>3. CreationInv
  BY <1>2, RoomsAssumption DEF Init, CreationInv, NotCreated, In, NoLookup
<1>4. LookupsInv
  BY <1>2 DEF LookupsInv, Active, In, NoLookup
<1>5. NoLeakedPeers
  BY DEF Init, NoLeakedPeers
<1> QED
  BY <1>1, <1>3, <1>4, <1>5 DEF RoomsInv

LEMMA NextRoomsInv == RoomsInv /\ [Next]_vars => RoomsInv'
BY NextRoomTypes, NextCreation, NextLookups, NextNoLeakedPeers DEF RoomsInv

(***************************************************************************)
(* The invariant of a room of server.go holds in every reachable state.    *)
(***************************************************************************)
THEOREM RoomsInvariance == Spec => []RoomsInv
BY InitRoomsInv, NextRoomsInv, PTL DEF Spec

(***************************************************************************)
(* At most one browser is told that it created the room: handleCreateRoom  *)
(* gives a code out once, whatever the answers to its Puts.                *)
(***************************************************************************)
THEOREM RoomsHaveOneCreator == Spec => []OneCreator
<1>1. RoomsInv => OneCreator
  <2> SUFFICES ASSUME CreationInv PROVE OneCreator
    BY DEF RoomsInv
  <2>1. CASE created = {}
    BY <2>1, FS_EmptySet DEF OneCreator
  <2>2. CASE \E b \in Browser : created = {b}
    BY <2>2, FS_Singleton DEF OneCreator
  <2> QED
    BY <2>1, <2>2 DEF CreationInv
<1> QED
  BY <1>1, RoomsInvariance, PTL

(***************************************************************************)
(* Every peer in the room of a node has a handleJoinRoom there that is     *)
(* still to take it out.                                                   *)
(***************************************************************************)
THEOREM RoomsLeakNoPeers == Spec => []NoLeakedPeers
<1>1. RoomsInv => NoLeakedPeers
  BY DEF RoomsInv
<1> QED
  BY <1>1, RoomsInvariance, PTL

(***************************************************************************)
(* Lookups that race to reassign the room (assignedSignaling), while the   *)
(* nodes agree on who is alive, tell their callers the node it is on.      *)
(***************************************************************************)
THEOREM RacingLookupsAgree == Spec => AnswersAgree
<1> DEFINE Alike ==
        \A t \in Threads : Tells(t) /\ lookup[t].calm => lookup'[t].server = row'
<1>1. RoomsInv /\ [Next]_vars => [Alike]_vars
  <2> SUFFICES ASSUME RoomsInv, [Next]_vars, NEW t \in Threads, Tells(t), lookup[t].calm
               PROVE  lookup'[t].server = row'
    OBVIOUS
  <2>1. RoomTypes /\ CreationInv /\ LookupsInv
    BY DEF RoomsInv
  <2>2. /\ lookup[t].step \in {"listing", "moving"} /\ lookup'[t].step = "told"
        /\ Calm
    BY <2>1 DEF Tells, LookupsInv, Active
  <2>3. ~KeepsLookups
    BY <2>2 DEF KeepsLookups, NoLookup, ReadRow
  <2>4. lookup' # Disturbed
    BY <2>1, <2>2, DisturbedKeeps
  <2>5. \A b \in Browser : ~CreatesRoom(b)
    BY <2>2 DEF CreatesRoom
  <2>6. PICK u \in Threads : Lookup(u) \/ MoveMaybe(u)
    BY <2>1, <2>3, <2>4, <2>5, OtherEffects
  <2>7. CASE Writes(u)
    BY <2>2, <2>7 DEF Writes
  <2>8. CASE Retries(u)
    BY <2>2, <2>8, AnswerSteps DEF Retries, Others, ReadRow
  <2>9. CASE Lists(u)
    <3>1. t = u
      BY <2>2, <2>9 DEF Lists, Others
    <3>2. PICK live \in LiveSets :
              \/ lookup'[t] = Answer(lookup[t].server, "told") /\ lookup[t].server \in live
              \/ lookup'[t].step # "told"
      <4>1. lookup[t] \in LookupType
        BY <2>9, <3>1 DEF Lists
      <4>2. \A new : TakeOver(lookup[t], new).step = "moving"
        BY <4>1 DEF LookupType, TakeOver
      <4> QED
        BY <2>9, <3>1, <4>2, AnswerSteps DEF Lists
    <3>3. lookup'[t].server = lookup[t].server /\ lookup[t].server \in Fresh
      BY <2>1, <2>2, <3>2, CalmLive, AnswerSteps
    <3>4. lookup[t].step = "listing" /\ row' = row
      BY <2>9, <3>1 DEF Lists, In
    <3>5. lookup[t].current
      BY <2>1, <3>3, <3>4 DEF LookupsInv, In
    <3> QED
      BY <2>1, <3>3, <3>4, <3>5 DEF LookupsInv, In
  <2> QED
    BY <2>1, <2>6, <2>7, <2>8, <2>9, LookupEffects
<1>2. Spec => [][Alike]_vars
  BY <1>1, RoomsInvariance, PTL DEF Spec
<1> QED
  BY <1>2 DEF AnswersAgree
==============================================================================
