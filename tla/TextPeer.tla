------------------------------ MODULE TextPeer ------------------------------
(***************************************************************************)
(* Browsers that edit one text: src/web/src/lib/textPeer.ts, on the list   *)
(* of src/crdt and the data channels of src/web/src/lib/rtc.ts, driven by  *)
(* the events and the timer of src/web/src/routes/Room.tsx.                *)
(*                                                                         *)
(* A browser runs one callback at a time, so an action is one callback of  *)
(* one peer.  A data channel is reliable and ordered while it is up; when  *)
(* it goes down, what it still carries is lost.                            *)
(***************************************************************************)
EXTENDS YataList, FiniteSets

CONSTANTS
    MaxInserts,         \* bound: insertions of all peers together
    MaxDeletes,         \* bound: deletions of all peers together
    MaxLinks,           \* bound: data channels ever established
    MaxDrops            \* bound: data channels that go down

ASSUME TextBoundsAssumption ==
    {MaxInserts, MaxDeletes, MaxLinks, MaxDrops} \subseteq Nat

VARIABLES
    text,                   \* the list of each peer
    tombstoneOrder,         \* the tombstones a peer has noted
    lastBroadcastSV,
    broadcastTombstones,    \* those before lastBroadcastTombstoneCount
    linked,                 \* pairs of peers with a data channel
    open,                   \* <<p, q>>: the channel to q is open at p
    channel,                \* what p has sent to q and q has not handled
    inserts, deletes, links, drops      \* what the bounds count

peerVars == <<text, tombstoneOrder, lastBroadcastSV, broadcastTombstones>>
linkVars == <<linked, open, links, drops>>
vars == <<peerVars, linkVars, channel, inserts, deletes>>

NothingSeen == [u \in User |-> 0]

Init ==
    /\ text = [p \in User |-> NewList]
    /\ tombstoneOrder = [p \in User |-> {}]
    /\ lastBroadcastSV = [p \in User |-> NothingSeen]
    /\ broadcastTombstones = [p \in User |-> {}]
    /\ linked = {}
    /\ open = {}
    /\ channel = [c \in User \X User |-> << >>]
    /\ inserts = 0 /\ deletes = 0 /\ links = 0 /\ drops = 0

(***************************************************************************)
(* A peer whose integrate does not return handles no more events.          *)
(***************************************************************************)
Alive(p) == ~text[p].spinning

----------------------------------------------------------------------------
(* Edits: nothing is sent before the next broadcast.                       *)

Insert(p, index) ==
    /\ Alive(p)
    /\ inserts < MaxInserts
    /\ text' = [text EXCEPT ![p] = InsertItem(@, p, index)]
    /\ inserts' = inserts + 1
    /\ UNCHANGED <<tombstoneOrder, lastBroadcastSV, broadcastTombstones,
                   linkVars, channel, deletes>>

Delete(p, index) ==
    /\ Alive(p)
    /\ deletes < MaxDeletes
    /\ text' = [text EXCEPT ![p] = DeleteItem(@, index)]
    /\ tombstoneOrder' = [tombstoneOrder EXCEPT ![p] = @ \cup text'[p].deleted]
    /\ deletes' = deletes + 1
    /\ UNCHANGED <<lastBroadcastSV, broadcastTombstones, linkVars, channel,
                   inserts>>

----------------------------------------------------------------------------
(* Messages.                                                               *)

StateVectorMsg(l) == [kind |-> "stateVector", sv |-> l.stateVector]

UpdateMsg(items, ds) == [kind |-> "update", items |-> items, deletes |-> ds]

SomethingIn(m) == m.items # << >> \/ m.deletes # {}

Unsent(p) ==
    UpdateMsg(MakeUpdate(text[p], lastBroadcastSV[p]),
              tombstoneOrder[p] \ broadcastTombstones[p])

(***************************************************************************)
(* broadcastChanges: the timer fires.  The cursors move on whether or not  *)
(* any channel is open.                                                    *)
(***************************************************************************)
\* Mutant of BroadcastChanges: the cursor skips what arrives meanwhile.
BroadcastChangesLate(p) ==
    /\ Alive(p)
    /\ SomethingIn(Unsent(p))
    /\ channel' = [c \in User \X User |->
                       IF c[1] = p /\ c \in open
                       THEN Append(channel[c], Unsent(p)) ELSE channel[c]]
    /\ lastBroadcastSV' = [lastBroadcastSV EXCEPT ![p] =
                               [u \in User |-> text[p].stateVector[u] + 1]]
    /\ broadcastTombstones' = [broadcastTombstones EXCEPT ![p] = tombstoneOrder[p]]
    /\ UNCHANGED <<text, tombstoneOrder, linkVars, inserts, deletes>>

BroadcastChanges(p) ==
    /\ Alive(p)
    /\ SomethingIn(Unsent(p))
    /\ channel' = [c \in User \X User |->
                       IF c[1] = p /\ c \in open
                       THEN Append(channel[c], Unsent(p)) ELSE channel[c]]
    /\ lastBroadcastSV' = [lastBroadcastSV EXCEPT ![p] = text[p].stateVector]
    /\ broadcastTombstones' = [broadcastTombstones EXCEPT ![p] = tombstoneOrder[p]]
    /\ UNCHANGED <<text, tombstoneOrder, linkVars, inserts, deletes>>

(***************************************************************************)
(* onPeerReady: the channel to q opens at p, which asks q for what it has  *)
(* missed.                                                                 *)
(***************************************************************************)
SyncWithPeer(p, q) ==
    /\ Alive(p)
    /\ {p, q} \in linked
    /\ <<p, q>> \notin open
    /\ open' = open \cup {<<p, q>>}
    /\ channel' = [channel EXCEPT ![<<p, q>>] = Append(@, StateVectorMsg(text[p]))]
    /\ UNCHANGED <<peerVars, linked, links, drops, inserts, deletes>>

(***************************************************************************)
(* handleMessage.  A channel delivers only after it has opened.            *)
(***************************************************************************)
Arrives(q, p) ==
    /\ Alive(p)
    /\ <<p, q>> \in open
    /\ channel[<<q, p>>] # << >>

Taken(q, p) == [channel EXCEPT ![<<q, p>>] = Tail(@)]

HandleStateVector(q, p) ==
    LET m == Head(channel[<<q, p>>])
        reply == UpdateMsg(MakeUpdate(text[p], m.sv), text[p].deleted)
    IN
    /\ Arrives(q, p)
    /\ m.kind = "stateVector"
    /\ channel' = [Taken(q, p) EXCEPT ![<<p, q>>] =
                       IF SomethingIn(reply) THEN Append(@, reply) ELSE @]
    /\ UNCHANGED <<peerVars, linkVars, inserts, deletes>>

(***************************************************************************)
(* An update with an item whose origins stay unknown makes applyUpdate     *)
(* throw: the items integrated so far stay, its tombstones are lost.       *)
(***************************************************************************)
HandleUpdate(q, p) ==
    LET m == Head(channel[<<q, p>>])
        r == ApplyUpdate(text[p], m.items)
        throws == r.pending # << >>
    IN
    /\ Arrives(q, p)
    /\ m.kind = "update"
    /\ channel' = Taken(q, p)
    /\ text' = [text EXCEPT ![p] =
                    IF throws \/ r.list.spinning THEN r.list
                    ELSE ApplyTombstones(r.list, m.deletes)]
    /\ tombstoneOrder' = [tombstoneOrder EXCEPT ![p] =
                    IF throws \/ r.list.spinning THEN @
                    ELSE @ \cup text'[p].deleted]
    /\ UNCHANGED <<lastBroadcastSV, broadcastTombstones, linkVars, inserts,
                   deletes>>

----------------------------------------------------------------------------
(* Data channels come and go, as rtc.ts learns from the browser.           *)

Link(p, q) ==
    /\ p # q
    /\ {p, q} \notin linked
    /\ links < MaxLinks
    /\ linked' = linked \cup {{p, q}}
    /\ links' = links + 1
    /\ UNCHANGED <<peerVars, open, drops, channel, inserts, deletes>>

Unlink(p, q) ==
    /\ {p, q} \in linked
    /\ drops < MaxDrops
    /\ drops' = drops + 1
    /\ linked' = linked \ {{p, q}}
    /\ open' = open \ {<<p, q>>, <<q, p>>}
    /\ channel' = [channel EXCEPT ![<<p, q>>] = << >>, ![<<q, p>>] = << >>]
    /\ UNCHANGED <<peerVars, links, inserts, deletes>>

----------------------------------------------------------------------------

Next ==
    \/ \E p \in User : \E index \in 0 .. Len(Visible(text[p])) : Insert(p, index)
    \/ \E p \in User : \E index \in 0 .. Len(Visible(text[p])) - 1 : Delete(p, index)
    \/ \E p \in User : BroadcastChanges(p)
    \/ \E p, q \in User : SyncWithPeer(p, q)
    \/ \E p, q \in User : HandleStateVector(q, p)
    \/ \E p, q \in User : HandleUpdate(q, p)
    \/ \E p, q \in User : Link(p, q)
    \/ \E p, q \in User : Unlink(p, q)

Spec == Init /\ [][Next]_vars

(***************************************************************************)
(* The timer keeps firing and the event loop keeps delivering.             *)
(***************************************************************************)
Fairness ==
    /\ \A p \in User : WF_vars(BroadcastChanges(p))
    /\ \A p, q \in User :
           /\ WF_vars(SyncWithPeer(p, q))
           /\ WF_vars(HandleStateVector(q, p))
           /\ WF_vars(HandleUpdate(q, p))

FairSpec == Spec /\ Fairness
=============================================================================
