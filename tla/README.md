# Formal model of the cluster editor

The repository is a collaborative text editor. Browsers in a room keep one
text in step by sending each other CRDT updates over WebRTC data channels. A
cluster of Go nodes introduces them to each other: it keeps the table of live
nodes and the assignment of rooms to nodes in a key/value store of its own,
which is replicated by Raft. This directory models that program in TLA+,
model-checks it with TLC and proves part of it with TLAPS. Paths below are
relative to `src/`.

Contents: the system and its parts; the modules; the runs; what the runs found;
bounds; fairness; proofs; what is left out; the plan.

## 1. The system

```
 browser                              node (one of three)
 +--------------------------+         +-----------------------------------+
 | Room.tsx  (timer, input) |  HTTP   | server.go  rooms, websocket hub   |
 | textPeer.ts              |<------->|   | clerk.go (Get, Put, retries)  |
 |   YataText / YataList    |   ws    |   v                               |
 | rtc.ts, signaling.ts     |         | kv.go      versioned store        |
 +------------+-------------+         |   ^ DoOp, Snapshot, Restore       |
              | data channels         |   | Submit                        |
              v                       | rsm.go     one mutex, goroutines  |
        other browsers                |   ^ applyCh   | Start, Snapshot   |
                                      |   |           v                   |
                                      | raft/      <--- gRPC ---> peers   |
                                      |   v persist                       |
                                      | bolt database                     |
                                      +-----------------------------------+
```

| Component | State | Operations | Talks to | What is hard | What makes it correct |
|---|---|---|---|---|---|
| Raft elections (`raft/candidate.go`, `follower.go`, `raft.go`) | role, term, vote, vote count, heartbeat flag | `ticker`, `toCandidate`, `requestVote` goroutines, `RequestVote`, `toLeader`, `toFollower` | other peers by gRPC, the persister | goroutines that run late, replies of earlier candidacies, a crash after a promise | one vote per term, one leader per term |
| Raft replication (`raft/leader.go`, `raft.go`, `log.go`) | log, `commitIndex`, `lastApplied`, `nextIndex`, `matchIndex` | `Start`, `updateFollower`, `AppendEntries`, `updateLeaderCommit`, `applyCommits` | followers by gRPC; the RSM by `applyCh` | calls that time out and still arrive, old replies, backtracking with -1 for missing entries | logs match; what is applied anywhere is applied everywhere |
| Raft snapshots (`raft/raft.go`, `leader.go`) | snapshot, base of the log | `Snapshot`, `leaderInstallL`, `InstallSnapshot` | the RSM, followers | old snapshots, a log cut while calls are under way | nothing applied is lost, nothing is rewound |
| Raft persistence (`raft/raft.go`, `raft/persister/bolt.go`) | what the last `Save` wrote | `persist`, `readPersist`, `Make` | bolt | two `Save`s in one handler, a crash between them | replies speak of what is on the disk |
| RSM (`rsm/rsm.go`) | `submitCh` by index, `commitIndex`, goroutines | `Submit`, `reader`, `leaderCheck`, `persistCheck` | Raft below, the KV server above | two mutexes and bounded channels, indices that change hands, a poll that misses changes | a call gets its own result or `ErrWrongLeader`; nobody is stuck |
| Key/value service (`kv/kv.go`) | `store` of versioned values | `Get`, `Put`, `DoOp`, `Snapshot`, `Restore` | the RSM, clerks by gRPC | duplicates of a retried `Put` | a `Put` takes effect at most once per version |
| Clerk (`clerk/clerk.go`) | last leader | `Get`, `Put`, `Signalings`, `heartbeat` | every node's KV service | a timed-out call that took effect | `ErrMaybe` exactly when the outcome is unknown; no heartbeat row is lost |
| Server and rooms (`server.go`) | room -> connected browsers | create, lookup and reassign, join, route, evict | the clerk, browsers | reassignment by several nodes with different clocks, eviction against join | browsers of a room meet on one node |
| Collaborative list (`crdt/list.ts`, `text.ts`, `types.ts`) | linked list of items, `itemById`, state vector, tombstones | `insertItem`, `deleteItem`, `integrate`, `makeUpdate`, `applyUpdate`, `applyTombstones` | - | concurrent inserts at one place, updates in any order | same items, same text |
| Text peer (`web/src/lib/textPeer.ts`) | the text, two broadcast cursors | `insert`, `delete`, `syncWithPeer`, `broadcastChanges`, `handleMessage` | other peers by data channel | joining while others edit, broken links | connected peers end up with the same text |
| WebRTC mesh, signaling client (`web/src/lib/rtc.ts`, `signaling.ts`, `deferred.ts`) | connections, channels, queued ICE candidates | `handleSignal`, offers and answers, reconnection | the hub, the browser's WebRTC | candidates before descriptions, a node that dies | one open channel per pair of browsers |
| Pages, encoder, utilities, generated stubs | - | rendering, gob, random names | - | - | - |

## 2. The modules

The source names are kept wherever TLA+ allows. A definition's mapping to
source lines is in `PROJECT.json` under `map`. Operators whose comment begins
with "Mutant of" are not part of the model: each is the plausible bug that a
property is shown to catch (`mutants` in `PROJECT.json`).

| Module | Models | Uses |
|---|---|---|
| `RaftLog` | `raft/log.go`: the log with its base, as pure operators | - |
| `Raft` | one group: all handlers of `raft/`, messages, disk, crashes | `RaftLog` |
| `ReplicatedLog` | abstract: what `raftapi.go` promises the service | - |
| `RaftProperties` | invariants, action properties, the refinement | `Raft`, `ReplicatedLog` |
| `MCRaft` | instances for TLC | `RaftProperties` |
| `RaftProofs` | proofs: types, elections, replication, logs put together with their snapshots | `RaftProperties` |
| `RaftCommitProofs` | proofs: committing, the refinement of `ReplicatedLog`, backtracking | `RaftProofs` |
| `Rsm` | `rsm/rsm.go` on one node, over what Raft may do to it | - |
| `RsmProperties`, `MCRsm`, `RsmProofs` | its properties, an instance and the proofs | `Rsm` |
| `YataList` | `crdt/list.ts`, as pure operators on a list record | - |
| `ListProofs` | proofs: what `integrate`, `makeUpdate` and `applyUpdate` do, for every list and update | `YataList` |
| `YataReplicas`, `MCReplicas` | replicas edited and synchronised as the CRDT tests do; an instance | `YataList` |
| `ReplicasProofs` | proofs: what one exchange brings, and when items stay in their places | `YataReplicas`, `ListProofs` |
| `TextPeer` | `textPeer.ts` over data channels | `YataList` |
| `TextPeerProperties`, `MCTextPeer` | its properties and instances | `TextPeer` |
| `TextPeerProofs` | proofs: what is under way, and what the first channel brings | `TextPeerProperties`, `ListProofs` |
| `KvStore` | `kv/kv.go`: the store and its two commands, as pure operators | - |
| `Clerk` | `clerk/clerk.go` `Get` and `Put`, against nodes that come and go as leaders | `KvStore` |
| `Heartbeats` | the heartbeat goroutines of all nodes, on top of their clerks | `Clerk` |
| `VersionedStore` | abstract: what a clerk's callers are promised | - |
| `HeartbeatsProperties`, `HeartbeatsProofs` | the refinement and the properties of the table; their proofs | `Heartbeats`, `VersionedStore` |
| `Rooms` | `server.go` with one room, `signaling.ts` in its browsers | - |
| `RoomsProperties`, `RoomsProofs` | its properties and their proofs | `Rooms` |
| `Mesh` | `rtc.ts` in the browsers of one room, with the hub of `server.go` and the reconnection of `signaling.ts` | - |
| `MeshProperties`, `MCMesh` | its properties and an instance | `Mesh` |

### Raft

*State.* The fields of `Raft` per peer, under their own names; `None` in
`votedFor` is `HasVotedTerm = false`. `disk[i]` is what the last `persist()`
saved. A snapshot's bytes are the sequence of entries it stands for. `machine[i]`
is what peer `i` has put on `applyCh` since it booted. Messages are sets of
records: gRPC neither orders calls nor delivers one twice, and two equal calls
under way at once cannot be told apart.

*Actions.* Every handler of a peer runs under `rf.mu`, so an action is what a
goroutine does between lock and unlock. A call to another peer is three
actions (`Replicate`, `HandleAppendEntries`, `HandleAppendReply`), with
anything in between: `AppendTimeout` and `AppendReplyTooLate` stop the caller
from waiting while the request stays under way (`awaited` becomes false). A vote
request that times out is one whose reply is never handled. `toCandidate` only
starts the `requestVote` goroutines (`soliciting`); each reads the term when it
gets the mutex (`SolicitVote`), as the code does, not when it was started.
`Restart` is a crash and a `Make`; `CrashInHandler` is a crash between the
`Save` of `toFollower` and the one of the handler it is called from.

*Abstractions.* A command is its proposer and its index: two commands of one
peer at an index would differ in the term. `appendCond.Wait` is always ready,
because `heartbeat` broadcasts every 100 ms. `Snapshot` is called by the service
with an index it has been handed and that is newer than the base. `Make` is
asked to start with an empty database or one this program wrote.

*History variables* (no code reads them): `ballots`, `elected`, and `decided`,
the longest sequence any state machine was handed. `ReplicatedLog` speaks of
`decided` and `machine` only: peers are handed new entries, catch up, or restart
from a snapshot of their own. The group implements it with the identity as the
refinement mapping.

### RSM

*State.* `isLeader`, `log`, `base`, `lastApplied` stand for the Raft peer below;
`sending` is what a Raft handler still has to put on `applyCh` and doubles as
`rf.mu` being held (`PeerUnlocked`). `applyCh` is the buffered channel of
`Make` together with the goroutine that passes messages on. `mu` is `rsm.mu`
with its owner, `submitCh`, `commitIndex` the fields of `RSM`, `machine` what
`DoOp` has executed, `commit` the message `reader` has in its hands, `pc`,
`reply`, `result` the calls of `Submit` with their one-place channels.

*Boot.* `Boot` is what `Make` and `MakeRSM` make of a disk with `BootEntries` entries: any
number of them in the snapshot, which `Restore` gives to the service
(`machine`, with the log beginning at `base`), the others in the log, not known to
be committed. `rsm.commitIndex` is 0 until the reader has its first message, whatever was
restored. So a restart of a node is an initial state, and entries of its earlier life
answer no call of this one.

*Actions.* A step of a goroutine ends where it can be made to wait: at
`rsm.mu`, at `rf.mu` (`GetState`, `Start`, `PersistBytes`, `Snapshot`), or at a
channel. `Submit` is `SubmitLock`, `SubmitStart`, `SubmitReturn`; `reader` is
`Receive`, `ReadCommand` with `Answer`, `ReadSnapshot`; `leaderCheck` is
`SeeNoLeader`, `CollectChannels`, `Cancel`; `persistCheck` is `PersistLock`,
`PersistMeasure`, `PersistSnapshot`. From below come `Elected`, `Deposed`,
`Overwritten`, `ApplyCommits`, `InstallSnapshot`, `SendApplyMsg`.

*Abstractions.* `Raft` is not instantiated: its peers would multiply the states
of the goroutines. The assumption that replaces it is in `OperationsAt`: what
another leader may write at an index is another node's operation or the one this
node proposed there last. With three peers that is all Raft allows; with five,
an earlier proposal could come back at its index and be taken for a later one.
`maxraftstate` counts entries, not bytes, and `None` stands for -1. A panic of
`rebase` stops everything (`panicked`).

### Lists and text peers

*State.* A list is a record: `order` is the chain of `left` and `right`,
`origins` is `itemById`, `deleted` the tombstones, `stateVector`, `opCounter`. An
item is its id; contents decide nothing. `spinning` records that `integrate`
has walked past the tail, whose `right` is itself, and never returns.

*Operators.* `Scan` goes over the items between the origins, with the three
branches of the loop in `GoesBehind` and `StopsAt`. `ApplyUpdate` repeats
`Pass`, which goes from the last pending item to the first, as the code does.
`MakeUpdate` sorts by user and counter. The loops are recursive functions of the
number of rounds, so that theorems can be proved about them.

*Actions of `TextPeer`.* One per function of `textPeer.ts`, and `Link`, `Unlink`
for the data channel of a pair. The channel opens at each end by itself
(`SyncWithPeer`, which `onPeerReady` calls) and delivers in order at an end that
is open. When it closes, what is under way is lost. A message that makes
`applyUpdate` throw has been partly integrated, and its tombstones are dropped.

*Abstractions.* One channel per pair (after a node dies two browsers may hold
two). Tombstone logs are sets with a set of those already broadcast, for
the order of tombstones decides nothing. User ids are distinct numbers other
than -1; the program hashes an id to 32 bits.

### Clerks and heartbeats

*State.* `store` is what executing the log has made of the map in `kv.go`: all
nodes execute the same log (section on Raft and `Rsm`), so there is one. `call[c]`
is the `Get` or `Put` a caller is in: its request, the node it is at, whether an
attempt has been made before (`retrying`, the second loop of `Put`), and how far
the attempt is: sent, submitted to the log of the leader, stranded there when
the leadership ends, answered or failed. `strays` are the Puts of attempts that
were given up and may still be executed. `now` is each node's clock.

*Actions.* Of the nodes: `Refuse` and `Submit` (the handler finds that it does not
lead, or does), `Execute` (the entry is committed, `DoOp` runs, the reply is under
way), `Cancel` (`leaderCheck`), `ExecuteStray`, `Depose`, `Elect`. Of the clerk:
`Fail` and `Expire` (an error, or `callTimeout`), `Retry`, `Return`. `Put`'s second
attempt stays at the node after a failure and moves on after `ErrWrongLeader`;
only a repeated `Put` turns `ErrVersion` into `ErrMaybe` (`Outcome`). Of `heartbeat`:
`Beat` (the ticker; the time is noted once), `WriteBack`, `Again`, `Finish`; `Stop` is a
node that goes down in the middle.

*Abstractions.* `Submit` is one step and a cancelled entry may be executed later,
or never: module `Rsm` shows both. That a call may hang with its leader in office
(section 4, observations) is covered by `Fail`. Clerks of one node share the field `leader`
without a lock, so a call begins at any node. A heartbeat's time is a number that
grows with every beat of its node, clocks that are set back are left out. The
table is a function from nodes to times; `parseHeartbeats` and
`serializeHeartbeats` undo each other for addresses without a comma or an equals
sign.

*What it implements.* `VersionedStore` knows no nodes, attempts or leaders: a key
has a history of Puts; `Perform` adds one, once, behind the version it names;
`AnswerGet` returns a version the key had between call and return; `AnswerPut`
may say `OK` only of a Put in the history, `ErrVersion` or `ErrNoKey` only of one that
is not and never will be, and `ErrMaybe` of any. The refinement maps `call` to what the
caller sees of it and `adrift` to the strays that can still take effect.

### Rooms

*State.* One room. `row` is the node in its row of the table, `beat` what readers'
clocks make of a node's heartbeat: `fresh`, `expired`, or `expiring`, where two
clocks may disagree. A browser has a `stage` and a `target`; a node has the peers
of `rooms[s]`; a peer is one websocket, with its `handler` and the peers it was
told of in its welcome and has not been told to have left (`knows`). `lookup[t]`
is a run of `assignedSignaling` for a browser or for the node's own
`evictWrongRooms`.

*Actions.* `handleCreateRoom` is `ChooseServer` and `Created`, `NameTaken` or
`CreateMaybe`; `assignedSignaling` is `ReadRow`, `ListLive`, and `Moved`,
`MoveConflict` or `MoveMaybe`; `wsGate` is `PassGate` or `TurnedAway`;
`handleJoinRoom` is `Join`, `Welcome` or `WelcomeFails`, `SayPeerLeft`, `RemovePeer`;
`evictWrongRooms` and `evictRoom` are `EvictTick`, `KeepRoom`, `EvictRoom`,
`CloseEvicted`. `signaling.ts` is `Visit`, `AskForRoom`, `RoomFound`, `RoomNotFound`,
`UpgradeFails` and what a closed socket leads to (`Seek`). `Disconnect` breaks
one socket, the node notices later; `Stop` takes a node down with its handlers and
sockets.

*Abstractions.* The table is the atomic versioned store that the clerks implement.
Versions are only compared for equality, so a lookup keeps whether the version it
read is still the current one. `ErrMaybe` answers only a Put that meets a newer
version: its own first attempt (`row` has changed) or another's. The start of a
lookup and its first `Get` are one step. Rooms do not share state, so one
is enough; a room that does not exist is left out. Messages between browsers
(`routeMessage`) change nothing on the node; `Mesh` has them. Numbers of a browser's connections are used again
once no handler holds them; real ids are fresh.

### Mesh

*State.* `online[b]` is the id the hub gave browser `b` with its open websocket,
`inbox[b]` what it has been sent, `room` the ids in the room. `pcs[b]` are
the `RTCPeerConnection` objects `b` has made, in order; `connections`, `channels`
and `pendingIce` are the maps of `RTC` from peer ids to them. A connection has a
local description or not, the remote one (`remote`, the connection that made it),
and knows an address of its peer (`reachable`). `awaiting` are the `async` functions
that have given up the event loop, each with the connection it works on.

*Actions.* `handleSignal` has one action per type of message. What follows an
`await` is an action of its own (`SendDescription`, `SetOffer`, `SetAnswer`), which
finds its connection as others have left it. A connection reports `FindCandidate`,
`Connect` (two that describe each other and have a candidate each),
`OpenChannel`, `CloseChannel` and `Fail` (the other end is closed); the callbacks
that belong to them are part of the step. `Leave` is the end of the handler of a
websocket that is gone, `Break` breaks one, `Outage` stops the node, `ClosePage`
is the cleanup of `startSignaling`.

*Abstractions.* A browser has one candidate. A description is the connection that
made it; a candidate is good for that one only. Sending takes no time, as the functions
that send have waited already. `Rooms` has the details of joining and leaving; here
each is one step, and after an outage everybody comes to one other node. A
connection fails only if its other end is closed; the channel of a connection one
closes oneself reports nothing, which is what the WebRTC standard says of `close()`.

*History variables:* `overwritten`, the pairs of browsers one of which has registered a new
connection to the other in the place of an old one; `deaf`, the browsers that have lost a websocket and may have missed a message.

## 3. The runs

Every property of a passing run is violated when one definition is replaced by
the mutant listed for it.

| Run | Question and outcome | Properties | Bounds |
|---|---|---|---|
| `raft_replication` | From the boot: elections with a crash between any two steps, or between the two Saves of a handler. From a first leader on: another candidacy, and calls that time out and still arrive, or a crash. Votes, leaders and quorums survive, the disk holds what was answered, logs match, `matchIndex` is true, the group implements `ReplicatedLog`. | `VotesOnce`, `ElectionSafety`, `DecidedOnQuorum`, `DiskInSync`, `LogsWellFormed`, `LogMatching`, `MatchIndexSound`, `ImplementsReplicatedLog` | 3 peers, 2 candidacies, 2 commands; 3 calls, or 2 with 1 timeout or 1 crash |
| `raft_compaction` | Either a follower left behind by two snapshots with old calls still under way, or an old leader that comes back while its successor's entries are not committed (Figure 8 of the Raft paper). No applied entry is missing in a newer leader, state machines agree, nothing is rewound, and no rejected probe is sent again. | `TypeOK`, `LeaderCompleteness`, `StateMachineSafety`, `ProbesHeldEntry`, `AppliedStaysInLog`, `RetryMakesProgress`, `CommitOnlyAdvances` | 3 peers, up to term 4, 2 commands; 2 calls, 1 timeout and 2 snapshots, or 3 calls and 1 snapshot (after `LeaderReturns` with 1 timeout; after a reply that came too late: 2 calls) |
| `rsm` | Every interleaving of `Submit`, `reader`, `leaderCheck`, `persistCheck` while the node, booted with a snapshot or with an entry in its log, wins and loses a leadership. Results reach the right calls, operations are executed in order from the restored snapshot on, nobody is stuck. | `TypeOK`, `ExecutedInOrder`, `OwnResult`, `NoSenderStuck`, `DeposedCallsReturn`, `AppliedGetsExecuted` | 2 calls, 1 entry at boot, 1 leadership, 1 overwrite (log compacted at boot) or 1 installed snapshot (compacted or not), `maxraftstate` 1, room in `applyCh` |
| `rsm_full_channel` | Does `Start` return when more is applied at once than `applyCh` holds? **No** (finding 3). | `StartReturns` | 1 call, 4 entries at boot, 1 place in `applyCh` |
| `list_edits` | Three replicas, every order of synchronisation. Insertions converge; until the orders of two replicas have come apart, items stay between the neighbours their authors saw and `integrate` returns; one exchange brings over everything. | `InsertionsConverge`, `ItemsStay`, `SyncCompletes` | 3 users; 4 edits of which 1 deletes, or, after the first two edits of the hang of section 4, 3 more: `integrate` hangs in this part, and `ItemsStay` says that orders differed before |
| `list_divergence` | The same with deletions: same items, same text? **No** (finding 1). | `SameItemsSameText` | 3 users, 4 edits of which 1 deletes |
| `text_joining` | Edits before, while and after a channel opens and breaks. Idle connected peers hold the same items, and peers connected for good come to show the same text. | `IdlePeersAgree`, `EventuallyAgreed` | 2 users, 2 insertions, 1 deletion, 1 link, 1 drop |
| `text_reconnect` | The same with a second reconnection. **No** (finding 2). | `IdlePeersShowSameText` | 2 users, 3 insertions, 2 drops, 2 links |
| `clerks` | Two nodes write their rows of the heartbeat table while leaders change and attempts fail, are repeated and take effect late. Calls implement `VersionedStore`; no row is lost or goes back; every heartbeat ends. | `ImplementsVersionedStore`, `RowsAdvance`, `HeartbeatsEnd` | 2 nodes, 3 heartbeats, 2 troubles |
| `rooms` | A room is created, looked up, joined, reassigned and evicted while a node stops, misses heartbeats, or a socket breaks. The code is given out once, lookups agree, no peer stays behind, browsers gather. | `OneCreator`, `NoLeakedPeers`, `AnswersAgree`, `RoomGathers` | 3 nodes, 2 browsers, 1 trouble |
| `mesh` | Two browsers negotiate a connection while a page is closed, a websocket breaks or the node stops, at any point. Those that meet for the first time and stay get connected, who leaves is forgotten. | `NewPairsConnect`, `LeaversForgotten` | 2 browsers, the first in the room, 1 trouble |
| `mesh_rejoin` | Does a connection survive a websocket that breaks? **No** (finding 4). | `ConnectionsSurvive` | as `mesh` |

### Why the bounds are enough

Each bound is a constant whose name begins with `Max`, counted in the guards,
and reached by the run that sets it. Three peers is the deployment, and the
smallest group in which a majority excludes somebody. A violation of the election rules needs
two candidacies that overlap; one of overwriting needs two leaders
with an entry each and a third election, hence term 4 from an initial state
that has already seen two. An old call does harm only if the follower has moved on by two
entries or two snapshots. Two calls of `Submit` are the fewest that can compete
for `rsm.mu` and for an index; `MCRsm` starts with one of the two troubles used up, as each
is about one index. The proofs of section 6 remove the bounds for the
invariants they cover.

Two heartbeating nodes are the fewest that can overwrite each other's row, and
two troubles let an attempt be stranded and its repetition fail as well. Two
nodes also suffice to be sent round them; a third adds no new answer
(the run with three nodes passes too, and takes three times as long). For a race to
reassign a room three nodes are needed: one that is gone and two that may be
drawn. Two browsers are the fewest that can miss each other (before the first has
come there is nothing to go wrong, so `MCMesh` starts with it), and what `rtc.ts`
keeps for one peer id is apart from what it keeps for another.

`raft_replication` (for its second half), `raft_compaction`, `list_edits` (for its second half) and the `Joined`
specification of `text_reconnect` begin in a state the program reaches by a run
without losses, which `MCRaft`, `MCReplicas` and `MCTextPeer` describe; so they get further
than a run from the boot could.
`CHECK_DEADLOCK FALSE` stands in every configuration whose bounds bring the system
to a halt. Peers are symmetric in `Raft` (no code compares them); users are not, as
`integrate` compares their ids, and no liveness run uses symmetry.

Not every deeper instance holds. `IdlePeersAgree` holds for the
first reconnection (`text_joining`) and not for the second (`text_reconnect`);
`integrate` returns for four edits and not for five, and `list_edits`
goes through that case with a property that covers it (`ItemsStay`); the liveness of `rsm` needs room
in `applyCh` (its 6 places are never all taken), and not even `Start` returns when there is
none (`rsm_full_channel`); browsers that meet under ids new to both
get connected (`mesh`, also after an outage, which gives everybody a new id), those that
meet again under an old one need not (`mesh_rejoin`).

## 4. Findings

1. **Texts that stay different** (`crdt/list.ts:181`, `:120`). `insertItem` takes
   visible neighbours as origins, so it inserts across tombstones, and
   `applyUpdate` integrates the last item first. User 2 types *a*, user 1
   types *y* behind it, user 2 deletes *a* and types *b*. A replica that receives
   all of it at once shows *y* and *b* in the other order.
2. **An edit never asked for** (`crdt/list.ts:59`). The state vector is the
   largest counter seen. After a reconnection a delta is handled before the
   answer to the state vector, the link drops before that answer, and the next
   vector hides what is missing.
3. **A node that stops** (`rsm/rsm.go:167`, `raft/raft.go:110`). `applyCommits` fills
   `applyCh` with `rf.mu` held, `Submit` waits for `rf.mu` in `Start` with `rsm.mu` held, and
   the reader of `applyCh` waits for `rsm.mu` (`rsm.go:127`): `Start` does not "return immediately"
   (`raft.go:360`), nor ever. It takes more than 10000 entries applied at once, as
   after a restart with a log that is never compacted (`server.go:424` passes -1).
   The run has one place in `applyCh` instead.
4. **A connection that does not survive** (`web/src/lib/rtc.ts:213`). A websocket that
   breaks gives its browser a new id. On its return it is welcomed with the ids of peers it
   is still connected to, and `createPeerConnection` registers a second connection
   under the same id. The callbacks of the first one know only the id: when the peer,
   told `peer-left`, closes its end, they drop or unregister the second one
   (`:210`, `:227`), and nobody offers again. Both stay in the room and see nothing of
   each other. "WebRTC peer connections can survive without signaling"
   (`signaling.ts:48-49`) holds for an outage of the node, after which nobody is told
   `peer-left`; the price is two channels per pair.

### Observations

Three more statements of the repository do not hold. They are defined beside the
properties, and TLC refutes each within a minute or two at the bounds given, but no
configuration lists them: the first needs a group that is not deployed, the
second has the root of finding 1, and the third a leadership regained very soon.

* *A vote counted twice* (`raft/candidate.go:10`). A `requestVote` goroutine of
  an earlier candidacy that is scheduled late asks its peer for the current
  term once more, and both grants count, though "replies from other candidacies" are
  to be ignored (`candidate.go:35`). With four peers one term can have two
  leaders: `ElectionSafety` of `MCRaft` with four peers, `MaxCandidacies = 4`, the other
  bounds 0, and the constraint `OnePeerEach`, which leaves out behaviours that are not
  needed. With at most three it does no harm (theorem `OneLeaderPerTerm`).
* *A browser that hangs* (`crdt/list.ts:77`). The scan of `integrate` ends at the
  right origin. If that stands before the left one, the scan reaches the tail, whose
  `right` is the tail, and goes on for ever. User 1 types *a*, user 2 types *b*
  before it; user 1 deletes *a*, types *c* (which stands before *a* there), gets *b*
  and types *d* between *c* and *b*. User 3 asks user 1 for everything, integrates
  from the last item to the first, holds *b*, *a*, *c*, and hangs at *d*:
  `IntegrateReturns` of `YataReplicas` with three users, five edits, one deletion. The root
  is that of finding 1, and `ItemsStay` says so: nothing hangs before two replicas have
  common items in different orders (run `list_edits`, theorem `AgreedItemsStay`).
* *A call that waits on* (`rsm/rsm.go:101`). A leadership lost and regained
  between two polls of `leaderCheck` leaves a call registered whose entry was
  overwritten: `SupersededCallsReturn` of `RsmProperties` under `FairSpec` with one call, two
  elections, one overwrite, `BootEntries = 1`, `MaxRaftState = None`.

What the models show besides, without a statement of the repository that it
contradicts, or too minor for a property:

* *A peer that never leaves* (`server.go:186`). `peer-left` is sent before the peer is
  taken out of the room. A browser that enters in between is welcomed with the peer
  that has gone and is never told; so is one that is in the room but not welcomed
  yet, for which `peer-left` comes too early, and one that is told of a peer whose welcome
  fails, for which nothing is sent (`server.go:177`). `knows` keeps the entry. Only the
  failure of the connection attempt clears it in the browser.
* *Rooms nobody owns.* After `ErrMaybe`, `handleCreateRoom` draws another code although
  the first may have been stored (`server.go:91`); `handleLookupRoom` answers 503
  where its comment knows only "no signalings are alive" (`server.go:104`).
* *A peer not forgotten.* A peer that leaves while a browser is offline stays registered
  there if its connection was not up yet (hence `deaf` in `LeaversForgotten`).
* *A heartbeat that may be missing.* The comment of `heartbeat` says "it retries until
  success" (`clerk.go:166`); it also returns on `ErrMaybe`, where the row may not
  have been written. The next one, ten seconds later, makes up for it.

The model of `persistCheck` also reaches a panic: Raft has installed a snapshot
that the reader has not seen, and `Snapshot` is called with an older index
(`raft/log.go:98`). It needs `maxraftstate` other than -1, which no caller passes,
and is listed as a hazard; `Rsm` stops there.

## 5. Fairness

*RSM.* Goroutines that can go on are scheduled (weak fairness). `ReadCommand`,
`ReadSnapshot` and `CollectChannels` wait for a mutex that others keep taking;
`sync.Mutex` hands itself to a goroutine that has waited for a millisecond, hence strong
fairness. Nothing is assumed of elections, other leaders or callers.

*Clerks.* An election ends in the end (`Elect`), handlers serve what reaches
them, the leader in office commits what was submitted, stranded calls are cancelled
or time out (`callTimeout`), and goroutines go on: weak fairness each. Nothing is
assumed of strays or of the ticker; troubles are bounded, which stands for "from some time on
nothing fails".

*Rooms.* The ticker of `makeServer` and the heartbeats fire on every node that runs,
a stopped node's row expires, lookups and handlers go on, and a browser whose socket
closed tries again (`scheduleReconnect` never gives up): weak fairness each.
`RoomGathers` assumes in its antecedent that some node runs for good.
Nobody is obliged to create or visit a room, to stop or to restart.

*Mesh.* What can go on does: the event loop delivers, an `async` function comes back,
the browser's WebRTC stack connects what can connect and reports what is closed, the
hub ends the handler of a broken websocket, and a browser tries again. One weak fairness
condition on all of it is enough, as no part of it can go on forever. Troubles are bounded.

*Text peers.* The interval of `Room.tsx` keeps firing and the event loop keeps
delivering (weak fairness of `BroadcastChanges`, `SyncWithPeer` and the two
handlers). `EventuallyAgreed` assumes in its antecedent that links stay up in the
end; nothing is assumed of editing.

*Raft* is checked for safety only. Its elections end with probability one, not
under any fairness of the ticker.

## 6. Proofs

All statements are proved for every number of peers and every value of the bounds,
unless they say otherwise, from the named assumptions of `Raft`
(roles are distinct, `None` is no peer, bounds are natural) and finiteness of
`Server` where a majority is counted.

| Theorem | Says | Argument |
|---|---|---|
| `TypeInvariance`, `TypeCorrect` | `Spec => []TypeOK` | `TypeOK` alone is not inductive: `Snapshot` cuts `machine` at an index that is within it only because what a peer applied, what its snapshots stand for and where its log begins are counted alike, in memory, on the disk and in every `InstallSnapshot` under way. The strengthening adds that (`Positions`). One lemma per action. |
| `CommitNeverRewinds` | `Spec => CommitOnlyAdvances` | From `TypeInv`; one case per action that touches `commitIndex`. |
| `DiskInvariance` | `Spec => []DiskInSync` | Each handler saves what it changed, or changes nothing that is saved (an `AppendEntries` without entries). |
| `EachPeerVotesOnce` | `Spec => []VotesOnce` | A peer's ballots are of terms up to its own, and one of its own term is the vote it holds, in memory and by `DiskInSync` on the disk; so a crash changes nothing. |
| `OneLeaderPerTerm` | `Spec => []ElectionSafety` for at most three peers | A leader has a ballot of somebody besides itself, as a quorum of two or three peers is two. Two leaders of a term in a group of three would share a voter. Counting a peer twice does not matter here; in a group of four it does (section 4, observations). |
| `RolesInvariance` | `Spec => []RoleInv` | Who leads in a term, calls in it, or waits for an answer in it was elected in it. With `OneLeaderPerTerm`, a term has one source of entries and calls. |
| `LogInvariance` | `Spec => []LogInv` for at most three peers | See below. |
| `LogsStayWellFormed`, `LogsMatch`, `LeadersProbeHeldEntries` | `LogsWellFormed`, `LogMatching`, `ProbesHeldEntry` for at most three peers | From `LogInv`. |
| `ReplicationInvariance` | `Spec => []ReplicationInv` for at most three peers | See below. |
| `MachinesAgree`, `AppliedIsKept`, `DecidedIsDurable`, `LeadersAreComplete`, `MatchIndexIsTrue` | `StateMachineSafety`, `AppliedStaysInLog`, `DecidedOnQuorum`, `LeaderCompleteness`, `MatchIndexSound` for at most three peers | From `ReplicationInv`, and `DiskInSync` where a disk is spoken of. |
| `RaftImplementsReplicatedLog` | `Spec => ImplementsReplicatedLog` for at most three peers | Every step of the group hands nobody anything, hands one state machine the next entries of `decided` or new ones, or restarts it from a snapshot within `decided`. |
| `RetriesMakeProgress` | `Spec => RetryMakesProgress` for at most three peers | See below. |
| `RsmInvariance`, `RsmTypeCorrect`, `OperationsRunInOrder`, `CallsGetTheirOwnResult`, `SendersNeverStuck` | `Spec => []RsmInv`, and with it `TypeOK`, `ExecutedInOrder`, `OwnResult`, `NoSenderStuck` | See below. |
| `ClerkInvariance`, `HeartbeatsAdvance` | `Spec => []BeatInv`, `Spec => RowsAdvance` | See below. |
| `ClerksImplementVersionedStore` | `Spec => ImplementsVersionedStore` | Every step of the clerks is a step of `VersionedStore` or a stutter, from `BeatInv`. |
| `InOrderIsOrder`, `IntegrateAddsItem`, `IntegrateKeepsOrder`, `ApplyUpdateTakesAll` | `makeUpdate` puts each item once into its answer; `integrate` adds its item or never returns, changes the order of no two others, and puts it between its origins if these are in order; an update whose origins are in the list or the update is taken completely, in whatever order its items come | See below. |
| `Invariance` (`ReplicasProofs`), `EachItemOnce`, `AnswersSuffice`, `TypingReturns`, `AgreedItemsStay`, `AgreedTextsAreSame` | `Spec => []IInv`, and with it `ItemsOnce` and `SyncCompletes`; `Insert` never spins; `Spec => []ItemsStay`; `SameItemsSameText` as long as `OrdersAgree` | See below. |
| `Invariance` (`TextPeerProofs`), `NothingInvented`, `FirstLinkAgrees` | `Spec => []IInv`, and with it `Authors`, `Sayings`, `Cursors` over any number of channels, and `IdlePeersAgree` as long as no second channel is opened | See below. |
| `RoomsInvariance`, `RoomsHaveOneCreator`, `RoomsLeakNoPeers`, `RacingLookupsAgree` | `Spec => []RoomsInv`, and with it `OneCreator`, `NoLeakedPeers`, `AnswersAgree` | See below. |

The proofs are hierarchical; each lemma about an action is cited by the theorem
that needs it. `RaftLog` uses neither RECURSIVE operators nor CHOOSE without a
lemma that says the choice exists (`LeastElement`, `GreatestElement`).

**Why three peers.** `requestVote` counts the replies of a peer twice when it is asked
twice (section 4, observations), and two counted votes are a quorum of three only
together with the candidate's own. Every theorem that needs one leader per term
is therefore stated for `Cardinality(Server) <= 3`, the size the program runs with
(`docker-compose.yaml` starts three nodes), and no larger group satisfies it.

**Replication (`LogInv`).** `LogMatching` speaks of two logs; an old `AppendEntries` may
be handled at any time, so the invariant has to speak of what the calls carry as
well. `Carried` collects the log of every peer, the segment of every `AppendEntries`
(from `prevIndex` on) and the base of every snapshot under way, each with the term
of its sender. `Consistent(Carried)`: all are well formed, and any two match where
they overlap. Joining a segment to a log, cutting a log and appending to a leader's log
keep that (`JoinedConsistent`, `PartsConsistent`, `AppendedConsistent`; lemmas about
sets of segments, with no variable in them). The rest of `LogInv` says why appending is
safe: an entry's term had an election (`EntriesElected`), a leader holds every entry of
its term that there is (`LeaderAhead`), and what it asks and hears of is within
its log (`Probes`).

**Whole logs (`WholesInv`).** A log that starts at its base and the snapshot that stands for
what was cut are put together again (`WholeOf`). `Snapshot` leaves a whole log as it is, and
`InstallSnapshot` does to it what an `AppendEntries` would do that carries the snapshot's
entries. From here on no proof has a case for compaction: the invariant of replication is
stated once more for whole logs (`Full`), together with the fact that log and snapshot meet in
an entry of one term (`SeamsMatch`).

**Committing (`ReplicationInv`).** A point is an index in a whole log. It is kept by a set of
peers (`Kept`) if those peers hold the entries up to it, and so does everything that can
still matter: any log at least as up to date (what `RequestVote` compares), the leaders of
later terms, candidates of later terms with a vote from the set, and the requests under way
from leaders of its term or later, which contradict nothing of it. While no majority of voters
can avoid the set (`Blocking`), every step keeps a kept point (`KeptStep`). A point kept
by a majority is `Sure`, for good. `updateLeaderCommit` counts followers one by one while replies
come in, so `Growing` says of every index in a leader's term: if those that have acknowledged
it block later terms, it is kept by them. When the count reaches a majority the point is
sure at once. `CommitInv` then says that whatever is committed, applied, or told of in
a request (`leaderCommit`, a snapshot) lies within a sure point. `VoteInv` and `AckInv`
tie what is under way to the logs it speaks of: a vote request to its candidate's log
as long as it stands, a reply and `matchIndex` to what the follower holds as long as it follows.

**Backtracking (`RetryMakesProgress`).** Two invariants beside `ReplicationInv`. `RunsInv`:
whatever log holds an entry of a term, no log has entries of another term between it and
later ones of that term (terms are accepted in one run, by one leader). So the term a
follower has at a rejected probe, where the leader's log has another, does not occur in the
leader's log from the probe on. `RejectionsTrue` says that of every rejection its
leader still waits for, however many entries were appended since. Then
`TermEnd + 1` is not beyond the probe, nor is `conflictStart` where the leader lacks the
term, and index 0, which all logs share, is never rejected (`TermsBegin`): all three rules of
`updateFollower` set `nextIndex` to the rejected index or less, and at least 1.

**RSM (`RsmInv`).** What is on its way to the reader continues what the machine stands
for, beginning with the snapshot restored at boot, up to `lastApplied` (`DeliveryInv`);
`commitIndex` is 0 or its length, and its length once a message has been read (`CountInv`), the mutex is held by who the program counters say
(`MutexInv`), an index is promised to one call at a time (`PromiseInv`), and a channel
of `pending` that nobody has written has a receiver that still waits (`ChannelInv`).

**Clerks (`BeatInv`).** The Puts that have written the table are a line whose `i`th was
made on version `i - 1` (`StoreInv`). A Put that may still take effect, because a late
attempt is adrift or because its clerk retries, was computed from the table it will
replace (`PastInv`, `Forward`). A node's request differs from all it made before,
since the clock or the version has moved on. An answer on its way is true of the line
(`AnswerInv`). `RowsAdvance` and the refinement follow.

**Rooms (`RoomsInv`).** Nobody looks for a room before it is created and only one
insertion succeeds (`CreationInv`); lookups that see the same live nodes know when the
row they read is still the one in the store, and whatever they move the room away from
is dead (`LookupsInv`); a peer in a room has its handler (`NoLeakedPeers`).

**Lists (`ListProofs`).** A loop is a function of the number of rounds;
`LoopHistory` says that it exists, by counting up (`CountingUp`, which the
library's well-founded orders give without an operator as a parameter). `Lists`
are the lists a replica can have: `order` and `itemById` hold the same items,
each once (`HoldsItemsOnce`), origins are held (`OriginsHeld`), some item refers
to the ends only, in every set of items (`Grounded`: origins are older than what
refers to them), and the state vector is past every item (`Counted`). `integrate`
keeps all four. `Grounded` is what makes `applyUpdate` end: of the items still
pending, there is one that waits for none of the others, so each pass over them
takes at least one (`SomeOriginsKnown`), and as many passes as there are items
take all. Positions count from `HEAD` to `TAIL`: an insertion moves up what is
behind it and nothing else (`InsertedPositions`), and the place the scan ends at
is behind the left origin and before the right one, if they are in that order.

**Replicas (`ReplicasProofs`).** A replica holds of each user all items up to some
counter and its state vector names that counter (`HoldsPrefixes`); nobody holds
what its author has not inserted (`NothingFromTheFuture`). So the answer to a
state vector is all that is missing, with every origin in it or held before, and
`ApplyUpdateTakesAll` does the rest. Finding 2 begins where `HoldsPrefixes` ends:
`textPeer.ts` may integrate part of an update.

An author sees the neighbours of what it types in order, and nothing it has
changes its order later, so its own items stay between their origins (`OwnStay`)
and typing never hangs (`TypingReturns`). Elsewhere an item is misplaced, or hangs
`integrate`, only where its origins are in another order than on its author's
replica (`SpinsApart`). So everything the conflict rules may get wrong is one
thing, that two replicas have two common items in different orders
(`~OrdersAgree`): until then items are between their origins, `integrate` returns,
and texts of the same items are the same (`AgreedItemsStay`,
`AgreedTextsAreSame`). Without deletions `list_edits` finds no texts that differ;
with them finding 1 is such a state, and the hang comes after one.

**Text peers (`TextPeerProofs`).** Over any number of channels, whoever holds an item,
its author holds it, with the same origins; what is under way is no more than its sender
holds; a broadcast cursor is never ahead of the list (`Authors`, `Sayings`, `Cursors`). What
a channel will bring is the subject of `FirstLink`. A broadcast may overtake the answer
to the state vector, and need items that only the answer has. So `CatchUp`
says: once the state vector of *p* has been handled there is a message *b* of those on the way
to *p*, from which on everything can be taken as it comes, and which with
its successors brings all that *p* lacks, but for what the sender has yet to
broadcast (`Covers`). When the answer is sent it is that *b*: the first state
vector asks for everything (`AsksForAll`), as neither peer holds items of the
other before (`Holders`). Idle peers have nothing under way, nothing to broadcast, and so the
same items. None of it is true of a second channel, where a state vector may hide a gap
(finding 2); the theorem stops where the code does.

Model-checked only:

* liveness and ENABLED, which the prover does not handle: `DeposedCallsReturn`,
  `AppliedGetsExecuted`, `HeartbeatsEnd`, `RoomGathers`,
  `EventuallyAgreed`, and the mesh's `NewPairsConnect` and `LeaversForgotten`;
* `InsertionsConverge`, the convergence of YATA itself: it would follow from
  `OrdersAgree` if that were an invariant while nothing is deleted. Once something
  is, it is none (finding 1); `ItemsStay` (`AgreedItemsStay`) says as much as is true then;
* `IdlePeersAgree` after the second channel (false, see section 3).

## 7. Not modelled

* **Server**: flags, environment, dialling and `bootRaft`. More than one room: rooms share
  nothing but the mutex.
* **Key/value service**: the gob encoding in `Snapshot` and `Restore`.
* **Clerk**: the text form of the heartbeat table.
* **WebRTC**: `RTCPeerConnection` belongs to the browser; `Mesh` models what `rtc.ts` sees
  of it, without STUN and TURN, renegotiation, or connections that fail by themselves.
* **bolt** (`raft/persister/bolt.go`): a `Save` is one transaction and taken as atomic.
* **Encoder**: gob with a register of types; a sequential codec.
* **Generated gRPC stubs**, pages, random names: generated code, rendering, wording.
* The liveness of Raft: whether a follower whose log begins past the leader's
  snapshot is ever repaired is listed as a hazard and part of the plan.

## 8. Plan

Done: `RaftLog`, `Raft`, `ReplicatedLog`; `YataList`, `YataReplicas`; `TextPeer`;
`Rsm`; `KvStore`, `Clerk`, `Heartbeats`, `VersionedStore`; `Rooms`; and their proofs.
`Mesh`, whose properties are liveness.

1. For replicas that only insert, the convergence of `integrate`.
2. Two channels per pair in `TextPeer`, which `Mesh` shows after an outage.
3. An abstract `RaftPeer` that `Raft` implements and `Rsm` uses, to replace the
   argument about `OperationsAt`.
