--------------------------------- MODULE Rsm ---------------------------------
(***************************************************************************)
(* The replicated state machine of one node: src/rsm/rsm.go, with its      *)
(* goroutines, its mutex and its channels, on top of what its Raft peer    *)
(* may do to it through src/raft/raft.go.                                  *)
(*                                                                         *)
(* A step of a goroutine ends where it can be made to wait: at rsm.mu, at  *)
(* the mutex of the peer, at a channel that is full or empty.  An          *)
(* operation is the call that submitted it here; all those of other nodes  *)
(* look the same.  What DoOp returns for an operation is the operation.    *)
(***************************************************************************)
EXTENDS Integers, FiniteSets, SequencesExt

CONSTANTS
    Call,               \* the calls of Submit
    Foreign,            \* an operation of another node (Op.Me # rsm.me)
    None,               \* no result, no message, no owner
    ReaderThread, PersistThread,    \* goroutines that may hold rsm.mu
    ApplyChSize,        \* messages on their way to the reader: 10000 in Make
    MaxRaftState,       \* maxraftstate in entries, None for -1
    BootEntries,        \* entries saved before the node starts, in its log
                        \* or in the snapshot the log begins with
    MaxElections,       \* bound: elections this node wins
    MaxOverwrites,      \* bound: entries other leaders write into its log
    MaxInstalls         \* bound: snapshots it is sent

ASSUME RsmNamesAssumption ==
    /\ Call \cap {Foreign, None, ReaderThread, PersistThread} = {}
    /\ None \notin {Foreign, ReaderThread, PersistThread}
    /\ ReaderThread # PersistThread
    /\ None \notin [index : Nat, snapshot : BOOLEAN,
                    operations : Seq(Call \cup {Foreign})]

ASSUME RsmBoundsAssumption ==
    /\ {ApplyChSize, BootEntries, MaxElections, MaxOverwrites, MaxInstalls}
           \subseteq Nat
    /\ MaxRaftState \in Nat \cup {None}

VARIABLES
    isLeader,           \* what GetState and Start say
    log,                \* the operations of the peer's log, from index 1
    base,               \* the index its snapshot ends with
    lastApplied,
    sending,            \* messages a handler still has to put on applyCh
    applyCh
peerVars == <<isLeader, log, base, lastApplied, sending, applyCh>>

VARIABLES
    mu,                 \* who holds rsm.mu
    submitCh,           \* index -> call whose channel is registered
    commitIndex,
    machine,            \* the operations the state of the service stands for
    commit,             \* what the reader has taken off applyCh
    checker, canceled,  \* leaderCheck: where it is, whom it still tells
    persister,          \* persistCheck: where it is
    panicked
rsmVars == <<mu, submitCh, commitIndex, machine, commit, checker, canceled,
             persister, panicked>>

VARIABLES
    pc,                 \* where each call is
    reply,              \* the channel of each call: room for one result
    result
callVars == <<pc, reply, result>>

VARIABLES
    given,              \* history: index -> the last call it was promised to
    elections, overwrites, installs     \* what the bounds count
counters == <<elections, overwrites, installs>>

vars == <<peerVars, rsmVars, callVars, given, counters>>

(***************************************************************************)
(* Make and MakeRSM.  The log is what readPersist finds, and begins at the *)
(* end of the snapshot that was saved with it, if there is one; what       *)
(* follows may or may not be committed.  Restore gives the service the     *)
(* operations of the snapshot, while rsm.commitIndex stays 0 until the     *)
(* first message is read.  (server.go registers the peer for calls only    *)
(* after that.)  Entries of an earlier life answer no call of this one,    *)
(* whoever proposed them, and look like those of other nodes.              *)
(***************************************************************************)
Boot ==
    /\ isLeader = FALSE
    /\ log = [k \in 1 .. BootEntries |-> Foreign]
    /\ base \in 0 .. BootEntries
    /\ lastApplied = base
    /\ sending = << >>
    /\ applyCh = << >>
    /\ mu = None
    /\ submitCh = << >>
    /\ commitIndex = 0
    /\ machine = SubSeq(log, 1, base)
    /\ commit = None
    /\ checker = "asleep" /\ canceled = {}
    /\ persister = "asleep"
    /\ panicked = FALSE
    /\ pc = [c \in Call |-> "idle"]
    /\ reply = [c \in Call |-> << >>]
    /\ result = [c \in Call |-> None]
    /\ given = << >>

Init == Boot /\ elections = 0 /\ overwrites = 0 /\ installs = 0

----------------------------------------------------------------------------
(* The peer.  Its handlers hold its mutex until all of their messages are  *)
(* on applyCh, and GetState, Start, PersistBytes and Snapshot wait for it. *)

PeerUnlocked == sending = << >>

Elected ==
    /\ ~panicked
    /\ PeerUnlocked
    /\ ~isLeader
    /\ elections < MaxElections
    /\ isLeader' = TRUE
    /\ elections' = elections + 1
    /\ UNCHANGED <<log, base, lastApplied, sending, applyCh, rsmVars, callVars,
                   given, overwrites, installs>>

Deposed ==
    /\ ~panicked
    /\ PeerUnlocked
    /\ isLeader
    /\ isLeader' = FALSE
    /\ UNCHANGED <<log, base, lastApplied, sending, applyCh, rsmVars, callVars,
                   given, counters>>

(***************************************************************************)
(* Another leader's entry for index k: an operation of its own, or the one *)
(* this node last proposed at k, which it has received.  (An operation     *)
(* proposed here at k earlier than that, in this life or before it, cannot *)
(* come back while there are three peers: one of them lacks it, and the    *)
(* other has overwritten it.)                                              *)
(***************************************************************************)
OperationsAt(k) == {Foreign} \cup {given[n] : n \in {k} \cap DOMAIN given}

Overwritten(k, op) ==
    /\ ~panicked
    /\ PeerUnlocked
    /\ ~isLeader
    /\ k \in lastApplied + 1 .. Len(log) + 1
    /\ op \in OperationsAt(k)
    /\ overwrites < MaxOverwrites
    /\ log' = Append(SubSeq(log, 1, k - 1), op)
    /\ overwrites' = overwrites + 1
    /\ UNCHANGED <<isLeader, base, lastApplied, sending, applyCh, rsmVars,
                   callVars, given, elections, installs>>

CommandMsg(k) == [index |-> k, snapshot |-> FALSE, operations |-> <<log[k]>>]

(***************************************************************************)
(* applyCommits                                                            *)
(***************************************************************************)
ApplyCommits(n) ==
    /\ ~panicked
    /\ PeerUnlocked
    /\ n \in lastApplied + 1 .. Len(log)
    /\ lastApplied' = n
    /\ sending' = [k \in 1 .. n - lastApplied |-> CommandMsg(lastApplied + k)]
    /\ UNCHANGED <<isLeader, log, base, applyCh, rsmVars, callVars, given,
                   counters>>

(***************************************************************************)
(* InstallSnapshot, up to one index past the last one applied.  What       *)
(* follows the snapshot stays if the log held its last entry.              *)
(***************************************************************************)
InstallSnapshot(n, op) ==
    LET upTo == IF n > lastApplied THEN Append(SubSeq(log, 1, lastApplied), op)
                ELSE SubSeq(log, 1, n)
        keeps == IsPrefix(upTo, log)
    IN
    /\ ~panicked
    /\ PeerUnlocked
    /\ ~isLeader
    /\ installs < MaxInstalls
    /\ n >= 1
    /\ op \in OperationsAt(n)
    /\ log' = IF keeps THEN log ELSE upTo
    /\ base' = n
    /\ lastApplied' = n
    /\ sending' = <<[index |-> n, snapshot |-> TRUE, operations |-> upTo]>>
    /\ installs' = installs + 1
    /\ UNCHANGED <<isLeader, applyCh, rsmVars, callVars, given, elections,
                   overwrites>>

(***************************************************************************)
(* rf.applyCh <- applyMsg, and the goroutine of Make that passes messages  *)
(* on and so holds one more.                                               *)
(***************************************************************************)
SendApplyMsg ==
    /\ ~panicked
    /\ sending # << >>
    /\ Len(applyCh) < ApplyChSize + 1
    /\ applyCh' = Append(applyCh, Head(sending))
    /\ sending' = Tail(sending)
    /\ UNCHANGED <<isLeader, log, base, lastApplied, rsmVars, callVars, given,
                   counters>>

----------------------------------------------------------------------------
(* Submit                                                                  *)

SubmitLock(c) ==
    /\ ~panicked
    /\ pc[c] = "idle"
    /\ mu = None
    /\ mu' = c
    /\ pc' = [pc EXCEPT ![c] = "starting"]
    /\ UNCHANGED <<peerVars, submitCh, commitIndex, machine, commit, checker,
                   canceled, persister, panicked, reply, result, given,
                   counters>>

With(chs, index, c) ==
    [k \in DOMAIN chs \cup {index} |-> IF k = index THEN c ELSE chs[k]]

(***************************************************************************)
(* Start, and the registration of the channel: nobody looks at submitCh    *)
(* between the two, for rsm.mu is held.                                    *)
(***************************************************************************)
\* Mutant of SubmitStart: the early return keeps the mutex.
SubmitStartLeaking(c) ==
    LET index == Len(log) + 1 IN
    /\ ~panicked
    /\ pc[c] = "starting"
    /\ PeerUnlocked
    /\ mu' = IF isLeader THEN None ELSE c
    /\ pc' = [pc EXCEPT ![c] = IF isLeader THEN "waiting" ELSE "ErrWrongLeader"]
    /\ log' = IF isLeader THEN Append(log, c) ELSE log
    /\ submitCh' = IF isLeader THEN With(submitCh, index, c) ELSE submitCh
    /\ given' = IF isLeader THEN With(given, index, c) ELSE given
    /\ UNCHANGED <<isLeader, base, lastApplied, sending, applyCh, commitIndex,
                   machine, commit, checker, canceled, persister, panicked,
                   reply, result, counters>>

SubmitStart(c) ==
    LET index == Len(log) + 1 IN
    /\ ~panicked
    /\ pc[c] = "starting"
    /\ PeerUnlocked
    /\ mu' = None
    /\ pc' = [pc EXCEPT ![c] = IF isLeader THEN "waiting" ELSE "ErrWrongLeader"]
    /\ log' = IF isLeader THEN Append(log, c) ELSE log
    /\ submitCh' = IF isLeader THEN With(submitCh, index, c) ELSE submitCh
    /\ given' = IF isLeader THEN With(given, index, c) ELSE given
    /\ UNCHANGED <<isLeader, base, lastApplied, sending, applyCh, commitIndex,
                   machine, commit, checker, canceled, persister, panicked,
                   reply, result, counters>>

SubmitReturn(c) ==
    /\ ~panicked
    /\ pc[c] = "waiting"
    /\ reply[c] # << >>
    /\ reply' = [reply EXCEPT ![c] = Tail(@)]
    /\ result' = [result EXCEPT ![c] = Head(reply[c])]
    /\ pc' = [pc EXCEPT ![c] = IF Head(reply[c]) = None THEN "ErrWrongLeader"
                               ELSE "OK"]
    /\ UNCHANGED <<peerVars, rsmVars, given, counters>>

----------------------------------------------------------------------------
(* reader                                                                  *)

Receive ==
    /\ ~panicked
    /\ commit = None
    /\ applyCh # << >>
    /\ commit' = Head(applyCh)
    /\ applyCh' = Tail(applyCh)
    /\ UNCHANGED <<isLeader, log, base, lastApplied, sending, mu, submitCh,
                   commitIndex, machine, checker, canceled, persister, panicked,
                   callVars, given, counters>>

\* Mutant of Awaits: whoever proposed the operation, the call is answered.
AwaitsAny(op) == commit.index \in DOMAIN submitCh

Awaits(op) == commit.index \in DOMAIN submitCh /\ op # Foreign

(***************************************************************************)
(* DoOp; the result goes to the channel of the call that waits for it, and *)
(* until there is room in it the reader keeps the mutex.                   *)
(***************************************************************************)
ReadCommand ==
    LET op == commit.operations[1] IN
    /\ ~panicked
    /\ commit # None /\ ~commit.snapshot
    /\ mu = None
    /\ commitIndex' = commit.index
    /\ machine' = Append(machine, op)
    /\ mu' = IF Awaits(op) THEN ReaderThread ELSE None
    /\ commit' = IF Awaits(op) THEN commit ELSE None
    /\ UNCHANGED <<peerVars, submitCh, checker, canceled, persister, panicked,
                   callVars, given, counters>>

Answer ==
    LET c == submitCh[commit.index] IN
    /\ ~panicked
    /\ mu = ReaderThread
    /\ reply[c] = << >>
    /\ reply' = [reply EXCEPT ![c] = commit.operations]
    /\ mu' = None /\ commit' = None
    /\ UNCHANGED <<peerVars, submitCh, commitIndex, machine, checker, canceled,
                   persister, panicked, pc, result, given, counters>>

\* Mutant of Restored: the snapshot's operations are added to the state.
RestoredOnTop(m) == machine \o m.operations

\* The service's Restore decodes into a fresh map and replaces its own.
Restored(m) == m.operations

ReadSnapshot ==
    /\ ~panicked
    /\ commit # None /\ commit.snapshot
    /\ mu = None
    /\ commitIndex' = IF commit.index > commitIndex THEN commit.index
                      ELSE commitIndex
    /\ machine' = Restored(commit)
    /\ commit' = None
    /\ UNCHANGED <<peerVars, mu, submitCh, checker, canceled, persister,
                   panicked, callVars, given, counters>>

----------------------------------------------------------------------------
(* leaderCheck                                                             *)

SeeNoLeader ==
    /\ ~panicked
    /\ checker = "asleep"
    /\ PeerUnlocked
    /\ ~isLeader
    /\ checker' = "canceling"
    /\ UNCHANGED <<peerVars, mu, submitCh, commitIndex, machine, commit,
                   canceled, persister, panicked, callVars, given, counters>>

Registered == {submitCh[k] : k \in DOMAIN submitCh}

\* Mutant of CollectChannels: the channels stay registered.
CollectAndKeep ==
    /\ ~panicked
    /\ checker = "canceling"
    /\ mu = None
    /\ canceled' = Registered
    /\ checker' = IF Registered = {} THEN "asleep" ELSE "sending"
    /\ UNCHANGED <<peerVars, mu, submitCh, commitIndex, machine, commit,
                   persister, panicked, callVars, given, counters>>

CollectChannels ==
    /\ ~panicked
    /\ checker = "canceling"
    /\ mu = None
    /\ canceled' = Registered
    /\ submitCh' = << >>
    /\ checker' = IF Registered = {} THEN "asleep" ELSE "sending"
    /\ UNCHANGED <<peerVars, mu, commitIndex, machine, commit, persister,
                   panicked, callVars, given, counters>>

\* Mutant of Cancel: gives up after the first of several calls.
CancelOne(c) ==
    /\ ~panicked
    /\ checker = "sending"
    /\ c \in canceled
    /\ reply[c] = << >>
    /\ reply' = [reply EXCEPT ![c] = <<None>>]
    /\ canceled' = {}
    /\ checker' = "asleep"
    /\ UNCHANGED <<peerVars, mu, submitCh, commitIndex, machine, commit,
                   persister, panicked, pc, result, given, counters>>

Cancel(c) ==
    /\ ~panicked
    /\ checker = "sending"
    /\ c \in canceled
    /\ reply[c] = << >>
    /\ reply' = [reply EXCEPT ![c] = <<None>>]
    /\ canceled' = canceled \ {c}
    /\ checker' = IF canceled = {c} THEN "asleep" ELSE "sending"
    /\ UNCHANGED <<peerVars, mu, submitCh, commitIndex, machine, commit,
                   persister, panicked, pc, result, given, counters>>

----------------------------------------------------------------------------
(* persistCheck, which MakeRSM starts unless maxraftstate is -1.           *)

PersistLock ==
    /\ ~panicked
    /\ MaxRaftState # None
    /\ persister = "asleep"
    /\ mu = None
    /\ mu' = PersistThread
    /\ persister' = "measuring"
    /\ UNCHANGED <<peerVars, submitCh, commitIndex, machine, commit, checker,
                   canceled, panicked, callVars, given, counters>>

PersistMeasure ==
    LET needed == Len(log) - base > MaxRaftState /\ commitIndex # 0 IN
    /\ ~panicked
    /\ persister = "measuring"
    /\ PeerUnlocked
    /\ persister' = IF needed THEN "snapshotting" ELSE "asleep"
    /\ mu' = IF needed THEN mu ELSE None
    /\ UNCHANGED <<peerVars, submitCh, commitIndex, machine, commit, checker,
                   canceled, panicked, callVars, given, counters>>

\* Mutant of SnapshotIndex: the operation after the last one is taken in.
SnapshotIndexNext == commitIndex + 1

SnapshotIndex == commitIndex

(***************************************************************************)
(* Snapshot at the index the reader has come to; rebase panics when the    *)
(* peer has installed a later one that the reader has not seen.            *)
(***************************************************************************)
PersistSnapshot ==
    /\ ~panicked
    /\ persister = "snapshotting"
    /\ PeerUnlocked
    /\ panicked' = (SnapshotIndex < base)
    /\ base' = IF SnapshotIndex < base THEN base ELSE SnapshotIndex
    /\ persister' = "asleep"
    /\ mu' = None
    /\ UNCHANGED <<isLeader, log, lastApplied, sending, applyCh, submitCh,
                   commitIndex, machine, commit, checker, canceled, callVars,
                   given, counters>>

----------------------------------------------------------------------------

Next ==
    \/ Elected
    \/ Deposed
    \/ \E k \in 1 .. Len(log) + 1 : \E op \in OperationsAt(k) : Overwritten(k, op)
    \/ \E n \in 1 .. Len(log) : ApplyCommits(n)
    \/ \E n \in {lastApplied, lastApplied + 1} : \E op \in OperationsAt(n) :
           InstallSnapshot(n, op)
    \/ SendApplyMsg
    \/ \E c \in Call : SubmitLock(c)
    \/ \E c \in Call : SubmitStart(c)
    \/ \E c \in Call : SubmitReturn(c)
    \/ Receive
    \/ ReadCommand
    \/ Answer
    \/ ReadSnapshot
    \/ SeeNoLeader
    \/ CollectChannels
    \/ \E c \in Call : Cancel(c)
    \/ PersistLock
    \/ PersistMeasure
    \/ PersistSnapshot

Spec == Init /\ [][Next]_vars

(***************************************************************************)
(* The goroutines of the node are scheduled again and again, and rsm.mu    *)
(* goes to whoever waits for it for long (sync.Mutex hands it over after a *)
(* millisecond).  Nothing is assumed of elections or of other nodes.       *)
(***************************************************************************)
Fairness ==
    /\ WF_vars(SendApplyMsg)
    /\ WF_vars(Receive)
    /\ SF_vars(ReadCommand)
    /\ WF_vars(Answer)
    /\ SF_vars(ReadSnapshot)
    /\ WF_vars(SeeNoLeader)
    /\ SF_vars(CollectChannels)
    /\ WF_vars(PersistMeasure)
    /\ WF_vars(PersistSnapshot)
    /\ \A c \in Call :
           /\ WF_vars(SubmitStart(c))
           /\ WF_vars(SubmitReturn(c))
           /\ WF_vars(Cancel(c))

FairSpec == Spec /\ Fairness
==============================================================================
