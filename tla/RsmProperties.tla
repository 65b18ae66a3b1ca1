---------------------------- MODULE RsmProperties ----------------------------
(***************************************************************************)
(* What Submit and the state machine of a node promise, over Rsm.          *)
(***************************************************************************)
EXTENDS Rsm

Operation == Call \cup {Foreign}
ApplyMsg == [index : Nat, snapshot : BOOLEAN, operations : Seq(Operation)]

(***************************************************************************)
(* Types of the variables of Rsm.                                          *)
(***************************************************************************)
TypeOK ==
    /\ isLeader \in BOOLEAN /\ panicked \in BOOLEAN
    /\ log \in Seq(Operation) /\ machine \in Seq(Operation)
    /\ base \in 0 .. Len(log)
    /\ lastApplied \in base .. Len(log)
    /\ commitIndex \in Nat
    /\ \A m \in ToSet(sending) \cup ToSet(applyCh) \cup ({commit} \ {None}) :
           m \in ApplyMsg
    /\ mu \in Call \cup {None, ReaderThread, PersistThread}
    /\ submitCh \in [DOMAIN submitCh -> Call]
    /\ checker \in {"asleep", "canceling", "sending"}
    /\ canceled \subseteq Call
    /\ persister \in {"asleep", "measuring", "snapshotting"}
    /\ pc \in [Call -> {"idle", "starting", "waiting", "OK", "ErrWrongLeader"}]
    /\ reply \in [Call -> UNION {[1 .. n -> Operation \cup {None}] : n \in 0 .. 1}]
    /\ result \in [Call -> Operation \cup {None}]

(* The messages on their way to the reader, oldest first.  The one whose   *)
(* result the reader is handing over has been executed.                    *)
Unread == IF commit # None /\ mu # ReaderThread THEN <<commit>> ELSE << >>

Queue == Unread \o (applyCh \o sending)

(***************************************************************************)
(* The state machine stands for a beginning of what the peer has applied,  *)
(* each operation once and in the order of the log, and for all of it when *)
(* nothing is on its way, however the snapshot it is restored from at boot *)
(* (MakeRSM), commands, snapshots sent over and snapshots taken here       *)
(* interleave (reader, applyCommits, InstallSnapshot).  commitIndex counts *)
(* its operations from the first message on, and whenever persistCheck     *)
(* says how far its snapshot goes.                                         *)
(***************************************************************************)
ExecutedInOrder ==
    /\ IsPrefix(machine, SubSeq(log, 1, lastApplied))
    /\ Queue = << >> => Len(machine) = lastApplied
    /\ commitIndex \in {0, Len(machine)}
    /\ persister = "snapshotting" => commitIndex = Len(machine)

(***************************************************************************)
(* A call that returns OK returns what its own operation did, though the   *)
(* channels are registered by index and the entry of an index may change   *)
(* hands (reader and Submit).                                              *)
(***************************************************************************)
OwnResult == \A c \in Call : pc[c] = "OK" => result[c] = c

(***************************************************************************)
(* No goroutine waits for room in the channel of a call that will not read *)
(* it any more: channels are never unregistered one by one (the delete in  *)
(* reader is commented out), and still each gets one result at most until  *)
(* its call has read it.  The reader would hold rsm.mu forever.            *)
(***************************************************************************)
NoSenderStuck ==
    /\ mu = ReaderThread => reply[submitCh[commit.index]] = << >>
    /\ \A c \in canceled : reply[c] # << >> => pc[c] = "waiting"

(***************************************************************************)
(* The calls that are registered when the node has lost its leadership for *)
(* good come back: leaderCheck cancels them all.                           *)
(***************************************************************************)
DeposedCallsReturn ==
    \A c \in Call :
        (c \in Registered /\ [](~isLeader /\ ~panicked)) ~> pc[c] # "waiting"

(***************************************************************************)
(* Every entry that Raft has applied reaches the state machine (reader):   *)
(* nobody keeps rsm.mu for good while there is room on applyCh.  (When     *)
(* there is none, somebody may: see StartReturns.)                         *)
(***************************************************************************)
AppliedGetsExecuted ==
    \A n \in 1 .. BootEntries + Cardinality(Call) :
        lastApplied = n ~> (Len(machine) >= n \/ panicked)

(***************************************************************************)
(* Start "return[s] immediately" (raft.go:359-360), so that a Submit that  *)
(* holds rsm.mu gets past it.  The code does not keep it: applyCommits     *)
(* holds the peer's mutex while it waits for room on applyCh, the reader   *)
(* that would make room waits for rsm.mu, and Submit keeps rsm.mu until    *)
(* Start has the peer's mutex.                                             *)
(***************************************************************************)
StartReturns ==
    \A c \in Call : pc[c] = "starting" ~> (pc[c] # "starting" \/ panicked)

(***************************************************************************)
(* A call whose operation is not executed "should return ErrWrongLeader"   *)
(* (rsm.go:151-153), so that every call comes back once a later operation  *)
(* has been executed here in its place.                                    *)
(***************************************************************************)
Superseded(c) ==
    /\ pc[c] = "waiting"
    /\ \E k \in DOMAIN submitCh : /\ submitCh[k] = c
                                /\ k <= commitIndex /\ machine[k] # c

SupersededCallsReturn ==
    \A c \in Call : Superseded(c) ~> pc[c] # "waiting"
==============================================================================
