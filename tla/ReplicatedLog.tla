---------------------------- MODULE ReplicatedLog ----------------------------
(***************************************************************************)
(* What raftapi.go promises the service on top of Raft: the state machine  *)
(* of every peer is handed one and the same growing sequence of entries.   *)
(* decided is that sequence, machine[i] what peer i has been handed since  *)
(* its last boot.  How the peers agree is not said here.                   *)
(***************************************************************************)
EXTENDS Naturals, Sequences, SequencesExt

CONSTANT Server

VARIABLES decided, machine

logVars == <<decided, machine>>

Init ==
    /\ decided = << >>
    /\ machine = [i \in Server |-> << >>]

OnlyMachine(i) == machine' = [machine EXCEPT ![i] = machine'[i]]

(***************************************************************************)
(* A peer is handed entries nobody has seen before: the sequence grows.    *)
(***************************************************************************)
Decide(i) ==
    /\ IsStrictPrefix(machine[i], machine'[i])
    /\ IsStrictPrefix(decided, machine'[i])
    /\ decided' = machine'[i]
    /\ OnlyMachine(i)

(***************************************************************************)
(* A peer catches up, by entries or by a snapshot.                         *)
(***************************************************************************)
CatchUp(i) ==
    /\ IsStrictPrefix(machine[i], machine'[i])
    /\ IsPrefix(machine'[i], decided)
    /\ UNCHANGED decided
    /\ OnlyMachine(i)

(***************************************************************************)
(* A peer restarts, and its state machine from a snapshot of its own.      *)
(***************************************************************************)
Restart(i) ==
    /\ IsPrefix(machine'[i], machine[i])
    /\ UNCHANGED decided
    /\ OnlyMachine(i)

Next == \E i \in Server : Decide(i) \/ CatchUp(i) \/ Restart(i)

Spec == Init /\ [][Next]_logVars
==============================================================================
