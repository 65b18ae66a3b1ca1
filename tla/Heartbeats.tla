------------------------------ MODULE Heartbeats ------------------------------
(***************************************************************************)
(* The heartbeat goroutines of src/clerk/clerk.go.  Every node keeps its   *)
(* row of one table up to date; the table is the value of one key, which a *)
(* node reads, changes and writes back whole.                              *)
(***************************************************************************)
EXTENDS Clerk, Functions

CONSTANTS
    MaxBeats            \* bound: heartbeats, of all nodes together

ASSUME HeartbeatsAssumption == MaxBeats \in Nat

VARIABLE
    now                 \* node -> its clock; 0 before the first heartbeat
vars == <<clerkVars, now>>

heartbeatsKey == "heartbeats"
ASSUME KeyAssumption == heartbeatsKey \in Key

Init ==
    /\ ClerkInit
    /\ now = [c \in Caller |-> 0]

(***************************************************************************)
(* A table has a clock for every node; None is neither a request about it  *)
(* nor the answer to one.                                                  *)
(***************************************************************************)
TableOfRows == [Caller -> Nat]
Gets == [type : {"Get"}, key : {heartbeatsKey}]
Puts ==
    [type : {"Put"}, by : Caller, key : {heartbeatsKey}, value : TableOfRows,
     version : Nat]
Request == Gets \cup Puts
Response ==
    [err : {OK, ErrNoKey, ErrVersion, ErrMaybe, ErrWrongLeader},
     value : TableOfRows \cup {NoValue}, version : Nat]
ASSUME NoneAssumption == None \notin Request \cup Response

(* The rows of the table, 0 for a node that has none. *)
NoRows == [c \in Caller |-> 0]
Rows(reply) == IF reply.err = OK THEN reply.value ELSE NoRows

(* The ticker fires: heartbeat notes the time once, and reads the table. *)
Beat(c) ==
    /\ ~InCall(c)
    /\ SumFunction(now) < MaxBeats
    /\ now' = [now EXCEPT ![c] = @ + 1]
    /\ Begin(c, GetReq(heartbeatsKey))
    /\ UNCHANGED <<store, leader, strays, history, troubles>>

HasRead(c) == Returned(c) /\ call[c].req.type = "Get"
HasWritten(c) == Returned(c) /\ call[c].req.type = "Put"

(* Mutant of Table: a node writes its own row only. *)
TableOfOne(c) == [NoRows EXCEPT ![c] = now[c]]

Table(c) == [Rows(call[c].reply) EXCEPT ![c] = now[c]]

(* A table that was not there is written with version 0. *)
ReadVersion(c) == IF call[c].reply.err = OK THEN call[c].reply.version ELSE 0

WriteBack(c) ==
    /\ HasRead(c)
    /\ Begin(c, PutReq(c, heartbeatsKey, Table(c), ReadVersion(c)))
    /\ UNCHANGED <<store, leader, strays, history, troubles, now>>

(* Another node was faster: once more, with the time noted before. *)
Again(c) ==
    /\ HasWritten(c)
    /\ call[c].reply.err = ErrVersion
    /\ Begin(c, GetReq(heartbeatsKey))
    /\ UNCHANGED <<store, leader, strays, history, troubles, now>>

(* OK, ErrMaybe, or an error heartbeat gives up on. *)
Finish(c) ==
    /\ HasWritten(c)
    /\ call[c].reply.err # ErrVersion
    /\ Leave(c)
    /\ UNCHANGED <<store, leader, strays, history, troubles, now>>

(* The node stops; it will come back with a clock that has gone on. *)
Stop(c) ==
    /\ InCall(c)
    /\ StopCall(c)
    /\ UNCHANGED now

Heartbeat(c) == WriteBack(c) \/ Again(c) \/ Finish(c)

Next ==
    \/ ClerkStep /\ UNCHANGED now
    \/ \E c \in Caller : Beat(c) \/ Heartbeat(c) \/ Stop(c)

Spec == Init /\ [][Next]_vars
FairSpec ==
    Spec /\ ClerkFairness /\ \A c \in Caller : WF_vars(Heartbeat(c))
==============================================================================
