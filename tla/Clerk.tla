-------------------------------- MODULE Clerk --------------------------------
(***************************************************************************)
(* Get and Put of src/clerk/clerk.go against the nodes that serve them     *)
(* (the gRPC handlers of src/kv/kv.go).  Below the handlers is what        *)
(* src/rsm/rsm.go does with a request, as module Rsm shows it: Submit      *)
(* refuses it on a node that does not lead, otherwise puts it into the log *)
(* and waits until it is executed or leaderCheck cancels it; a cancelled   *)
(* request may be executed later, or never.                                *)
(*                                                                         *)
(* The module has no Next: its callers drive it (module Heartbeats).       *)
(***************************************************************************)
EXTENDS KvStore, Sequences, FiniteSets

CONSTANTS
    Caller,             \* goroutines that use a clerk
    Key,
    Nodes,              \* number of nodes, and of stubs in peers[]
    None,
    MaxTroubles         \* bound: leaderships that end, attempts that fail
                        \* while they might succeed, nodes that stop

ASSUME ClerkAssumption ==
    /\ Nodes \in Nat \ {0}
    /\ MaxTroubles \in Nat

Node == 0 .. Nodes - 1

VARIABLES
    store,              \* what executing the log has made of the store
    leader,             \* the node that leads, if any
    call,               \* caller -> the Get or Put it is in
    strays              \* Puts of attempts given up that may still take effect
VARIABLES
    history,            \* history: key -> the Puts that took effect, in order
    troubles            \* what the bound counts
clerkVars == <<store, leader, call, strays, history, troubles>>

NoCall == [req |-> None]
InCall(c) == call[c] # NoCall

ClerkInit ==
    /\ store = EmptyStore
    /\ leader = 0
    /\ call = [c \in Caller |-> NoCall]
    /\ strays = {}
    /\ history = [k \in Key |-> << >>]
    /\ troubles = 0

Trouble == troubles < MaxTroubles /\ troubles' = troubles + 1

----------------------------------------------------------------------------
(* Leadership, as far as the clerks notice it. *)

At(c, rpc) == InCall(c) /\ call[c].rpc = rpc

(* What has been submitted to the leader may or may not be executed. *)
Depose ==
    /\ leader # None
    /\ Trouble
    /\ leader' = None
    /\ call' = [c \in Caller |->
                   IF At(c, "submitted") THEN [call[c] EXCEPT !.rpc = "stranded"]
                   ELSE call[c]]
    /\ UNCHANGED <<store, strays, history>>

Elect ==
    /\ leader = None
    /\ leader' \in Node
    /\ UNCHANGED <<store, call, strays, history, troubles>>

----------------------------------------------------------------------------
(* A call of Get or Put: the request, the attempt it is in, and in the end *)
(* what it returns.  An attempt is sent, perhaps submitted to the log,     *)
(* perhaps stranded there, and then answered or failed.                    *)

(***************************************************************************)
(* The clerk of a node is shared by goroutines that read and write         *)
(* ck.leader without a lock: the first attempt may be at any node.         *)
(***************************************************************************)
Called(req, n) ==
    [req |-> req, at |-> n, retrying |-> FALSE, rpc |-> "sent", reply |-> None,
     since |-> IF req.type = "Get" THEN Len(history[req.key]) ELSE 0]

Begin(c, req) == \E n \in Node : call' = [call EXCEPT ![c] = Called(req, n)]

Answer(c, reply) ==
    call' = [call EXCEPT ![c].rpc = "answered", ![c].reply = reply]

(***************************************************************************)
(* The Put of c outlives the attempt.  A Put whose version the key has     *)
(* passed is forgotten: nothing comes of it when it is executed.           *)
(***************************************************************************)
Alive(puts, st) ==
    {put \in puts : Holds(st, put.key) => put.version >= st[put.key].version}

Strayed(c) ==
    strays \cup Alive({r \in {call[c].req} : r.type = "Put"}, store)

(* The node does not lead: Submit returns ErrWrongLeader at once. *)
Refuse(c) ==
    /\ At(c, "sent")
    /\ call[c].at # leader
    /\ Answer(c, Error(ErrWrongLeader))
    /\ UNCHANGED <<store, leader, strays, history, troubles>>

Submit(c) ==
    /\ At(c, "sent")
    /\ call[c].at = leader
    /\ call' = [call EXCEPT ![c].rpc = "submitted"]
    /\ UNCHANGED <<store, leader, strays, history, troubles>>

Effect(req) ==
    /\ store' = After(store, req)
    /\ strays' = Alive(strays, store')
    /\ history' = IF req.type = "Put" /\ PutErr(store, req) = OK
                  THEN [history EXCEPT ![req.key] = Append(@, req)] ELSE history

(* The entry is committed, DoOp executes it, and its reply is under way. *)
Execute(c) ==
    /\ At(c, "submitted") \/ At(c, "stranded")
    /\ Effect(call[c].req)
    /\ Answer(c, Reply(store, call[c].req))
    /\ UNCHANGED <<leader, troubles>>

(* leaderCheck tells the handler; the entry stays where it is. *)
Cancel(c) ==
    /\ At(c, "stranded")
    /\ Answer(c, Error(ErrWrongLeader))
    /\ strays' = Strayed(c)
    /\ UNCHANGED <<store, leader, history, troubles>>

Failed(c) ==
    /\ call' = [call EXCEPT ![c].rpc = "failed", ![c].reply = None]
    /\ strays' = IF At(c, "answered") THEN strays ELSE Strayed(c)
    /\ UNCHANGED <<store, leader, history>>

(* leaderCheck has not noticed, and callTimeout passes. *)
Expire(c) ==
    /\ At(c, "stranded")
    /\ Failed(c)
    /\ UNCHANGED troubles

(* The connection breaks or callTimeout passes, wherever the request is. *)
Fail(c) ==
    /\ At(c, "sent") \/ At(c, "submitted") \/ At(c, "answered")
    /\ Trouble
    /\ Failed(c)

(* An attempt that was given up is executed after all. *)
ExecuteStray ==
    \E put \in strays :
        /\ Effect(put)
        /\ UNCHANGED <<leader, call, troubles>>

----------------------------------------------------------------------------
(* The clerk looks at the outcome of an attempt. *)

WrongLeader(c) == call[c].rpc = "answered" /\ call[c].reply.err = ErrWrongLeader
GotAnswer(c) == call[c].rpc = "answered" /\ ~WrongLeader(c)

(* Mutant of NextNode: the clerk stays at the last node. *)
NextNodeUpToLast(n) == IF n + 1 < Nodes THEN n + 1 ELSE n

NextNode(n) == (n + 1) % Nodes

(* Get asks the next node; Put asks the same node again after its first    *)
(* attempt has failed, and the next one otherwise.                         *)
NextAttempt(c) ==
    LET stays == /\ call[c].req.type = "Put"
                 /\ ~call[c].retrying
                 /\ ~WrongLeader(c) IN
    [call[c] EXCEPT !.at = IF stays THEN @ ELSE NextNode(@),
                    !.retrying = TRUE, !.rpc = "sent", !.reply = None]

Retry(c) ==
    /\ At(c, "failed") \/ (At(c, "answered") /\ WrongLeader(c))
    /\ call' = [call EXCEPT ![c] = NextAttempt(c)]
    /\ UNCHANGED <<store, leader, strays, history, troubles>>

(* Mutant of Outcome: ErrVersion is believed whenever it comes. *)
OutcomeAsAnswered(c) == call[c].reply

(***************************************************************************)
(* What Get or Put makes of a node's answer: a repeated Put that meets     *)
(* ErrVersion may have met its own first attempt.                          *)
(***************************************************************************)
Outcome(c) ==
    LET ambiguous == /\ call[c].req.type = "Put"
                     /\ call[c].retrying
                     /\ call[c].reply.err = ErrVersion IN
    IF ambiguous THEN Error(ErrMaybe) ELSE call[c].reply

Return(c) ==
    /\ At(c, "answered")
    /\ GotAnswer(c)
    /\ call' = [call EXCEPT ![c].rpc = "returned", ![c].reply = Outcome(c)]
    /\ UNCHANGED <<store, leader, strays, history, troubles>>

Returned(c) == At(c, "returned")

(* The caller goes on without a call. *)
Leave(c) == call' = [call EXCEPT ![c] = NoCall]

(* The caller's node stops, whatever the caller is doing. *)
StopCall(c) ==
    /\ Trouble
    /\ Leave(c)
    /\ strays' = IF At(c, "answered") \/ Returned(c) THEN strays ELSE Strayed(c)
    /\ UNCHANGED <<store, leader, history>>

(* A step of the clerk, or of a node, for caller c. *)
Serve(c) == Refuse(c) \/ Submit(c) \/ Execute(c) \/ Cancel(c) \/ Expire(c)
Proceed(c) == Retry(c) \/ Return(c)
Environment == Depose \/ Elect \/ ExecuteStray

ClerkStep ==
    \/ Environment
    \/ \E c \in Caller : Serve(c) \/ Proceed(c) \/ Fail(c)

ClerkFairness ==
    /\ WF_clerkVars(Elect)
    /\ \A c \in Caller :
           /\ WF_clerkVars(Refuse(c) \/ Submit(c))
           /\ WF_clerkVars(At(c, "submitted") /\ Execute(c))
           /\ WF_clerkVars(Cancel(c) \/ Expire(c))
           /\ WF_clerkVars(Proceed(c))
==============================================================================
