---------------------------- MODULE VersionedStore ----------------------------
(***************************************************************************)
(* What the callers of a Clerk (src/clerk/clerk.go, src/rsm/rpc/rpc.go)    *)
(* are promised, whichever nodes serve them and however often a request is *)
(* repeated on the way: every key has a line of values, numbered from 1,   *)
(* that all callers see; a Put adds its value at most once and only behind *)
(* the version it names; and its answer says whether it has, unless it is  *)
(* ErrMaybe.                                                               *)
(***************************************************************************)
EXTENDS Integers, Sequences, SequencesExt

CONSTANTS Caller, Key, None

VARIABLES
    history,        \* key -> the Puts that took effect, in order
    call,           \* caller -> its request and the answer to it, if any
    adrift          \* Puts nobody waits for that may still take effect
vars == <<history, call, adrift>>

Idle == [req |-> None, since |-> 0, answer |-> None]
Open(c) == call[c] # Idle /\ call[c].answer = None

Init ==
    /\ history = [k \in Key |-> << >>]
    /\ call = [c \in Caller |-> Idle]
    /\ adrift = {}

(* A caller makes a request, having read the answer to the one before. *)
Invoke(c) ==
    LET new == call'[c] IN
    /\ ~Open(c)
    /\ new # Idle /\ new.answer = None
    /\ new.req.type = "Get" => new.since = Len(history[new.req.key])
    /\ call' = [call EXCEPT ![c] = new]
    /\ UNCHANGED <<history, adrift>>

Done(c) ==
    /\ call[c] # Idle /\ ~Open(c)
    /\ call' = [call EXCEPT ![c] = Idle]
    /\ UNCHANGED <<history, adrift>>

Underway == {call[c].req : c \in {d \in Caller : Open(d)}}

(* A Put takes effect: once, and only if the key has the version it names. *)
(* There is no hope then for others that name the same version.            *)
Perform ==
    \E put \in Underway \cup adrift :
        /\ put.type = "Put"
        /\ put \notin ToSet(history[put.key])
        /\ put.version = Len(history[put.key])
        /\ history' = [history EXCEPT ![put.key] = Append(@, put)]
        /\ adrift' = {other \in adrift :
                         other.key = put.key => other.version > put.version}
        /\ UNCHANGED call

Answered(c, answer) == call' = [call EXCEPT ![c].answer = answer]

(* A Get answers with a value the key had while the caller waited. *)
AnswerGet(c) ==
    LET key == call[c].req.key
        answer == call'[c].answer IN
    /\ Open(c) /\ call[c].req.type = "Get"
    /\ answer # None
    /\ Answered(c, answer)
    /\ \E version \in call[c].since .. Len(history[key]) :
           \/ version = 0 /\ answer.err = "ErrNoKey"
           \/ /\ version > 0
              /\ answer.err = "OK"
              /\ answer.version = version
              /\ answer.value = history[key][version].value
    /\ UNCHANGED <<history, adrift>>

(***************************************************************************)
(* OK: the Put took effect.  ErrVersion and ErrNoKey: it did not and never *)
(* will.  ErrMaybe: it did, or may yet, or never will.                     *)
(***************************************************************************)
AnswerPut(c) ==
    LET put == call[c].req
        err == call'[c].answer.err
        performed == put \in ToSet(history[put.key]) IN
    /\ Open(c) /\ put.type = "Put"
    /\ call'[c].answer # None
    /\ Answered(c, call'[c].answer)
    /\ \/ err = "OK" /\ performed /\ UNCHANGED adrift
       \/ err \in {"ErrVersion", "ErrNoKey"} /\ ~performed /\ UNCHANGED adrift
       \/ err = "ErrMaybe" /\ adrift' \in {adrift, adrift \cup {put}}
    /\ UNCHANGED history

(* The caller's process ends before the answer. *)
Leave(c) ==
    /\ Open(c)
    /\ call' = [call EXCEPT ![c] = Idle]
    /\ adrift' \in {adrift, adrift \cup {call[c].req}}
    /\ UNCHANGED history

Next ==
    \/ Perform
    \/ \E c \in Caller :
           Invoke(c) \/ Done(c) \/ AnswerGet(c) \/ AnswerPut(c) \/ Leave(c)

Spec == Init /\ [][Next]_vars
==============================================================================
