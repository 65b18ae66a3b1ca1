--------------------------- MODULE HeartbeatsProofs ---------------------------
(***************************************************************************)
(* Proofs about the clerk and its heartbeats: the table of heartbeats only *)
(* moves forward, and calls of Get and Put are the atomic accesses to a    *)
(* versioned store that module VersionedStore promises.                    *)
(***************************************************************************)
EXTENDS HeartbeatsProperties, SequenceTheorems, TLAPS

----------------------------------------------------------------------------
(* The invariant.                                                          *)

Steps == {"sent", "submitted", "stranded", "answered", "failed", "returned"}

CallType ==
    [req : Request, at : Node, retrying : BOOLEAN, rpc : Steps,
     reply : Response \cup {None}, since : Nat]

BeatTypes ==
    /\ now \in [Caller -> Nat]
    /\ history \in [Key -> Seq(Puts)]
    /\ call \in [Caller -> {NoCall} \cup CallType]
    /\ strays \subseteq Puts

(* The Puts that have written the table, and its version. *)
Line == history[heartbeatsKey]
Version == Len(Line)

(* The table as it was at a version. *)
RowsAt(version) == IF version = 0 THEN NoRows ELSE Line[version].value

StoreInv ==
    /\ \/ store = EmptyStore /\ Version = 0
       \/ /\ Version # 0
          /\ store = [key \in {heartbeatsKey} |->
                         [value |-> Line[Version].value, version |-> Version]]
    /\ \A i \in 1 .. Version : Line[i].version = i - 1

(* The Puts that nobody will make any more. *)
Past == strays \cup {Line[i] : i \in 1 .. Version}

Getting(c) == InCall(c) /\ call[c].req.type = "Get"
Putting(c) == InCall(c) /\ call[c].req.type = "Put"

(* A Put that could still take effect takes no row of the table back. *)
Forward(put) ==
    put.version = Version => \A c \in Caller : put.value[c] >= RowsAt(Version)[c]

PastInv ==
    /\ \A put \in Past : \A c \in Caller : put.value[c] <= now[c]
    /\ \A put \in strays : put.version = Version /\ Forward(put)

(***************************************************************************)
(* Every call of a node makes a request it has not made before: the clock  *)
(* or the version it read has gone on since.                               *)
(***************************************************************************)
Known(c) == {put \in Past : put.by = c /\ put.value[c] = now[c]}

RequestInv(c) ==
    /\ Getting(c) =>
           /\ call[c].since <= Version
           /\ \A put \in Known(c) : put.version < call[c].since
    /\ Putting(c) =>
           /\ call[c].req.by = c
           /\ call[c].req.version <= Version
           /\ \A d \in Caller : call[c].req.value[d] <= now[d]
           /\ Forward(call[c].req)
           /\ \A put \in Known(c) :
                  put # call[c].req => put.version < call[c].req.version

(* What a Get may answer, and what a Put has come to. *)
ReadAt(reply, version) ==
    \/ version = 0 /\ reply = Error(ErrNoKey)
    \/ /\ version > 0
       /\ reply = [err |-> OK, value |-> RowsAt(version), version |-> version]

GetInv(c) ==
    call[c].rpc \in {"answered", "returned"} =>
           \/ call[c].rpc = "answered" /\ call[c].reply = Error(ErrWrongLeader)
           \/ \E v \in call[c].since .. Version : ReadAt(call[c].reply, v)

Refused(put) == put \notin Past /\ put.version < Version

PutInv(c) ==
    /\ ~call[c].retrying /\ call[c].rpc \in {"sent", "submitted", "stranded"} =>
           call[c].req \notin Past
    /\ call[c].rpc \in {"answered", "returned"} =>
           \/ call[c].rpc = "answered" /\ call[c].reply = Error(ErrWrongLeader)
           \/ /\ call[c].reply = Error(OK)
              /\ call[c].req \in {Line[i] : i \in 1 .. Version}
           \/ /\ call[c].reply = Error(ErrVersion)
              /\ call[c].rpc = "returned" => ~call[c].retrying
              /\ ~call[c].retrying => Refused(call[c].req)
           \/ call[c].rpc = "returned" /\ call[c].reply = Error(ErrMaybe)

AnswerInv(c) == (Getting(c) => GetInv(c)) /\ (Putting(c) => PutInv(c))

CallsInv == \A c \in Caller : RequestInv(c) /\ AnswerInv(c)

BeatInv == BeatTypes /\ StoreInv /\ PastInv /\ CallsInv

----------------------------------------------------------------------------
(* Calls and requests.                                                     *)

LEMMA Requests ==
    /\ \A r \in Request : /\ r # None /\ r.type \in {"Get", "Put"} /\ r.key = heartbeatsKey
                          /\ r.type = "Get" => r \in Gets
                          /\ r.type = "Put" => r \in Puts
    /\ \A r \in Puts : /\ r \in Request /\ r.type = "Put" /\ r.key = heartbeatsKey
                       /\ r.version \in Nat /\ r.by \in Caller
                       /\ r.value \in [Caller -> Nat]
    /\ GetReq(heartbeatsKey) \in Gets /\ GetReq(heartbeatsKey).type = "Get"
BY NoneAssumption DEF Request, Gets, Puts, GetReq, TableOfRows

LEMMA Errors ==
    \A err \in {OK, ErrNoKey, ErrVersion, ErrMaybe, ErrWrongLeader} :
        Error(err) \in Response /\ Error(err).err = err
BY DEF Error, Response

LEMMA ErrorNames ==
    /\ OK = "OK" /\ ErrNoKey = "ErrNoKey" /\ ErrVersion = "ErrVersion"
    /\ ErrMaybe = "ErrMaybe" /\ ErrWrongLeader = "ErrWrongLeader"
BY DEF OK, ErrNoKey, ErrVersion, ErrMaybe, ErrWrongLeader

LEMMA CallFields ==
    ASSUME BeatTypes, NEW c \in Caller
    PROVE  /\ InCall(c) => /\ call[c] \in CallType
                           /\ call[c].req \in Request /\ call[c].since \in Nat
                           /\ call[c].reply \in Response \cup {None}
                           /\ call[c].retrying \in BOOLEAN
                           /\ Getting(c) \/ Putting(c)
           /\ Getting(c) => InCall(c) /\ call[c].req \in Gets
           /\ Putting(c) => InCall(c) /\ call[c].req \in Puts
           /\ ~(Getting(c) /\ Putting(c))
<1>1. InCall(c) => call[c] \in CallType
  BY DEF BeatTypes, InCall
<1>2. call[c] \in CallType =>
          /\ call[c].req \in Request /\ call[c].since \in Nat
          /\ call[c].reply \in Response \cup {None} /\ call[c].retrying \in BOOLEAN
  BY DEF CallType
<1> QED
  BY <1>1, <1>2, Requests DEF Getting, Putting

LEMMA CallsHaveRequests ==
    ASSUME NEW v \in CallType
    PROVE  v # NoCall
<1>1. v.req # None
  BY Requests DEF CallType
<1> QED
  BY <1>1 DEF NoCall

(***************************************************************************)
(* A step of a call that goes on.                                          *)
(***************************************************************************)
OthersWait(c) == \A d \in Caller : d # c => call'[d] = call[d]

Moves(c, rpc, retrying, reply) ==
    /\ call' \in [Caller -> {NoCall} \cup CallType]
    /\ InCall(c) /\ InCall(c)' /\ OthersWait(c)
    /\ call'[c].req = call[c].req /\ call'[c].since = call[c].since
    /\ call'[c].rpc = rpc /\ call'[c].retrying = retrying /\ call'[c].reply = reply

LEMMA MoveOf ==
    ASSUME BeatTypes, NEW c \in Caller, InCall(c), NEW v \in CallType,
           call' = [call EXCEPT ![c] = v],
           v.req = call[c].req, v.since = call[c].since
    PROVE  Moves(c, v.rpc, v.retrying, v.reply)
<1>1. call' \in [Caller -> {NoCall} \cup CallType] /\ call'[c] = v /\ OthersWait(c)
  BY DEF BeatTypes, OthersWait
<1>2. call'[c] # NoCall
  BY <1>1, CallsHaveRequests
<1> QED
  BY <1>1, <1>2 DEF Moves, InCall

LEMMA AnswerMoves ==
    ASSUME BeatTypes, NEW c \in Caller, InCall(c), NEW reply \in Response,
           NEW step \in Steps,
           call' = [call EXCEPT ![c].rpc = step, ![c].reply = reply]
    PROVE  Moves(c, step, call[c].retrying, reply)
<1>1. call[c] \in CallType
  BY CallFields
<1>2. PICK v : v = [call[c] EXCEPT !.rpc = step, !.reply = reply]
  OBVIOUS
<1>3. /\ v \in CallType /\ v.req = call[c].req /\ v.since = call[c].since
      /\ v.rpc = step /\ v.retrying = call[c].retrying /\ v.reply = reply
  BY <1>1, <1>2 DEF CallType
<1>4. call' = [call EXCEPT ![c] = v]
  BY <1>1, <1>2 DEF BeatTypes, CallType
<1> QED
  BY <1>3, <1>4, MoveOf

LEMMA SubmitMoves ==
    ASSUME BeatTypes, NEW c \in Caller, Submit(c)
    PROVE  Moves(c, "submitted", call[c].retrying, call[c].reply)
<1>1. InCall(c) /\ call[c] \in CallType
  BY CallFields DEF Submit, At
<1>2. PICK v : v = [call[c] EXCEPT !.rpc = "submitted"]
  OBVIOUS
<1>3. /\ v \in CallType /\ v.req = call[c].req /\ v.since = call[c].since
      /\ v.rpc = "submitted" /\ v.retrying = call[c].retrying /\ v.reply = call[c].reply
  BY <1>1, <1>2 DEF CallType, Steps
<1>4. call' = [call EXCEPT ![c] = v]
  BY <1>1, <1>2 DEF BeatTypes, CallType, Submit
<1> QED
  BY <1>1, <1>3, <1>4, MoveOf

LEMMA FailedMoves ==
    ASSUME BeatTypes, NEW c \in Caller, InCall(c), Failed(c)
    PROVE  Moves(c, "failed", call[c].retrying, None)
<1>1. call[c] \in CallType
  BY CallFields
<1>2. PICK v : v = [call[c] EXCEPT !.rpc = "failed", !.reply = None]
  OBVIOUS
<1>3. /\ v \in CallType /\ v.req = call[c].req /\ v.since = call[c].since
      /\ v.rpc = "failed" /\ v.retrying = call[c].retrying /\ v.reply = None
  BY <1>1, <1>2 DEF CallType, Steps
<1>4. call' = [call EXCEPT ![c] = v]
  BY <1>1, <1>2 DEF BeatTypes, CallType, Failed
<1> QED
  BY <1>3, <1>4, MoveOf

LEMMA NodesGoRound ==
    \A n \in Node : NextNode(n) \in Node
BY ClerkAssumption DEF Node, NextNode

LEMMA RetryMoves ==
    ASSUME BeatTypes, NEW c \in Caller, Retry(c)
    PROVE  Moves(c, "sent", TRUE, None)
<1>1. InCall(c) /\ call[c] \in CallType
  BY CallFields DEF Retry, At
<1>2. PICK v : v = NextAttempt(c)
  OBVIOUS
<1>3. PICK n : /\ v = [call[c] EXCEPT !.at = n, !.retrying = TRUE, !.rpc = "sent",
                                      !.reply = None]
               /\ n \in {call[c].at, NextNode(call[c].at)}
  BY <1>1, <1>2 DEF NextAttempt, CallType
<1>4. n \in Node
  BY <1>1, <1>3, NodesGoRound DEF CallType
<1>5. /\ v \in CallType /\ v.req = call[c].req /\ v.since = call[c].since
      /\ v.rpc = "sent" /\ v.retrying = TRUE /\ v.reply = None
  BY <1>1, <1>3, <1>4 DEF CallType, Steps
<1>6. call' = [call EXCEPT ![c] = v]
  BY <1>2 DEF Retry
<1> QED
  BY <1>1, <1>5, <1>6, MoveOf

----------------------------------------------------------------------------
(* The store is the last entry of the line of Puts.                        *)

LEMMA LineType ==
    ASSUME BeatTypes
    PROVE  /\ Line \in Seq(Puts) /\ Version \in Nat
           /\ \A i \in 1 .. Version : Line[i] \in Puts
           /\ NoRows \in [Caller -> Nat]
           /\ \A v \in 0 .. Version : RowsAt(v) \in [Caller -> Nat]
<1>1. Line \in Seq(Puts)
  BY KeyAssumption DEF BeatTypes, Line
<1>2. Version \in Nat /\ \A i \in 1 .. Version : Line[i] \in Puts
  BY <1>1 DEF Version
<1>3. NoRows \in [Caller -> Nat]
  BY DEF NoRows
<1> QED
  BY <1>1, <1>2, <1>3, Requests DEF RowsAt

LEMMA StoreIs ==
    ASSUME BeatTypes, StoreInv
    PROVE  /\ Holds(store, heartbeatsKey) <=> Version # 0
           /\ Version # 0 => /\ store[heartbeatsKey].version = Version
                             /\ store[heartbeatsKey].value = Line[Version].value
           /\ DOMAIN store \subseteq {heartbeatsKey}
<1>1. CASE store = EmptyStore /\ Version = 0
  BY <1>1 DEF Holds, EmptyStore
<1>2. CASE /\ Version # 0
           /\ store = [key \in {heartbeatsKey} |->
                          [value |-> Line[Version].value, version |-> Version]]
  BY <1>2 DEF Holds
<1> QED
  BY <1>1, <1>2 DEF StoreInv

LEMMA ReadsTheLine ==
    ASSUME BeatTypes, StoreInv
    PROVE  /\ ReadAt(GetReply(store, heartbeatsKey), Version)
           /\ TableRows = RowsAt(Version)
<1>1. CASE Version = 0
  <2>1. GetReply(store, heartbeatsKey) = Error(ErrNoKey)
    BY <1>1, StoreIs DEF GetReply
  <2>2. Error(ErrNoKey).err # OK
    BY Errors, ErrorNames
  <2> QED
    BY <1>1, <2>1, <2>2 DEF ReadAt, TableRows, Rows, RowsAt
<1>2. CASE Version # 0
  <2>1. GetReply(store, heartbeatsKey)
            = [err |-> OK, value |-> Line[Version].value, version |-> Version]
    BY <1>2, StoreIs DEF GetReply
  <2>2. TableRows = Line[Version].value /\ Version \in Nat
    BY <2>1, LineType DEF TableRows, Rows
  <2> QED
    BY <1>2, <2>1, <2>2 DEF ReadAt, RowsAt
<1> QED
  BY <1>1, <1>2

LEMMA PutErrIs ==
    ASSUME BeatTypes, StoreInv, NEW put \in Puts, put.version <= Version
    PROVE  PutErr(store, put) = IF put.version = Version THEN OK ELSE ErrVersion
<1>1. put.version \in Nat /\ put.key = heartbeatsKey /\ Version \in Nat
  BY Requests, LineType
<1>2. CASE Version = 0
  BY <1>1, <1>2, StoreIs DEF PutErr
<1>3. CASE Version # 0
  BY <1>1, <1>3, StoreIs DEF PutErr
<1> QED
  BY <1>2, <1>3

(***************************************************************************)
(* What executing a request does: nothing, or it adds a Put to the line,   *)
(* and all attempts that were given up have come too late.                 *)
(***************************************************************************)
Adds(put) ==
    /\ put \in Puts /\ put.version = Version
    /\ history' = [history EXCEPT ![heartbeatsKey] = Append(@, put)]
    /\ strays' = {}
    /\ StoreInv'

LEMMA EffectIs ==
    ASSUME BeatTypes, StoreInv, \A put \in strays : put.version = Version,
           NEW req \in Request, req.type = "Put" => req.version <= Version,
           Effect(req)
    PROVE  \/ /\ UNCHANGED <<store, history, strays>>
              /\ req.type = "Get" \/ (req.type = "Put" /\ req.version < Version)
           \/ Adds(req)
<1>1. CASE req.type = "Get"
  <2>1. store' = store /\ history' = history
    BY <1>1 DEF Effect, After
  <2>2. strays' = strays
    <3>1. \A put \in strays : /\ put.key = heartbeatsKey /\ put.version \in Nat
                              /\ put.version = Version
      BY Requests DEF BeatTypes
    <3>2. Alive(strays, store) = strays
      BY <3>1, StoreIs DEF Alive
    <3> QED
      BY <2>1, <3>2 DEF Effect
  <2> QED
    BY <1>1, <2>1, <2>2
<1>2. CASE req.type = "Put" /\ req.version # Version
  <2>1. req \in Puts /\ req.version < Version
    BY <1>2, Requests, LineType
  <2>2. PutErr(store, req) = ErrVersion
    BY <1>2, <2>1, PutErrIs
  <2>3. store' = store /\ history' = history
    BY <1>2, <2>2, ErrorNames DEF Effect, After, AfterPut
  <2>4. strays' = strays
    <3>1. \A put \in strays : /\ put.key = heartbeatsKey /\ put.version \in Nat
                              /\ put.version = Version
      BY Requests DEF BeatTypes
    <3>2. Alive(strays, store) = strays
      BY <3>1, StoreIs DEF Alive
    <3> QED
      BY <2>3, <3>2 DEF Effect
  <2> QED
    BY <1>2, <2>1, <2>3, <2>4
<1>3. CASE req.type = "Put" /\ req.version = Version
  <2>1. req \in Puts /\ req.key = heartbeatsKey
    BY <1>3, Requests
  <2>2. PutErr(store, req) = OK
    BY <1>3, <2>1, PutErrIs
  <2>3. /\ store' = Written(store, req)
        /\ history' = [history EXCEPT ![heartbeatsKey] = Append(@, req)]
    BY <1>3, <2>1, <2>2 DEF Effect, After, AfterPut
  <2>4. store' = [key \in {heartbeatsKey} |->
                     [value |-> req.value, version |-> Version + 1]]
    <3>1. DOMAIN store \cup {heartbeatsKey} = {heartbeatsKey}
      BY StoreIs
    <3> QED
      BY <1>3, <2>1, <2>3, <3>1 DEF Written
  <2>5. /\ Version \in Nat /\ Version' = Version + 1
        /\ Line'[Version + 1] = req
        /\ \A i \in 1 .. Version : Line'[i] = Line[i]
    <3>1. Line' = Append(Line, req)
      BY <2>3, KeyAssumption DEF Line, BeatTypes
    <3>2. Line \in Seq(Puts) /\ Version \in Nat
      BY LineType
    <3> QED
      BY <2>1, <3>1, <3>2, AppendProperties DEF Version
  <2>6. StoreInv'
    <3>1. Line'[Version'].value = req.value /\ Version' # 0
      BY <2>5
    <3>2. store' = [key \in {heartbeatsKey} |->
                       [value |-> Line'[Version'].value, version |-> Version']]
      BY <2>4, <2>5, <3>1
    <3>3. \A i \in 1 .. Version' : Line'[i].version = i - 1
      BY <1>3, <2>5 DEF StoreInv
    <3> QED
      BY <3>1, <3>2, <3>3 DEF StoreInv
  <2>7. strays' = {}
    <3>1. \A put \in strays : /\ put.key = heartbeatsKey /\ put.version \in Nat
                              /\ put.version = Version
      BY Requests DEF BeatTypes
    <3>2. Holds(store', heartbeatsKey) /\ store'[heartbeatsKey].version = Version + 1
      BY <2>4 DEF Holds
    <3>3. strays' = Alive(strays, store')
      BY DEF Effect
    <3> QED
      BY <3>1, <3>2, <3>3 DEF Alive
  <2> QED
    BY <1>3, <2>1, <2>3, <2>6, <2>7 DEF Adds
<1> QED
  BY <1>1, <1>2, <1>3, Requests

LEMMA AddsToLine ==
    ASSUME BeatTypes, NEW put, Adds(put)
    PROVE  /\ Version' = Version + 1 /\ Line'[Version + 1] = put
           /\ \A i \in 1 .. Version : Line'[i] = Line[i]
           /\ Past' = {Line[i] : i \in 1 .. Version} \cup {put}
           /\ history' \in [Key -> Seq(Puts)]
<1>1. Line' = Append(Line, put)
  BY KeyAssumption DEF Line, BeatTypes, Adds
<1>2. Line \in Seq(Puts) /\ Version \in Nat /\ put \in Puts
  BY LineType DEF Adds
<1>3. /\ Version' = Version + 1 /\ Line'[Version + 1] = put
      /\ \A i \in 1 .. Version : Line'[i] = Line[i]
  BY <1>1, <1>2, AppendProperties DEF Version
<1>4. Past' = {Line'[i] : i \in 1 .. Version + 1}
  BY <1>3 DEF Past, Adds
<1>5. {Line'[i] : i \in 1 .. Version + 1} = {Line[i] : i \in 1 .. Version} \cup {put}
  BY <1>2, <1>3
<1>6. history' \in [Key -> Seq(Puts)]
  <2>1. Append(history[heartbeatsKey], put) \in Seq(Puts)
    BY <1>2, AppendProperties DEF Line
  <2> QED
    BY <2>1 DEF Adds, BeatTypes
<1> QED
  BY <1>3, <1>4, <1>5, <1>6

----------------------------------------------------------------------------
(* What a step leaves of the invariant.                                    *)

LineGrows ==
    /\ Version' \in Nat /\ Version <= Version'
    /\ \A i \in 1 .. Version : Line'[i] = Line[i]

Later == now' \in [Caller -> Nat] /\ \A c \in Caller : now'[c] >= now[c]

LEMMA RowsKept ==
    ASSUME BeatTypes, LineGrows
    PROVE  /\ \A v \in 0 .. Version : RowsAt(v)' = RowsAt(v)
           /\ \A reply : \A v \in 0 .. Version : ReadAt(reply, v) => ReadAt(reply, v)'
           /\ {Line[i] : i \in 1 .. Version} \subseteq {Line[i] : i \in 1 .. Version}'
<1>1. Version \in Nat
  BY LineType
<1>2. \A v \in 0 .. Version : RowsAt(v)' = RowsAt(v)
  BY <1>1 DEF RowsAt, LineGrows
<1>3. \A reply : \A v \in 0 .. Version : ReadAt(reply, v) => ReadAt(reply, v)'
  BY <1>2 DEF ReadAt
<1>4. {Line[i] : i \in 1 .. Version} \subseteq {Line[i] : i \in 1 .. Version}'
  BY <1>1 DEF LineGrows
<1> QED
  BY <1>2, <1>3, <1>4

LEMMA ForwardKept ==
    ASSUME BeatTypes, LineGrows, NEW put \in Puts, put.version <= Version, Forward(put)
    PROVE  Forward(put)'
<1> SUFFICES ASSUME put.version = Version'
             PROVE  \A c \in Caller : put.value[c] >= RowsAt(Version)'[c]
  BY DEF Forward
<1>1. Version \in Nat /\ Version' \in Nat /\ Version <= Version'
  BY LineType DEF LineGrows
<1>2. Version' = Version
  BY <1>1
<1>3. RowsAt(Version)' = RowsAt(Version)
  BY <1>1, <1>2, RowsKept
<1> QED
  BY <1>2, <1>3 DEF Forward

LEMMA RequestKept ==
    ASSUME BeatTypes, LineGrows, Later, NEW c \in Caller, RequestInv(c),
           now'[c] = now[c], InCall(c), InCall(c)',
           call'[c].req = call[c].req, call'[c].since = call[c].since,
           \A put \in Past' : put \in Puts /\ (put \in Past \/ put.by # c
                                               \/ put = call[c].req)
    PROVE  RequestInv(c)'
<1>1. \A put \in Known(c)' : put \in Known(c) \/ put = call[c].req
  BY DEF Known
<1>2. /\ Version \in Nat /\ Version' \in Nat /\ Version <= Version'
      /\ call[c].since \in Nat
  BY LineType, CallFields DEF LineGrows
<1>3. ASSUME Getting(c)
      PROVE  /\ call'[c].since <= Version'
             /\ \A put \in Known(c)' : put.version < call'[c].since
  <2>1. \A put \in Known(c)' : put.type = "Put"
    BY Requests DEF Known
  <2>2. \A put \in Known(c)' : put \in Known(c)
    BY <1>1, <1>3, <2>1 DEF Getting
  <2> QED
    BY <1>2, <1>3, <2>2 DEF RequestInv
<1>4. ASSUME Putting(c)
      PROVE  /\ call[c].req.by = c
             /\ call[c].req.version <= Version'
             /\ \A d \in Caller : call[c].req.value[d] <= now'[d]
             /\ Forward(call[c].req)'
             /\ \A put \in Known(c)' :
                    put # call[c].req => put.version < call[c].req.version
  <2>1. call[c].req \in Puts /\ call[c].req.version <= Version /\ Forward(call[c].req)
    BY <1>4, CallFields DEF RequestInv
  <2>2. /\ call[c].req.version \in Nat
        /\ \A d \in Caller : call[c].req.value[d] \in Nat
    BY <2>1, Requests
  <2>3. Forward(call[c].req)'
    <3> DEFINE put == call[c].req
    <3>1. PICK p : p = put
      OBVIOUS
    <3>2. Forward(p)'
      BY <2>1, <3>1, ForwardKept
    <3>3. p = call'[c].req
      BY <3>1
    <3> QED
      BY <3>2, <3>3 DEF Forward
  <2>4. \A d \in Caller : call[c].req.value[d] <= now'[d]
    BY <1>4, <2>2 DEF RequestInv, Later, BeatTypes
  <2> QED
    BY <1>1, <1>2, <1>4, <2>1, <2>2, <2>3, <2>4 DEF RequestInv
<1>5. Getting(c)' => Getting(c)
  BY DEF Getting
<1>6. Putting(c)' => Putting(c)
  BY DEF Putting
<1>7. Putting(c) => Forward(call[c].req)'
  BY <1>4
<1> QED
  BY <1>3, <1>4, <1>5, <1>6 DEF RequestInv

LEMMA AnswerKept ==
    ASSUME BeatTypes, LineGrows, NEW c \in Caller, RequestInv(c), AnswerInv(c),
           InCall(c), InCall(c)',
           call'[c].req = call[c].req, call'[c].since = call[c].since,
           call'[c].retrying = call[c].retrying,
           \/ call'[c].rpc = call[c].rpc /\ call'[c].reply = call[c].reply
           \/ {call'[c].rpc, call[c].rpc} \subseteq {"sent", "submitted", "stranded"},
           \A put \in Past' : put \in Past \/ put.by # c
    PROVE  AnswerInv(c)'
<1>1. /\ Version \in Nat /\ Version' \in Nat /\ Version <= Version'
      /\ call[c].since \in Nat
  BY LineType, CallFields DEF LineGrows
<1>2. ASSUME Getting(c) PROVE GetInv(c)'
  <2> SUFFICES ASSUME call'[c].rpc \in {"answered", "returned"}
               PROVE  \/ call'[c].rpc = "answered" /\ call'[c].reply = Error(ErrWrongLeader)
                      \/ \E v \in call'[c].since .. Version' : ReadAt(call[c].reply, v)'
    BY DEF GetInv
  <2>1. call'[c].rpc = call[c].rpc /\ call'[c].reply = call[c].reply
    OBVIOUS
  <2>2. CASE call[c].rpc = "answered" /\ call[c].reply = Error(ErrWrongLeader)
    BY <2>1, <2>2
  <2>3. ASSUME NEW v \in call[c].since .. Version, ReadAt(call[c].reply, v)
        PROVE  \E w \in call'[c].since .. Version' : ReadAt(call[c].reply, w)'
    <3>1. PICK reply : reply = call[c].reply
      OBVIOUS
    <3>2. v \in 0 .. Version /\ v \in call'[c].since .. Version'
      BY <1>1
    <3>3. ReadAt(reply, v)'
      BY <2>3, <3>1, <3>2, RowsKept
    <3>4. ReadAt(call[c].reply, v)'
      BY <2>1, <3>1, <3>3 DEF ReadAt
    <3> QED
      BY <3>2, <3>4
  <2> QED
    BY <1>2, <2>1, <2>2, <2>3 DEF AnswerInv, GetInv
<1>3. ASSUME Putting(c) PROVE PutInv(c)'
  <2>1. call[c].req \in Puts /\ call[c].req.by = c /\ call[c].req.version \in Nat
    BY <1>3, CallFields, Requests DEF RequestInv
  <2>2. call[c].req \notin Past => call[c].req \notin Past'
    BY <2>1
  <2>3. Refused(call[c].req) => Refused(call[c].req)'
    BY <1>1, <2>1, <2>2 DEF Refused
  <2>4. call[c].req \in {Line[i] : i \in 1 .. Version} =>
            call[c].req \in {Line[i] : i \in 1 .. Version}'
    BY RowsKept
  <2> QED
    BY <1>3, <2>2, <2>3, <2>4 DEF AnswerInv, PutInv
<1> QED
  BY <1>2, <1>3 DEF AnswerInv, Getting, Putting

LEMMA WaitKept ==
    ASSUME BeatTypes, CallsInv, LineGrows, Later, NEW c \in Caller,
           call'[c] = call[c], now'[c] = now[c],
           \A put \in Past' : put \in Puts /\ (put \in Past \/ put.by # c)
    PROVE  RequestInv(c)' /\ AnswerInv(c)'
<1>1. CASE ~InCall(c)
  BY <1>1 DEF RequestInv, AnswerInv, Getting, Putting, InCall
<1>2. CASE InCall(c)
  <2>1. InCall(c)' /\ RequestInv(c) /\ AnswerInv(c)
    BY <1>2 DEF InCall, CallsInv
  <2> QED
    BY <1>2, <2>1, RequestKept, AnswerKept
<1> QED
  BY <1>1, <1>2

LEMMA Unbeaten ==
    ASSUME BeatTypes, UNCHANGED history
    PROVE  LineGrows /\ Version' = Version /\ Line' = Line
BY LineType DEF LineGrows, Version, Line

(***************************************************************************)
(* A step that adds nothing to the line, but may leave the Put of c adrift. *)
(***************************************************************************)
LeavesAdrift(c) ==
    /\ UNCHANGED <<store, history>> /\ Later
    /\ \A put \in strays' : \/ put \in strays
                            \/ /\ Putting(c) /\ put = call[c].req
                               /\ put.version = Version

LEMMA StrayedIs ==
    ASSUME BeatInv, NEW c \in Caller, strays' \in {strays, Strayed(c)}, InCall(c),
           UNCHANGED <<store, history, now>>
    PROVE  LeavesAdrift(c)
<1>1. BeatTypes /\ StoreInv /\ CallsInv
  BY DEF BeatInv
<1>2. Later
  BY <1>1 DEF Later, BeatTypes
<1>3. ASSUME NEW put \in Strayed(c), put \notin strays
      PROVE  Putting(c) /\ put = call[c].req /\ put.version = Version
  <2>1. /\ put = call[c].req /\ put.type = "Put"
        /\ Holds(store, put.key) => put.version >= store[put.key].version
    BY <1>3 DEF Strayed, Alive
  <2>2. Putting(c) /\ put \in Puts
    BY <1>1, <2>1, CallFields DEF Putting
  <2>3. /\ put.key = heartbeatsKey /\ put.version \in Nat /\ Version \in Nat
        /\ put.version <= Version
    BY <1>1, <2>1, <2>2, Requests, LineType DEF CallsInv, RequestInv
  <2> QED
    BY <1>1, <2>1, <2>2, <2>3, StoreIs
<1> QED
  BY <1>2, <1>3 DEF LeavesAdrift

LEMMA AdriftKeeps ==
    ASSUME BeatInv, NEW c \in Caller, LeavesAdrift(c)
    PROVE  /\ StoreInv' /\ LineGrows /\ PastInv' /\ strays' \subseteq Puts
           /\ \A put \in Past' :
                  put \in Puts /\ (put \in Past \/ (Putting(c) /\ put = call[c].req))
<1>1. BeatTypes /\ StoreInv /\ PastInv /\ CallsInv
  BY DEF BeatInv
<1>2. LineGrows /\ Version' = Version /\ Line' = Line
  BY <1>1, Unbeaten DEF LeavesAdrift
<1>3. StoreInv'
  BY <1>1, <1>2 DEF StoreInv, LeavesAdrift
<1>4. Putting(c) => /\ call[c].req \in Puts /\ Forward(call[c].req)
                    /\ \A d \in Caller : call[c].req.value[d] <= now[d]
  BY <1>1, CallFields DEF CallsInv, RequestInv
<1>5. \A put \in strays' : put \in Puts /\ (put \in Past \/ (Putting(c) /\ put = call[c].req))
  BY <1>1, <1>4 DEF LeavesAdrift, BeatTypes, Past
<1>6. \A put \in Past' : put \in Puts /\ (put \in Past \/ (Putting(c) /\ put = call[c].req))
  <2>1. Past' = strays' \cup {Line[i] : i \in 1 .. Version}
    BY <1>2 DEF Past
  <2> QED
    BY <1>1, <1>5, <2>1, LineType DEF Past
<1>7. PastInv'
  <2>1. ASSUME NEW put \in Past', NEW d \in Caller PROVE put.value[d] <= now'[d]
    <3>1. put \in Puts /\ put.value[d] <= now[d]
      BY <1>1, <1>4, <1>6 DEF PastInv
    <3>2. put.value[d] \in Nat /\ now[d] \in Nat /\ now'[d] \in Nat /\ now'[d] >= now[d]
      BY <1>1, <3>1, Requests DEF LeavesAdrift, Later, BeatTypes
    <3> QED
      BY <3>1, <3>2
  <2>2. ASSUME NEW put \in strays' PROVE put.version = Version' /\ Forward(put)'
    <3>1. put.version = Version /\ Forward(put)
      BY <1>1, <1>4 DEF LeavesAdrift, PastInv
    <3> QED
      BY <1>2, <3>1 DEF Forward, RowsAt
  <2> QED
    BY <2>1, <2>2 DEF PastInv
<1> QED
  BY <1>2, <1>3, <1>5, <1>6, <1>7

LEMMA AddsKeeps ==
    ASSUME BeatInv, NEW put, Adds(put), now' = now,
           \A d \in Caller : put.value[d] <= now[d]
    PROVE  /\ StoreInv' /\ LineGrows /\ Later /\ PastInv' /\ strays' \subseteq Puts
           /\ history' \in [Key -> Seq(Puts)]
           /\ \A p \in Past' : p \in Puts /\ (p \in Past \/ p = put)
           /\ put \in {Line[i] : i \in 1 .. Version}'
<1>1. BeatTypes /\ StoreInv /\ PastInv
  BY DEF BeatInv
<1>2. /\ Version' = Version + 1 /\ Line'[Version + 1] = put
      /\ \A i \in 1 .. Version : Line'[i] = Line[i]
      /\ Past' = {Line[i] : i \in 1 .. Version} \cup {put}
      /\ history' \in [Key -> Seq(Puts)]
  BY <1>1, AddsToLine
<1>3. Version \in Nat /\ put \in Puts /\ \A i \in 1 .. Version : Line[i] \in Puts
  BY <1>1, LineType DEF Adds
<1>4. LineGrows
  BY <1>2, <1>3 DEF LineGrows
<1>5. Later
  BY <1>1 DEF Later, BeatTypes
<1>6. \A p \in Past' : p \in Puts /\ (p \in Past \/ p = put)
  BY <1>2, <1>3 DEF Past
<1>7. strays' = {} /\ StoreInv'
  BY DEF Adds
<1>8. PastInv'
  BY <1>1, <1>6, <1>7 DEF PastInv
<1>9. put \in {Line[i] : i \in 1 .. Version}'
  <2>1. Version' \in 1 .. Version' /\ Line'[Version'] = put
    BY <1>2, <1>3
  <2> QED
    BY <2>1
<1> QED
  BY <1>2, <1>4, <1>5, <1>6, <1>7, <1>8, <1>9

----------------------------------------------------------------------------
(* The steps of a call that goes on.                                       *)

LEMMA MoveKeeps ==
    ASSUME BeatInv, NEW c \in Caller, NEW rpc, NEW retrying, NEW reply,
           Moves(c, rpc, retrying, reply),
           strays' \in {strays, Strayed(c)}, UNCHANGED <<store, history, now>>,
           AnswerInv(c)'
    PROVE  BeatInv'
<1>1. BeatTypes /\ CallsInv /\ InCall(c)
  BY DEF BeatInv, Moves
<1>2. LeavesAdrift(c) /\ Later
  BY <1>1, StrayedIs DEF LeavesAdrift
<1>3. /\ StoreInv' /\ LineGrows /\ PastInv' /\ strays' \subseteq Puts
      /\ \A put \in Past' :
             put \in Puts /\ (put \in Past \/ (Putting(c) /\ put = call[c].req))
  BY <1>2, AdriftKeeps
<1>4. BeatTypes'
  BY <1>1, <1>3 DEF BeatTypes, Moves
<1>5. RequestInv(c)'
  BY <1>1, <1>2, <1>3, RequestKept DEF Moves, CallsInv
<1>6. ASSUME NEW d \in Caller, d # c PROVE RequestInv(d)' /\ AnswerInv(d)'
  <2>1. Putting(c) => call[c].req.by = c
    BY <1>1 DEF CallsInv, RequestInv
  <2>2. call'[d] = call[d]
    BY <1>6 DEF Moves, OthersWait
  <2> QED
    BY <1>1, <1>2, <1>3, <1>6, <2>1, <2>2, WaitKept
<1>7. CallsInv'
  BY <1>5, <1>6 DEF CallsInv
<1> QED
  BY <1>3, <1>4, <1>7 DEF BeatInv

(* Its caller does not see the step. *)
Unseen(c) ==
    /\ Moves(c, call'[c].rpc, call'[c].retrying, call'[c].reply)
    /\ call[c].rpc # "returned" /\ call'[c].rpc # "returned"
    /\ strays' \in {strays, Strayed(c)} /\ history' = history

LEMMA RefusalKeeps ==
    ASSUME BeatInv, NEW c \in Caller, (Refuse(c) \/ Cancel(c)) /\ UNCHANGED now
    PROVE  BeatInv' /\ Unseen(c)
<1>1. BeatTypes /\ InCall(c)
  BY DEF BeatInv, Refuse, Cancel, At
<1>2. Answer(c, Error(ErrWrongLeader))
  BY DEF Refuse, Cancel
<1>3. Moves(c, "answered", call[c].retrying, Error(ErrWrongLeader))
  BY <1>1, <1>2, Errors, AnswerMoves DEF Answer, Steps
<1>4. strays' \in {strays, Strayed(c)} /\ UNCHANGED <<store, history, now>>
  BY DEF Refuse, Cancel
<1>5. AnswerInv(c)'
  BY <1>3 DEF Moves, AnswerInv, GetInv, PutInv
<1> QED
  BY <1>3, <1>4, <1>5, MoveKeeps DEF Moves, Unseen, At, Refuse, Cancel

LEMMA SubmitKeeps ==
    ASSUME BeatInv, NEW c \in Caller, Submit(c) /\ UNCHANGED now
    PROVE  BeatInv' /\ Unseen(c)
<1>1. BeatTypes /\ InCall(c) /\ RequestInv(c) /\ AnswerInv(c)
  BY DEF BeatInv, CallsInv, Submit, At
<1>2. Moves(c, "submitted", call[c].retrying, call[c].reply)
  BY <1>1, SubmitMoves
<1>3. UNCHANGED <<store, history, now, strays>>
  BY DEF Submit
<1>4. LineGrows /\ Past' = Past
  BY <1>1, <1>3, Unbeaten DEF Past
<1>5. AnswerInv(c)'
  BY <1>1, <1>2, <1>4, AnswerKept DEF Moves, Submit, At
<1> QED
  BY <1>2, <1>3, <1>5, MoveKeeps DEF Moves, Unseen, At, Submit

LEMMA FailureKeeps ==
    ASSUME BeatInv, NEW c \in Caller, (Expire(c) \/ Fail(c)) /\ UNCHANGED now
    PROVE  BeatInv' /\ Unseen(c)
<1>1. BeatTypes /\ InCall(c) /\ Failed(c)
  BY DEF BeatInv, Expire, Fail, At
<1>2. Moves(c, "failed", call[c].retrying, None)
  BY <1>1, FailedMoves
<1>3. strays' \in {strays, Strayed(c)} /\ UNCHANGED <<store, history, now>>
  BY <1>1 DEF Failed
<1>4. AnswerInv(c)'
  BY <1>2 DEF Moves, AnswerInv, GetInv, PutInv
<1> QED
  BY <1>2, <1>3, <1>4, MoveKeeps DEF Moves, Unseen, At, Expire, Fail

LEMMA RetryKeeps ==
    ASSUME BeatInv, NEW c \in Caller, Retry(c) /\ UNCHANGED now
    PROVE  BeatInv' /\ Unseen(c)
<1>1. BeatTypes
  BY DEF BeatInv
<1>2. Moves(c, "sent", TRUE, None)
  BY <1>1, RetryMoves
<1>3. UNCHANGED <<store, history, now, strays>>
  BY DEF Retry
<1>4. AnswerInv(c)'
  BY <1>2 DEF Moves, AnswerInv, GetInv, PutInv
<1> QED
  BY <1>2, <1>3, <1>4, MoveKeeps DEF Moves, Unseen, At, Retry

LEMMA ReadsAreResponses ==
    ASSUME BeatTypes, NEW v \in 0 .. Version, NEW reply, ReadAt(reply, v)
    PROVE  reply \in Response
<1>1. CASE v = 0 /\ reply = Error(ErrNoKey)
  BY <1>1, Errors
<1>2. CASE reply = [err |-> OK, value |-> RowsAt(v), version |-> v]
  <2>1. RowsAt(v) \in TableOfRows /\ v \in Nat
    BY LineType DEF TableOfRows
  <2> QED
    BY <1>2, <2>1 DEF Response
<1> QED
  BY <1>1, <1>2 DEF ReadAt

(* What a call of Get or Put returns (Outcome). *)
LEMMA OutcomeIs ==
    ASSUME BeatInv, NEW c \in Caller, Return(c)
    PROVE  /\ Outcome(c) \in Response
           /\ Getting(c) => \E v \in call[c].since .. Version : ReadAt(Outcome(c), v)
           /\ Putting(c) =>
                  \/ /\ Outcome(c) = Error(OK)
                     /\ call[c].req \in {Line[i] : i \in 1 .. Version}
                  \/ /\ Outcome(c) = Error(ErrVersion)
                     /\ ~call[c].retrying /\ Refused(call[c].req)
                  \/ Outcome(c) = Error(ErrMaybe)
<1>1. BeatTypes /\ InCall(c) /\ AnswerInv(c)
  BY DEF BeatInv, CallsInv, Return, At
<1>2. call[c].rpc = "answered" /\ call[c].reply # Error(ErrWrongLeader)
  BY Errors DEF Return, GotAnswer, WrongLeader
<1>3. CASE Getting(c)
  <2>1. Outcome(c) = call[c].reply /\ ~Putting(c)
    BY <1>1, <1>3, CallFields, ErrorNames DEF Outcome, Getting
  <2>2. PICK v \in call[c].since .. Version : ReadAt(call[c].reply, v)
    BY <1>1, <1>2, <1>3 DEF AnswerInv, GetInv
  <2>3. v \in 0 .. Version
    BY <1>1, LineType, CallFields
  <2> QED
    BY <1>1, <2>1, <2>2, <2>3, ReadsAreResponses
<1>4. CASE Putting(c)
  <2>1. \/ call[c].reply = Error(OK) /\ call[c].req \in {Line[i] : i \in 1 .. Version}
        \/ /\ call[c].reply = Error(ErrVersion)
           /\ ~call[c].retrying => Refused(call[c].req)
    BY <1>1, <1>2, <1>4 DEF AnswerInv, PutInv
  <2>2. \/ /\ Outcome(c) = Error(OK)
           /\ call[c].req \in {Line[i] : i \in 1 .. Version}
        \/ /\ Outcome(c) = Error(ErrVersion)
           /\ ~call[c].retrying /\ Refused(call[c].req)
        \/ Outcome(c) = Error(ErrMaybe)
    BY <1>4, <2>1, Errors, ErrorNames DEF Outcome, Putting
  <2>3. ~Getting(c)
    BY <1>1, <1>4, CallFields
  <2> QED
    BY <2>2, <2>3, Errors
<1> QED
  BY <1>1, <1>3, <1>4, CallFields

LEMMA ReturnKeeps ==
    ASSUME BeatInv, NEW c \in Caller, Return(c) /\ UNCHANGED now
    PROVE  BeatInv' /\ Moves(c, "returned", call[c].retrying, Outcome(c))
<1>1. BeatTypes /\ InCall(c)
  BY DEF BeatInv, Return, At
<1>2. UNCHANGED <<store, history, now, strays>>
  BY DEF Return
<1>3. LineGrows /\ Past' = Past /\ Version' = Version /\ Line' = Line
  BY <1>1, <1>2, Unbeaten DEF Past
<1>4. PICK reply \in Response : reply = Outcome(c)
  BY OutcomeIs
<1>5. Moves(c, "returned", call[c].retrying, reply)
  BY <1>1, <1>4, AnswerMoves DEF Return, Steps
<1>6. CASE Getting(c)
  <2>1. PICK v \in call[c].since .. Version : ReadAt(reply, v)
    BY <1>4, <1>6, OutcomeIs
  <2>2. v \in 0 .. Version
    BY <1>1, LineType, CallFields
  <2>3. ReadAt(reply, v)'
    BY <1>1, <1>3, <2>1, <2>2, RowsKept
  <2>4. ReadAt(call[c].reply, v)'
    BY <1>5, <2>3 DEF Moves, ReadAt
  <2>5. v \in call'[c].since .. Version'
    BY <1>3, <1>5 DEF Moves
  <2>6. AnswerInv(c)'
    BY <1>5, <1>6, <2>4, <2>5 DEF Moves, AnswerInv, GetInv, Getting, Putting
  <2> QED
    BY <1>2, <1>4, <1>5, <2>6, MoveKeeps
<1>7. CASE Putting(c)
  <2>1. Refused(call[c].req) => Refused(call[c].req)'
    BY <1>3, <1>5 DEF Refused, Moves
  <2>2. PutInv(c)'
    BY <1>3, <1>4, <1>5, <1>7, <2>1, OutcomeIs DEF PutInv, Moves
  <2>3. AnswerInv(c)'
    BY <1>5, <1>7, <2>2 DEF Moves, AnswerInv, Getting, Putting
  <2> QED
    BY <1>2, <1>4, <1>5, <2>3, MoveKeeps
<1> QED
  BY <1>1, <1>6, <1>7, CallFields

----------------------------------------------------------------------------
(* Execution.                                                              *)

LEMMA ExecuteKeeps ==
    ASSUME BeatInv, NEW c \in Caller, Execute(c) /\ UNCHANGED now
    PROVE  BeatInv'
<1>1. BeatTypes /\ StoreInv /\ PastInv /\ CallsInv /\ InCall(c)
  BY DEF BeatInv, Execute, At
<1>2. RequestInv(c) /\ AnswerInv(c) /\ Effect(call[c].req) /\ now' = now
  BY <1>1 DEF CallsInv, Execute
<1>3. /\ call[c].req \in Request /\ call[c].since \in Nat
      /\ call[c].rpc \in {"submitted", "stranded"}
  BY <1>1, CallFields DEF Execute, At
<1>4. PICK reply : reply = Reply(store, call[c].req)
  OBVIOUS
<1>5. call' = [call EXCEPT ![c].rpc = "answered", ![c].reply = reply]
  BY <1>4 DEF Execute, Answer
<1>6. /\ \A put \in strays : put.version = Version
      /\ call[c].req.type = "Put" => call[c].req.version <= Version
  BY <1>1, <1>2 DEF PastInv, RequestInv, Putting
<1>7. Version \in Nat
  BY <1>1, LineType
<1>8. CASE call[c].req.type = "Get"
  <2>1. Getting(c) /\ ~Putting(c) /\ call[c].req.key = heartbeatsKey
    BY <1>1, <1>3, <1>8, Requests DEF Getting, Putting
  <2>2. UNCHANGED <<store, history, strays>>
    <3>1. ~Adds(call[c].req)
      BY <1>8, Requests DEF Adds
    <3> QED
      BY <1>1, <1>2, <1>3, <1>6, <3>1, EffectIs
  <2>3. reply = GetReply(store, heartbeatsKey) /\ ReadAt(reply, Version)
    BY <1>1, <1>4, <1>8, <2>1, ReadsTheLine DEF Reply
  <2>4. reply \in Response
    <3>1. CASE Version = 0 /\ reply = Error(ErrNoKey)
      BY <3>1, Errors
    <3>2. CASE reply = [err |-> OK, value |-> RowsAt(Version), version |-> Version]
      <4>1. RowsAt(Version) \in TableOfRows
        BY <1>1, <1>7, LineType DEF TableOfRows
      <4> QED
        BY <1>7, <3>2, <4>1 DEF Response
    <3> QED
      BY <2>3, <3>1, <3>2 DEF ReadAt
  <2>5. Moves(c, "answered", call[c].retrying, reply)
    BY <1>1, <1>5, <2>4, AnswerMoves DEF Steps
  <2>6. Version' = Version /\ LineGrows
    BY <1>1, <2>2, Unbeaten
  <2>7. ReadAt(reply, Version)'
    <3>1. PICK v : v = Version
      OBVIOUS
    <3>2. ReadAt(reply, v)'
      BY <1>1, <1>7, <2>3, <2>6, <3>1, RowsKept
    <3> QED
      BY <2>6, <3>1, <3>2
  <2>8. GetInv(c)'
    <3>1. PICK v : v = Version
      OBVIOUS
    <3>2. ReadAt(reply, v)'
      BY <2>6, <2>7, <3>1
    <3>3. ReadAt(call[c].reply, v)'
      BY <2>5, <3>2 DEF Moves, ReadAt
    <3>4. v \in call'[c].since .. Version'
      BY <1>2, <1>3, <1>7, <2>1, <2>5, <2>6, <3>1 DEF Moves, RequestInv
    <3> QED
      BY <3>3, <3>4 DEF GetInv
  <2>9. AnswerInv(c)'
    <3>1. ~Putting(c)'
      BY <2>1, <2>5 DEF Moves, Putting
    <3> QED
      BY <2>8, <3>1 DEF AnswerInv
  <2> QED
    BY <1>2, <2>2, <2>5, <2>9, MoveKeeps
<1>9. CASE call[c].req.type = "Put"
  <2>1. Putting(c) /\ ~Getting(c) /\ call[c].req \in Puts
    BY <1>1, <1>3, <1>9, Requests DEF Putting, Getting
  <2>2. reply = Error(PutErr(store, call[c].req))
    BY <1>4, <1>9, ErrorNames DEF Reply
  <2>3. reply = Error(IF call[c].req.version = Version THEN OK ELSE ErrVersion)
    BY <1>1, <1>6, <1>9, <2>1, <2>2, PutErrIs
  <2>4. reply \in Response
    BY <2>3, Errors
  <2>5. Moves(c, "answered", call[c].retrying, reply)
    BY <1>1, <1>5, <2>4, AnswerMoves DEF Steps
  <2>6. ~Getting(c)'
    BY <2>1, <2>5 DEF Moves, Getting
  <2>7. CASE UNCHANGED <<store, history, strays>> /\ call[c].req.version < Version
    <3>1. reply = Error(ErrVersion)
      BY <2>3, <2>7, <1>7
    <3>2. ~call[c].retrying => Refused(call[c].req)
      BY <1>2, <1>3, <2>1, <2>7 DEF AnswerInv, PutInv, Refused
    <3>3. Past' = Past /\ Version' = Version
      BY <1>1, <2>7, Unbeaten DEF Past
    <3>4. Refused(call[c].req) => Refused(call[c].req)'
      BY <2>5, <3>3 DEF Moves, Refused
    <3>5. PutInv(c)'
      BY <2>5, <3>1, <3>2, <3>4 DEF Moves, PutInv
    <3>6. AnswerInv(c)'
      BY <2>6, <3>5 DEF AnswerInv
    <3> QED
      BY <1>2, <2>5, <2>7, <3>6, MoveKeeps
  <2>8. CASE Adds(call[c].req)
    <3>1. \A d \in Caller : call[c].req.value[d] <= now[d]
      BY <1>2, <2>1 DEF RequestInv
    <3>2. /\ StoreInv' /\ LineGrows /\ Later /\ PastInv' /\ strays' \subseteq Puts
          /\ history' \in [Key -> Seq(Puts)]
          /\ \A p \in Past' : p \in Puts /\ (p \in Past \/ p = call[c].req)
          /\ call[c].req \in {Line[i] : i \in 1 .. Version}'
      BY <1>2, <2>8, <3>1, AddsKeeps
    <3>3. BeatTypes'
      BY <1>1, <1>2, <2>5, <3>2 DEF BeatTypes, Moves
    <3>4. RequestInv(c)'
      BY <1>1, <1>2, <2>5, <3>2, RequestKept DEF Moves
    <3>5. reply = Error(OK)
      BY <2>3, <2>8 DEF Adds
    <3>6. PutInv(c)'
      BY <2>5, <3>2, <3>5 DEF Moves, PutInv
    <3>7. AnswerInv(c)'
      BY <2>6, <3>6 DEF AnswerInv
    <3>8. ASSUME NEW d \in Caller, d # c PROVE RequestInv(d)' /\ AnswerInv(d)'
      <4>1. call[c].req.by = c /\ call'[d] = call[d]
        BY <1>2, <2>1, <2>5, <3>8 DEF RequestInv, Moves, OthersWait
      <4> QED
        BY <1>1, <1>2, <3>2, <3>8, <4>1, WaitKept
    <3> QED
      BY <3>2, <3>3, <3>4, <3>7, <3>8 DEF BeatInv, CallsInv
  <2> QED
    BY <1>1, <1>2, <1>3, <1>6, <1>9, <2>7, <2>8, EffectIs
<1> QED
  BY <1>3, <1>8, <1>9, Requests

LEMMA StrayKeeps ==
    ASSUME BeatInv, ExecuteStray /\ UNCHANGED now
    PROVE  BeatInv'
<1>1. BeatTypes /\ StoreInv /\ PastInv /\ CallsInv
  BY DEF BeatInv
<1>2. PICK put \in strays : Effect(put)
  BY DEF ExecuteStray
<1>3. UNCHANGED <<call, now>>
  BY DEF ExecuteStray
<1>4. put \in Puts /\ put \in Request /\ put \in Past /\ put.version = Version
  BY <1>1, Requests DEF BeatTypes, Past, PastInv
<1>5. Version \in Nat
  BY <1>1, LineType
<1>6. Adds(put)
  BY <1>1, <1>2, <1>4, <1>5, EffectIs, Requests DEF PastInv
<1>7. \A d \in Caller : put.value[d] <= now[d]
  BY <1>1, <1>4 DEF PastInv
<1>8. /\ StoreInv' /\ LineGrows /\ Later /\ PastInv' /\ strays' \subseteq Puts
      /\ history' \in [Key -> Seq(Puts)]
      /\ \A p \in Past' : p \in Puts /\ p \in Past
  BY <1>3, <1>4, <1>6, <1>7, AddsKeeps
<1>9. BeatTypes'
  BY <1>1, <1>3, <1>8 DEF BeatTypes
<1>10. CallsInv'
  <2>1. ASSUME NEW c \in Caller PROVE RequestInv(c)' /\ AnswerInv(c)'
    BY <1>1, <1>3, <1>8, WaitKept
  <2> QED
    BY <2>1 DEF CallsInv
<1> QED
  BY <1>8, <1>9, <1>10 DEF BeatInv

----------------------------------------------------------------------------
(* Changes of leaders.                                                     *)

LEMMA LeaderKeeps ==
    ASSUME BeatInv, (Depose \/ Elect) /\ UNCHANGED now
    PROVE  BeatInv'
<1>1. BeatTypes /\ StoreInv /\ PastInv /\ CallsInv
  BY DEF BeatInv
<1>2. UNCHANGED <<store, strays, history, now>>
  BY DEF Depose, Elect
<1>3. LineGrows /\ Past' = Past /\ Version' = Version /\ Line' = Line
  BY <1>1, <1>2, Unbeaten DEF Past
<1>4. Later /\ \A put \in Past : put \in Puts
  BY <1>1, <1>2, LineType DEF Later, BeatTypes, Past
<1>5. StoreInv' /\ PastInv'
  BY <1>1, <1>2, <1>3 DEF StoreInv, PastInv, Forward, RowsAt
<1>6. ASSUME NEW c \in Caller
      PROVE  \/ call'[c] = call[c]
             \/ At(c, "submitted") /\ call'[c] = [call[c] EXCEPT !.rpc = "stranded"]
  BY DEF Depose, Elect
<1>7. call' \in [Caller -> {NoCall} \cup CallType]
  <2>1. \A c \in Caller : call'[c] \in {NoCall} \cup CallType
    <3> SUFFICES ASSUME NEW c \in Caller PROVE call'[c] \in {NoCall} \cup CallType
      OBVIOUS
    <3>1. At(c, "submitted") => call[c] \in CallType
      BY <1>1, CallFields DEF At
    <3>2. At(c, "submitted") => [call[c] EXCEPT !.rpc = "stranded"] \in CallType
      BY <3>1 DEF CallType, Steps
    <3> QED
      BY <1>1, <1>6, <3>2 DEF BeatTypes
  <2>2. call' = [c \in Caller |-> call'[c]]
    BY <1>1 DEF BeatTypes, Depose, Elect
  <2> QED
    BY <2>1, <2>2
<1>8. ASSUME NEW c \in Caller PROVE RequestInv(c)' /\ AnswerInv(c)'
  <2>1. CASE call'[c] = call[c]
    BY <1>1, <1>2, <1>3, <1>4, <2>1, WaitKept
  <2>2. CASE At(c, "submitted") /\ call'[c] = [call[c] EXCEPT !.rpc = "stranded"]
    <3>1. InCall(c) /\ call[c] \in CallType
      BY <1>1, <2>2, CallFields DEF At
    <3>2. /\ call'[c] \in CallType
          /\ call'[c].req = call[c].req /\ call'[c].since = call[c].since
          /\ call'[c].retrying = call[c].retrying
          /\ call'[c].rpc = "stranded" /\ call[c].rpc = "submitted"
      BY <2>2, <3>1 DEF CallType, Steps, At
    <3>3. InCall(c)'
      BY <3>2, CallsHaveRequests DEF InCall
    <3>4. RequestInv(c) /\ AnswerInv(c)
      BY <1>1 DEF CallsInv
    <3>5. RequestInv(c)'
      BY <1>1, <1>2, <1>3, <1>4, <3>1, <3>2, <3>3, <3>4, RequestKept
    <3>6. AnswerInv(c)'
      BY <1>1, <1>3, <3>1, <3>2, <3>3, <3>4, AnswerKept
    <3> QED
      BY <3>5, <3>6
  <2> QED
    BY <1>6, <2>1, <2>2
<1> QED
  BY <1>1, <1>2, <1>5, <1>7, <1>8 DEF BeatInv, CallsInv, BeatTypes

----------------------------------------------------------------------------
(* The caller goes on.                                                     *)

LEMMA LeaveKeeps ==
    ASSUME BeatInv, NEW c \in Caller, Finish(c) \/ Stop(c)
    PROVE  BeatInv' /\ LeavesAdrift(c) /\ OthersWait(c) /\ call'[c] = NoCall
<1>1. BeatTypes /\ CallsInv /\ InCall(c)
  BY DEF BeatInv, Finish, Stop, HasWritten, Returned, At
<1>2. strays' \in {strays, Strayed(c)} /\ UNCHANGED <<store, history, now>>
  BY DEF Finish, Stop, StopCall
<1>3. LeavesAdrift(c) /\ Later
  BY <1>1, <1>2, StrayedIs DEF LeavesAdrift
<1>4. /\ StoreInv' /\ LineGrows /\ PastInv' /\ strays' \subseteq Puts
      /\ \A put \in Past' :
             put \in Puts /\ (put \in Past \/ (Putting(c) /\ put = call[c].req))
  BY <1>3, AdriftKeeps
<1>5. call' = [call EXCEPT ![c] = NoCall]
  BY DEF Finish, Stop, StopCall, Leave
<1>6. OthersWait(c) /\ call'[c] = NoCall /\ call' \in [Caller -> {NoCall} \cup CallType]
  BY <1>1, <1>5 DEF BeatTypes, OthersWait
<1>7. BeatTypes'
  BY <1>1, <1>2, <1>4, <1>6 DEF BeatTypes
<1>8. ASSUME NEW d \in Caller, d # c PROVE RequestInv(d)' /\ AnswerInv(d)'
  <2>1. Putting(c) => call[c].req.by = c
    BY <1>1 DEF CallsInv, RequestInv
  <2>2. call'[d] = call[d] /\ now'[d] = now[d]
    BY <1>2, <1>6, <1>8 DEF OthersWait
  <2> QED
    BY <1>1, <1>3, <1>4, <1>8, <2>1, <2>2, WaitKept
<1>9. RequestInv(c)' /\ AnswerInv(c)'
  BY <1>6 DEF RequestInv, AnswerInv, Getting, Putting, InCall
<1> QED
  BY <1>3, <1>4, <1>6, <1>7, <1>8, <1>9 DEF BeatInv, CallsInv

Begins(c, req) ==
    /\ \E n \in Node : call'[c] = Called(req, n)
    /\ call'[c] \in CallType /\ InCall(c)'
    /\ OthersWait(c) /\ call' \in [Caller -> {NoCall} \cup CallType]
    /\ call'[c].req = req /\ call'[c].rpc = "sent" /\ ~call'[c].retrying
    /\ req.type = "Get" => call'[c].since = Version

LEMMA BeginIs ==
    ASSUME BeatTypes, NEW c \in Caller, NEW req \in Request, Begin(c, req)
    PROVE  Begins(c, req)
<1>1. PICK n \in Node : call' = [call EXCEPT ![c] = Called(req, n)]
  BY DEF Begin
<1>2. Version \in Nat /\ req.key = heartbeatsKey
  BY LineType, Requests
<1>3. (IF req.type = "Get" THEN Len(history[req.key]) ELSE 0)
          = (IF req.type = "Get" THEN Version ELSE 0)
  BY <1>2 DEF Version, Line
<1>4. Called(req, n) = [req |-> req, at |-> n, retrying |-> FALSE, rpc |-> "sent",
                        reply |-> None, since |-> IF req.type = "Get" THEN Version ELSE 0]
  BY <1>3 DEF Called
<1>5. Called(req, n) \in CallType
  BY <1>2, <1>4 DEF CallType, Steps
<1>6. call'[c] = Called(req, n) /\ OthersWait(c)
      /\ call' \in [Caller -> {NoCall} \cup CallType]
  BY <1>1, <1>5 DEF BeatTypes, OthersWait
<1>7. InCall(c)'
  BY <1>5, <1>6, CallsHaveRequests DEF InCall
<1> QED
  BY <1>4, <1>5, <1>6, <1>7 DEF Begins

LEMMA BeginKeeps ==
    ASSUME BeatInv, NEW c \in Caller, NEW req, Begins(c, req),
           UNCHANGED <<store, history, strays>>, Later,
           \A d \in Caller : d # c => now'[d] = now[d],
           RequestInv(c)', req.type = "Put" => req \notin Past
    PROVE  BeatInv'
<1>1. BeatTypes /\ CallsInv
  BY DEF BeatInv
<1>2. LeavesAdrift(c)
  BY DEF LeavesAdrift
<1>3. StoreInv' /\ LineGrows /\ PastInv'
  BY <1>2, AdriftKeeps
<1>4. Past' = Past /\ \A put \in Past : put \in Puts
  BY <1>1, Unbeaten, LineType DEF Past, BeatTypes
<1>5. BeatTypes'
  BY <1>1 DEF BeatTypes, Begins, Later
<1>6. ASSUME NEW d \in Caller, d # c PROVE RequestInv(d)' /\ AnswerInv(d)'
  BY <1>1, <1>3, <1>4, <1>6, WaitKept DEF Begins, OthersWait
<1>7. AnswerInv(c)'
  BY <1>4 DEF Begins, AnswerInv, GetInv, PutInv, Putting
<1> QED
  BY <1>3, <1>5, <1>6, <1>7 DEF BeatInv, CallsInv

LEMMA PastValues ==
    ASSUME BeatInv
    PROVE  /\ \A put \in Past : put \in Puts /\ \A c \in Caller : put.value[c] <= now[c]
           /\ \A v \in 0 .. Version : \A c \in Caller : RowsAt(v)[c] <= now[c]
<1>1. BeatTypes /\ PastInv
  BY DEF BeatInv
<1>2. \A put \in Past : put \in Puts /\ \A c \in Caller : put.value[c] <= now[c]
  BY <1>1, LineType DEF BeatTypes, Past, PastInv
<1>3. ASSUME NEW v \in 0 .. Version, NEW c \in Caller PROVE RowsAt(v)[c] <= now[c]
  <2>1. now[c] \in Nat /\ Version \in Nat
    BY <1>1, LineType DEF BeatTypes
  <2>2. CASE v = 0
    BY <2>1, <2>2 DEF RowsAt, NoRows
  <2>3. CASE v # 0
    <3>1. Line[v] \in Past
      BY <2>1, <2>3 DEF Past
    <3> QED
      BY <1>2, <2>3, <3>1 DEF RowsAt
  <2> QED
    BY <2>2, <2>3
<1> QED
  BY <1>2, <1>3

LEMMA BeatKeeps ==
    ASSUME BeatInv, NEW c \in Caller, Beat(c)
    PROVE  BeatInv' /\ Begins(c, GetReq(heartbeatsKey))
<1> DEFINE req == GetReq(heartbeatsKey)
<1>1. BeatTypes
  BY DEF BeatInv
<1>2. req \in Request /\ req.type = "Get"
  BY Requests DEF Request
<1> HIDE DEF req
<1>3. Begin(c, req) /\ UNCHANGED <<store, history, strays>>
  BY DEF Beat, req
<1>4. Begins(c, req)
  BY <1>1, <1>2, <1>3, BeginIs
<1>5. /\ Later /\ now'[c] = now[c] + 1 /\ now[c] \in Nat
      /\ \A d \in Caller : d # c => now'[d] = now[d]
  BY <1>1 DEF Beat, Later, BeatTypes
<1>6. Past' = Past /\ Version' = Version /\ Version \in Nat
  BY <1>1, <1>3, Unbeaten, LineType DEF Past
<1>7. Known(c)' = {}
  <2> SUFFICES ASSUME NEW put \in Past, put.value[c] = now[c] + 1 PROVE FALSE
    BY <1>5, <1>6 DEF Known
  <2>1. put.value[c] <= now[c]
    BY PastValues
  <2> QED
    BY <1>5, <2>1
<1>8. RequestInv(c)'
  BY <1>2, <1>4, <1>6, <1>7 DEF Begins, RequestInv, Getting, Putting
<1> QED
  BY <1>2, <1>3, <1>4, <1>5, <1>8, BeginKeeps DEF req

LEMMA ReadIs ==
    ASSUME BeatInv, NEW c \in Caller, HasRead(c)
    PROVE  /\ Getting(c)
           /\ \E v \in call[c].since .. Version :
                  /\ v \in Nat /\ ReadVersion(c) = v
                  /\ Rows(call[c].reply) = RowsAt(v)
<1>1. BeatTypes /\ AnswerInv(c) /\ Getting(c) /\ call[c].rpc = "returned"
  BY DEF BeatInv, CallsInv, HasRead, Returned, At, Getting
<1>2. PICK v \in call[c].since .. Version : ReadAt(call[c].reply, v)
  BY <1>1 DEF AnswerInv, GetInv
<1>3. v \in Nat
  BY <1>1, LineType, CallFields
<1>4. CASE v = 0 /\ call[c].reply = Error(ErrNoKey)
  <2>1. call[c].reply.err # OK
    BY <1>4, Errors, ErrorNames
  <2> QED
    BY <1>1, <1>2, <1>3, <1>4, <2>1 DEF ReadVersion, Rows, RowsAt
<1>5. CASE call[c].reply = [err |-> OK, value |-> RowsAt(v), version |-> v]
  BY <1>1, <1>2, <1>3, <1>5 DEF ReadVersion, Rows
<1> QED
  BY <1>2, <1>4, <1>5 DEF ReadAt

WriteReq(c) == PutReq(c, heartbeatsKey, Table(c), ReadVersion(c))

LEMMA WriteBackKeeps ==
    ASSUME BeatInv, NEW c \in Caller, WriteBack(c)
    PROVE  BeatInv' /\ Begins(c, WriteReq(c)) /\ WriteReq(c) \notin Past
<1>1. PICK req : req = WriteReq(c)
  OBVIOUS
<1>2. BeatTypes /\ RequestInv(c) /\ HasRead(c)
  BY DEF BeatInv, CallsInv, WriteBack
<1>3. PICK v \in call[c].since .. Version :
          /\ v \in Nat /\ ReadVersion(c) = v /\ Rows(call[c].reply) = RowsAt(v)
  BY <1>2, ReadIs
<1>4. Version \in Nat /\ call[c].since \in Nat /\ Getting(c) /\ v \in 0 .. Version
  BY <1>2, <1>3, LineType, CallFields, ReadIs DEF Getting
<1>5. RowsAt(v) \in [Caller -> Nat] /\ now \in [Caller -> Nat]
  BY <1>2, <1>4, LineType DEF BeatTypes
<1>6. PICK table : table = Table(c)
  OBVIOUS
<1>7. /\ table \in TableOfRows /\ table[c] = now[c]
      /\ \A d \in Caller : d # c => table[d] = RowsAt(v)[d]
  BY <1>3, <1>5, <1>6 DEF Table, TableOfRows
<1>8. req = [type |-> "Put", by |-> c, key |-> heartbeatsKey, value |-> table,
             version |-> v]
  BY <1>1, <1>3, <1>6 DEF WriteReq, PutReq
<1>9. req \in Puts /\ req \in Request
  BY <1>4, <1>7, <1>8, Requests DEF Puts
<1>10. /\ req.by = c /\ req.value = table /\ req.version = v /\ req.type = "Put"
  BY <1>8
<1>11. Begin(c, req) /\ UNCHANGED <<store, history, strays, now>>
  BY <1>1 DEF WriteBack, WriteReq
<1>12. Begins(c, req)
  BY <1>2, <1>9, <1>11, BeginIs
<1>13. Past' = Past /\ Version' = Version /\ Line' = Line
  BY <1>2, <1>11, Unbeaten DEF Past
<1>14. \A put \in Known(c) : put.version < v
  <2> SUFFICES ASSUME NEW put \in Known(c) PROVE put.version < v
    OBVIOUS
  <2>1. put \in Puts /\ put.version \in Nat
    BY PastValues, Requests DEF Known
  <2>2. put.version < call[c].since
    BY <1>2, <1>4 DEF RequestInv
  <2> QED
    BY <1>3, <1>4, <2>1, <2>2
<1>15. req \notin Past
  <2>1. req \in Past => req \in Known(c)
    BY <1>7, <1>10 DEF Known
  <2> QED
    BY <1>3, <1>10, <1>14, <2>1
<1>16. \A d \in Caller : table[d] <= now[d] /\ table[d] >= RowsAt(v)[d]
  <2> SUFFICES ASSUME NEW d \in Caller PROVE table[d] <= now[d] /\ table[d] >= RowsAt(v)[d]
    OBVIOUS
  <2>1. RowsAt(v)[d] <= now[d] /\ RowsAt(v)[d] \in Nat /\ now[d] \in Nat
    BY <1>4, <1>5, PastValues
  <2> QED
    BY <1>7, <2>1
<1>17. Forward(req)'
  <2>1. v = Version => \A d \in Caller : table[d] >= RowsAt(Version)[d]
    BY <1>16
  <2> QED
    BY <1>10, <1>13, <2>1 DEF Forward, RowsAt
<1>18. Later
  BY <1>2, <1>11 DEF Later, BeatTypes
<1>19. RequestInv(c)'
  <2>1. Known(c)' = Known(c)
    BY <1>11, <1>13 DEF Known
  <2>2. call'[c].req = req
    BY <1>12 DEF Begins
  <2>3. Forward(call[c].req)'
    BY <1>17, <2>2 DEF Forward
  <2>4. v <= Version'
    BY <1>4, <1>13
  <2> QED
    BY <1>10, <1>11, <1>14, <1>16, <2>1, <2>2, <2>3, <2>4
    DEF RequestInv, Getting, Putting
<1> QED
  BY <1>1, <1>11, <1>12, <1>15, <1>18, <1>19, BeginKeeps

LEMMA AgainKeeps ==
    ASSUME BeatInv, NEW c \in Caller, Again(c)
    PROVE  BeatInv' /\ Begins(c, GetReq(heartbeatsKey))
<1> DEFINE req == GetReq(heartbeatsKey)
<1>1. BeatTypes /\ RequestInv(c) /\ AnswerInv(c) /\ Putting(c)
  BY DEF BeatInv, CallsInv, Again, HasWritten, Returned, At, Putting
<1>2. req \in Request /\ req.type = "Get"
  BY Requests DEF Request
<1> HIDE DEF req
<1>3. Begin(c, req) /\ UNCHANGED <<store, history, strays, now>>
  BY DEF Again, req
<1>4. Begins(c, req)
  BY <1>1, <1>2, <1>3, BeginIs
<1>5. Later
  BY <1>1, <1>3 DEF Later, BeatTypes
<1>6. Past' = Past /\ Version' = Version /\ Version \in Nat
  BY <1>1, <1>3, Unbeaten, LineType DEF Past
<1>7. Refused(call[c].req)
  <2>1. call[c].rpc = "returned" /\ call[c].reply.err = ErrVersion
    BY DEF Again, HasWritten, Returned, At
  <2>2. call[c].reply # Error(OK) /\ call[c].reply # Error(ErrMaybe)
    BY <2>1, Errors, ErrorNames
  <2> QED
    BY <1>1, <2>1, <2>2 DEF AnswerInv, PutInv
<1>8. \A put \in Known(c) : put.version < Version
  <2> SUFFICES ASSUME NEW put \in Known(c) PROVE put.version < Version
    OBVIOUS
  <2>1. put \in Puts /\ put \in Past /\ put.version \in Nat
    BY PastValues, Requests DEF Known
  <2>2. call[c].req \in Puts /\ call[c].req.version \in Nat
    BY <1>1, CallFields, Requests
  <2>3. put # call[c].req
    BY <1>7, <2>1 DEF Refused
  <2>4. put.version < call[c].req.version
    BY <1>1, <2>3 DEF RequestInv
  <2> QED
    BY <1>6, <1>7, <2>1, <2>2, <2>4 DEF Refused
<1>9. Known(c)' = Known(c)
  BY <1>3, <1>6 DEF Known
<1>10. RequestInv(c)'
  BY <1>2, <1>4, <1>6, <1>8, <1>9 DEF Begins, RequestInv, Getting, Putting
<1> QED
  BY <1>2, <1>3, <1>4, <1>5, <1>10, BeginKeeps DEF req

----------------------------------------------------------------------------
(* The theorems.                                                           *)

LEMMA InitBeatInv == Init => BeatInv
<1> SUFFICES ASSUME Init PROVE BeatInv
  OBVIOUS
<1>1. /\ store = EmptyStore /\ strays = {} /\ now = [c \in Caller |-> 0]
      /\ call = [c \in Caller |-> NoCall] /\ history = [k \in Key |-> << >>]
  BY DEF Init, ClerkInit
<1>2. Line = << >> /\ Version = 0
  BY <1>1, KeyAssumption DEF Line, Version
<1>3. BeatTypes
  BY <1>1 DEF BeatTypes
<1>4. StoreInv
  BY <1>1, <1>2 DEF StoreInv
<1>5. PastInv
  BY <1>1, <1>2 DEF PastInv, Past
<1>6. CallsInv
  BY <1>1 DEF CallsInv, RequestInv, AnswerInv, Getting, Putting, InCall
<1> QED
  BY <1>3, <1>4, <1>5, <1>6 DEF BeatInv

LEMMA NextBeatInv == BeatInv /\ [Next]_vars => BeatInv'
<1> SUFFICES ASSUME BeatInv, [Next]_vars PROVE BeatInv'
  OBVIOUS
<1>1. CASE UNCHANGED vars
  <2>1. /\ store' = store /\ call' = call /\ strays' = strays
        /\ history' = history /\ now' = now
    BY <1>1 DEF vars, clerkVars
  <2>2. Line' = Line /\ Version' = Version /\ Past' = Past
    BY <2>1 DEF Line, Version, Past
  <2>3. BeatTypes' /\ StoreInv' /\ PastInv'
    BY <2>1, <2>2 DEF BeatInv, BeatTypes, StoreInv, PastInv, Forward, RowsAt
  <2>4. ASSUME NEW c \in Caller PROVE RequestInv(c)' /\ AnswerInv(c)'
    <3>1. RequestInv(c) /\ AnswerInv(c)
      BY DEF BeatInv, CallsInv
    <3>2. RequestInv(c)'
      BY <2>1, <2>2, <3>1 DEF RequestInv, Getting, Putting, InCall, Known, Forward, RowsAt
    <3>3. (Getting(c) => GetInv(c))'
      BY <2>1, <2>2, <3>1 DEF AnswerInv, Getting, InCall, GetInv, ReadAt, RowsAt
    <3>4. (Putting(c) => PutInv(c))'
      BY <2>1, <2>2, <3>1 DEF AnswerInv, Putting, InCall, PutInv, Refused
    <3> QED
      BY <3>2, <3>3, <3>4 DEF AnswerInv
  <2> QED
    BY <2>3, <2>4 DEF BeatInv, CallsInv
<1>2. CASE ClerkStep /\ UNCHANGED now
  BY <1>2, RefusalKeeps, SubmitKeeps, FailureKeeps, RetryKeeps, ReturnKeeps, ExecuteKeeps,
     StrayKeeps, LeaderKeeps
  DEF ClerkStep, Environment, Serve, Proceed
<1>3. ASSUME NEW c \in Caller, Beat(c) \/ Heartbeat(c) \/ Stop(c) PROVE BeatInv'
  BY <1>3, BeatKeeps, WriteBackKeeps, AgainKeeps, LeaveKeeps DEF Heartbeat
<1> QED
  BY <1>1, <1>2, <1>3 DEF Next

(***************************************************************************)
(* The invariant of the clerks holds in every reachable state: what is in  *)
(* the store, which Puts are still under way, and what may come of them.   *)
(***************************************************************************)
THEOREM ClerkInvariance == Spec => []BeatInv
BY InitBeatInv, NextBeatInv, PTL DEF Spec

LEMMA AddsToTable ==
    ASSUME BeatTypes, NEW put, Adds(put)
    PROVE  TableRows' = put.value
<1>1. Version \in Nat /\ Version' = Version + 1 /\ Line'[Version'] = put
  BY LineType, AddsToLine
<1>2. store' = [key \in {heartbeatsKey} |->
                   [value |-> Line'[Version'].value, version |-> Version']]
  BY <1>1 DEF Adds, StoreInv
<1>3. GetReply(store', heartbeatsKey) = [err |-> OK, value |-> put.value,
                                         version |-> Version']
  BY <1>1, <1>2 DEF GetReply, Holds
<1>4. Rows(GetReply(store', heartbeatsKey)) = put.value
  BY <1>3 DEF Rows
<1> QED
  BY <1>4 DEF TableRows

LEMMA StoreChanges ==
    ASSUME BeatInv, [Next]_vars, store' # store
    PROVE  \E put : Adds(put) /\ Forward(put)
<1>1. BeatTypes /\ StoreInv /\ PastInv /\ CallsInv
  BY DEF BeatInv
<1>2. \A put \in strays : put.version = Version
  BY <1>1 DEF PastInv
<1>3. ASSUME NEW c \in Caller, Execute(c) PROVE \E put : Adds(put) /\ Forward(put)
  <2>1. /\ call[c].req \in Request /\ Effect(call[c].req)
        /\ call[c].req.type = "Put" => Putting(c)
    BY <1>1, <1>3, CallFields DEF Execute, At, Putting
  <2>2. call[c].req.type = "Put" => call[c].req.version <= Version /\ Forward(call[c].req)
    BY <1>1, <2>1 DEF CallsInv, RequestInv
  <2>3. Adds(call[c].req)
    BY <1>1, <1>2, <2>1, <2>2, EffectIs
  <2> QED
    BY <2>2, <2>3, Requests DEF Adds
<1>4. ASSUME ExecuteStray PROVE \E put : Adds(put) /\ Forward(put)
  <2>1. PICK put \in strays : Effect(put)
    BY <1>4 DEF ExecuteStray
  <2>2. put \in Request /\ put.version = Version /\ Forward(put) /\ Version \in Nat
    BY <1>1, Requests, LineType DEF BeatTypes, PastInv
  <2>3. Adds(put)
    BY <1>1, <1>2, <2>1, <2>2, EffectIs
  <2> QED
    BY <2>2, <2>3
<1>5. ASSUME NEW c \in Caller,
             Refuse(c) \/ Submit(c) \/ Cancel(c) \/ Expire(c) \/ Fail(c) \/ Proceed(c)
      PROVE  FALSE
  BY <1>5 DEF Refuse, Submit, Cancel, Expire, Fail, Failed, Proceed, Retry, Return
<1>6. ASSUME NEW c \in Caller, Beat(c) \/ Heartbeat(c) \/ Stop(c) PROVE FALSE
  BY <1>6 DEF Beat, Heartbeat, WriteBack, Again, Finish, Stop, StopCall
<1>7. CASE Depose \/ Elect
  BY <1>7 DEF Depose, Elect
<1>8. CASE UNCHANGED vars
  BY <1>8 DEF vars, clerkVars
<1> QED
  BY <1>3, <1>4, <1>5, <1>6, <1>7, <1>8 DEF Next, ClerkStep, Environment, Serve

(***************************************************************************)
(* The table of heartbeats loses no row and takes none back, whatever the  *)
(* nodes, their old attempts and their restarts do to it (clerk.go         *)
(* heartbeat).                                                             *)
(***************************************************************************)
THEOREM HeartbeatsAdvance == Spec => RowsAdvance
<1> DEFINE Advance == \A c \in Caller : TableRows'[c] >= TableRows[c]
<1>1. BeatInv /\ [Next]_vars => [Advance]_store
  <2> SUFFICES ASSUME BeatInv, [Next]_vars, store' # store PROVE Advance
    OBVIOUS
  <2>1. BeatTypes /\ StoreInv
    BY DEF BeatInv
  <2>2. PICK put : Adds(put) /\ Forward(put)
    BY StoreChanges
  <2>3. TableRows = RowsAt(Version) /\ TableRows' = put.value
    BY <2>1, <2>2, ReadsTheLine, AddsToTable
  <2> QED
    BY <2>2, <2>3 DEF Adds, Forward
<1>2. Spec => [][Advance]_store
  BY <1>1, ClerkInvariance, PTL DEF Spec
<1> QED
  BY <1>2 DEF RowsAdvance

----------------------------------------------------------------------------
(* What the callers see is a versioned store (module VersionedStore).      *)

LEMMA ReturnedReplies ==
    ASSUME BeatInv, NEW c \in Caller, Returned(c)
    PROVE  call[c].reply \in Response /\ call[c].reply # None
<1>1. BeatTypes /\ AnswerInv(c) /\ InCall(c) /\ call[c].rpc = "returned"
  BY DEF BeatInv, CallsInv, Returned, At
<1>2. CASE Getting(c)
  <2>1. PICK v \in call[c].since .. Version : ReadAt(call[c].reply, v)
    BY <1>1, <1>2 DEF AnswerInv, GetInv
  <2>2. v \in 0 .. Version
    BY <1>1, <1>2, CallFields, LineType
  <2> QED
    BY <1>1, <2>1, <2>2, ReadsAreResponses, NoneAssumption
<1>3. CASE Putting(c)
  <2>1. call[c].reply \in {Error(OK), Error(ErrVersion), Error(ErrMaybe)}
    BY <1>1, <1>3 DEF AnswerInv, PutInv
  <2> QED
    BY <2>1, Errors, NoneAssumption
<1> QED
  BY <1>1, <1>2, <1>3, CallFields

Waits(c) == InCall(c) /\ ~Returned(c)

LEMMA OpenIs ==
    ASSUME BeatInv, NEW c \in Caller
    PROVE  /\ Promised!Open(c) <=> Waits(c)
           /\ Seen[c] # Promised!Idle <=> InCall(c)
           /\ Seen[c] = CallSeen(c)
<1>1. Seen[c] = CallSeen(c)
  BY DEF Seen
<1>2. CASE ~InCall(c)
  <2>1. CallSeen(c) = Promised!Idle
    BY <1>2 DEF CallSeen, Promised!Idle
  <2> QED
    BY <1>1, <1>2, <2>1 DEF Promised!Open, Seen, Waits
<1>3. CASE InCall(c)
  <2>1. BeatTypes /\ call[c].req # None
    BY <1>3, CallFields, Requests DEF BeatInv
  <2>2. CallSeen(c).req = call[c].req
    BY <1>3 DEF CallSeen
  <2>3. CallSeen(c) # Promised!Idle
    BY <2>1, <2>2 DEF Promised!Idle
  <2>4. CallSeen(c).answer = None <=> ~Returned(c)
    BY <1>3, ReturnedReplies DEF CallSeen
  <2> QED
    BY <1>1, <1>3, <2>3, <2>4 DEF Promised!Open, Seen, Waits
<1> QED
  BY <1>2, <1>3

LEMMA UnderwayIs ==
    ASSUME BeatInv
    PROVE  /\ Promised!Underway = OpenPuts
           /\ OpenPuts = {call[c].req : c \in {d \in Caller : Waits(d)}}
<1>1. OpenPuts = {call[c].req : c \in {d \in Caller : Waits(d)}}
  BY DEF OpenPuts, Waits
<1>2. Promised!Underway = {Seen[c].req : c \in {d \in Caller : Promised!Open(d)}}
  BY DEF Promised!Underway, Seen
<1>3. \A c \in Caller : Waits(c) => Seen[c].req = call[c].req
  <2> SUFFICES ASSUME NEW c \in Caller, InCall(c) PROVE Seen[c].req = call[c].req
    BY DEF Waits
  <2>1. CallSeen(c).req = call[c].req
    BY DEF CallSeen
  <2> QED
    BY <2>1, OpenIs
<1>4. {d \in Caller : Promised!Open(d)} = {d \in Caller : Waits(d)}
  BY OpenIs
<1> QED
  BY <1>1, <1>2, <1>3, <1>4

(* Whatever may still happen has not happened. *)
LEMMA AdriftIs ==
    ASSUME BeatInv
    PROVE  Adrift = strays \ OpenPuts
<1>1. BeatTypes /\ StoreInv /\ PastInv
  BY DEF BeatInv
<1>2. ASSUME NEW put \in strays, NEW i \in 1 .. Len(history[put.key])
      PROVE  history[put.key][i] # put
  <2>1. put.key = heartbeatsKey /\ put.version = Version
    BY <1>1, Requests DEF BeatTypes, PastInv
  <2>2. i \in 1 .. Version /\ history[put.key][i] = Line[i] /\ Version \in Nat
    BY <1>1, <2>1, LineType DEF Version, Line
  <2>3. Line[i].version = i - 1
    BY <1>1, <2>2 DEF StoreInv
  <2> QED
    BY <2>1, <2>2, <2>3
<1> QED
  BY <1>2 DEF Adrift

LEMMA AdriftThen ==
    ASSUME BeatInv'
    PROVE  Adrift' = strays' \ OpenPuts'
<1>1. BeatTypes' /\ StoreInv' /\ PastInv'
  BY DEF BeatInv
<1>2. Version' \in Nat
  BY <1>1, KeyAssumption DEF BeatTypes, Version, Line
<1>3. ASSUME NEW put \in strays', NEW i \in 1 .. Len(history'[put.key])
      PROVE  history'[put.key][i] # put
  <2>1. put.key = heartbeatsKey /\ put.version = Version'
    BY <1>1, Requests DEF BeatTypes, PastInv
  <2>2. i \in 1 .. Version' /\ history'[put.key][i] = Line'[i]
    BY <1>2, <2>1 DEF Version, Line
  <2>3. Line'[i].version = i - 1
    BY <1>1, <2>2 DEF StoreInv
  <2> QED
    BY <1>2, <2>1, <2>2, <2>3
<1> QED
  BY <1>3 DEF Adrift

(* A call that goes on keeps what its caller waits for. *)
LEMMA UnseenIs ==
    ASSUME BeatInv, NEW c \in Caller,
           Moves(c, call'[c].rpc, call'[c].retrying, call'[c].reply),
           call[c].rpc # "returned", call'[c].rpc # "returned"
    PROVE  Seen' = Seen /\ OpenPuts' = OpenPuts /\ call[c].req \in OpenPuts
<1>1. \A d \in Caller : CallSeen(d)' = CallSeen(d)
  <2>1. CallSeen(c)' = CallSeen(c)
    BY DEF CallSeen, Moves, Returned, At, InCall
  <2>2. ASSUME NEW d \in Caller, d # c PROVE CallSeen(d)' = CallSeen(d)
    BY <2>2 DEF CallSeen, Moves, OthersWait, Returned, At, InCall
  <2> QED
    BY <2>1, <2>2
<1>2. \A d \in Caller : /\ (InCall(d) /\ ~Returned(d))' <=> (InCall(d) /\ ~Returned(d))
                        /\ call'[d].req = call[d].req
  BY DEF Moves, OthersWait, Returned, At, InCall
<1>3. OpenPuts' = OpenPuts
  BY <1>2 DEF OpenPuts
<1>4. call[c].req \in OpenPuts
  BY DEF OpenPuts, Moves, Returned, At
<1> QED
  BY <1>1, <1>3, <1>4 DEF Seen

LEMMA UnseenStutters ==
    ASSUME BeatInv, BeatInv', NEW c \in Caller, Unseen(c)
    PROVE  UNCHANGED <<history, Seen, Adrift>>
<1>1. Seen' = Seen /\ OpenPuts' = OpenPuts /\ call[c].req \in OpenPuts
  BY UnseenIs DEF Unseen
<1>2. strays' \ OpenPuts' = strays \ OpenPuts
  <2>1. strays \subseteq strays' /\ strays' \subseteq strays \cup {call[c].req}
    BY DEF Unseen, Strayed, Alive
  <2> QED
    BY <1>1, <2>1
<1> QED
  BY <1>1, <1>2, AdriftIs, AdriftThen DEF Unseen

(* An execution that adds to the line is the moment the Put takes effect. *)
LEMMA AddsPerforms ==
    ASSUME BeatInv, BeatInv', NEW put, Adds(put), put \in OpenPuts \cup strays,
           Seen' = Seen
    PROVE  Promised!Perform
<1>1. BeatTypes /\ StoreInv /\ PastInv
  BY DEF BeatInv
<1>2. put \in Promised!Underway \cup Adrift
  BY AdriftIs, UnderwayIs
<1>3. /\ put \in Puts /\ put.type = "Put" /\ put.key = heartbeatsKey
      /\ put.version = Version /\ Version \in Nat
  BY <1>1, LineType, Requests DEF Adds
<1>4. put \notin Promised!ToSet(history[put.key])
  <2>1. \A i \in 1 .. Version : Line[i] # put
    BY <1>1, <1>3 DEF StoreInv
  <2> QED
    BY <1>3, <2>1 DEF Promised!ToSet, Line, Version
<1>5. put.version = Len(history[put.key])
  BY <1>3 DEF Version, Line
<1>6. history' = [history EXCEPT ![put.key] = Append(@, put)]
  BY <1>3 DEF Adds
<1>7. Adrift' = {other \in Adrift : other.key = put.key => other.version > put.version}
  <2>1. Adrift' = {}
    BY AdriftThen DEF Adds
  <2>2. ASSUME NEW other \in Adrift
        PROVE  other.key = put.key /\ ~(other.version > put.version)
    <3>1. other \in strays
      BY AdriftIs
    <3>2. other.key = heartbeatsKey /\ other.version = Version
      BY <1>1, <3>1, Requests DEF BeatTypes, PastInv
    <3> QED
      BY <1>3, <3>2
  <2> QED
    BY <2>1, <2>2
<1> QED
  BY <1>2, <1>3, <1>4, <1>5, <1>6, <1>7 DEF Promised!Perform

LEMMA ExecutePerforms ==
    ASSUME BeatInv, BeatInv', NEW c \in Caller, Execute(c) /\ UNCHANGED now
    PROVE  Promised!Perform \/ UNCHANGED <<history, Seen, Adrift>>
<1>1. BeatTypes /\ StoreInv /\ CallsInv /\ \A put \in strays : put.version = Version
  BY DEF BeatInv, PastInv
<1>2. /\ InCall(c) /\ call[c].rpc # "returned" /\ Effect(call[c].req)
      /\ call[c].req \in Request
  BY <1>1, CallFields DEF Execute, At
<1>3. call[c].req.type = "Put" => call[c].req.version <= Version
  BY <1>1, <1>2 DEF CallsInv, RequestInv, Putting
<1>4. PICK reply : reply = Reply(store, call[c].req)
  OBVIOUS
<1>5. reply \in Response
  <2>1. CASE call[c].req.type = "Get"
    <3>1. ReadAt(reply, Version) /\ Version \in 0 .. Version
      BY <1>1, <1>2, <1>4, <2>1, ReadsTheLine, Requests, LineType DEF Reply
    <3> QED
      BY <1>1, <3>1, ReadsAreResponses
  <2>2. CASE call[c].req.type = "Put"
    <3>1. reply = Error(PutErr(store, call[c].req)) /\ call[c].req \in Puts
      BY <1>2, <1>4, <2>2, Requests DEF Reply
    <3> QED
      BY <1>1, <1>3, <2>2, <3>1, PutErrIs, Errors
  <2> QED
    BY <1>2, <2>1, <2>2, Requests
<1>6. Moves(c, "answered", call[c].retrying, reply)
  BY <1>1, <1>2, <1>4, <1>5, AnswerMoves DEF Execute, Answer, Steps
<1>7. Moves(c, call'[c].rpc, call'[c].retrying, call'[c].reply) /\ call'[c].rpc # "returned"
  BY <1>6 DEF Moves
<1>8. Seen' = Seen /\ OpenPuts' = OpenPuts /\ call[c].req \in OpenPuts
  BY <1>2, <1>7, UnseenIs
<1>9. CASE UNCHANGED <<store, history, strays>>
  BY <1>8, <1>9, AdriftIs, AdriftThen
<1>10. CASE Adds(call[c].req)
  BY <1>8, <1>10, AddsPerforms
<1> QED
  BY <1>1, <1>2, <1>3, <1>9, <1>10, EffectIs

LEMMA StrayPerforms ==
    ASSUME BeatInv, BeatInv', ExecuteStray /\ UNCHANGED now
    PROVE  Promised!Perform
<1>1. BeatTypes /\ StoreInv /\ \A put \in strays : put.version = Version
  BY DEF BeatInv, PastInv
<1>2. PICK put \in strays : Effect(put)
  BY DEF ExecuteStray
<1>3. /\ put \in Request /\ put.type = "Put"
      /\ put.version = Version /\ Version \in Nat
  BY <1>1, Requests, LineType DEF BeatTypes
<1>4. Adds(put)
  BY <1>1, <1>2, <1>3, EffectIs
<1>5. Seen' = Seen
  <2>1. \A c \in Caller : CallSeen(c)' = CallSeen(c)
    BY DEF ExecuteStray, CallSeen, InCall, Returned, At
  <2> QED
    BY <2>1 DEF Seen
<1> QED
  BY <1>4, <1>5, AddsPerforms

LEMMA LeadersUnseen ==
    ASSUME BeatInv, BeatInv', (Depose \/ Elect) /\ UNCHANGED now
    PROVE  UNCHANGED <<history, Seen, Adrift>>
<1>1. BeatTypes
  BY DEF BeatInv
<1>2. history' = history /\ strays' = strays
  BY DEF Depose, Elect
<1>3. \A c \in Caller : /\ InCall(c)' <=> InCall(c)
                        /\ Returned(c)' <=> Returned(c)
                        /\ InCall(c) => /\ call'[c].req = call[c].req
                                        /\ call'[c].since = call[c].since
                                        /\ call'[c].reply = call[c].reply
  <2> SUFFICES ASSUME NEW c \in Caller
               PROVE  /\ InCall(c)' <=> InCall(c)
                      /\ Returned(c)' <=> Returned(c)
                      /\ InCall(c) => /\ call'[c].req = call[c].req
                                      /\ call'[c].since = call[c].since
                                      /\ call'[c].reply = call[c].reply
    OBVIOUS
  <2>1. CASE call'[c] = call[c]
    BY <2>1 DEF InCall, Returned, At
  <2>2. CASE At(c, "submitted") /\ call'[c] = [call[c] EXCEPT !.rpc = "stranded"]
    <3>1. call[c] \in CallType /\ InCall(c)
      BY <1>1, <2>2, CallFields DEF At
    <3>2. /\ call'[c] \in CallType
          /\ call'[c].req = call[c].req /\ call'[c].since = call[c].since
          /\ call'[c].reply = call[c].reply
          /\ call'[c].rpc = "stranded" /\ call[c].rpc = "submitted"
      BY <2>2, <3>1 DEF CallType, Steps, At
    <3> QED
      BY <3>1, <3>2, CallsHaveRequests DEF InCall, Returned, At
  <2> QED
    BY <2>1, <2>2 DEF Depose, Elect
<1>4. \A c \in Caller : CallSeen(c)' = CallSeen(c)
  BY <1>3 DEF CallSeen
<1>5. OpenPuts' = OpenPuts
  BY <1>3 DEF OpenPuts
<1> QED
  BY <1>2, <1>4, <1>5, AdriftIs, AdriftThen DEF Seen

LEMMA OpenPutIs ==
    ASSUME BeatInv, NEW p \in Puts
    PROVE  p \in OpenPuts <=> Waits(p.by) /\ call[p.by].req = p
<1>1. p.by \in Caller /\ p.type = "Put"
  BY Requests
<1>2. ASSUME NEW d \in Caller, Waits(d), call[d].req = p PROVE p.by = d
  BY <1>1, <1>2 DEF BeatInv, CallsInv, RequestInv, Putting, Waits
<1> QED
  BY <1>1, <1>2 DEF OpenPuts, Waits

LEMMA OpenPutThen ==
    ASSUME BeatInv', NEW p \in Puts
    PROVE  p \in OpenPuts' <=> Waits(p.by)' /\ call'[p.by].req = p
<1>1. p.by \in Caller /\ p.type = "Put"
  BY Requests
<1>2. ASSUME NEW d \in Caller, Waits(d)', call'[d].req = p PROVE p.by = d
  BY <1>1, <1>2 DEF BeatInv, CallsInv, RequestInv, Putting, Waits
<1> QED
  BY <1>1, <1>2 DEF OpenPuts, Waits

LEMMA SeenChanges ==
    ASSUME NEW c \in Caller, OthersWait(c)
    PROVE  /\ Seen' = [Seen EXCEPT ![c] = CallSeen(c)']
           /\ Seen'[c] = CallSeen(c)' /\ Seen[c] = CallSeen(c)
           /\ \A d \in Caller : d # c => (Waits(d)' <=> Waits(d))
<1>1. ASSUME NEW d \in Caller, d # c
      PROVE  CallSeen(d)' = CallSeen(d) /\ (Waits(d)' <=> Waits(d))
  BY <1>1 DEF OthersWait, CallSeen, Waits, InCall, Returned, At
<1> QED
  BY <1>1 DEF Seen

(* When c no longer waits, its Put is adrift if an attempt still is. *)
LEMMA AdriftLater ==
    ASSUME BeatInv, BeatInv', NEW c \in Caller, OthersWait(c),
           strays' \in {strays, Strayed(c)}, Waits(c), ~Waits(c)'
    PROVE  /\ Getting(c) => Adrift' = Adrift
           /\ Putting(c) => \/ call[c].req \in strays'
                               /\ Adrift' = Adrift \cup {call[c].req}
                            \/ call[c].req \notin strays' /\ Adrift' = Adrift
<1>1. BeatTypes /\ CallsInv /\ strays' \subseteq Puts
  BY DEF BeatInv, BeatTypes
<1>2. ASSUME NEW p \in Puts
      PROVE  p \in OpenPuts' <=> p \in OpenPuts /\ p # call[c].req
  <2>1. p.by \in Caller
    BY Requests
  <2>2. CASE p.by = c
    <3>1. p \in OpenPuts => p = call[c].req
      BY <2>2, OpenPutIs
    <3>2. p \notin OpenPuts'
      BY <2>2, OpenPutThen
    <3> QED
      BY <3>1, <3>2
  <2>3. CASE p.by # c
    <3>1. p # call[c].req
      <4>1. call[c].req = p => Putting(c)
        BY Requests DEF Putting, Waits
      <4> QED
        BY <1>1, <2>3, <4>1 DEF CallsInv, RequestInv
    <3>2. call'[p.by] = call[p.by] /\ (Waits(p.by)' <=> Waits(p.by))
      BY <2>1, <2>3, SeenChanges DEF OthersWait
    <3> QED
      BY <3>1, <3>2, OpenPutIs, OpenPutThen
  <2> QED
    BY <2>2, <2>3
<1>3. strays \subseteq strays' /\ strays' \subseteq strays \cup {call[c].req}
  BY DEF Strayed, Alive
<1>4. Adrift = strays \ OpenPuts /\ Adrift' = strays' \ OpenPuts'
  BY AdriftIs, AdriftThen
<1>5. CASE Getting(c)
  <2>1. strays' = strays /\ ~Putting(c) /\ call[c].req \notin Puts
    BY <1>5, Requests DEF Getting, Putting, Strayed, Alive
  <2> QED
    BY <1>1, <1>2, <1>4, <1>5, <2>1
<1>6. CASE Putting(c)
  <2>1. call[c].req \in OpenPuts /\ call[c].req \in Puts /\ ~Getting(c)
    BY <1>1, <1>6, CallFields DEF OpenPuts, Waits
  <2> QED
    BY <1>1, <1>2, <1>3, <1>4, <2>1
<1> QED
  BY <1>1, <1>5, <1>6, CallFields DEF Waits

(* A request that is new leaves what is adrift as it is. *)
LEMMA BeginInvokes ==
    ASSUME BeatInv, BeatInv', NEW c \in Caller, NEW req \in Request, Begins(c, req),
           ~Waits(c), UNCHANGED <<history, strays>>,
           req.type = "Put" => req \notin Past
    PROVE  Promised!Invoke(c)
<1>1. BeatTypes /\ CallsInv
  BY DEF BeatInv
<1>2. /\ OthersWait(c) /\ Waits(c)' /\ InCall(c)' /\ ~Returned(c)'
      /\ call'[c].req = req
      /\ req.type = "Get" => call'[c].since = Version
  BY DEF Begins, Waits, Returned, At
<1>3. PICK new : new = CallSeen(c)'
  OBVIOUS
<1>4. Seen' = [Seen EXCEPT ![c] = new] /\ Seen'[c] = new
  BY <1>2, <1>3, SeenChanges
<1>5. new = [req |-> req, since |-> call'[c].since, answer |-> None]
  BY <1>2, <1>3 DEF CallSeen
<1>6. req # None /\ req.key = heartbeatsKey
  BY Requests
<1>7. new # Promised!Idle /\ new.answer = None
  BY <1>5, <1>6 DEF Promised!Idle
<1>8. new.req.type = "Get" => new.since = Len(history[new.req.key])
  BY <1>2, <1>5, <1>6 DEF Version, Line
<1>9. ~Promised!Open(c)
  BY OpenIs
<1>10. Adrift' = Adrift
  <2>1. \A p \in strays : p \in OpenPuts' <=> p \in OpenPuts
    <3> SUFFICES ASSUME NEW p \in strays PROVE p \in OpenPuts' <=> p \in OpenPuts
      OBVIOUS
    <3>1. p \in Puts /\ p \in Past /\ p.by \in Caller /\ p.type = "Put"
      BY <1>1, Requests DEF BeatTypes, Past
    <3>2. CASE p.by = c
      <4>1. p # req
        BY <3>1
      <4> QED
        BY <1>2, <3>1, <3>2, <4>1, OpenPutIs, OpenPutThen
    <3>3. CASE p.by # c
      <4>1. call'[p.by] = call[p.by] /\ (Waits(p.by)' <=> Waits(p.by))
        BY <1>2, <3>1, <3>3, SeenChanges DEF OthersWait
      <4> QED
        BY <3>1, <4>1, OpenPutIs, OpenPutThen
    <3> QED
      BY <3>2, <3>3
  <2> QED
    BY <2>1, AdriftIs, AdriftThen
<1> QED
  BY <1>4, <1>7, <1>8, <1>9, <1>10 DEF Promised!Invoke

LEMMA BeginningsInvoke ==
    ASSUME BeatInv, BeatInv', NEW c \in Caller, Beat(c) \/ WriteBack(c) \/ Again(c)
    PROVE  Promised!Invoke(c)
<1>1. ~Waits(c) /\ UNCHANGED <<history, strays>>
  BY DEF Beat, WriteBack, Again, HasRead, HasWritten, Waits
<1>2. PICK req : /\ Begins(c, req)
                 /\ \/ req = GetReq(heartbeatsKey)
                    \/ HasRead(c) /\ req = WriteReq(c) /\ req \notin Past
  BY BeatKeeps, AgainKeeps, WriteBackKeeps DEF WriteBack
<1>3. req \in Request
  BY <1>2 DEF Begins, CallType
<1>4. req.type = "Put" => req \notin Past
  BY <1>2, Requests
<1> QED
  BY <1>1, <1>2, <1>3, <1>4, BeginInvokes

LEMMA LeavesDone ==
    ASSUME BeatInv, BeatInv', NEW c \in Caller, Finish(c) \/ Stop(c)
    PROVE  Promised!Done(c) \/ Promised!Leave(c)
<1>1. /\ InCall(c) /\ strays' \in {strays, Strayed(c)} /\ history' = history
      /\ Returned(c) => strays' = strays
      /\ ~Returned(c) => Stop(c)
  BY DEF Finish, Stop, StopCall, HasWritten, Returned, At
<1>2. OthersWait(c) /\ call'[c] = NoCall
  BY LeaveKeeps
<1>3. CallSeen(c)' = Promised!Idle /\ ~Waits(c)' /\ ~InCall(c)'
  BY <1>2 DEF CallSeen, Promised!Idle, Waits, InCall
<1>4. Seen' = [Seen EXCEPT ![c] = Promised!Idle]
  BY <1>2, <1>3, SeenChanges
<1>5. Seen[c] # Promised!Idle /\ (Promised!Open(c) <=> Waits(c))
  BY <1>1, OpenIs
<1>6. CASE Returned(c)
  <2>1. strays' = strays /\ ~Waits(c)
    BY <1>1, <1>6 DEF Waits
  <2>2. Adrift' = Adrift
    <3>1. \A p \in strays : p \in OpenPuts' <=> p \in OpenPuts
      <4> SUFFICES ASSUME NEW p \in strays PROVE p \in OpenPuts' <=> p \in OpenPuts
        OBVIOUS
      <4>1. p \in Puts /\ p.by \in Caller
        BY Requests DEF BeatInv, BeatTypes
      <4>2. p.by # c => call'[p.by] = call[p.by] /\ (Waits(p.by)' <=> Waits(p.by))
        BY <1>2, <4>1, SeenChanges DEF OthersWait
      <4> QED
        BY <1>3, <2>1, <4>1, <4>2, OpenPutIs, OpenPutThen
    <3> QED
      BY <2>1, <3>1, AdriftIs, AdriftThen
  <2> QED
    BY <1>1, <1>4, <1>5, <2>1, <2>2 DEF Promised!Done
<1>7. CASE ~Returned(c)
  <2>1. Waits(c) /\ Seen[c].req = call[c].req
    <3>1. CallSeen(c).req = call[c].req
      BY <1>1 DEF CallSeen
    <3> QED
      BY <1>1, <1>7, <3>1, OpenIs DEF Waits
  <2>2. Adrift' \in {Adrift, Adrift \cup {Seen[c].req}}
    BY <1>1, <1>2, <1>3, <2>1, AdriftLater, CallFields DEF BeatInv, Waits
  <2> QED
    BY <1>1, <1>4, <1>5, <2>1, <2>2 DEF Promised!Leave
<1> QED
  BY <1>6, <1>7

LEMMA ReturnAnswers ==
    ASSUME BeatInv, BeatInv', NEW c \in Caller, Return(c) /\ UNCHANGED now
    PROVE  Promised!AnswerGet(c) \/ Promised!AnswerPut(c)
<1>1. BeatTypes /\ CallsInv /\ InCall(c) /\ Waits(c)
  BY DEF BeatInv, Return, Returned, At, Waits
<1>2. PICK reply : reply = Outcome(c)
  OBVIOUS
<1>3. Moves(c, "returned", call[c].retrying, reply) /\ reply \in Response
  BY <1>2, ReturnKeeps, OutcomeIs
<1>4. reply # None /\ history' = history /\ strays' = strays
  BY <1>3, NoneAssumption DEF Return
<1>5. OthersWait(c) /\ ~Waits(c)' /\ InCall(c)' /\ Returned(c)'
  BY <1>3 DEF Moves, Waits, Returned, At
<1>6. CallSeen(c) = [req |-> call[c].req, since |-> call[c].since, answer |-> None]
  BY <1>1 DEF CallSeen, Waits
<1>7. CallSeen(c)' = [req |-> call[c].req, since |-> call[c].since, answer |-> reply]
  BY <1>3, <1>5 DEF CallSeen, Moves
<1>8. /\ Seen[c].req = call[c].req /\ Seen[c].since = call[c].since
      /\ Seen'[c].answer = reply /\ Promised!Open(c)
  BY <1>1, <1>5, <1>6, <1>7, SeenChanges, OpenIs
<1>9. Promised!Answered(c, reply)
  <2>1. Seen[c] = CallSeen(c) /\ Seen' = [Seen EXCEPT ![c] = CallSeen(c)']
    BY <1>5, SeenChanges
  <2>2. PICK v : v = CallSeen(c)'
    OBVIOUS
  <2>3. v = [Seen[c] EXCEPT !.answer = reply]
    BY <1>6, <1>7, <2>1, <2>2
  <2>4. Seen' = [Seen EXCEPT ![c] = v]
    BY <2>1, <2>2
  <2> QED
    BY <2>3, <2>4 DEF Promised!Answered
<1>10. call[c].req.key = heartbeatsKey /\ history[heartbeatsKey] = Line
  BY <1>1, CallFields, Requests DEF Line
<1>11. CASE Getting(c)
  <2>1. PICK v \in call[c].since .. Version : ReadAt(reply, v)
    BY <1>2, <1>11, OutcomeIs
  <2>2. Adrift' = Adrift
    BY <1>1, <1>4, <1>5, <1>11, AdriftLater
  <2>3. \/ v = 0 /\ reply.err = "ErrNoKey"
        \/ /\ v > 0
           /\ reply.err = "OK" /\ reply.version = v /\ reply.value = Line[v].value
    BY <2>1, Errors, ErrorNames DEF ReadAt, RowsAt
  <2>4. Seen[c].req.type = "Get" /\ Seen[c].req.key = heartbeatsKey
    BY <1>8, <1>10, <1>11 DEF Getting
  <2> QED
    BY <1>4, <1>8, <1>9, <1>10, <2>1, <2>2, <2>3, <2>4
    DEF Promised!AnswerGet, Version
<1>12. CASE Putting(c)
  <2>1. Seen[c].req = call[c].req /\ call[c].req.type = "Put"
    BY <1>8, <1>12 DEF Putting
  <2>2. PICK put : put = call[c].req
    OBVIOUS
  <2>3. put \in Promised!ToSet(history[put.key]) <=> put \in {Line[i] : i \in 1 .. Version}
    <3>1. Line \in Seq(Puts) /\ Version = Len(Line)
      BY <1>1, LineType DEF Version
    <3>2. history[put.key] = Line
      BY <1>10, <2>2
    <3>3. DOMAIN Line = 1 .. Version
      BY <3>1
    <3>4. Promised!ToSet(history[put.key]) = {Line[i] : i \in DOMAIN Line}
      BY <3>2 DEF Promised!ToSet
    <3> QED
      BY <3>3, <3>4
  <2>4. \/ put \in strays' /\ Adrift' = Adrift \cup {put}
        \/ put \notin strays' /\ Adrift' = Adrift
    BY <1>1, <1>4, <1>5, <1>12, <2>2, AdriftLater
  <2>5. \/ reply.err = "OK" /\ put \in {Line[i] : i \in 1 .. Version}
        \/ /\ reply.err = "ErrVersion"
           /\ put \notin {Line[i] : i \in 1 .. Version} /\ put \notin strays
        \/ reply.err = "ErrMaybe"
    <3>1. \/ /\ reply = Error(OK)
             /\ put \in {Line[i] : i \in 1 .. Version}
          \/ reply = Error(ErrVersion) /\ Refused(put)
          \/ reply = Error(ErrMaybe)
      BY <1>2, <1>12, <2>2, OutcomeIs
    <3>2. Refused(put) =>
              put \notin {Line[i] : i \in 1 .. Version} /\ put \notin strays
      BY DEF Refused, Past
    <3> QED
      BY <3>1, <3>2, Errors, ErrorNames
  <2>6. put \in {Line[i] : i \in 1 .. Version} => put \notin strays
    <3>1. \A i \in 1 .. Version : Line[i].version # Version
      BY <1>1, LineType DEF BeatInv, StoreInv
    <3>2. \A p \in strays : p.version = Version
      BY DEF BeatInv, PastInv
    <3> QED
      BY <3>1, <3>2
  <2>7. \/ reply.err = "OK" /\ put \in Promised!ToSet(history[put.key]) /\ Adrift' = Adrift
        \/ /\ reply.err = "ErrVersion"
           /\ put \notin Promised!ToSet(history[put.key]) /\ Adrift' = Adrift
        \/ reply.err = "ErrMaybe" /\ Adrift' \in {Adrift, Adrift \cup {put}}
    BY <1>4, <2>3, <2>4, <2>5, <2>6
  <2> QED
    BY <1>4, <1>8, <1>9, <2>1, <2>2, <2>7 DEF Promised!AnswerPut
<1> QED
  BY <1>1, <1>11, <1>12, CallFields

LEMMA InitPromised == Init => Promised!Init
<1> SUFFICES ASSUME Init PROVE Promised!Init
  OBVIOUS
<1>1. /\ strays = {} /\ call = [c \in Caller |-> NoCall]
      /\ history = [k \in Key |-> << >>]
  BY DEF Init, ClerkInit
<1>2. \A c \in Caller : CallSeen(c) = Promised!Idle
  BY <1>1 DEF CallSeen, InCall, Promised!Idle
<1>3. Seen = [c \in Caller |-> Promised!Idle]
  BY <1>2 DEF Seen
<1>4. Adrift = {}
  BY <1>1 DEF Adrift
<1> QED
  BY <1>1, <1>3, <1>4 DEF Promised!Init

LEMMA NextPromised ==
    BeatInv /\ BeatInv' /\ [Next]_vars => [Promised!Next]_<<history, Seen, Adrift>>
<1> SUFFICES ASSUME BeatInv, BeatInv', [Next]_vars
             PROVE  Promised!Next \/ UNCHANGED <<history, Seen, Adrift>>
  OBVIOUS
<1>1. ASSUME NEW c \in Caller, Refuse(c) \/ Submit(c) \/ Cancel(c) \/ Expire(c) \/ Fail(c)
                               \/ Retry(c),
             UNCHANGED now
      PROVE  UNCHANGED <<history, Seen, Adrift>>
  BY <1>1, RefusalKeeps, SubmitKeeps, FailureKeeps, RetryKeeps, UnseenStutters
<1>2. ASSUME NEW c \in Caller, Execute(c) \/ Return(c), UNCHANGED now
      PROVE  Promised!Next \/ UNCHANGED <<history, Seen, Adrift>>
  BY <1>2, ExecutePerforms, ReturnAnswers DEF Promised!Next
<1>3. CASE ExecuteStray /\ UNCHANGED now
  BY <1>3, StrayPerforms DEF Promised!Next
<1>4. CASE (Depose \/ Elect) /\ UNCHANGED now
  BY <1>4, LeadersUnseen
<1>5. ASSUME NEW c \in Caller, Beat(c) \/ Heartbeat(c) \/ Stop(c) PROVE Promised!Next
  BY <1>5, BeginningsInvoke, LeavesDone DEF Heartbeat, Promised!Next
<1>6. CASE UNCHANGED vars
  <2>1. UNCHANGED <<history, strays, call>>
    BY <1>6 DEF vars, clerkVars
  <2>2. Seen' = Seen /\ OpenPuts' = OpenPuts
    BY <2>1 DEF Seen, CallSeen, OpenPuts, InCall, Returned, At
  <2> QED
    BY <2>1, <2>2 DEF Adrift
<1> QED
  BY <1>1, <1>2, <1>3, <1>4, <1>5, <1>6
  DEF Next, ClerkStep, Environment, Serve, Proceed

(***************************************************************************)
(* Get and Put, with their timeouts and repeated attempts at changing      *)
(* leaders, are the atomic accesses to one versioned store that their      *)
(* callers take them for: a Put is made at most once, and its answer is    *)
(* right unless it is ErrMaybe (clerk.go Get, Put; kv.go get, put).        *)
(***************************************************************************)
THEOREM ClerksImplementVersionedStore == Spec => ImplementsVersionedStore
BY ClerkInvariance, InitPromised, NextPromised, PTL
DEF Spec, ImplementsVersionedStore, Promised!Spec, Promised!vars
==============================================================================
