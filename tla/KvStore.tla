------------------------------- MODULE KvStore -------------------------------
(***************************************************************************)
(* The key/value service of src/kv/kv.go: a map from keys to values with a *)
(* version each, and what its two commands do to it.  Commands reach it in *)
(* the order of the replicated log, one at a time.                         *)
(***************************************************************************)
EXTENDS Integers

OK == "OK"
ErrNoKey == "ErrNoKey"
ErrVersion == "ErrVersion"
ErrMaybe == "ErrMaybe"
ErrWrongLeader == "ErrWrongLeader"

NoValue == << >>
GetReq(key) == [type |-> "Get", key |-> key]
PutReq(by, key, value, version) ==
    [type |-> "Put", by |-> by, key |-> key, value |-> value, version |-> version]

Error(err) == [err |-> err, value |-> NoValue, version |-> 0]

EmptyStore == << >>

Holds(store, key) == key \in DOMAIN store

GetReply(store, key) ==
    IF Holds(store, key)
    THEN [err |-> OK, value |-> store[key].value, version |-> store[key].version]
    ELSE Error(ErrNoKey)

PutErr(store, put) ==
    CASE ~Holds(store, put.key) /\ put.version # 0 -> ErrNoKey
      [] Holds(store, put.key) /\ store[put.key].version # put.version -> ErrVersion
      [] OTHER -> OK

Written(store, put) ==
    [key \in DOMAIN store \cup {put.key} |->
        IF key = put.key THEN [value |-> put.value, version |-> put.version + 1]
        ELSE store[key]]

AfterPut(store, put) ==
    IF PutErr(store, put) = OK THEN Written(store, put) ELSE store

(* DoOp: what a command of the log answers, and what it leaves behind. *)
Reply(store, req) ==
    IF req.type = "Get" THEN GetReply(store, req.key) ELSE Error(PutErr(store, req))

After(store, req) ==
    IF req.type = "Get" THEN store ELSE AfterPut(store, req)
==============================================================================
