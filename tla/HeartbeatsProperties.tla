------------------------- MODULE HeartbeatsProperties -------------------------
(***************************************************************************)
(* What makes the clerk (src/clerk/clerk.go) and its heartbeats correct.   *)
(***************************************************************************)
EXTENDS Heartbeats

(***************************************************************************)
(* What Get and Put do with all their attempts, cancelled and repeated, is *)
(* one atomic access to one versioned store, and only ErrMaybe leaves the  *)
(* caller in doubt (clerk.go Get, Put; kv.go get, put).                    *)
(***************************************************************************)
CallSeen(c) ==
    IF InCall(c)
    THEN [req |-> call[c].req, since |-> call[c].since,
          answer |-> IF Returned(c) THEN call[c].reply ELSE None]
    ELSE [req |-> None, since |-> 0, answer |-> None]

Seen == [c \in Caller |-> CallSeen(c)]

OpenPuts == {call[c].req : c \in {d \in Caller : InCall(d) /\ ~Returned(d)}}

Adrift ==
    {put \in strays \ OpenPuts :
        \A i \in 1 .. Len(history[put.key]) : history[put.key][i] # put}

Promised ==
    INSTANCE VersionedStore WITH
        call <- Seen, adrift <- Adrift

ImplementsVersionedStore == Promised!Spec

(***************************************************************************)
(* No row of the table is lost or goes back in time, whatever two nodes,   *)
(* their old attempts and their restarts do to it (clerk.go heartbeat).    *)
(***************************************************************************)
TableRows == Rows(GetReply(store, heartbeatsKey))
RowsAdvance ==
    [][\A c \in Caller : TableRows'[c] >= TableRows[c]]_store

(***************************************************************************)
(* Every heartbeat comes to an end when leaders stop changing and calls    *)
(* stop failing, so that the ticker can start the next one (clerk.go       *)
(* RegisterWithLease).                                                     *)
(***************************************************************************)
HeartbeatsEnd == \A c \in Caller : InCall(c) ~> ~InCall(c)
==============================================================================
