-------------------------------- MODULE MCRaft --------------------------------
(***************************************************************************)
(* Small instances of Raft for TLC.                                        *)
(***************************************************************************)
EXTENDS RaftProperties, TLC

Symmetry == Permutations(Server)

(***************************************************************************)
(* States the program reaches with all messages delivered, from which a    *)
(* run can afford to explore further than from the boot.                   *)
(***************************************************************************)
EntryOf(t, i, k) == [term |-> t, cmd |-> <<i, k>>]

LogOf(es) == [InitialLog EXCEPT !.entries = @ \o es]

Quiet ==
    /\ disk = [i \in Server |-> Image(currentTerm[i], votedFor[i], log[i], << >>)]
    /\ snapshot = [i \in Server |-> [index |-> 0, term |-> 0, bytes |-> << >>]]
    /\ lastApplied = commitIndex
    /\ soliciting = {} /\ voteRequests = {} /\ voteReplies = {}
    /\ appendRequests = {} /\ appendReplies = {}
    /\ installRequests = {} /\ installReplies = {}

(* The boot, for elections and crashes only: all calls are used up. *)
Booted ==
    /\ state = [i \in Server |-> Follower]
    /\ currentTerm = [i \in Server |-> 0]
    /\ votedFor = [i \in Server |-> None]
    /\ voteCount = [i \in Server |-> 0]
    /\ hasReceivedHeartBeat = [i \in Server |-> FALSE]
    /\ log = [i \in Server |-> InitialLog]
    /\ nextIndex = [i \in Server |-> [j \in Server |-> 0]]
    /\ matchIndex = [i \in Server |-> [j \in Server |-> 0]]
    /\ commitIndex = [i \in Server |-> 0]
    /\ machine = [i \in Server |-> << >>]
    /\ ballots = {} /\ elected = {} /\ decided = << >>
    /\ calls = MaxCalls /\ snapshots = 0
    /\ timeouts = MaxTimeouts /\ restarts = 0
    /\ Quiet

(* One peer is the leader of term 1 with everybody's vote.  It makes all   *)
(* calls in time or, with one call less, a call may time out or a peer may *)
(* crash.                                                                  *)
FirstLeader ==
    \E s \in Server :
        /\ state = [i \in Server |-> IF i = s THEN Leader ELSE Follower]
        /\ currentTerm = [i \in Server |-> 1]
        /\ votedFor = [i \in Server |-> s]
        /\ voteCount = [i \in Server |-> IF i = s THEN Quorum ELSE 0]
        /\ hasReceivedHeartBeat = [i \in Server |-> i # s]
        /\ log = [i \in Server |-> InitialLog]
        /\ nextIndex = [i \in Server |-> [j \in Server |-> IF i = s THEN 1 ELSE 0]]
        /\ matchIndex = [i \in Server |-> [j \in Server |-> 0]]
        /\ commitIndex = [i \in Server |-> 0]
        /\ machine = [i \in Server |-> << >>]
        /\ decided = << >>
        /\ ballots = {<<i, 1, s>> : i \in Server}
        /\ elected = {<<1, s>>}
        /\ snapshots = 0
        /\ \/ calls = 0 /\ timeouts = MaxTimeouts /\ restarts = MaxRestarts
           \/ calls = 1 /\ timeouts = 0 /\ restarts = MaxRestarts
           \/ calls = 1 /\ timeouts = MaxTimeouts /\ restarts = 0
        /\ Quiet

(***************************************************************************)
(* Three peers; one of them has won term 3 with everybody's vote, after    *)
(* two candidacies of its own whose calls timed out.  It has accepted two  *)
(* commands and committed them with the second peer; it has not called the *)
(* third yet, nor told the second that they are committed; or it has       *)
(* called the third, which holds them, but its reply came too late.  Part  *)
(* of the bounds is used up: a call, or a snapshot and the timeouts.       *)
(***************************************************************************)
OneBehind ==
    \E s, t, u \in Server : \E called \in BOOLEAN :
        LET both == <<EntryOf(3, s, 1), EntryOf(3, s, 2)>>
            done == IF called THEN {s, u} ELSE {s}
        IN
        /\ Cardinality({s, t, u}) = 3
        /\ state = [i \in Server |-> IF i = s THEN Leader ELSE Follower]
        /\ currentTerm = [i \in Server |-> 3]
        /\ votedFor = [i \in Server |-> s]
        /\ voteCount = [i \in Server |-> IF i = s THEN 2 ELSE 0]
        /\ hasReceivedHeartBeat = [i \in Server |-> i # s]
        /\ log = [i \in Server |-> IF i = u /\ ~called THEN InitialLog ELSE LogOf(both)]
        /\ nextIndex = [i \in Server |->
                           [j \in Server |-> IF i # s THEN 0
                                            ELSE IF j = t THEN 3 ELSE 1]]
        /\ matchIndex = [i \in Server |->
                            [j \in Server |-> IF i = s /\ j = t THEN 2 ELSE 0]]
        /\ commitIndex = [i \in Server |-> IF i \in done THEN 2 ELSE 0]
        /\ machine = [i \in Server |-> IF i \in done THEN both ELSE << >>]
        /\ decided = both
        /\ ballots = {<<s, 1, s>>, <<s, 2, s>>} \cup {<<i, 3, s>> : i \in Server}
        /\ elected = {<<3, s>>}
        /\ \/ ~called /\ calls = 1 /\ timeouts = 0 /\ snapshots = 0
           \/ /\ calls = IF called THEN 1 ELSE 0
              /\ timeouts = MaxTimeouts /\ snapshots = MaxSnapshots - 1
        /\ restarts = 0
        /\ Quiet

(***************************************************************************)
(* Three peers.  All have applied a first command of the leader of term 1, *)
(* which then accepts another and sends it to nobody; a second peer wins   *)
(* term 2 with the third's vote, accepts a command and sends it to nobody; *)
(* the first wins term 3 with the third's vote.  The second, which has     *)
(* refused it, heard of that term.  One of the snapshots the run allows    *)
(* is used up.                                                             *)
(***************************************************************************)
LeaderReturns ==
    \E s, t, u \in Server :
        LET first == EntryOf(1, s, 1) IN
        /\ Cardinality({s, t, u}) = 3
        /\ state = [i \in Server |-> IF i = s THEN Leader ELSE Follower]
        /\ currentTerm = [i \in Server |-> 3]
        /\ votedFor = [i \in Server |-> IF i = t THEN None ELSE s]
        /\ voteCount = [i \in Server |-> IF i = u THEN 0 ELSE 2]
        /\ hasReceivedHeartBeat = [i \in Server |-> i = u]
        /\ log = [i \in Server |->
                     IF i = s THEN LogOf(<<first, EntryOf(1, s, 2)>>)
                     ELSE IF i = t THEN LogOf(<<first, EntryOf(2, t, 2)>>)
                     ELSE LogOf(<<first>>)]
        /\ nextIndex = [i \in Server |->
                           [j \in Server |-> IF i = s THEN 3
                                            ELSE IF i = t THEN 2 ELSE 0]]
        /\ matchIndex = [i \in Server |-> [j \in Server |-> 0]]
        /\ commitIndex = [i \in Server |-> 1]
        /\ machine = [i \in Server |-> <<first>>]
        /\ decided = <<first>>
        /\ ballots = {<<i, 1, s>> : i \in Server} \cup
                        {<<t, 2, t>>, <<u, 2, t>>, <<s, 3, s>>, <<u, 3, s>>}
        /\ elected = {<<1, s>>, <<2, t>>, <<3, s>>}
        /\ calls = 0 /\ snapshots = MaxSnapshots - 1
        /\ timeouts = 0 /\ restarts = 0
        /\ Quiet

Replication == (Booted \/ FirstLeader) /\ [][Next]_vars
Compaction == (OneBehind \/ LeaderReturns) /\ [][Next]_vars

(***************************************************************************)
(* Four peers, and only behaviours in which the messages under way pair    *)
(* each candidate with one peer and all requestVote goroutines are held up *)
(* until term 2: enough for a vote to be counted twice.                    *)
(***************************************************************************)
OnePeerEach ==
    /\ \A r \in voteRequests : r.term = 2
    /\ \A m, n \in {<<r.from, r.to>> : r \in voteRequests}
                  \cup {<<r.to, r.from>> : r \in voteReplies} :
           m[1] = n[1] <=> m[2] = n[2]
==============================================================================
