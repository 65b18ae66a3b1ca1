--------------------------------- MODULE Raft ---------------------------------
(***************************************************************************)
(* One Raft group: src/raft/{raft,candidate,follower,leader,log}.go.       *)
(*                                                                         *)
(* Every handler of a peer runs under its mutex, so an action is what one  *)
(* goroutine does between taking the mutex and giving it up.  A call to    *)
(* another peer is therefore three actions: the caller sends the request   *)
(* and unlocks, the peer handles it, the caller locks again and handles    *)
(* the reply.  Between two of them anything may happen: the caller can     *)
(* time out, lose its role or crash, and the request is handled anyway.    *)
(***************************************************************************)
EXTENDS RaftLog, FiniteSets, SequencesExt

CONSTANTS
    Server,             \* the peers of the group
    Follower, Candidate, Leader,    \* the values of ServerState
    MaxCandidacies,     \* bound: candidacies of all peers together
    MaxIndex,           \* bound: no command is accepted past this index
    MaxCalls,           \* bound: calls of leaders to followers
    MaxSnapshots,       \* bound: snapshots the services take
    MaxTimeouts,        \* bound: calls of a leader that time out
    MaxRestarts         \* bound: crashes of peers

ASSUME RolesAssumption ==
    /\ Follower # Candidate
    /\ Candidate # Leader
    /\ Leader # Follower

ASSUME NoneAssumption == None \notin Server

ASSUME BoundsAssumption ==
    /\ MaxCandidacies \in Nat
    /\ MaxIndex \in Nat
    /\ MaxCalls \in Nat
    /\ MaxSnapshots \in Nat
    /\ MaxTimeouts \in Nat
    /\ MaxRestarts \in Nat

VARIABLES
    state,                  \* the role of each peer
    currentTerm,
    votedFor,               \* None: HasVotedTerm is false
    voteCount,
    hasReceivedHeartBeat
electionVars ==
    <<state, currentTerm, votedFor, voteCount, hasReceivedHeartBeat>>

VARIABLES
    log,
    snapshot,               \* index, term and the commands it stands for
    commitIndex,
    lastApplied,
    machine,                \* the entries handed to applyCh, since the boot
    nextIndex,
    matchIndex
applyVars == <<commitIndex, lastApplied, machine>>
logVars == <<log, snapshot, applyVars>>
leaderVars == <<nextIndex, matchIndex>>

VARIABLE disk               \* what persist() last saved

VARIABLES
    soliciting,             \* requestVote goroutines that have not run yet
    voteRequests, voteReplies,
    appendRequests, appendReplies,
    installRequests, installReplies
voteNet == <<soliciting, voteRequests, voteReplies>>
appendNet == <<appendRequests, appendReplies>>
installNet == <<installRequests, installReplies>>

(***************************************************************************)
(* History: no code reads these.  ballots holds every vote ever cast,      *)
(* elected every peer that became leader of a term, decided the longest    *)
(* sequence of entries any state machine has been handed.                  *)
(***************************************************************************)
VARIABLES ballots, elected, decided
history == <<ballots, elected, decided>>

VARIABLES calls, snapshots, timeouts, restarts      \* what the bounds count
counters == <<calls, snapshots, timeouts, restarts>>

vars == <<electionVars, logVars, leaderVars, disk, voteNet, appendNet,
          installNet, history, counters>>

----------------------------------------------------------------------------

\* Mutant of Others: the loops over the peers do not skip the peer itself.
Everybody(i) == Server

Others(i) == Server \ {i}

(***************************************************************************)
(* len(peers)/2 + 1                                                        *)
(***************************************************************************)
Quorum == Cardinality(Server) \div 2 + 1

(***************************************************************************)
(* What persist() saves of peer i, from the values it holds.  It is called *)
(* before the mutex is released, so it sees the primed variables.  Save    *)
(* writes the state and the snapshot in one transaction.                   *)
(***************************************************************************)
Image(t, v, l, s) == [term |-> t, vote |-> v, log |-> l, bytes |-> s]

Persist(i) ==
    disk' = [disk EXCEPT ![i] = Image(currentTerm'[i], votedFor'[i],
                                      log'[i], snapshot'[i].bytes)]

\* Mutant of PersistIf: saves only when the term has changed.
PersistNewTerm(i, changed) ==
    IF changed /\ currentTerm'[i] # currentTerm[i]
    THEN Persist(i) ELSE UNCHANGED disk

PersistIf(i, changed) == IF changed THEN Persist(i) ELSE UNCHANGED disk

(***************************************************************************)
(* toFollower(t) when t is newer; the handlers of a request run it first.  *)
(* It leaves votedFor to the handler, which may grant a vote right after.  *)
(***************************************************************************)
Newer(i, t) == t > currentTerm[i]

StepDown(i, t) ==
    /\ currentTerm' = [currentTerm EXCEPT ![i] = t]
    /\ state' = [state EXCEPT ![i] = Follower]
    /\ votedFor' = [votedFor EXCEPT ![i] = None]
    /\ hasReceivedHeartBeat' = [hasReceivedHeartBeat EXCEPT ![i] = FALSE]
    /\ UNCHANGED voteCount

(***************************************************************************)
(* applyCommits: hand the entries up to c to the state machine.  An index  *)
(* the log does not hold would hand over the Missing entry.                *)
(***************************************************************************)
Applied(i, l, c) ==
    machine[i] \o [k \in 1 .. c - lastApplied[i] |->
                       EntryAt(l, lastApplied[i] + k)]

ApplyCommits(i, l) ==
    /\ lastApplied' = [lastApplied EXCEPT ![i] = commitIndex'[i]]
    /\ machine' = [machine EXCEPT ![i] = Applied(i, l, commitIndex'[i])]

Decide(i) ==
    decided' = IF Len(machine'[i]) > Len(decided) THEN machine'[i]
                                                  ELSE decided
----------------------------------------------------------------------------
(* Elections: ticker, toCandidate, requestVote, RequestVote, toLeader.     *)

InitialImage == Image(0, None, InitialLog, << >>)

Init ==
    /\ state = [i \in Server |-> Follower]
    /\ currentTerm = [i \in Server |-> 0]
    /\ votedFor = [i \in Server |-> None]
    /\ voteCount = [i \in Server |-> 0]
    /\ hasReceivedHeartBeat = [i \in Server |-> FALSE]
    /\ log = [i \in Server |-> InitialLog]
    /\ snapshot = [i \in Server |-> [index |-> 0, term |-> 0, bytes |-> << >>]]
    /\ commitIndex = [i \in Server |-> 0]
    /\ lastApplied = [i \in Server |-> 0]
    /\ machine = [i \in Server |-> << >>]
    /\ nextIndex = [i \in Server |-> [j \in Server |-> 0]]
    /\ matchIndex = [i \in Server |-> [j \in Server |-> 0]]
    /\ disk = [i \in Server |-> InitialImage]
    /\ soliciting = {} /\ voteRequests = {} /\ voteReplies = {}
    /\ appendRequests = {} /\ appendReplies = {}
    /\ installRequests = {} /\ installReplies = {}
    /\ ballots = {} /\ elected = {} /\ decided = << >>
    /\ calls = 0 /\ snapshots = 0 /\ timeouts = 0 /\ restarts = 0

(***************************************************************************)
(* The election timer fires.  A heartbeat or a granted vote since the last *)
(* time keeps the peer quiet for one more period.                          *)
(***************************************************************************)
StaysQuiet(i) == state[i] = Leader \/ hasReceivedHeartBeat[i]

Candidacies == {b \in ballots : b[1] = b[3]}

ToCandidate(i) ==
    /\ Cardinality(Candidacies) < MaxCandidacies
    /\ state' = [state EXCEPT ![i] = Candidate]
    /\ voteCount' = [voteCount EXCEPT ![i] = 1]
    /\ currentTerm' = [currentTerm EXCEPT ![i] = @ + 1]
    /\ votedFor' = [votedFor EXCEPT ![i] = i]
    /\ soliciting' = soliciting \cup
           {[from |-> i, to |-> j, born |-> currentTerm'[i]] : j \in Others(i)}
    /\ ballots' = ballots \cup {<<i, currentTerm'[i], i>>}

Tick(i) ==
    /\ IF StaysQuiet(i)
       THEN UNCHANGED <<state, currentTerm, votedFor, voteCount, soliciting,
                        ballots>>
       ELSE ToCandidate(i)
    /\ hasReceivedHeartBeat' = [hasReceivedHeartBeat EXCEPT ![i] = FALSE]
    /\ UNCHANGED <<logVars, leaderVars, voteRequests, voteReplies, appendNet,
                   installNet, elected, decided, counters>>
    /\ PersistIf(i, ~StaysQuiet(i))

(***************************************************************************)
(* A requestVote goroutine gets the mutex.  It asks for the term the peer  *)
(* is in now, which need not be the term it was born in.                   *)
(***************************************************************************)
SolicitVote(g) ==
    LET i == g.from IN
    /\ soliciting' = soliciting \ {g}
    /\ voteRequests' = voteRequests \cup
           {[from |-> i, to |-> g.to, born |-> g.born,
             term |-> currentTerm[i],
             lastIndex |-> LastIndex(log[i]), lastTerm |-> LastTerm(log[i]),
             awaited |-> TRUE]}
    /\ UNCHANGED <<electionVars, logVars, leaderVars, disk, voteReplies,
                   appendNet, installNet, history, counters>>

UpToDate(m, l) ==
    \/ m.lastTerm > LastTerm(l)
    \/ m.lastTerm = LastTerm(l) /\ m.lastIndex >= LastIndex(l)

\* Mutant of GrantsVote: forgets that it has voted.
GrantsVoteAgain(i, m) == m.term >= currentTerm[i] /\ UpToDate(m, log[i])

GrantsVote(i, m) ==
    /\ m.term >= currentTerm[i]
    /\ Newer(i, m.term) \/ votedFor[i] \in {None, m.from}
    /\ UpToDate(m, log[i])

HandleRequestVote(m) ==
    LET i == m.to
        grant == GrantsVote(i, m)
    IN
    /\ voteRequests' = voteRequests \ {m}
    /\ IF Newer(i, m.term)
       THEN /\ currentTerm' = [currentTerm EXCEPT ![i] = m.term]
            /\ state' = [state EXCEPT ![i] = Follower]
       ELSE UNCHANGED <<currentTerm, state>>
    /\ votedFor' = [votedFor EXCEPT ![i] =
                        IF grant THEN m.from
                        ELSE IF Newer(i, m.term) THEN None ELSE @]
    /\ hasReceivedHeartBeat' = [hasReceivedHeartBeat EXCEPT ![i] =
                                    grant \/ (@ /\ ~Newer(i, m.term))]
    /\ ballots' = IF grant THEN ballots \cup {<<i, m.term, m.from>>}
                           ELSE ballots
    /\ voteReplies' = IF m.awaited
                      THEN voteReplies \cup
                             {[from |-> i, to |-> m.from, born |-> m.born,
                               asked |-> m.term, term |-> currentTerm'[i],
                               granted |-> grant]}
                      ELSE voteReplies
    /\ UNCHANGED <<voteCount, logVars, leaderVars, soliciting, appendNet,
                   installNet, elected, decided, counters>>
    /\ PersistIf(i, grant \/ Newer(i, m.term))

CountsVote(i, m) ==
    /\ state[i] = Candidate
    /\ m.term = m.asked
    /\ m.term = currentTerm[i]
    /\ m.granted

(***************************************************************************)
(* toLeader: everybody is assumed to hold the whole log, nothing is known  *)
(* to be stored.                                                           *)
(***************************************************************************)
ToLeader(i) ==
    /\ state' = [state EXCEPT ![i] = Leader]
    /\ nextIndex' = [nextIndex EXCEPT ![i] =
                         [j \in Server |-> LastIndex(log[i]) + 1]]
    /\ matchIndex' = [matchIndex EXCEPT ![i] = [j \in Server |-> 0]]
    /\ elected' = elected \cup {<<currentTerm[i], i>>}

HandleVoteReply(m) ==
    LET i == m.to IN
    /\ voteReplies' = voteReplies \ {m}
    /\ IF Newer(i, m.term)
       THEN /\ StepDown(i, m.term)
            /\ UNCHANGED <<leaderVars, elected>>
       ELSE /\ voteCount' = [voteCount EXCEPT ![i] =
                                 IF CountsVote(i, m) THEN @ + 1 ELSE @]
            /\ IF CountsVote(i, m) /\ voteCount[i] + 1 = Quorum
               THEN ToLeader(i)
               ELSE UNCHANGED <<state, leaderVars, elected>>
            /\ UNCHANGED <<currentTerm, votedFor, hasReceivedHeartBeat>>
    /\ UNCHANGED <<logVars, soliciting, voteRequests, appendNet, installNet,
                   ballots, decided, counters>>
    /\ PersistIf(i, Newer(i, m.term))

----------------------------------------------------------------------------
(* Replication: Start, updateFollower, AppendEntries.                      *)

(***************************************************************************)
(* Start: a command is the peer that proposes it (Op.Me) and the index it  *)
(* is promised; a term has one proposer, so no two commands are the same.  *)
(***************************************************************************)
Start(i) ==
    /\ state[i] = Leader
    /\ LastIndex(log[i]) < MaxIndex
    /\ log' = [log EXCEPT ![i] =
                   AppendEntry(@, [term |-> currentTerm[i],
                                   cmd |-> <<i, LastIndex(@) + 1>>])]
    /\ UNCHANGED <<electionVars, snapshot, applyVars, leaderVars,
                   voteNet, appendNet, installNet, history, counters>>
    /\ Persist(i)

(***************************************************************************)
(* updateFollower is one goroutine per peer and term won, so it has at     *)
(* most one call under way.  Its loop head runs again after every reply,   *)
(* every timeout and, by the Broadcast of heartbeat, every 100 ms.         *)
(***************************************************************************)
CallUnderWay(i, j, t) ==
    \/ \E m \in appendRequests \cup installRequests :
           m.awaited /\ m.from = i /\ m.to = j /\ m.term = t
    \/ \E m \in appendReplies \cup installReplies :
           m.to = i /\ m.from = j /\ m.asked = t

(***************************************************************************)
(* getAppendEntriesArgsForFollower                                         *)
(***************************************************************************)
AppendArgs(i, j) ==
    LET prev == nextIndex[i][j] - 1 IN
    [from |-> i, to |-> j, term |-> currentTerm[i],
     prevIndex |-> prev, prevTerm |-> TermAt(log[i], prev),
     entries |-> EntriesFrom(log[i], prev + 1),
     leaderCommit |-> commitIndex[i], awaited |-> TRUE]

InstallArgs(i, j) ==
    [from |-> i, to |-> j, term |-> currentTerm[i],
     snapshot |-> snapshot[i], awaited |-> TRUE]

(***************************************************************************)
(* The entry before nextIndex is compacted away: only a snapshot helps.    *)
(***************************************************************************)
\* Mutant of LacksPrevious: off by one.
LacksNext(i, j) == nextIndex[i][j] < log[i].base

LacksPrevious(i, j) == nextIndex[i][j] - 1 < log[i].base

CountCall ==
    /\ calls < MaxCalls
    /\ calls' = calls + 1
    /\ UNCHANGED <<snapshots, timeouts, restarts>>

Replicate(i, j) ==
    /\ state[i] = Leader
    /\ ~CallUnderWay(i, j, currentTerm[i])
    /\ CountCall
    /\ IF LacksPrevious(i, j)
       THEN /\ installRequests' = installRequests \cup {InstallArgs(i, j)}
            /\ UNCHANGED appendRequests
       ELSE /\ appendRequests' = appendRequests \cup {AppendArgs(i, j)}
            /\ UNCHANGED installRequests
    /\ UNCHANGED <<electionVars, logVars, leaderVars, disk, voteNet,
                   appendReplies, installReplies, history>>

(***************************************************************************)
(* The first lines of AppendEntries and InstallSnapshot: follow a newer    *)
(* term.  A candidate that meets a leader of its own term steps back on    *)
(* AppendEntries only; only AppendEntries counts as a heartbeat.           *)
(***************************************************************************)
Follow(i, m) ==
    /\ currentTerm' = [currentTerm EXCEPT ![i] =
                           IF Newer(i, m.term) THEN m.term ELSE @]
    /\ votedFor' = [votedFor EXCEPT ![i] = IF Newer(i, m.term) THEN None ELSE @]
    /\ UNCHANGED voteCount

(***************************************************************************)
(* The prefix check; two missing entries would agree.                      *)
(***************************************************************************)
\* Mutant of Matches: a log that is too short accepts the entries.
MatchesOrMissing(l, m) == TermAt(l, m.prevIndex) \in {m.prevTerm, -1}

Matches(l, m) == TermAt(l, m.prevIndex) = m.prevTerm

(***************************************************************************)
(* updateLog's rule for the commit index.                                  *)
(***************************************************************************)
FollowerCommit(i, m) ==
    LET last == m.prevIndex + Len(m.entries)
        new  == IF last < m.leaderCommit THEN last ELSE m.leaderCommit
    IN IF new > commitIndex[i] THEN new ELSE commitIndex[i]

AppendReply(i, m, rejected) ==
    LET t == TermAt(log[i], m.prevIndex) IN
    [from |-> i, to |-> m.from, asked |-> m.term, term |-> currentTerm'[i],
     prevIndex |-> m.prevIndex, sent |-> Len(m.entries),
     success |-> m.term = currentTerm'[i] /\ ~rejected,
     conflictTerm  |-> IF rejected THEN t ELSE 0,
     conflictStart |-> IF rejected THEN TermStart(log[i], t) ELSE 0,
     logLength     |-> IF rejected THEN LogLength(log[i]) ELSE 0]

HandleAppendEntries(m) ==
    LET i == m.to
        stale == m.term < currentTerm[i]
        ok == ~stale /\ Matches(log[i], m)
    IN
    /\ appendRequests' = appendRequests \ {m}
    /\ Follow(i, m)
    /\ state' = [state EXCEPT ![i] =
                     IF Newer(i, m.term) \/ (~stale /\ @ = Candidate)
                     THEN Follower ELSE @]
    /\ hasReceivedHeartBeat' = [hasReceivedHeartBeat EXCEPT ![i] = @ \/ ~stale]
    /\ IF ok
       THEN /\ log' = [log EXCEPT ![i] =
                           AppendEntries(@, m.prevIndex + 1, m.entries)]
            /\ commitIndex' = [commitIndex EXCEPT ![i] = FollowerCommit(i, m)]
            /\ ApplyCommits(i, log'[i])
            /\ Decide(i)
       ELSE UNCHANGED <<log, applyVars, decided>>
    /\ appendReplies' = IF m.awaited
                        THEN appendReplies \cup {AppendReply(i, m, ~stale /\ ~ok)}
                        ELSE appendReplies
    /\ UNCHANGED <<snapshot, leaderVars, voteNet, installNet, ballots, elected,
                   counters>>
    /\ PersistIf(i, Newer(i, m.term) \/ (ok /\ Len(m.entries) > 0))

(***************************************************************************)
(* updateLeaderCommit: the last entry of the current term that a quorum    *)
(* holds, as far as matchIndex knows; the leader counts itself.            *)
(***************************************************************************)
\* Mutant of StoredOnQuorum: half of the peers will do.
StoredOnHalf(i, match, c) ==
    Cardinality({j \in Server : j = i \/ match[j] >= c})
        >= Cardinality(Server) \div 2

StoredOnQuorum(i, match, c) ==
    Cardinality({j \in Server : j = i \/ match[j] >= c}) >= Quorum

\* Mutant of CommitTargets: entries of earlier terms are counted too.
CommitTargetsOfAnyTerm(i, match) ==
    {c \in commitIndex[i] + 1 .. LastIndex(log[i]) : StoredOnQuorum(i, match, c)}

CommitTargets(i, match) ==
    {c \in commitIndex[i] + 1 .. LastIndex(log[i]) :
        TermAt(log[i], c) = currentTerm[i] /\ StoredOnQuorum(i, match, c)}

UpdateLeaderCommit(i) ==
    LET targets == CommitTargets(i, matchIndex'[i]) IN
    /\ \/ targets = {} /\ commitIndex' = commitIndex
       \/ \E c \in targets : /\ \A d \in targets : d <= c
                            /\ commitIndex' = [commitIndex EXCEPT ![i] = c]
    /\ ApplyCommits(i, log[i])
    /\ Decide(i)

(***************************************************************************)
(* A reply is of use only to the leadership that made the call.            *)
(***************************************************************************)
InTime(i, m) ==
    /\ ~Newer(i, m.term)
    /\ state[i] = Leader
    /\ m.asked = currentTerm[i]

LateReply(i, m) ==
    /\ ~Newer(i, m.term)
    /\ state[i] # Leader \/ m.asked # currentTerm[i]
    /\ UNCHANGED <<electionVars, applyVars, leaderVars, disk, decided>>

NewerReply(i, m) ==
    /\ Newer(i, m.term)
    /\ StepDown(i, m.term)
    /\ UNCHANGED <<log, snapshot, applyVars, leaderVars, decided>>
    /\ Persist(i)

\* Mutant of Acknowledged: what the leader holds now, not what it sent.
AcknowledgedAll(i, m) == LastIndex(log[i])

Acknowledged(i, m) == m.prevIndex + m.sent

AppendSucceeded(i, m) ==
    LET match == Acknowledged(i, m) IN
    /\ InTime(i, m)
    /\ m.success
    /\ nextIndex' = [nextIndex EXCEPT ![i][m.from] = match + 1]
    /\ matchIndex' = [matchIndex EXCEPT ![i][m.from] = match]
    /\ UpdateLeaderCommit(i)
    /\ UNCHANGED <<electionVars, disk>>

(***************************************************************************)
(* A rejected probe: a follower whose log is too short is asked from its   *)
(* end; otherwise the conflicting term is skipped as a whole.              *)
(***************************************************************************)
\* Mutant of Backtracked: a log that ends at the probe counts as too short.
BacktrackedByLength(i, m) ==
    IF m.logLength - 1 <= m.prevIndex THEN m.logLength
    ELSE IF TermStart(log[i], m.conflictTerm) # -1
         THEN TermEnd(log[i], m.conflictTerm) + 1
         ELSE m.conflictStart

Backtracked(i, m) ==
    IF m.logLength - 1 < m.prevIndex THEN m.logLength
    ELSE IF TermStart(log[i], m.conflictTerm) # -1
         THEN TermEnd(log[i], m.conflictTerm) + 1
         ELSE m.conflictStart

NeedsSnapshot(m) ==
    /\ m.logLength - 1 >= m.prevIndex
    /\ m.conflictTerm = -1

AppendRejected(i, m) ==
    /\ InTime(i, m)
    /\ ~m.success
    /\ ~NeedsSnapshot(m)
    /\ nextIndex' = [nextIndex EXCEPT ![i][m.from] = Backtracked(i, m)]
    /\ UNCHANGED <<electionVars, applyVars, matchIndex, disk, decided>>

HandleAppendReply(m) ==
    LET i == m.to IN
    /\ appendReplies' = appendReplies \ {m}
    /\ UNCHANGED <<log, snapshot, voteNet, appendRequests, installNet, ballots,
                   elected, counters>>
    /\ \/ NewerReply(i, m)
       \/ LateReply(i, m)
       \/ AppendSucceeded(i, m)
       \/ AppendRejected(i, m)

(***************************************************************************)
(* The follower's log starts past the probe: the leader calls              *)
(* leaderInstallL before it unlocks.                                       *)
(***************************************************************************)
AnswerWithSnapshot(m) ==
    LET i == m.to IN
    /\ InTime(i, m)
    /\ ~m.success
    /\ NeedsSnapshot(m)
    /\ appendReplies' = appendReplies \ {m}
    /\ installRequests' = installRequests \cup {InstallArgs(i, m.from)}
    /\ CountCall
    /\ UNCHANGED <<electionVars, logVars, leaderVars, disk, voteNet,
                   appendRequests, installReplies, history>>

----------------------------------------------------------------------------
(* Snapshots: Snapshot, leaderInstallL, InstallSnapshot.                   *)

(***************************************************************************)
(* Snapshot: the service compacts what it has applied, up to an index its  *)
(* state machine has reached and its log still holds.                      *)
(***************************************************************************)
\* Mutant of SnapshotAt: the state has moved on past the index.
SnapshotPast(i, k) ==
    [index |-> k, term |-> TermAt(log[i], k), bytes |-> machine[i]]

SnapshotAt(i, k) ==
    [index |-> k, term |-> TermAt(log[i], k),
     bytes |-> SubSeq(machine[i], 1, k)]

TakeSnapshot(i, k) ==
    /\ snapshots < MaxSnapshots
    /\ k \in log[i].base + 1 .. lastApplied[i]
    /\ snapshot' = [snapshot EXCEPT ![i] = SnapshotAt(i, k)]
    /\ log' = [log EXCEPT ![i] = Rebase(@, k)]
    /\ snapshots' = snapshots + 1
    /\ UNCHANGED <<electionVars, applyVars, leaderVars, voteNet,
                   appendNet, installNet, history, calls, timeouts, restarts>>
    /\ Persist(i)

(***************************************************************************)
(* A snapshot older than the log's base or than the commit index is        *)
(* ignored, and the reply does not tell.                                   *)
(***************************************************************************)
\* Mutant of Installs: overlooks the commit index.
InstallsOlder(i, m) ==
    m.term >= currentTerm[i] /\ m.snapshot.index >= log[i].base

Installs(i, m) ==
    /\ m.term >= currentTerm[i]
    /\ m.snapshot.index >= log[i].base
    /\ m.snapshot.index >= commitIndex[i]

HandleInstallSnapshot(m) ==
    LET i == m.to
        s == m.snapshot
    IN
    /\ installRequests' = installRequests \ {m}
    /\ Follow(i, m)
    /\ state' = [state EXCEPT ![i] = IF Newer(i, m.term) THEN Follower ELSE @]
    /\ hasReceivedHeartBeat' = [hasReceivedHeartBeat EXCEPT ![i] =
                                    @ /\ ~Newer(i, m.term)]
    /\ IF Installs(i, m)
       THEN /\ snapshot' = [snapshot EXCEPT ![i] = s]
            /\ log' = [log EXCEPT ![i] = Installed(@, s.index, s.term)]
            /\ commitIndex' = [commitIndex EXCEPT ![i] = s.index]
            /\ lastApplied' = [lastApplied EXCEPT ![i] = s.index]
            /\ machine' = [machine EXCEPT ![i] = s.bytes]
            /\ Decide(i)
       ELSE UNCHANGED <<snapshot, log, applyVars, decided>>
    /\ installReplies' =
           IF m.awaited
           THEN installReplies \cup {[from |-> i, to |-> m.from,
                                      asked |-> m.term,
                                      term |-> currentTerm'[i]]}
           ELSE installReplies
    /\ UNCHANGED <<leaderVars, voteNet, appendNet, ballots, elected, counters>>
    /\ PersistIf(i, Newer(i, m.term) \/ Installs(i, m))

(***************************************************************************)
(* The leader reads its snapshot again after the call: the index it notes  *)
(* is that of its newest snapshot, not of the one it sent.                 *)
(***************************************************************************)
InstallAnswered(i, m) ==
    /\ InTime(i, m)
    /\ nextIndex' = [nextIndex EXCEPT ![i][m.from] = snapshot[i].index + 1]
    /\ matchIndex' = [matchIndex EXCEPT ![i][m.from] = snapshot[i].index]
    /\ UpdateLeaderCommit(i)
    /\ UNCHANGED <<electionVars, disk>>

HandleInstallReply(m) ==
    LET i == m.to IN
    /\ installReplies' = installReplies \ {m}
    /\ UNCHANGED <<log, snapshot, voteNet, appendNet, installRequests, ballots,
                   elected, counters>>
    /\ \/ NewerReply(i, m)
       \/ LateReply(i, m)
       \/ InstallAnswered(i, m)

----------------------------------------------------------------------------
(* Timeouts and crashes.                                                   *)

(***************************************************************************)
(* ABORT_TIMEOUT_MILISECONDS passes: the goroutine goes back to its loop   *)
(* head, the reply is lost, and a request not handled so far still may be. *)
(* For a goroutine that has lost its leadership, and for requestVote, to   *)
(* time out is to never handle the reply, which needs no action.           *)
(***************************************************************************)
GivenUp(requests, m) == (requests \ {m}) \cup {[m EXCEPT !.awaited = FALSE]}

TimesOut(caller, t) ==
    /\ timeouts < MaxTimeouts
    /\ state[caller] = Leader
    /\ t = currentTerm[caller]
    /\ timeouts' = timeouts + 1
    /\ UNCHANGED <<electionVars, logVars, leaderVars, disk, voteNet, history,
                   calls, snapshots, restarts>>

AppendTimeout(m) ==
    /\ m.awaited
    /\ TimesOut(m.from, m.term)
    /\ appendRequests' = GivenUp(appendRequests, m)
    /\ UNCHANGED <<appendReplies, installNet>>

AppendReplyTooLate(m) ==
    /\ TimesOut(m.to, m.asked)
    /\ appendReplies' = appendReplies \ {m}
    /\ UNCHANGED <<appendRequests, installNet>>

InstallTimeout(m) ==
    /\ m.awaited
    /\ TimesOut(m.from, m.term)
    /\ installRequests' = GivenUp(installRequests, m)
    /\ UNCHANGED <<installReplies, appendNet>>

InstallReplyTooLate(m) ==
    /\ TimesOut(m.to, m.asked)
    /\ installReplies' = installReplies \ {m}
    /\ UNCHANGED <<installRequests, appendNet>>

(***************************************************************************)
(* Make on what the disk holds.  The goroutines of the last life are gone: *)
(* nobody awaits their calls, but the calls they made are still under way. *)
(***************************************************************************)
Orphaned(requests, i) ==
    {IF m.from = i THEN [m EXCEPT !.awaited = FALSE] ELSE m : m \in requests}

Unanswered(replies, i) == {m \in replies : m.to # i}

Boot(i, image) ==
    /\ restarts < MaxRestarts
    /\ restarts' = restarts + 1
    /\ state' = [state EXCEPT ![i] = Follower]
    /\ currentTerm' = [currentTerm EXCEPT ![i] = image.term]
    /\ votedFor' = [votedFor EXCEPT ![i] = image.vote]
    /\ voteCount' = [voteCount EXCEPT ![i] = 0]
    /\ hasReceivedHeartBeat' = [hasReceivedHeartBeat EXCEPT ![i] = FALSE]
    /\ log' = [log EXCEPT ![i] = image.log]
    /\ snapshot' = [snapshot EXCEPT ![i] =
                        [index |-> image.log.base,
                         term |-> TermAt(image.log, image.log.base),
                         bytes |-> image.bytes]]
    /\ commitIndex' = [commitIndex EXCEPT ![i] = image.log.base]
    /\ lastApplied' = [lastApplied EXCEPT ![i] = image.log.base]
    /\ machine' = [machine EXCEPT ![i] = image.bytes]
    /\ nextIndex' = [nextIndex EXCEPT ![i] = [j \in Server |-> 0]]
    /\ matchIndex' = [matchIndex EXCEPT ![i] = [j \in Server |-> 0]]
    /\ disk' = [disk EXCEPT ![i] = image]
    /\ soliciting' = {g \in soliciting : g.from # i}
    /\ voteReplies' = Unanswered(voteReplies, i)
    /\ appendReplies' = Unanswered(appendReplies, i)
    /\ installReplies' = Unanswered(installReplies, i)
    /\ UNCHANGED <<history, calls, snapshots, timeouts>>

\* Mutant of Restart: the vote of the current term is not read back.
RestartForgetting(i) ==
    /\ Boot(i, [disk[i] EXCEPT !.vote = None])
    /\ voteRequests' = Orphaned(voteRequests, i)
    /\ appendRequests' = Orphaned(appendRequests, i)
    /\ installRequests' = Orphaned(installRequests, i)

Restart(i) ==
    /\ Boot(i, disk[i])
    /\ voteRequests' = Orphaned(voteRequests, i)
    /\ appendRequests' = Orphaned(appendRequests, i)
    /\ installRequests' = Orphaned(installRequests, i)

(***************************************************************************)
(* A handler persists the newer term in toFollower, and what it does with  *)
(* the request in a second Save; the peer may crash between the two.       *)
(***************************************************************************)
CrashInHandler(m) ==
    LET i == m.to IN
    /\ Newer(i, m.term)
    /\ Boot(i, [disk[i] EXCEPT !.term = m.term, !.vote = None])
    /\ voteRequests' = Orphaned(voteRequests \ {m}, i)
    /\ appendRequests' = Orphaned(appendRequests \ {m}, i)
    /\ installRequests' = Orphaned(installRequests \ {m}, i)

----------------------------------------------------------------------------

Next ==
    \/ \E i \in Server : Tick(i)
    \/ \E g \in soliciting : SolicitVote(g)
    \/ \E m \in voteRequests : HandleRequestVote(m)
    \/ \E m \in voteReplies : HandleVoteReply(m)
    \/ \E i \in Server : Start(i)
    \/ \E i \in Server : \E j \in Others(i) : Replicate(i, j)
    \/ \E m \in appendRequests : HandleAppendEntries(m)
    \/ \E m \in appendReplies : HandleAppendReply(m)
    \/ \E m \in appendReplies : AnswerWithSnapshot(m)
    \/ \E i \in Server : \E k \in Indices(log[i]) : TakeSnapshot(i, k)
    \/ \E m \in installRequests : HandleInstallSnapshot(m)
    \/ \E m \in installReplies : HandleInstallReply(m)
    \/ \E m \in appendRequests : AppendTimeout(m)
    \/ \E m \in appendReplies : AppendReplyTooLate(m)
    \/ \E m \in installRequests : InstallTimeout(m)
    \/ \E m \in installReplies : InstallReplyTooLate(m)
    \/ \E i \in Server : Restart(i)
    \/ \E m \in voteRequests \cup appendRequests \cup installRequests :
           CrashInHandler(m)

Spec == Init /\ [][Next]_vars

----------------------------------------------------------------------------
(* Types.                                                                  *)

Role == {Follower, Candidate, Leader}
Vote == Server \cup {None}
Command == (Server \X Int) \cup {None}
Entry == [term : Int, cmd : Command]
LogType == [base : Nat, entries : Seq(Entry)]
Commands == Seq(Entry)
SnapshotType == [index : Nat, term : Int, bytes : Commands]
ImageType == [term : Nat, vote : Vote, log : LogType, bytes : Commands]

Solicitation == [from : Server, to : Server, born : Nat]
VoteRequest == [from : Server, to : Server, born : Nat, term : Nat,
                lastIndex : Int, lastTerm : Int, awaited : BOOLEAN]
VoteReply == [from : Server, to : Server, born : Nat, asked : Nat, term : Nat,
              granted : BOOLEAN]
AppendRequest == [from : Server, to : Server, term : Nat, prevIndex : Int,
                  prevTerm : Int, entries : Seq(Entry), leaderCommit : Int,
                  awaited : BOOLEAN]
AppendReplyType == [from : Server, to : Server, asked : Nat, term : Nat,
                    prevIndex : Int, sent : Nat, success : BOOLEAN,
                    conflictTerm : Int, conflictStart : Int, logLength : Int]
InstallRequest == [from : Server, to : Server, term : Nat,
                   snapshot : SnapshotType, awaited : BOOLEAN]
InstallReply == [from : Server, to : Server, asked : Nat, term : Nat]

TypeOfElections ==
    /\ state \in [Server -> Role]
    /\ currentTerm \in [Server -> Nat]
    /\ votedFor \in [Server -> Vote]
    /\ voteCount \in [Server -> Nat]
    /\ hasReceivedHeartBeat \in [Server -> BOOLEAN]

TypeOfLogs ==
    /\ log \in [Server -> LogType]
    /\ snapshot \in [Server -> SnapshotType]
    /\ commitIndex \in [Server -> Int]
    /\ lastApplied \in [Server -> Int]
    /\ machine \in [Server -> Commands]
    /\ nextIndex \in [Server -> [Server -> Int]]
    /\ matchIndex \in [Server -> [Server -> Int]]
    /\ disk \in [Server -> ImageType]

TypeOfNet ==
    /\ soliciting \subseteq Solicitation
    /\ voteRequests \subseteq VoteRequest
    /\ voteReplies \subseteq VoteReply
    /\ appendRequests \subseteq AppendRequest
    /\ appendReplies \subseteq AppendReplyType
    /\ installRequests \subseteq InstallRequest
    /\ installReplies \subseteq InstallReply

TypeOfHistory ==
    /\ ballots \subseteq Server \X Nat \X Server
    /\ elected \subseteq Nat \X Server
    /\ decided \in Commands
    /\ calls \in Nat
    /\ snapshots \in Nat
    /\ timeouts \in Nat
    /\ restarts \in Nat

(***************************************************************************)
(* Nobody asks itself for a vote or for its log.                           *)
(***************************************************************************)
NoCallToSelf ==
    /\ \A m \in soliciting : m.from # m.to
    /\ \A m \in voteRequests : m.from # m.to
    /\ \A m \in voteReplies : m.from # m.to
    /\ \A m \in appendRequests : m.from # m.to
    /\ \A m \in appendReplies : m.from # m.to
    /\ \A m \in installRequests : m.from # m.to
    /\ \A m \in installReplies : m.from # m.to

(***************************************************************************)
(* Every variable holds values of the kind the code declares, and every    *)
(* message travels between two different peers.                            *)
(***************************************************************************)
TypeOK ==
    /\ TypeOfElections
    /\ TypeOfLogs
    /\ TypeOfNet
    /\ TypeOfHistory
    /\ NoCallToSelf
==============================================================================
