---------------------------- MODULE RaftProperties ----------------------------
(***************************************************************************)
(* What makes a Raft group correct: elections first, then replication,     *)
(* recovery and snapshots.                                                 *)
(***************************************************************************)
EXTENDS Raft

----------------------------------------------------------------------------
(* Elections and crashes.                                                  *)

(***************************************************************************)
(* A peer votes for one candidate of a term, whatever restarts, repeated   *)
(* requests and crashes between the two Saves of RequestVote do to it.     *)
(***************************************************************************)
VotesOnce ==
    \A b, c \in ballots : b[1] = c[1] /\ b[2] = c[2] => b[3] = c[3]

(***************************************************************************)
(* One leader per term, over all of history: the vote counting of          *)
(* requestVote and the two rules above it.                                 *)
(***************************************************************************)
ElectionSafety ==
    \A e, f \in elected : e[1] = f[1] => e[2] = f[2]

(***************************************************************************)
(* No handler gives up the mutex with a term, a vote, a log or a snapshot  *)
(* a crash would undo: replies speak of what is on the disk.               *)
(***************************************************************************)
DiskInSync ==
    \A i \in Server :
        disk[i] = Image(currentTerm[i], votedFor[i], log[i], snapshot[i].bytes)

----------------------------------------------------------------------------
(* Replication.                                                            *)

(***************************************************************************)
(* A log has a last entry (RequestVote panics without one), the terms in   *)
(* it never decrease and are none the peer has not reached, and the -1 of  *)
(* a missing entry never got into a log.                                   *)
(***************************************************************************)
LogsWellFormed ==
    \A i \in Server :
        /\ LastIndex(log[i]) >= log[i].base
        /\ \A k \in Indices(log[i]) :
               /\ TermAt(log[i], k) \in 0 .. currentTerm[i]
               /\ k > log[i].base =>
                     TermAt(log[i], k) >= TermAt(log[i], k - 1)

Agree(e, f, atBase) == e.term = f.term /\ (atBase \/ e = f)

(***************************************************************************)
(* Two logs with an entry of the same term at an index agree on every      *)
(* index up to it that both hold.  An installed base has lost its command. *)
(***************************************************************************)
LogMatching ==
    \A i, j \in Server :
        log[i] # log[j] =>
            LET both == Indices(log[i]) \cap Indices(log[j]) IN
            \A k \in both :
                TermAt(log[i], k) = TermAt(log[j], k) =>
                    \A n \in {b \in both : b <= k} :
                        Agree(EntryAt(log[i], n), EntryAt(log[j], n),
                              n \in {log[i].base, log[j].base})

(***************************************************************************)
(* Every state machine has been handed a prefix of one sequence, at all    *)
(* times and across restarts: what applyCommits and InstallSnapshot send   *)
(* never disagrees between peers, and an entry once applied anywhere is    *)
(* the entry applied everywhere.                                           *)
(***************************************************************************)
StateMachineSafety == \A i \in Server : IsPrefix(machine[i], decided)

(***************************************************************************)
(* The same as a refinement: step by step, a peer is handed new entries,   *)
(* catches up or restarts, and what was ever applied is never replaced.    *)
(***************************************************************************)
Promise == INSTANCE ReplicatedLog
ImplementsReplicatedLog == Promise!Spec

OnDisk(j, k) ==
    LET l == disk[j].log IN
    IF k <= l.base
    THEN k <= Len(disk[j].bytes) /\ disk[j].bytes[k] = decided[k]
    ELSE EntryAt(l, k) = decided[k]

(***************************************************************************)
(* An applied entry is on the disks of a quorum, in the log or in the      *)
(* snapshot: updateLeaderCommit counts what matchIndex promises, and       *)
(* neither truncation nor a crash takes it back.                           *)
(***************************************************************************)
DecidedOnQuorum ==
    \A k \in 1 .. Len(decided) :
        Cardinality({j \in Server : OnDisk(j, k)}) >= Quorum

(***************************************************************************)
(* The leader of the newest term holds every entry ever applied: the log   *)
(* comparison of RequestVote and the own-term rule of updateLeaderCommit.  *)
(***************************************************************************)
LeaderCompleteness ==
    \A i \in Server :
        state[i] = Leader /\ (\A e \in elected : e[1] <= currentTerm[i])
            => \A k \in 1 .. Len(decided) : OnDisk(i, k)

(***************************************************************************)
(* Beyond the leader's own snapshot its matchIndex is the truth about a    *)
(* follower of its term, though replies are late, calls time out and the   *)
(* index noted after InstallSnapshot is not the one that was sent.         *)
(***************************************************************************)
MatchIndexSound ==
    \A i, j \in Server :
        /\ i # j
        /\ state[i] = Leader
        /\ currentTerm[j] = currentTerm[i]
        => \A k \in snapshot[i].index + 1 .. matchIndex[i][j] :
               \/ k < log[j].base
               \/ Agree(EntryAt(log[i], k), EntryAt(log[j], k), k = log[j].base)

(***************************************************************************)
(* Applied entries stay in the log, or in the snapshot that replaced them: *)
(* no request, however old, truncates below the commit index, and no nil   *)
(* command of a missing entry is ever applied.                             *)
(***************************************************************************)
AppliedStaysInLog ==
    \A i \in Server :
        /\ lastApplied[i] = commitIndex[i]
        /\ Len(machine[i]) = lastApplied[i]
        /\ commitIndex[i] \in Indices(log[i])
        /\ snapshot[i].index = log[i].base
        /\ Len(snapshot[i].bytes) = log[i].base
        /\ IsPrefix(snapshot[i].bytes, machine[i])
        /\ \A k \in log[i].base + 1 .. commitIndex[i] :
               machine[i][k] = EntryAt(log[i], k)

(***************************************************************************)
(* A leader never probes an index outside its own log.  If it did, its     *)
(* -1 would equal the -1 of a follower that misses the entry too, and the  *)
(* prefix check of AppendEntries would pass.                               *)
(***************************************************************************)
ProbesHeldEntry == \A m \in appendRequests : m.prevTerm # -1

(***************************************************************************)
(* Only a restart takes a peer's commit index back; InstallSnapshot sets   *)
(* it, and must not let an old snapshot rewind the state machine.          *)
(***************************************************************************)
CommitAdvances ==
    restarts' = restarts =>
        \A i \in Server : commitIndex'[i] >= commitIndex[i]

CommitOnlyAdvances == [][CommitAdvances]_vars

(***************************************************************************)
(* A rejected probe is never repeated: nextIndex moves below what was      *)
(* asked, whichever of the three rules of updateFollower applies, so the   *)
(* loop reaches the common prefix.                                         *)
(***************************************************************************)
RetryMakesProgress ==
    [][\A m \in appendReplies \ appendReplies' :
          InTime(m.to, m) /\ ~m.success /\ ~NeedsSnapshot(m)
            /\ timeouts' = timeouts /\ restarts' = restarts
            => nextIndex'[m.to][m.from] \in 1 .. m.prevIndex]_vars
==============================================================================
