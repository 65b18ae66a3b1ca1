------------------------------ MODULE RaftProofs ------------------------------
(***************************************************************************)
(* Proofs about Raft, for every number of peers and every bound unless a   *)
(* theorem says otherwise, in four parts: types; elections and what        *)
(* survives a crash; logs, which stay well formed and match; and whole     *)
(* logs, put together with their snapshots.                                *)
(***************************************************************************)
EXTENDS RaftProperties, SequenceTheorems, FiniteSetTheorems,
        WellFoundedInduction, TLAPS

----------------------------------------------------------------------------
(* Part one: types.                                                        *)

----------------------------------------------------------------------------
(* The log.                                                                *)

(***************************************************************************)
(* The indices of a log are integers, and an index it holds has an entry.  *)
(***************************************************************************)
LEMMA LogIndices ==
    ASSUME NEW l \in LogType
    PROVE  /\ Len(l.entries) \in Nat
           /\ l.base \in Nat
           /\ LastIndex(l) \in Int
           /\ LogLength(l) \in Int
           /\ l.entries \in Seq(Entry)
BY LenProperties DEF LogType, LastIndex, LogLength

LEMMA EntryAtType ==
    ASSUME NEW l \in LogType, NEW k \in Int
    PROVE  /\ EntryAt(l, k) \in Entry
           /\ TermAt(l, k) \in Int
<1>1. Missing \in Entry
  BY DEF Missing, Entry, Command
<1>2. CASE k \in Indices(l)
  <2>1. k - l.base + 1 \in 1 .. Len(l.entries)
    BY <1>2, LogIndices DEF Indices, LastIndex
  <2>2. EntryAt(l, k) \in Entry
    BY <1>2, <2>1, LogIndices, ElementOfSeq DEF EntryAt
  <2> QED
    BY <2>2 DEF TermAt, Entry
<1>3. CASE k \notin Indices(l)
  BY <1>1, <1>3 DEF EntryAt, TermAt, Entry
<1> QED
  BY <1>2, <1>3

LEMMA EntriesFromType ==
    ASSUME NEW l \in LogType, NEW k \in Int, k >= l.base
    PROVE  EntriesFrom(l, k) \in Seq(Entry)
<1>1. \A n \in k - l.base + 1 .. Len(l.entries) : l.entries[n] \in Entry
  BY LogIndices, ElementOfSeq
<1> QED
  BY <1>1, LogIndices, SubSeqProperties DEF EntriesFrom

LEMMA TruncateType ==
    ASSUME NEW l \in LogType, NEW k \in Int, k <= LastIndex(l)
    PROVE  Truncate(l, k) \in LogType
<1>1. k - l.base \in Int /\ k - l.base <= Len(l.entries)
  BY LogIndices DEF LastIndex
<1>2. \A n \in 1 .. k - l.base : l.entries[n] \in Entry
  BY <1>1, LogIndices, ElementOfSeq
<1>3. SubSeq(l.entries, 1, k - l.base) \in Seq(Entry)
  BY <1>1, <1>2, SubSeqProperties
<1> QED
  BY <1>3 DEF Truncate, LogType

LEMMA AppendEntryType ==
    ASSUME NEW l \in LogType, NEW e \in Entry
    PROVE  AppendEntry(l, e) \in LogType
BY AppendProperties, LogIndices DEF AppendEntry, LogType

LEMMA RebaseType ==
    ASSUME NEW l \in LogType, NEW k \in Nat, k >= l.base
    PROVE  Rebase(l, k) \in LogType
BY EntriesFromType, EmptySeq DEF Rebase, LogType

(***************************************************************************)
(* A set of integers with a lower bound has a least element, one with an   *)
(* upper bound a greatest one: what the loops of termStart, termEnd and    *)
(* appendEntries stop at.                                                  *)
(***************************************************************************)
LEMMA LeastElement ==
    ASSUME NEW S, S \subseteq Int, S # {},
           \E b \in Int : \A x \in S : b <= x
    PROVE  \E m \in S : \A n \in S : m <= n
<1> PICK a \in Int : \A x \in S : a <= x
  OBVIOUS
<1> DEFINE T == {k \in Nat : k + a \in S}
           Less == {ss \in Nat \X Nat : ss[1] < ss[2]}
<1>1. \A n \in S : n - a \in Nat /\ (n - a) + a = n
  OBVIOUS
<1>2. \A n \in S : n - a \in T
  BY <1>1
<1>3. T \subseteq Nat /\ T # {}
  BY <1>2
<1>4. IsWellFoundedOn(Less, Nat)
  BY NatLessThanWellFounded DEF OpToRel
<1>5. PICK y \in T : \A z \in T : <<z, y>> \notin Less
  <2> HIDE DEF T, Less
  <2> QED
    BY <1>3, <1>4, WFMin
<1>6. \A z \in T : y <= z
  <2> TAKE z \in T
  <2>1. y \in Nat /\ z \in Nat
    BY <1>3
  <2>2. ~(z < y)
    BY <1>5, <2>1
  <2> QED
    BY <2>1, <2>2
<1>7. \A n \in S : y + a <= n
  <2> TAKE n \in S
  <2>1. n - a \in T /\ n \in Int /\ y \in Nat
    BY <1>2, <1>3
  <2>2. y <= n - a
    BY <1>6, <2>1
  <2> QED
    BY <2>1, <2>2
<1> QED
  BY <1>7

LEMMA GreatestElement ==
    ASSUME NEW S, S \subseteq Int, S # {},
           \E a \in Int : \A x \in S : x <= a
    PROVE  \E m \in S : \A n \in S : n <= m
<1> PICK b \in Int : \A x \in S : x <= b
  OBVIOUS
<1> DEFINE T == {k \in Int : b - k \in S}
<1>1. \A n \in S : b - n \in T
  <2> TAKE n \in S
  <2>1. n \in Int /\ b - n \in Int /\ b - (b - n) = n
    OBVIOUS
  <2> QED
    BY <2>1
<1>2. T \subseteq Int /\ T # {}
  BY <1>1
<1>3. \E c \in Int : \A z \in T : c <= z
  <2> SUFFICES \A z \in T : 0 <= z
    OBVIOUS
  <2> TAKE z \in T
  <2>1. z \in Int /\ b - z \in S
    OBVIOUS
  <2>2. b - z <= b
    BY <2>1
  <2> QED
    BY <2>1, <2>2
<1>4. PICK y \in T : \A z \in T : y <= z
  <2> HIDE DEF T
  <2> QED
    BY <1>2, <1>3, LeastElement
<1>5. \A n \in S : n <= b - y
  <2> TAKE n \in S
  <2>1. b - n \in T /\ n \in Int /\ y \in Int
    BY <1>1, <1>2
  <2>2. y <= b - n
    BY <1>4, <2>1
  <2> QED
    BY <2>1, <2>2
<1> QED
  BY <1>5

LEMMA TermBoundsType ==
    ASSUME NEW l \in LogType, NEW t \in Int
    PROVE  TermStart(l, t) \in Int /\ TermEnd(l, t) \in Int
<1> DEFINE S == IndicesOfTerm(l, t)
<1>1. /\ S \subseteq Int
      /\ \E b \in Int : \A x \in S : b <= x
      /\ \E a \in Int : \A x \in S : x <= a
  <2>1. S \subseteq Int /\ \A x \in S : l.base <= x /\ x <= LastIndex(l)
    BY LogIndices DEF IndicesOfTerm, Indices
  <2> QED
    BY <2>1, LogIndices
<1>2. CASE S = {}
  BY <1>2 DEF TermStart, TermEnd
<1>3. CASE S # {}
  <2> HIDE DEF S
  <2>1. \E k \in S : \A n \in S : k <= n
    BY <1>1, <1>3, LeastElement
  <2>2. \E k \in S : \A n \in S : n <= k
    BY <1>1, <1>3, GreatestElement
  <2> USE DEF S
  <2>3. TermStart(l, t) \in S
    BY <1>3, <2>1 DEF TermStart
  <2>4. TermEnd(l, t) \in S
    BY <1>3, <2>2 DEF TermEnd
  <2> QED
    BY <1>1, <2>3, <2>4
<1> QED
  BY <1>2, <1>3

(***************************************************************************)
(* appendEntries: the position it finds lies within the received entries.  *)
(***************************************************************************)
LEMMA FirstDivergingType ==
    ASSUME NEW l, NEW start, NEW es \in Seq(Entry),
           Diverging(l, start, es) # {}
    PROVE  FirstDiverging(l, start, es) \in 0 .. Len(es) - 1
<1> DEFINE S == Diverging(l, start, es)
<1> S # {}
  OBVIOUS
<1>1. S \subseteq 0 .. Len(es) - 1
  BY DEF Diverging
<1>2. \E n \in S : \A m \in S : n <= m
  <2>1. S \subseteq Int /\ \E b \in Int : \A n \in S : b <= n
    BY <1>1, LenProperties
  <2> HIDE DEF S
  <2> QED
    BY <2>1, LeastElement
<1>3. FirstDiverging(l, start, es) \in S
  BY <1>2 DEF FirstDiverging
<1> QED
  BY <1>1, <1>3

LEMMA AppendEntriesType ==
    ASSUME NEW l \in LogType, NEW start \in Int, NEW es \in Seq(Entry)
    PROVE  AppendEntries(l, start, es) \in LogType
<1>1. CASE Diverging(l, start, es) = {}
  BY <1>1 DEF AppendEntries
<1>2. CASE Diverging(l, start, es) # {}
  <2> DEFINE n == FirstDiverging(l, start, es)
  <2>1. n \in 0 .. Len(es) - 1
    BY <1>2, FirstDivergingType
  <2> HIDE DEF n
  <2>2. n \in Int
    BY <2>1
  <2>3. KeptBefore(l, start + n) \in LogType
    BY <2>2, LogIndices, TruncateType DEF KeptBefore
  <2>4. SubSeq(es, n + 1, Len(es)) \in Seq(Entry)
    <3>1. \A k \in n + 1 .. Len(es) : es[k] \in Entry
      BY <2>1, LenProperties, ElementOfSeq
    <3> QED
      BY <2>1, <3>1, LenProperties, SubSeqProperties
  <2>5. KeptBefore(l, start + n).entries \o SubSeq(es, n + 1, Len(es))
            \in Seq(Entry)
    BY <2>3, <2>4, ConcatProperties DEF LogType
  <2> QED
    BY <1>2, <2>5, LogIndices DEF AppendEntries, LogType, n
<1> QED
  BY <1>1, <1>2

LEMMA InstalledType ==
    ASSUME NEW l \in LogType, NEW k \in Nat, NEW t \in Int, k >= l.base
    PROVE  Installed(l, k, t) \in LogType
<1> DEFINE es == Rebase(l, k).entries
           base == [term |-> t, cmd |-> None]
           rest == IF TermAt(l, k) = t
                   THEN SubSeq(es, 2, LastIndex(l) - k + 1) ELSE << >>
<1>1. es \in Seq(Entry)
  BY RebaseType DEF LogType
<1>2. k <= LastIndex(l) => Len(es) = LastIndex(l) - k + 1
  <2>1. \A n \in k - l.base + 1 .. Len(l.entries) : l.entries[n] \in Entry
    BY LogIndices, ElementOfSeq
  <2> QED
    <3> DEFINE a == k - l.base + 1
               z == Len(l.entries)
    <3> SUFFICES ASSUME k <= LastIndex(l) PROVE Len(es) = LastIndex(l) - k + 1
      OBVIOUS
    <3>1. l.base \in Nat /\ z \in Nat /\ LastIndex(l) = l.base + z - 1
      BY LogIndices DEF LastIndex
    <3>2. ~(k > LastIndex(l))
      BY <3>1
    <3>3. es = SubSeq(l.entries, a, z)
      BY <3>2, Zenon DEF Rebase, EntriesFrom
    <3>4. a \in Int /\ a <= z /\ z - a + 1 = LastIndex(l) - k + 1
      BY <3>1
    <3>5. \A n \in a .. z : l.entries[n] \in Entry
      BY <2>1
    <3> HIDE DEF a, z, es
    <3>6. Len(SubSeq(l.entries, a, z)) = z - a + 1
      BY <3>1, <3>4, <3>5, SubSeqProperties
    <3> QED
      BY <3>3, <3>4, <3>6
<1>3. k > LastIndex(l) => Len(es) = 0
  BY EmptySeq DEF Rebase
<1>4. \A n \in 2 .. LastIndex(l) - k + 1 : es[n] \in Entry
  BY <1>1, <1>2, <1>3, LogIndices, ElementOfSeq
<1>5. rest \in Seq(Entry)
  BY <1>4, LogIndices, SubSeqProperties, EmptySeq
<1>6. <<base>> \in Seq(Entry)
  BY DEF Entry, Command
<1>7. <<base>> \o rest \in Seq(Entry)
  BY <1>5, <1>6, ConcatProperties
<1> QED
  BY <1>7 DEF Installed, LogType

----------------------------------------------------------------------------
(* Types.                                                                  *)

(***************************************************************************)
(* What TypeOK needs to be inductive: Snapshot cuts a state machine at an  *)
(* index it has reached, because what a peer has applied, what its         *)
(* snapshots stand for and where its log begins are counted alike.         *)
(***************************************************************************)
Positions ==
    /\ \A i \in Server :
           /\ lastApplied[i] = commitIndex[i]
           /\ Len(machine[i]) = commitIndex[i]
           /\ snapshot[i].index = log[i].base
           /\ Len(snapshot[i].bytes) = log[i].base
           /\ Len(disk[i].bytes) = disk[i].log.base
    /\ \A m \in installRequests : Len(m.snapshot.bytes) = m.snapshot.index

TypeInv == TypeOK /\ Positions

LEMMA AppliedType ==
    ASSUME NEW i, machine[i] \in Commands, lastApplied[i] \in Int,
           NEW l \in LogType, NEW c \in Int, c >= lastApplied[i]
    PROVE  /\ Applied(i, l, c) \in Commands
           /\ Len(Applied(i, l, c)) = Len(machine[i]) + (c - lastApplied[i])
<1> DEFINE n == c - lastApplied[i]
           es == [k \in 1 .. n |-> EntryAt(l, lastApplied[i] + k)]
<1>1. n \in Nat
  OBVIOUS
<1>2. \A k \in 1 .. n : EntryAt(l, lastApplied[i] + k) \in Entry
  BY <1>1, EntryAtType
<1>3. es \in [1 .. n -> Entry]
  BY <1>2
<1>4. es \in Seq(Entry) /\ DOMAIN es = 1 .. n
  <2>1. DOMAIN es = 1 .. n
    OBVIOUS
  <2> HIDE DEF es, n
  <2> QED
    BY <1>1, <1>3, <2>1, SeqDef
<1>5. Len(es) = n
  <2> HIDE DEF es, n
  <2>1. Len(es) \in Nat /\ 1 .. Len(es) = 1 .. n
    BY <1>4, LenProperties
  <2> QED
    BY <1>1, <2>1
<1>6. Applied(i, l, c) = machine[i] \o es
  BY DEF Applied
<1> QED
  <2>1. n = c - lastApplied[i]
    OBVIOUS
  <2> HIDE DEF es, n
  <2>2. machine[i] \in Seq(Entry)
    BY DEF Commands
  <2>3. /\ machine[i] \o es \in Seq(Entry)
        /\ Len(machine[i] \o es) = Len(machine[i]) + Len(es)
    BY <1>4, <2>2, ConcatProperties
  <2> QED
    BY <1>5, <1>6, <2>1, <2>3 DEF Commands

LEMMA InitTypeInv == Init => TypeInv
<1> SUFFICES ASSUME Init PROVE TypeInv
  OBVIOUS
<1>1. << >> \in Commands /\ Len(<< >>) = 0
  BY EmptySeq DEF Commands
<1>2. InitialLog \in LogType /\ InitialLog.base = 0
  BY DEF InitialLog, LogType, Entry, Command
<1>3. InitialImage \in ImageType /\ InitialImage.bytes = << >>
         /\ InitialImage.log = InitialLog
  BY <1>1, <1>2 DEF InitialImage, Image, ImageType, Vote
<1>4. TypeOfElections
  BY DEF Init, TypeOfElections, Role, Vote
<1>5. TypeOfLogs
  BY <1>1, <1>2, <1>3 DEF Init, TypeOfLogs, SnapshotType
<1>6. TypeOfNet /\ NoCallToSelf
  BY DEF Init, TypeOfNet, NoCallToSelf
<1>7. TypeOfHistory
  BY <1>1 DEF Init, TypeOfHistory
<1>8. Positions
  BY <1>1, <1>2, <1>3 DEF Init, Positions
<1> QED
  BY <1>4, <1>5, <1>6, <1>7, <1>8 DEF TypeInv, TypeOK

(***************************************************************************)
(* What persist() saves has the type of what it saves.                     *)
(***************************************************************************)
LEMMA PersistType ==
    ASSUME NEW i \in Server, Persist(i),
           disk \in [Server -> ImageType],
           currentTerm'[i] \in Nat, votedFor'[i] \in Vote,
           log'[i] \in LogType, snapshot'[i] \in SnapshotType
    PROVE  disk' \in [Server -> ImageType]
BY DEF Persist, Image, ImageType, SnapshotType

LEMMA PersistPositions ==
    ASSUME NEW i \in Server, Persist(i), disk \in [Server -> ImageType],
           \A j \in Server : Len(disk[j].bytes) = disk[j].log.base,
           Len(snapshot'[i].bytes) = log'[i].base
    PROVE  \A j \in Server : Len(disk'[j].bytes) = disk'[j].log.base
BY DEF Persist, Image

LEMMA TickTypes ==
    ASSUME TypeInv, NEW i \in Server, Tick(i)
    PROVE  TypeInv'
<1> USE DEF TypeInv, TypeOK
<1>1. TypeOfElections'
  BY DEF Tick, ToCandidate, TypeOfElections, Role, Vote
<1>2. disk' \in [Server -> ImageType]
  BY <1>1, PersistType DEF Tick, PersistIf, TypeOfElections, TypeOfLogs, logVars
<1>3. TypeOfLogs'
  BY <1>2 DEF Tick, TypeOfLogs, logVars, applyVars, leaderVars
<1>4. TypeOfNet' /\ NoCallToSelf'
  <2>1. soliciting' \subseteq Solicitation /\ \A g \in soliciting' : g.from # g.to
    BY <1>1 DEF Tick, ToCandidate, TypeOfNet, NoCallToSelf, TypeOfElections,
                Solicitation, Others
  <2> QED
    BY <2>1 DEF Tick, TypeOfNet, NoCallToSelf, appendNet, installNet
<1>5. TypeOfHistory'
  BY <1>1 DEF Tick, ToCandidate, TypeOfHistory, counters, TypeOfElections
<1>6. Positions'
  <2>1. \A j \in Server : Len(disk'[j].bytes) = disk'[j].log.base
    BY PersistPositions
    DEF Tick, PersistIf, TypeOfLogs, Positions, logVars
  <2> QED
    BY <2>1 DEF Tick, Positions, logVars, applyVars, installNet
<1> QED
  BY <1>1, <1>3, <1>4, <1>5, <1>6

LEMMA SolicitVoteTypes ==
    ASSUME TypeInv, NEW g \in soliciting, SolicitVote(g)
    PROVE  TypeInv'
<1> USE DEF TypeInv, TypeOK
<1>1. /\ LastIndex(log[g.from]) \in Int
      /\ LastTerm(log[g.from]) \in Int
      /\ g \in Solicitation
  BY LogIndices, EntryAtType
  DEF TypeOfNet, TypeOfLogs, Solicitation, LastTerm
<1>2. TypeOfElections'
  BY DEF SolicitVote, TypeOfElections, electionVars
<1>3. TypeOfLogs' /\ Positions'
  BY DEF SolicitVote, TypeOfLogs, Positions, logVars, applyVars, leaderVars,
         installNet
<1>4. voteRequests' \subseteq VoteRequest
         /\ \A m \in voteRequests' : m.from # m.to
  <2>1. g.from # g.to /\ currentTerm[g.from] \in Nat
    BY <1>1 DEF NoCallToSelf, TypeOfElections, Solicitation
  <2> DEFINE args == [from |-> g.from, to |-> g.to, born |-> g.born,
                      term |-> currentTerm[g.from],
                      lastIndex |-> LastIndex(log[g.from]),
                      lastTerm |-> LastTerm(log[g.from]), awaited |-> TRUE]
  <2>2. args \in VoteRequest /\ args.from # args.to
    BY <1>1, <2>1 DEF Solicitation, VoteRequest
  <2>3. voteRequests' = voteRequests \cup {args}
    BY DEF SolicitVote
  <2> HIDE DEF args
  <2> QED
    BY <2>2, <2>3 DEF TypeOfNet, NoCallToSelf
<1>5. TypeOfNet' /\ NoCallToSelf'
  BY <1>4 DEF SolicitVote, TypeOfNet, NoCallToSelf, appendNet, installNet
<1>6. TypeOfHistory'
  BY DEF SolicitVote, TypeOfHistory, history, counters
<1> QED
  BY <1>2, <1>3, <1>6, <1>5

LEMMA HandleRequestVoteTypes ==
    ASSUME TypeInv, NEW m \in voteRequests, HandleRequestVote(m)
    PROVE  TypeInv'
<1> USE DEF TypeInv, TypeOK
<1>1. m \in VoteRequest /\ m.from # m.to
  BY DEF TypeOfNet, NoCallToSelf
<1>2. TypeOfElections'
  BY <1>1 DEF HandleRequestVote, TypeOfElections, VoteRequest, Role, Vote
<1>3. disk' \in [Server -> ImageType]
  BY <1>1, <1>2, PersistType
  DEF HandleRequestVote, PersistIf, TypeOfElections, TypeOfLogs, logVars,
      VoteRequest
<1>4. TypeOfLogs'
  BY <1>3 DEF HandleRequestVote, TypeOfLogs, logVars, applyVars, leaderVars
<1>5. TypeOfNet' /\ NoCallToSelf'
  <2>1. GrantsVote(m.to, m) \in BOOLEAN
    BY DEF GrantsVote
  <2>2. voteReplies' \subseteq VoteReply /\ \A r \in voteReplies' : r.from # r.to
    BY <1>1, <1>2, <2>1
    DEF HandleRequestVote, TypeOfNet, NoCallToSelf, TypeOfElections,
        VoteRequest, VoteReply
  <2> QED
    BY <2>2 DEF HandleRequestVote, TypeOfNet, NoCallToSelf, appendNet, installNet
<1>6. TypeOfHistory'
  BY <1>1 DEF HandleRequestVote, TypeOfHistory, VoteRequest, counters
<1>7. Positions'
  <2>1. \A j \in Server : Len(disk'[j].bytes) = disk'[j].log.base
    BY <1>1, PersistPositions
    DEF HandleRequestVote, PersistIf, TypeOfLogs, Positions, logVars, VoteRequest
  <2> QED
    BY <2>1 DEF HandleRequestVote, Positions, logVars, applyVars, installNet
<1> QED
  BY <1>2, <1>4, <1>5, <1>6, <1>7

LEMMA HandleVoteReplyTypes ==
    ASSUME TypeInv, NEW m \in voteReplies, HandleVoteReply(m)
    PROVE  TypeInv'
<1> USE DEF TypeInv, TypeOK
<1>1. m \in VoteReply /\ LastIndex(log[m.to]) \in Int
  BY LogIndices DEF TypeOfNet, TypeOfLogs, VoteReply
<1>2. TypeOfElections'
  <2>1. CASE Newer(m.to, m.term)
    BY <1>1, <2>1 DEF HandleVoteReply, StepDown, TypeOfElections, VoteReply,
                      Role, Vote
  <2>2. CASE ~Newer(m.to, m.term)
    <3>1. state' \in [Server -> Role]
      BY <1>1, <2>2 DEF HandleVoteReply, ToLeader, TypeOfElections, VoteReply, Role
    <3>2. voteCount' \in [Server -> Nat]
      BY <1>1, <2>2 DEF HandleVoteReply, TypeOfElections, VoteReply
    <3> QED
      BY <2>2, <3>1, <3>2 DEF HandleVoteReply, TypeOfElections
  <2> QED
    BY <2>1, <2>2
<1>3. disk' \in [Server -> ImageType]
  BY <1>1, <1>2, PersistType
  DEF HandleVoteReply, PersistIf, TypeOfElections, TypeOfLogs, logVars,
      VoteReply
<1>4. nextIndex' \in [Server -> [Server -> Int]]
         /\ matchIndex' \in [Server -> [Server -> Int]]
  <2>1. CASE ToLeader(m.to)
    BY <1>1, <2>1 DEF ToLeader, TypeOfLogs, VoteReply
  <2>2. CASE UNCHANGED leaderVars
    BY <2>2 DEF TypeOfLogs, leaderVars
  <2> QED
    BY <2>1, <2>2 DEF HandleVoteReply
<1>5. TypeOfLogs'
  BY <1>3, <1>4 DEF HandleVoteReply, TypeOfLogs, logVars, applyVars
<1>6. TypeOfNet' /\ NoCallToSelf'
  BY DEF HandleVoteReply, TypeOfNet, NoCallToSelf, appendNet, installNet
<1>7. TypeOfHistory'
  BY <1>1 DEF HandleVoteReply, ToLeader, TypeOfElections, TypeOfHistory,
              VoteReply, counters
<1>8. Positions'
  <2>1. \A j \in Server : Len(disk'[j].bytes) = disk'[j].log.base
    BY <1>1, PersistPositions
    DEF HandleVoteReply, PersistIf, TypeOfLogs, Positions, logVars, VoteReply
  <2> QED
    BY <2>1 DEF HandleVoteReply, Positions, logVars, applyVars, installNet
<1> QED
  BY <1>2, <1>5, <1>6, <1>7, <1>8

LEMMA StartTypes ==
    ASSUME TypeInv, NEW i \in Server, Start(i)
    PROVE  TypeInv'
<1> USE DEF TypeInv, TypeOK
<1> DEFINE e == [term |-> currentTerm[i], cmd |-> <<i, LastIndex(log[i]) + 1>>]
<1>1. log[i] \in LogType /\ LastIndex(log[i]) \in Int
  BY LogIndices DEF TypeOfLogs
<1>2. e \in Entry
  BY <1>1 DEF TypeOfElections, Entry, Command
<1>3. AppendEntry(log[i], e) \in LogType /\ AppendEntry(log[i], e).base = log[i].base
  <2> HIDE DEF e
  <2> QED
    BY <1>1, <1>2, AppendEntryType DEF AppendEntry, LogType
<1>4. log' = [log EXCEPT ![i] = AppendEntry(log[i], e)]
  BY DEF Start
<1> HIDE DEF e
<1>5. TypeOfElections'
  BY DEF Start, TypeOfElections, electionVars
<1>6. disk' \in [Server -> ImageType]
  BY <1>3, <1>4, <1>5, PersistType
  DEF Start, TypeOfElections, TypeOfLogs
<1>7. TypeOfLogs'
  BY <1>3, <1>4, <1>6 DEF Start, TypeOfLogs, applyVars, leaderVars
<1>8. TypeOfNet' /\ NoCallToSelf' /\ TypeOfHistory'
  BY DEF Start, TypeOfNet, NoCallToSelf, TypeOfHistory, voteNet, appendNet,
         installNet, history, counters
<1>9. Positions'
  <2>1. \A j \in Server : Len(disk'[j].bytes) = disk'[j].log.base
    BY <1>3, <1>4, PersistPositions DEF Start, TypeOfLogs, Positions
  <2> QED
    BY <1>3, <1>4, <2>1 DEF Start, TypeOfLogs, Positions, applyVars, installNet
<1> QED
  BY <1>5, <1>7, <1>8, <1>9

(***************************************************************************)
(* applyCommits keeps the counts together whenever the commit index grows. *)
(***************************************************************************)
Counted ==
    \A i \in Server : /\ lastApplied[i] = commitIndex[i]
                      /\ Len(machine[i]) = commitIndex[i]

LEMMA ApplyCommitsTypes ==
    ASSUME TypeOfLogs, decided \in Commands, Counted,
           NEW i \in Server, NEW l \in LogType, NEW c \in Int,
           c >= commitIndex[i],
           commitIndex' = [commitIndex EXCEPT ![i] = c],
           ApplyCommits(i, l), Decide(i)
    PROVE  /\ commitIndex' \in [Server -> Int]
           /\ lastApplied' \in [Server -> Int]
           /\ machine' \in [Server -> Commands]
           /\ decided' \in Commands
           /\ Counted'
<1>1. /\ machine[i] \in Commands
      /\ lastApplied[i] \in Int
      /\ lastApplied[i] = commitIndex[i]
      /\ Len(machine[i]) = commitIndex[i]
  BY DEF TypeOfLogs, Counted
<1>2. /\ Applied(i, l, c) \in Commands
      /\ Len(Applied(i, l, c)) = c
  BY <1>1, AppliedType
<1>3. commitIndex'[i] = c
  BY DEF TypeOfLogs
<1>4. /\ commitIndex' \in [Server -> Int]
      /\ lastApplied' \in [Server -> Int]
      /\ machine' \in [Server -> Commands]
  BY <1>2, <1>3 DEF TypeOfLogs, ApplyCommits
<1>5. decided' \in Commands
  BY <1>4 DEF Decide
<1>6. Counted'
  BY <1>2, <1>3 DEF Counted, TypeOfLogs, ApplyCommits
<1> QED
  BY <1>4, <1>5, <1>6

LEMMA UpdateLeaderCommitTypes ==
    ASSUME TypeOfLogs, decided \in Commands, Counted,
           NEW i \in Server, UpdateLeaderCommit(i)
    PROVE  /\ commitIndex' \in [Server -> Int]
           /\ lastApplied' \in [Server -> Int]
           /\ machine' \in [Server -> Commands]
           /\ decided' \in Commands
           /\ Counted'
<1>1. log[i] \in LogType /\ commitIndex[i] \in Int
  BY DEF TypeOfLogs
<1>2. \E c \in Int : /\ c >= commitIndex[i]
                     /\ commitIndex' = [commitIndex EXCEPT ![i] = c]
  <2>1. CASE commitIndex' = commitIndex
    <3>1. commitIndex' = [commitIndex EXCEPT ![i] = commitIndex[i]]
      BY <2>1 DEF TypeOfLogs
    <3>2. commitIndex[i] >= commitIndex[i]
      BY <1>1
    <3> commitIndex[i] \in Int
      BY <1>1
    <3> WITNESS commitIndex[i] \in Int
    <3> QED
      BY <3>1, <3>2
  <2>2. ASSUME NEW c \in CommitTargets(i, matchIndex'[i]),
               commitIndex' = [commitIndex EXCEPT ![i] = c]
        PROVE  \E d \in Int : /\ d >= commitIndex[i]
                              /\ commitIndex' = [commitIndex EXCEPT ![i] = d]
    <3>1. c \in Int /\ c >= commitIndex[i]
      BY <1>1, LogIndices DEF CommitTargets
    <3> QED
      BY <2>2, <3>1
  <2> QED
    BY <2>1, <2>2 DEF UpdateLeaderCommit
<1>3. ApplyCommits(i, log[i]) /\ Decide(i)
  BY DEF UpdateLeaderCommit
<1> QED
  BY <1>1, <1>2, <1>3, ApplyCommitsTypes

LEMMA ReplicateTypes ==
    ASSUME TypeInv, NEW i \in Server, NEW j \in Others(i), Replicate(i, j)
    PROVE  TypeInv'
<1> USE DEF TypeInv, TypeOK
<1>1. j \in Server /\ i # j
  BY DEF Others
<1>2. log[i] \in LogType /\ nextIndex[i][j] \in Int
         /\ currentTerm[i] \in Nat /\ commitIndex[i] \in Int
         /\ snapshot[i] \in SnapshotType
         /\ Len(snapshot[i].bytes) = snapshot[i].index
  BY <1>1 DEF TypeOfLogs, TypeOfElections, Positions
<1>3. TypeOfElections' /\ TypeOfLogs' /\ TypeOfHistory'
  BY DEF Replicate, CountCall, TypeOfElections, TypeOfLogs, TypeOfHistory,
         electionVars, logVars, applyVars, leaderVars, history
<1>4. appendRequests' \subseteq AppendRequest
         /\ \A m \in appendRequests' : m.from # m.to
  <2>1. CASE ~LacksPrevious(i, j)
    <3> DEFINE prev == nextIndex[i][j] - 1
    <3>1. prev + 1 >= log[i].base /\ prev \in Int
      BY <1>2, <2>1, LogIndices DEF LacksPrevious
    <3>2. TermAt(log[i], prev) \in Int /\ EntriesFrom(log[i], prev + 1) \in Seq(Entry)
      BY <1>2, <3>1, EntryAtType, EntriesFromType
    <3>3. AppendArgs(i, j) \in AppendRequest
            /\ AppendArgs(i, j).from # AppendArgs(i, j).to
      BY <1>1, <1>2, <3>1, <3>2 DEF AppendArgs, AppendRequest
    <3> QED
      BY <2>1, <3>3 DEF Replicate, TypeOfNet, NoCallToSelf
  <2>2. CASE LacksPrevious(i, j)
    BY <2>2 DEF Replicate, TypeOfNet, NoCallToSelf
  <2> QED
    BY <2>1, <2>2
<1>5. installRequests' \subseteq InstallRequest
         /\ \A m \in installRequests' :
               m.from # m.to /\ Len(m.snapshot.bytes) = m.snapshot.index
  <2>1. InstallArgs(i, j) \in InstallRequest
           /\ InstallArgs(i, j).from # InstallArgs(i, j).to
           /\ InstallArgs(i, j).snapshot = snapshot[i]
    BY <1>1, <1>2 DEF InstallArgs, InstallRequest
  <2> QED
    BY <1>2, <2>1 DEF Replicate, TypeOfNet, NoCallToSelf, Positions
<1>6. TypeOfNet' /\ NoCallToSelf'
  BY <1>4, <1>5 DEF Replicate, TypeOfNet, NoCallToSelf, voteNet
<1>7. Positions'
  BY <1>5 DEF Replicate, Positions, logVars, applyVars
<1> QED
  BY <1>3, <1>6, <1>7

LEMMA FollowTypes ==
    ASSUME TypeOfElections, NEW i \in Server, NEW m, m.term \in Nat, Follow(i, m)
    PROVE  /\ currentTerm' \in [Server -> Nat]
           /\ votedFor' \in [Server -> Vote]
           /\ voteCount' \in [Server -> Nat]
BY DEF Follow, TypeOfElections, Vote

LEMMA HandleAppendEntriesTypes ==
    ASSUME TypeInv, NEW m \in appendRequests, HandleAppendEntries(m)
    PROVE  TypeInv'
<1> USE DEF TypeInv, TypeOK
<1> DEFINE i == m.to
           stale == m.term < currentTerm[i]
           ok == ~stale /\ Matches(log[i], m)
<1>1. /\ m \in AppendRequest
      /\ i \in Server /\ m.from \in Server /\ i # m.from
      /\ m.term \in Nat /\ m.prevIndex \in Int
      /\ m.entries \in Seq(Entry) /\ Len(m.entries) \in Nat
      /\ m.leaderCommit \in Int
  BY LenProperties DEF TypeOfNet, NoCallToSelf, AppendRequest
<1>2. log[i] \in LogType /\ commitIndex[i] \in Int /\ Counted
  BY <1>1 DEF TypeOfLogs, Positions, Counted
<1>3. TypeOfElections'
  <2>1. /\ currentTerm' \in [Server -> Nat]
        /\ votedFor' \in [Server -> Vote]
        /\ voteCount' \in [Server -> Nat]
    BY <1>1, FollowTypes DEF HandleAppendEntries
  <2>2. state' \in [Server -> Role]
           /\ hasReceivedHeartBeat' \in [Server -> BOOLEAN]
    BY <1>1 DEF HandleAppendEntries, TypeOfElections, Role
  <2> QED
    BY <2>1, <2>2 DEF TypeOfElections
<1>4. /\ log' \in [Server -> LogType]
      /\ \A j \in Server : log'[j].base = log[j].base
      /\ commitIndex' \in [Server -> Int]
      /\ lastApplied' \in [Server -> Int]
      /\ machine' \in [Server -> Commands]
      /\ decided' \in Commands
      /\ Counted'
  <2>1. CASE ~ok
    <3>1. UNCHANGED <<log, applyVars, decided>>
      BY <2>1 DEF HandleAppendEntries
    <3> QED
      BY <1>2, <3>1 DEF TypeOfLogs, TypeOfHistory, applyVars, Counted
  <2>2. CASE ok
    <3> DEFINE l == AppendEntries(log[i], m.prevIndex + 1, m.entries)
               c == FollowerCommit(i, m)
    <3>1. l \in LogType /\ l.base = log[i].base
      <4>1. m.prevIndex + 1 \in Int
        BY <1>1
      <4>2. l.base = log[i].base
        BY DEF AppendEntries
      <4> HIDE DEF i
      <4> QED
        BY <1>1, <1>2, <4>1, <4>2, AppendEntriesType
    <3>2. c \in Int /\ c >= commitIndex[i]
      BY <1>1, <1>2 DEF FollowerCommit
    <3>3. /\ log' = [log EXCEPT ![i] = l]
          /\ commitIndex' = [commitIndex EXCEPT ![i] = c]
          /\ ApplyCommits(i, log'[i])
          /\ Decide(i)
      BY <2>2 DEF HandleAppendEntries
    <3> HIDE DEF l, c, i
    <3>4. log' \in [Server -> LogType] /\ log'[i] = l
            /\ \A j \in Server : log'[j].base = log[j].base
      BY <1>1, <3>1, <3>3 DEF TypeOfLogs
    <3>5. ApplyCommits(i, l)
      BY <3>3, <3>4
    <3> QED
      BY <1>1, <1>2, <3>1, <3>2, <3>3, <3>4, <3>5, ApplyCommitsTypes
      DEF TypeOfHistory
  <2> QED
    BY <2>1, <2>2
<1>5. disk' \in [Server -> ImageType]
         /\ \A j \in Server : Len(disk'[j].bytes) = disk'[j].log.base
  <2>1. snapshot' = snapshot /\ (disk' = disk \/ Persist(i))
    BY DEF HandleAppendEntries, PersistIf
  <2>2. CASE Persist(i)
    <3>1. /\ disk \in [Server -> ImageType]
          /\ currentTerm'[i] \in Nat /\ votedFor'[i] \in Vote
          /\ log'[i] \in LogType /\ snapshot'[i] \in SnapshotType
          /\ Len(snapshot'[i].bytes) = log'[i].base
          /\ \A j \in Server : Len(disk[j].bytes) = disk[j].log.base
      BY <1>1, <1>3, <1>4, <2>1 DEF TypeOfElections, TypeOfLogs, Positions
    <3> QED
      BY <1>1, <2>2, <3>1, PersistType, PersistPositions
  <2> QED
    BY <2>1, <2>2 DEF TypeOfLogs, Positions
<1>6. TypeOfLogs'
  BY <1>4, <1>5 DEF HandleAppendEntries, TypeOfLogs, leaderVars
<1>7. TypeOfNet' /\ NoCallToSelf'
  <2> DEFINE r == AppendReply(i, m, ~stale /\ ~ok)
  <2>1. TermAt(log[i], m.prevIndex) \in Int
    BY <1>1, <1>2, EntryAtType
  <2>2. TermStart(log[i], TermAt(log[i], m.prevIndex)) \in Int
           /\ LogLength(log[i]) \in Int
    BY <1>2, <2>1, TermBoundsType, LogIndices
  <2>3. ASSUME NEW rejected \in BOOLEAN
        PROVE  AppendReply(i, m, rejected) \in AppendReplyType
                 /\ AppendReply(i, m, rejected).from # AppendReply(i, m, rejected).to
    BY <1>1, <1>3, <2>1, <2>2 DEF AppendReply, AppendReplyType, TypeOfElections
  <2>4. appendReplies' \subseteq appendReplies \cup {r}
    BY DEF HandleAppendEntries
  <2>5. appendReplies' \subseteq AppendReplyType
          /\ \A n \in appendReplies' : n.from # n.to
    BY <2>3, <2>4 DEF TypeOfNet, NoCallToSelf
  <2> QED
    BY <2>5 DEF HandleAppendEntries, TypeOfNet, NoCallToSelf, voteNet, installNet
<1>8. TypeOfHistory'
  BY <1>4 DEF HandleAppendEntries, TypeOfHistory, counters
<1>9. Positions'
  BY <1>4, <1>5 DEF HandleAppendEntries, Positions, Counted, installNet
<1> QED
  BY <1>3, <1>6, <1>7, <1>8, <1>9

LEMMA IndexTableType ==
    ASSUME NEW f \in [Server -> [Server -> Int]],
           NEW i \in Server, NEW j \in Server, NEW n \in Int
    PROVE  [f EXCEPT ![i][j] = n] \in [Server -> [Server -> Int]]
OBVIOUS

LEMMA NewerReplyTypes ==
    ASSUME TypeOfElections, TypeOfLogs, Positions,
           NEW i \in Server, NEW m, m.term \in Nat, NewerReply(i, m)
    PROVE  /\ TypeOfElections'
           /\ disk' \in [Server -> ImageType]
           /\ \A j \in Server : Len(disk'[j].bytes) = disk'[j].log.base
<1>1. TypeOfElections'
  BY DEF NewerReply, StepDown, TypeOfElections, Role, Vote
<1>2. disk' \in [Server -> ImageType]
  BY <1>1, PersistType DEF NewerReply, TypeOfElections, TypeOfLogs
<1>3. \A j \in Server : Len(disk'[j].bytes) = disk'[j].log.base
  BY PersistPositions DEF NewerReply, TypeOfLogs, Positions
<1> QED
  BY <1>1, <1>2, <1>3

(***************************************************************************)
(* What a reply may change, whichever it is a reply to.                    *)
(***************************************************************************)
LEMMA ReplyTypes ==
    ASSUME TypeInv,
           UNCHANGED <<log, snapshot, voteNet, appendRequests, installRequests,
                       ballots, elected, calls, snapshots, timeouts, restarts>>,
           appendReplies' \subseteq appendReplies,
           installReplies' \subseteq installReplies,
           TypeOfElections',
           commitIndex' \in [Server -> Int],
           lastApplied' \in [Server -> Int],
           machine' \in [Server -> Commands],
           nextIndex' \in [Server -> [Server -> Int]],
           matchIndex' \in [Server -> [Server -> Int]],
           decided' \in Commands,
           Counted',
           disk' \in [Server -> ImageType],
           \A j \in Server : Len(disk'[j].bytes) = disk'[j].log.base
    PROVE  TypeInv'
<1> USE DEF TypeInv, TypeOK
<1>1. TypeOfLogs'
  BY DEF TypeOfLogs
<1>2. TypeOfNet' /\ NoCallToSelf'
  BY DEF TypeOfNet, NoCallToSelf, voteNet
<1>3. TypeOfHistory'
  BY DEF TypeOfHistory
<1>4. Positions'
  BY DEF Positions, Counted
<1> QED
  BY <1>1, <1>2, <1>3, <1>4

LEMMA HandleAppendReplyTypes ==
    ASSUME TypeInv, NEW m \in appendReplies, HandleAppendReply(m)
    PROVE  TypeInv'
<1> DEFINE i == m.to
<1>1. /\ m \in AppendReplyType
      /\ i \in Server /\ m.from \in Server /\ m.term \in Nat
      /\ m.prevIndex \in Int /\ m.sent \in Nat
      /\ m.conflictTerm \in Int /\ m.conflictStart \in Int /\ m.logLength \in Int
  BY DEF TypeInv, TypeOK, TypeOfNet, AppendReplyType
<1>2. /\ TypeOfElections /\ TypeOfLogs /\ Positions /\ Counted
      /\ decided \in Commands
  BY DEF TypeInv, TypeOK, TypeOfHistory, Positions, Counted
<1>3. /\ UNCHANGED <<log, snapshot, voteNet, appendRequests, installRequests,
                     ballots, elected, calls, snapshots, timeouts, restarts>>
      /\ appendReplies' \subseteq appendReplies
      /\ installReplies' \subseteq installReplies
  BY DEF HandleAppendReply, counters, installNet
<1>4. /\ disk \in [Server -> ImageType]
      /\ \A j \in Server : Len(disk[j].bytes) = disk[j].log.base
      /\ nextIndex \in [Server -> [Server -> Int]]
      /\ matchIndex \in [Server -> [Server -> Int]]
      /\ commitIndex \in [Server -> Int]
      /\ lastApplied \in [Server -> Int]
      /\ machine \in [Server -> Commands]
  BY <1>2 DEF TypeOfLogs, Positions
<1> HIDE DEF i
<1>5. CASE NewerReply(i, m)
  <2>1. UNCHANGED <<applyVars, leaderVars, decided>>
    BY <1>5 DEF NewerReply
  <2> QED
    BY <1>1, <1>2, <1>3, <1>4, <1>5, <2>1, NewerReplyTypes, ReplyTypes
    DEF applyVars, leaderVars, Counted
<1>6. CASE LateReply(i, m)
  BY <1>2, <1>3, <1>4, <1>6, ReplyTypes
  DEF LateReply, electionVars, applyVars, leaderVars, Counted, TypeOfElections
<1>7. CASE AppendSucceeded(i, m)
  <2>1. Acknowledged(i, m) \in Int /\ Acknowledged(i, m) + 1 \in Int
    BY <1>1 DEF Acknowledged
  <2>2. nextIndex' \in [Server -> [Server -> Int]]
           /\ matchIndex' \in [Server -> [Server -> Int]]
    BY <1>1, <1>4, <1>7, <2>1, IndexTableType DEF AppendSucceeded
  <2>3. /\ UpdateLeaderCommit(i)
        /\ UNCHANGED <<electionVars, disk>>
    BY <1>7 DEF AppendSucceeded
  <2> QED
    BY <1>1, <1>2, <1>3, <1>4, <2>2, <2>3, UpdateLeaderCommitTypes, ReplyTypes
    DEF electionVars, TypeOfElections
<1>8. CASE AppendRejected(i, m)
  <2>1. Backtracked(i, m) \in Int
    BY <1>1, <1>2, TermBoundsType DEF Backtracked, TypeOfLogs
  <2>2. nextIndex' \in [Server -> [Server -> Int]]
    BY <1>1, <1>4, <1>8, <2>1 DEF AppendRejected
  <2>3. UNCHANGED <<electionVars, applyVars, matchIndex, disk, decided>>
    BY <1>8 DEF AppendRejected
  <2> QED
    BY <1>2, <1>3, <1>4, <2>2, <2>3, ReplyTypes
    DEF electionVars, TypeOfElections, applyVars, Counted
<1> QED
  BY <1>5, <1>6, <1>7, <1>8 DEF HandleAppendReply, i

\* What a leader notes for one peer is an index if what it noted before was.
LEMMA RowChanged ==
    ASSUME NEW f \in [Server -> [Server -> Int]],
           NEW i \in Server, NEW j \in Server, NEW n \in Int
    PROVE  [f EXCEPT ![i][j] = n] \in [Server -> [Server -> Int]]
  OBVIOUS

LEMMA HandleInstallReplyTypes ==
    ASSUME TypeInv, NEW m \in installReplies, HandleInstallReply(m)
    PROVE  TypeInv'
<1> DEFINE i == m.to
<1>1. /\ m \in InstallReply
      /\ i \in Server /\ m.from \in Server /\ m.term \in Nat
  BY DEF TypeInv, TypeOK, TypeOfNet, InstallReply
<1>2. /\ TypeOfElections /\ TypeOfLogs /\ Positions /\ Counted
      /\ decided \in Commands
  BY DEF TypeInv, TypeOK, TypeOfHistory, Positions, Counted
<1>3. /\ UNCHANGED <<log, snapshot, voteNet, appendRequests, installRequests,
                     ballots, elected, calls, snapshots, timeouts, restarts>>
      /\ appendReplies' \subseteq appendReplies
      /\ installReplies' \subseteq installReplies
  BY DEF HandleInstallReply, counters, appendNet
<1>4. /\ disk \in [Server -> ImageType]
      /\ \A j \in Server : Len(disk[j].bytes) = disk[j].log.base
      /\ nextIndex \in [Server -> [Server -> Int]]
      /\ matchIndex \in [Server -> [Server -> Int]]
      /\ commitIndex \in [Server -> Int]
      /\ lastApplied \in [Server -> Int]
      /\ machine \in [Server -> Commands]
      /\ snapshot \in [Server -> SnapshotType]
  BY <1>2 DEF TypeOfLogs, Positions
<1> HIDE DEF i
<1>5. CASE NewerReply(i, m)
  <2>1. UNCHANGED <<applyVars, leaderVars, decided>>
    BY <1>5 DEF NewerReply
  <2> QED
    BY <1>1, <1>2, <1>3, <1>4, <1>5, <2>1, NewerReplyTypes, ReplyTypes
    DEF applyVars, leaderVars, Counted
<1>6. CASE LateReply(i, m)
  BY <1>2, <1>3, <1>4, <1>6, ReplyTypes
  DEF LateReply, electionVars, applyVars, leaderVars, Counted, TypeOfElections
<1>7. CASE InstallAnswered(i, m)
  <2>1. snapshot[i].index \in Nat
    BY <1>1, <1>4 DEF SnapshotType
  <2>2. nextIndex' \in [Server -> [Server -> Int]]
           /\ matchIndex' \in [Server -> [Server -> Int]]
    <3>1. snapshot[i].index \in Int /\ snapshot[i].index + 1 \in Int
      BY <2>1
    <3>2. /\ nextIndex' = [nextIndex EXCEPT ![i][m.from] = snapshot[i].index + 1]
          /\ matchIndex' = [matchIndex EXCEPT ![i][m.from] = snapshot[i].index]
      BY <1>7 DEF InstallAnswered
    <3> QED
      BY <1>1, <1>4, <3>1, <3>2, RowChanged
  <2>3. /\ UpdateLeaderCommit(i)
        /\ UNCHANGED <<electionVars, disk>>
    BY <1>7 DEF InstallAnswered
  <2> QED
    BY <1>1, <1>2, <1>3, <1>4, <2>2, <2>3, UpdateLeaderCommitTypes, ReplyTypes
    DEF electionVars, TypeOfElections
<1> QED
  BY <1>5, <1>6, <1>7 DEF HandleInstallReply, i

LEMMA AnswerWithSnapshotTypes ==
    ASSUME TypeInv, NEW m \in appendReplies, AnswerWithSnapshot(m)
    PROVE  TypeInv'
<1> USE DEF TypeInv, TypeOK
<1> DEFINE i == m.to
<1>1. m \in AppendReplyType /\ i \in Server /\ m.from \in Server /\ m.from # i
  BY DEF TypeOfNet, NoCallToSelf, AppendReplyType
<1>2. TypeOfElections' /\ TypeOfLogs' /\ TypeOfHistory'
  BY DEF AnswerWithSnapshot, CountCall, TypeOfElections, TypeOfLogs,
         TypeOfHistory, electionVars, logVars, applyVars, leaderVars, history
<1>3. installRequests' \subseteq InstallRequest
         /\ \A n \in installRequests' :
               n.from # n.to /\ Len(n.snapshot.bytes) = n.snapshot.index
  <2> DEFINE args == InstallArgs(i, m.from)
  <2>1. snapshot[i] \in SnapshotType /\ currentTerm[i] \in Nat
           /\ Len(snapshot[i].bytes) = snapshot[i].index
    BY <1>1 DEF TypeOfLogs, TypeOfElections, Positions
  <2>2. args \in InstallRequest /\ args.from # args.to
           /\ args.snapshot = snapshot[i]
    BY <1>1, <2>1 DEF InstallArgs, InstallRequest
  <2> HIDE DEF args
  <2>3. installRequests' = installRequests \cup {args}
    BY DEF AnswerWithSnapshot, args
  <2> QED
    BY <2>1, <2>2, <2>3 DEF TypeOfNet, NoCallToSelf, Positions
<1>4. TypeOfNet' /\ NoCallToSelf'
  BY <1>3 DEF AnswerWithSnapshot, TypeOfNet, NoCallToSelf, voteNet
<1>5. Positions'
  BY <1>3 DEF AnswerWithSnapshot, Positions, logVars, applyVars
<1> QED
  BY <1>2, <1>4, <1>5

LEMMA TakeSnapshotTypes ==
    ASSUME TypeInv, NEW i \in Server, NEW k \in Indices(log[i]), TakeSnapshot(i, k)
    PROVE  TypeInv'
<1> USE DEF TypeInv, TypeOK
<1> DEFINE s == SnapshotAt(i, k)
           l == Rebase(log[i], k)
<1>1. /\ log[i] \in LogType /\ log[i].base \in Nat
      /\ machine[i] \in Seq(Entry) /\ lastApplied[i] \in Int
      /\ Len(machine[i]) = lastApplied[i]
      /\ snapshots \in Nat
  BY LogIndices DEF TypeOfLogs, TypeOfHistory, Positions, Commands
<1>2. k \in Nat /\ log[i].base <= k /\ k <= lastApplied[i]
  BY <1>1 DEF TakeSnapshot
<1>3. SubSeq(machine[i], 1, k) \in Seq(Entry) /\ Len(SubSeq(machine[i], 1, k)) = k
  <2>1. \A n \in 1 .. k : machine[i][n] \in Entry
    BY <1>1, <1>2, ElementOfSeq
  <2> QED
    BY <1>2, <2>1, SubSeqProperties
<1>4. s \in SnapshotType /\ s.index = k /\ Len(s.bytes) = k
  BY <1>1, <1>2, <1>3, EntryAtType DEF SnapshotAt, SnapshotType, Commands
<1>5. l \in LogType /\ l.base = k
  BY <1>1, <1>2, RebaseType DEF Rebase
<1>6. /\ snapshot' = [snapshot EXCEPT ![i] = s]
      /\ log' = [log EXCEPT ![i] = l]
      /\ Persist(i)
  BY DEF TakeSnapshot
<1> HIDE DEF s, l
<1>7. TypeOfElections'
  BY DEF TakeSnapshot, TypeOfElections, electionVars
<1>8. /\ log' \in [Server -> LogType]
      /\ snapshot' \in [Server -> SnapshotType]
      /\ \A j \in Server : /\ snapshot'[j].index = log'[j].base
                           /\ Len(snapshot'[j].bytes) = log'[j].base
  BY <1>4, <1>5, <1>6 DEF TypeOfLogs, Positions
<1>9. disk' \in [Server -> ImageType]
         /\ \A j \in Server : Len(disk'[j].bytes) = disk'[j].log.base
  BY <1>6, <1>7, <1>8, PersistType, PersistPositions
  DEF TypeOfElections, TypeOfLogs, Positions
<1>10. TypeOfLogs'
  BY <1>8, <1>9 DEF TakeSnapshot, TypeOfLogs, applyVars, leaderVars
<1>11. TypeOfNet' /\ NoCallToSelf' /\ TypeOfHistory'
  BY <1>1 DEF TakeSnapshot, TypeOfNet, NoCallToSelf, TypeOfHistory, voteNet,
              appendNet, installNet, history
<1>12. Positions'
  BY <1>8, <1>9 DEF TakeSnapshot, Positions, applyVars, installNet
<1> QED
  BY <1>7, <1>10, <1>11, <1>12

LEMMA HandleInstallSnapshotTypes ==
    ASSUME TypeInv, NEW m \in installRequests, HandleInstallSnapshot(m)
    PROVE  TypeInv'
<1> USE DEF TypeInv, TypeOK
<1> DEFINE i == m.to
           s == m.snapshot
           l == Installed(log[i], s.index, s.term)
<1>1. /\ m \in InstallRequest
      /\ i \in Server /\ m.from \in Server /\ i # m.from
      /\ m.term \in Nat
      /\ s \in SnapshotType /\ s.index \in Nat /\ s.term \in Int
      /\ s.bytes \in Commands /\ Len(s.bytes) = s.index
  BY DEF TypeOfNet, NoCallToSelf, InstallRequest, SnapshotType, Positions
<1>2. log[i] \in LogType /\ log[i].base \in Nat
  BY <1>1, LogIndices DEF TypeOfLogs
<1>3. TypeOfElections'
  <2>1. /\ currentTerm' \in [Server -> Nat]
        /\ votedFor' \in [Server -> Vote]
        /\ voteCount' \in [Server -> Nat]
    BY <1>1, FollowTypes DEF HandleInstallSnapshot
  <2>2. state' \in [Server -> Role]
           /\ hasReceivedHeartBeat' \in [Server -> BOOLEAN]
    BY <1>1 DEF HandleInstallSnapshot, TypeOfElections, Role
  <2> QED
    BY <2>1, <2>2 DEF TypeOfElections
<1>4. /\ log' \in [Server -> LogType]
      /\ snapshot' \in [Server -> SnapshotType]
      /\ commitIndex' \in [Server -> Int]
      /\ lastApplied' \in [Server -> Int]
      /\ machine' \in [Server -> Commands]
      /\ decided' \in Commands
      /\ Counted'
      /\ \A j \in Server : /\ snapshot'[j].index = log'[j].base
                           /\ Len(snapshot'[j].bytes) = log'[j].base
  <2>1. CASE ~Installs(i, m)
    <3>1. UNCHANGED <<snapshot, log, applyVars, decided>>
      BY <2>1 DEF HandleInstallSnapshot
    <3> QED
      BY <3>1 DEF TypeOfLogs, TypeOfHistory, applyVars, Counted, Positions
  <2>2. CASE Installs(i, m)
    <3>1. l \in LogType /\ l.base = s.index
      <4>1. s.index >= log[i].base
        BY <2>2 DEF Installs
      <4>2. l.base = s.index
        BY DEF Installed
      <4> QED
        BY <1>1, <1>2, <4>1, <4>2, InstalledType
    <3>2. /\ snapshot' = [snapshot EXCEPT ![i] = s]
          /\ log' = [log EXCEPT ![i] = l]
          /\ commitIndex' = [commitIndex EXCEPT ![i] = s.index]
          /\ lastApplied' = [lastApplied EXCEPT ![i] = s.index]
          /\ machine' = [machine EXCEPT ![i] = s.bytes]
          /\ Decide(i)
      BY <2>2 DEF HandleInstallSnapshot
    <3> HIDE DEF l, s, i
    <3>3. /\ log' \in [Server -> LogType]
          /\ snapshot' \in [Server -> SnapshotType]
          /\ commitIndex' \in [Server -> Int]
          /\ lastApplied' \in [Server -> Int]
      <4>1. /\ log \in [Server -> LogType]
            /\ snapshot \in [Server -> SnapshotType]
            /\ commitIndex \in [Server -> Int]
            /\ lastApplied \in [Server -> Int]
        BY DEF TypeOfLogs
      <4>2. s \in SnapshotType /\ s.index \in Int /\ i \in Server
        BY <1>1
      <4> QED
        BY <3>1, <3>2, <4>1, <4>2
    <3>4. machine' \in [Server -> Commands] /\ decided' \in Commands
      <4>1. machine \in [Server -> Commands] /\ decided \in Commands
        BY DEF TypeOfLogs, TypeOfHistory
      <4>2. machine' \in [Server -> Commands] /\ machine'[i] \in Commands
        BY <1>1, <3>2, <4>1 DEF s
      <4>3. decided' = machine'[i] \/ decided' = decided
        BY <3>2 DEF Decide
      <4> QED
        BY <4>1, <4>2, <4>3
    <3>5. Counted'
      BY <1>1, <3>2 DEF TypeOfLogs, Counted, Positions
    <3>6. \A j \in Server : /\ snapshot'[j].index = log'[j].base
                            /\ Len(snapshot'[j].bytes) = log'[j].base
      BY <1>1, <3>1, <3>2 DEF TypeOfLogs, Positions
    <3> QED
      BY <3>3, <3>4, <3>5, <3>6
  <2> QED
    BY <2>1, <2>2
<1>5. disk' \in [Server -> ImageType]
         /\ \A j \in Server : Len(disk'[j].bytes) = disk'[j].log.base
  <2>1. disk' = disk \/ Persist(i)
    BY DEF HandleInstallSnapshot, PersistIf
  <2>2. CASE Persist(i)
    BY <1>1, <1>3, <1>4, <2>2, PersistType, PersistPositions
    DEF TypeOfElections, TypeOfLogs, Positions
  <2> QED
    BY <2>1, <2>2 DEF TypeOfLogs, Positions
<1>6. TypeOfLogs'
  BY <1>4, <1>5 DEF HandleInstallSnapshot, TypeOfLogs, leaderVars
<1>7. TypeOfNet' /\ NoCallToSelf'
  <2> DEFINE r == [from |-> i, to |-> m.from, asked |-> m.term,
                   term |-> currentTerm'[i]]
  <2>1. r \in InstallReply /\ r.from # r.to
    BY <1>1, <1>3 DEF InstallReply, TypeOfElections
  <2>2. installReplies' \subseteq installReplies \cup {r}
    BY DEF HandleInstallSnapshot
  <2>3. installReplies' \subseteq InstallReply
          /\ \A n \in installReplies' : n.from # n.to
    <3> HIDE DEF r
    <3> QED
      BY <2>1, <2>2 DEF TypeOfNet, NoCallToSelf
  <2> QED
    BY <2>3 DEF HandleInstallSnapshot, TypeOfNet, NoCallToSelf, voteNet, appendNet
<1>8. TypeOfHistory'
  BY <1>4 DEF HandleInstallSnapshot, TypeOfHistory, counters
<1>9. Positions'
  BY <1>4, <1>5 DEF HandleInstallSnapshot, Positions, Counted
<1> QED
  BY <1>3, <1>6, <1>7, <1>8, <1>9

(***************************************************************************)
(* A timeout only takes a reply away or stops waiting for one.             *)
(***************************************************************************)
LEMMA TimeoutTypes ==
    ASSUME TypeInv,
           \/ \E m \in appendRequests : AppendTimeout(m)
           \/ \E m \in appendReplies : AppendReplyTooLate(m)
           \/ \E m \in installRequests : InstallTimeout(m)
           \/ \E m \in installReplies : InstallReplyTooLate(m)
    PROVE  TypeInv'
<1> USE DEF TypeInv, TypeOK
<1>1. PICK caller, t : TimesOut(caller, t)
  BY DEF AppendTimeout, AppendReplyTooLate, InstallTimeout, InstallReplyTooLate
<1>2. TypeOfElections' /\ TypeOfLogs' /\ TypeOfHistory'
  BY <1>1 DEF TimesOut, TypeOfElections, TypeOfLogs, TypeOfHistory, electionVars,
              logVars, applyVars, leaderVars, history
<1>3. /\ appendRequests' \subseteq AppendRequest
      /\ \A n \in appendRequests' : n.from # n.to
  <2>1. CASE UNCHANGED appendRequests
    BY <2>1 DEF TypeOfNet, NoCallToSelf
  <2>2. ASSUME NEW m \in appendRequests, appendRequests' = GivenUp(appendRequests, m)
        PROVE  <1>3!:
    <3>1. [m EXCEPT !.awaited = FALSE] \in AppendRequest
             /\ m.from # m.to
      BY DEF TypeOfNet, NoCallToSelf, AppendRequest
    <3> QED
      BY <2>2, <3>1 DEF GivenUp, TypeOfNet, NoCallToSelf, AppendRequest
  <2> QED
    BY <2>1, <2>2 DEF AppendTimeout, AppendReplyTooLate, InstallTimeout,
                      InstallReplyTooLate, appendNet
<1>4. /\ installRequests' \subseteq InstallRequest
      /\ \A n \in installRequests' :
            n.from # n.to /\ Len(n.snapshot.bytes) = n.snapshot.index
  <2>1. CASE UNCHANGED installRequests
    BY <2>1 DEF TypeOfNet, NoCallToSelf, Positions
  <2>2. ASSUME NEW m \in installRequests,
               installRequests' = GivenUp(installRequests, m)
        PROVE  <1>4!:
    <3>1. [m EXCEPT !.awaited = FALSE] \in InstallRequest
             /\ m.from # m.to
             /\ Len(m.snapshot.bytes) = m.snapshot.index
      BY DEF TypeOfNet, NoCallToSelf, InstallRequest, Positions
    <3> QED
      BY <2>2, <3>1 DEF GivenUp, TypeOfNet, NoCallToSelf, InstallRequest, Positions
  <2> QED
    BY <2>1, <2>2 DEF AppendTimeout, AppendReplyTooLate, InstallTimeout,
                      InstallReplyTooLate, installNet
<1>5. UNCHANGED voteNet /\ appendReplies' \subseteq appendReplies
         /\ installReplies' \subseteq installReplies
  BY DEF AppendTimeout, AppendReplyTooLate, InstallTimeout, InstallReplyTooLate,
         TimesOut, appendNet, installNet
<1>6. TypeOfNet' /\ NoCallToSelf'
  BY <1>3, <1>4, <1>5 DEF TypeOfNet, NoCallToSelf, voteNet
<1>7. Positions'
  BY <1>1, <1>4 DEF TimesOut, Positions, logVars, applyVars
<1> QED
  BY <1>2, <1>6, <1>7

(***************************************************************************)
(* Requests that outlive their caller differ in nothing but that.          *)
(***************************************************************************)
LEMMA OrphanedTypes ==
    ASSUME NEW i \in Server
    PROVE  /\ \A R : R \subseteq VoteRequest /\ (\A m \in R : m.from # m.to)
                => /\ Orphaned(R, i) \subseteq VoteRequest
                   /\ \A m \in Orphaned(R, i) : m.from # m.to
           /\ \A R : R \subseteq AppendRequest /\ (\A m \in R : m.from # m.to)
                => /\ Orphaned(R, i) \subseteq AppendRequest
                   /\ \A m \in Orphaned(R, i) : m.from # m.to
           /\ \A R : R \subseteq InstallRequest
                       /\ (\A m \in R : m.from # m.to
                              /\ Len(m.snapshot.bytes) = m.snapshot.index)
                => /\ Orphaned(R, i) \subseteq InstallRequest
                   /\ \A m \in Orphaned(R, i) :
                         m.from # m.to
                           /\ Len(m.snapshot.bytes) = m.snapshot.index
<1>1. \A m \in VoteRequest : LET n == [m EXCEPT !.awaited = FALSE] IN
          n \in VoteRequest /\ n.from = m.from /\ n.to = m.to
  BY DEF VoteRequest
<1>2. \A m \in AppendRequest : LET n == [m EXCEPT !.awaited = FALSE] IN
          n \in AppendRequest /\ n.from = m.from /\ n.to = m.to
  BY DEF AppendRequest
<1>3. \A m \in InstallRequest : LET n == [m EXCEPT !.awaited = FALSE] IN
          n \in InstallRequest /\ n.from = m.from /\ n.to = m.to
            /\ n.snapshot = m.snapshot
  BY DEF InstallRequest
<1>4. ASSUME NEW R, R \subseteq VoteRequest, \A m \in R : m.from # m.to
      PROVE  /\ Orphaned(R, i) \subseteq VoteRequest
             /\ \A m \in Orphaned(R, i) : m.from # m.to
  <2>1. ASSUME NEW n \in Orphaned(R, i)
        PROVE  \E m \in R : /\ n \in VoteRequest
                            /\ n.from = m.from /\ n.to = m.to
    BY <1>1, <1>4 DEF Orphaned
  <2> QED
    BY <1>4, <2>1
<1>5. ASSUME NEW R, R \subseteq AppendRequest, \A m \in R : m.from # m.to
      PROVE  /\ Orphaned(R, i) \subseteq AppendRequest
             /\ \A m \in Orphaned(R, i) : m.from # m.to
  <2>1. ASSUME NEW n \in Orphaned(R, i)
        PROVE  \E m \in R : /\ n \in AppendRequest
                            /\ n.from = m.from /\ n.to = m.to
    BY <1>2, <1>5 DEF Orphaned
  <2> QED
    BY <1>5, <2>1
<1>6. ASSUME NEW R, R \subseteq InstallRequest,
             \A m \in R : /\ m.from # m.to
                          /\ Len(m.snapshot.bytes) = m.snapshot.index
      PROVE  /\ Orphaned(R, i) \subseteq InstallRequest
             /\ \A m \in Orphaned(R, i) :
                   m.from # m.to /\ Len(m.snapshot.bytes) = m.snapshot.index
  <2>1. ASSUME NEW n \in Orphaned(R, i)
        PROVE  \E m \in R : /\ n \in InstallRequest
                            /\ n.from = m.from /\ n.to = m.to
                            /\ n.snapshot = m.snapshot
    BY <1>3, <1>6 DEF Orphaned
  <2> QED
    BY <1>6, <2>1
<1> QED
  BY <1>4, <1>5, <1>6

LEMMA BootTypes ==
    ASSUME TypeInv, NEW i \in Server, NEW image \in ImageType,
           Len(image.bytes) = image.log.base,
           Boot(i, image),
           NEW R \in SUBSET voteRequests, voteRequests' = Orphaned(R, i),
           NEW A \in SUBSET appendRequests, appendRequests' = Orphaned(A, i),
           NEW I \in SUBSET installRequests, installRequests' = Orphaned(I, i)
    PROVE  TypeInv'
<1> USE DEF TypeInv, TypeOK
<1>1. /\ image.term \in Nat /\ image.vote \in Vote
      /\ image.log \in LogType /\ image.log.base \in Nat
      /\ image.bytes \in Commands
  BY LogIndices DEF ImageType
<1>2. TypeOfElections'
  BY <1>1 DEF Boot, TypeOfElections, Role
<1>3. TypeOfLogs'
  <2>1. [index |-> image.log.base, term |-> TermAt(image.log, image.log.base),
         bytes |-> image.bytes] \in SnapshotType
    BY <1>1, EntryAtType DEF SnapshotType
  <2>2. [j \in Server |-> 0] \in [Server -> Int]
    OBVIOUS
  <2>3. /\ nextIndex' \in [Server -> [Server -> Int]]
        /\ matchIndex' \in [Server -> [Server -> Int]]
    BY <2>2 DEF Boot, TypeOfLogs
  <2>4. snapshot' \in [Server -> SnapshotType]
    BY <2>1 DEF Boot, TypeOfLogs
  <2> QED
    BY <1>1, <2>3, <2>4 DEF Boot, TypeOfLogs
<1>4. /\ voteRequests' \subseteq VoteRequest
      /\ appendRequests' \subseteq AppendRequest
      /\ installRequests' \subseteq InstallRequest
      /\ \A m \in voteRequests' : m.from # m.to
      /\ \A m \in appendRequests' : m.from # m.to
      /\ \A m \in installRequests' :
            m.from # m.to /\ Len(m.snapshot.bytes) = m.snapshot.index
  <2>1. /\ R \subseteq VoteRequest /\ \A m \in R : m.from # m.to
        /\ A \subseteq AppendRequest /\ \A m \in A : m.from # m.to
        /\ I \subseteq InstallRequest
        /\ \A m \in I : m.from # m.to /\ Len(m.snapshot.bytes) = m.snapshot.index
    BY DEF TypeOfNet, NoCallToSelf, Positions
  <2> QED
    BY <2>1, OrphanedTypes
<1>5. TypeOfNet' /\ NoCallToSelf'
  BY <1>4 DEF Boot, Unanswered, TypeOfNet, NoCallToSelf
<1>6. TypeOfHistory'
  BY DEF Boot, TypeOfHistory, history
<1>7. Positions'
  <2>1. \A j \in Server : /\ lastApplied'[j] = commitIndex'[j]
                          /\ Len(machine'[j]) = commitIndex'[j]
                          /\ snapshot'[j].index = log'[j].base
                          /\ Len(snapshot'[j].bytes) = log'[j].base
                          /\ Len(disk'[j].bytes) = disk'[j].log.base
    BY DEF Boot, Positions, TypeOfLogs
  <2> QED
    BY <1>4, <2>1 DEF Positions
<1> QED
  BY <1>2, <1>3, <1>5, <1>6, <1>7

LEMMA RestartTypes ==
    ASSUME TypeInv, NEW i \in Server, Restart(i)
    PROVE  TypeInv'
<1>1. disk[i] \in ImageType /\ Len(disk[i].bytes) = disk[i].log.base
  BY DEF TypeInv, TypeOK, TypeOfLogs, Positions
<1> QED
  BY <1>1, BootTypes DEF Restart

LEMMA CrashInHandlerTypes ==
    ASSUME TypeInv,
           NEW m \in voteRequests \cup appendRequests \cup installRequests,
           CrashInHandler(m)
    PROVE  TypeInv'
<1> DEFINE i == m.to
           image == [disk[i] EXCEPT !.term = m.term, !.vote = None]
<1>1. i \in Server /\ m.term \in Nat
  BY DEF TypeInv, TypeOK, TypeOfNet, VoteRequest, AppendRequest, InstallRequest
<1>2. disk[i] \in ImageType /\ Len(disk[i].bytes) = disk[i].log.base
  BY <1>1 DEF TypeInv, TypeOK, TypeOfLogs, Positions
<1>3. image \in ImageType /\ Len(image.bytes) = image.log.base
  BY <1>1, <1>2 DEF ImageType, Vote
<1>4. /\ Boot(i, image)
      /\ voteRequests' = Orphaned(voteRequests \ {m}, i)
      /\ appendRequests' = Orphaned(appendRequests \ {m}, i)
      /\ installRequests' = Orphaned(installRequests \ {m}, i)
  BY DEF CrashInHandler
<1> HIDE DEF i, image
<1> QED
  BY <1>1, <1>3, <1>4, BootTypes

LEMMA NextTypeInv == TypeInv /\ [Next]_vars => TypeInv'
<1> SUFFICES ASSUME TypeInv, [Next]_vars PROVE TypeInv'
  OBVIOUS
<1>1. CASE UNCHANGED vars
  BY <1>1 DEF vars, TypeInv, TypeOK, TypeOfElections, TypeOfLogs, TypeOfNet,
              TypeOfHistory, NoCallToSelf, Positions, electionVars, logVars,
              applyVars, leaderVars, voteNet, appendNet, installNet, history,
              counters
<1>2. CASE Next
  BY <1>2, TickTypes, SolicitVoteTypes, HandleRequestVoteTypes,
     HandleVoteReplyTypes, StartTypes, ReplicateTypes, HandleAppendEntriesTypes,
     HandleAppendReplyTypes, AnswerWithSnapshotTypes, TakeSnapshotTypes,
     HandleInstallSnapshotTypes, HandleInstallReplyTypes, TimeoutTypes,
     RestartTypes, CrashInHandlerTypes
  DEF Next
<1> QED
  BY <1>1, <1>2

(***************************************************************************)
(* Type correctness, for any number of peers and any bounds.               *)
(***************************************************************************)
THEOREM TypeInvariance == Spec => []TypeInv
BY InitTypeInv, NextTypeInv, PTL DEF Spec

THEOREM TypeCorrect == Spec => []TypeOK
<1>1. TypeInv => TypeOK
  BY DEF TypeInv
<1> QED
  BY <1>1, TypeInvariance, PTL

----------------------------------------------------------------------------
(* The commit index.                                                       *)

LEMMA UpdateLeaderCommitAdvances ==
    ASSUME TypeOfLogs, NEW i \in Server, UpdateLeaderCommit(i)
    PROVE  \A j \in Server : commitIndex'[j] >= commitIndex[j]
<1>1. \A j \in Server : commitIndex[j] \in Int
  BY DEF TypeOfLogs
<1>2. log[i] \in LogType
  BY DEF TypeOfLogs
<1>3. CASE commitIndex' = commitIndex
  BY <1>1, <1>3
<1>4. ASSUME NEW c \in CommitTargets(i, matchIndex'[i]),
             commitIndex' = [commitIndex EXCEPT ![i] = c]
      PROVE  \A j \in Server : commitIndex'[j] >= commitIndex[j]
  <2>1. c \in Int /\ c >= commitIndex[i]
    BY <1>1, <1>2, LogIndices DEF CommitTargets
  <2> QED
    BY <1>1, <1>4, <2>1 DEF TypeOfLogs
<1> QED
  BY <1>3, <1>4 DEF UpdateLeaderCommit

LEMMA NextCommitAdvances ==
    ASSUME TypeInv, [Next]_vars
    PROVE  CommitAdvances
<1> USE DEF TypeInv, TypeOK
<1>1. \A j \in Server : commitIndex[j] \in Int
  BY DEF TypeOfLogs
<1>2. ASSUME UNCHANGED commitIndex PROVE CommitAdvances
  BY <1>1, <1>2 DEF CommitAdvances
<1>3. ASSUME \/ \E i \in Server : Tick(i)
             \/ \E g \in soliciting : SolicitVote(g)
             \/ \E m \in voteRequests : HandleRequestVote(m)
             \/ \E m \in voteReplies : HandleVoteReply(m)
             \/ \E i \in Server : Start(i)
             \/ \E i \in Server : \E j \in Others(i) : Replicate(i, j)
             \/ \E m \in appendReplies : AnswerWithSnapshot(m)
             \/ \E i \in Server : \E k \in Indices(log[i]) : TakeSnapshot(i, k)
      PROVE  CommitAdvances
  BY <1>2, <1>3 DEF Tick, SolicitVote, HandleRequestVote, HandleVoteReply, Start,
                    Replicate, AnswerWithSnapshot, TakeSnapshot, logVars, applyVars
<1>4. ASSUME NEW m \in appendRequests, HandleAppendEntries(m)
      PROVE  CommitAdvances
  <2>1. m.to \in Server /\ m.prevIndex \in Int /\ m.leaderCommit \in Int
           /\ Len(m.entries) \in Nat
    BY LenProperties DEF TypeOfNet, AppendRequest
  <2>2. FollowerCommit(m.to, m) \in Int
           /\ FollowerCommit(m.to, m) >= commitIndex[m.to]
    BY <1>1, <2>1 DEF FollowerCommit
  <2>3. CASE UNCHANGED commitIndex
    BY <1>2, <2>3
  <2>4. CASE commitIndex' = [commitIndex EXCEPT ![m.to] = FollowerCommit(m.to, m)]
    BY <1>1, <2>1, <2>2, <2>4 DEF TypeOfLogs, CommitAdvances
  <2> QED
    BY <1>4, <2>3, <2>4 DEF HandleAppendEntries, applyVars
<1>5. ASSUME NEW m \in appendReplies, HandleAppendReply(m) PROVE CommitAdvances
  <2>1. m.to \in Server
    BY DEF TypeOfNet, AppendReplyType
  <2> QED
    BY <1>2, <1>5, <2>1, UpdateLeaderCommitAdvances
    DEF HandleAppendReply, NewerReply, LateReply, AppendSucceeded, AppendRejected,
        applyVars, CommitAdvances
<1>6. ASSUME NEW m \in installRequests, HandleInstallSnapshot(m)
      PROVE  CommitAdvances
  <2>1. m.to \in Server /\ m.snapshot.index \in Int
    BY DEF TypeOfNet, InstallRequest, SnapshotType
  <2>2. CASE Installs(m.to, m)
    <3>1. commitIndex' = [commitIndex EXCEPT ![m.to] = m.snapshot.index]
      BY <1>6, <2>2 DEF HandleInstallSnapshot
    <3>2. m.snapshot.index >= commitIndex[m.to]
      BY <2>2 DEF Installs
    <3> QED
      BY <1>1, <2>1, <3>1, <3>2 DEF TypeOfLogs, CommitAdvances
  <2>3. CASE ~Installs(m.to, m)
    BY <1>2, <1>6, <2>3 DEF HandleInstallSnapshot, applyVars
  <2> QED
    BY <2>2, <2>3
<1>7. ASSUME NEW m \in installReplies, HandleInstallReply(m) PROVE CommitAdvances
  <2>1. m.to \in Server
    BY DEF TypeOfNet, InstallReply
  <2> QED
    BY <1>2, <1>7, <2>1, UpdateLeaderCommitAdvances
    DEF HandleInstallReply, NewerReply, LateReply, InstallAnswered, applyVars,
        CommitAdvances
<1>8. ASSUME NEW caller, NEW t, TimesOut(caller, t) PROVE CommitAdvances
  BY <1>2, <1>8 DEF TimesOut, logVars, applyVars
<1>9. ASSUME NEW i, NEW image, Boot(i, image) PROVE CommitAdvances
  <2>1. restarts \in Nat /\ restarts' = restarts + 1
    BY <1>9 DEF Boot, TypeOfHistory
  <2> QED
    BY <2>1 DEF CommitAdvances
<1>10. CASE UNCHANGED vars
  BY <1>2, <1>10 DEF vars, logVars, applyVars
<1> QED
  BY <1>3, <1>4, <1>5, <1>6, <1>7, <1>8, <1>9, <1>10
  DEF Next, AppendTimeout, AppendReplyTooLate, InstallTimeout,
      InstallReplyTooLate, Restart, CrashInHandler

(***************************************************************************)
(* Nothing but a restart takes a commit index back.                        *)
(***************************************************************************)
THEOREM CommitNeverRewinds == Spec => CommitOnlyAdvances
<1>1. TypeInv /\ [Next]_vars => [CommitAdvances]_vars
  BY NextCommitAdvances
<1> QED
  BY <1>1, TypeInvariance, PTL DEF Spec, CommitOnlyAdvances

----------------------------------------------------------------------------
(* Part two: elections and what survives a crash.  The vote counting of    *)
(* requestVote is sound for at most three peers only, so the theorem about *)
(* leaders is one about such groups; what it rests on holds for any.       *)

----------------------------------------------------------------------------
(* The disk.                                                               *)

LEMMA PersistInSync ==
    ASSUME TypeOfLogs, DiskInSync, NEW i \in Server, Persist(i),
           \A j \in Server \ {i} : /\ currentTerm'[j] = currentTerm[j]
                                   /\ votedFor'[j] = votedFor[j]
                                   /\ log'[j] = log[j]
                                   /\ snapshot'[j] = snapshot[j]
    PROVE  DiskInSync'
BY DEF TypeOfLogs, DiskInSync, Persist

LEMMA UnchangedInSync ==
    ASSUME DiskInSync, UNCHANGED <<currentTerm, votedFor, log, snapshot, disk>>
    PROVE  DiskInSync'
BY DEF DiskInSync, Image

(***************************************************************************)
(* An AppendEntries without entries changes no log, which is why it need   *)
(* not be saved.                                                           *)
(***************************************************************************)
LEMMA NothingAppended ==
    ASSUME NEW l, NEW k, NEW es, Len(es) = 0
    PROVE  AppendEntries(l, k, es) = l
<1>1. Diverging(l, k, es) = {}
  BY DEF Diverging
<1> QED
  BY <1>1 DEF AppendEntries

LEMMA BootInSync ==
    ASSUME TypeInv, DiskInSync, NEW i \in Server, NEW image \in ImageType,
           Boot(i, image)
    PROVE  DiskInSync'
<1>1. image = Image(image.term, image.vote, image.log, image.bytes)
  BY DEF Image, ImageType
<1> QED
  BY <1>1 DEF Boot, DiskInSync, TypeInv, TypeOK, TypeOfElections, TypeOfLogs, Image

LEMMA NextInSync ==
    ASSUME TypeInv, DiskInSync, [Next]_vars
    PROVE  DiskInSync'
<1> USE DEF TypeInv, TypeOK
<1>1. ASSUME NEW i \in Server, Tick(i) PROVE DiskInSync'
  <2>1. CASE StaysQuiet(i)
    BY <1>1, <2>1, UnchangedInSync DEF Tick, PersistIf, logVars
  <2>2. CASE ~StaysQuiet(i)
    BY <1>1, <2>2, PersistInSync
    DEF Tick, ToCandidate, PersistIf, logVars, TypeOfElections
  <2> QED
    BY <2>1, <2>2
<1>2. ASSUME NEW g \in soliciting, SolicitVote(g) PROVE DiskInSync'
  BY <1>2, UnchangedInSync DEF SolicitVote, electionVars, logVars
<1>3. ASSUME NEW m \in voteRequests, HandleRequestVote(m) PROVE DiskInSync'
  <2>1. m.to \in Server
    BY DEF TypeOfNet, VoteRequest
  <2>2. CASE GrantsVote(m.to, m) \/ Newer(m.to, m.term)
    BY <1>3, <2>1, <2>2, PersistInSync
    DEF HandleRequestVote, PersistIf, logVars, TypeOfElections
  <2>3. CASE ~(GrantsVote(m.to, m) \/ Newer(m.to, m.term))
    <3>1. votedFor' = votedFor
      BY <1>3, <2>3 DEF HandleRequestVote, TypeOfElections
    <3> QED
      BY <1>3, <2>3, <3>1, UnchangedInSync
      DEF HandleRequestVote, PersistIf, logVars
  <2> QED
    BY <2>2, <2>3
<1>4. ASSUME NEW m \in voteReplies, HandleVoteReply(m) PROVE DiskInSync'
  <2>1. m.to \in Server
    BY DEF TypeOfNet, VoteReply
  <2>2. CASE Newer(m.to, m.term)
    BY <1>4, <2>1, <2>2, PersistInSync
    DEF HandleVoteReply, StepDown, PersistIf, logVars, TypeOfElections
  <2>3. CASE ~Newer(m.to, m.term)
    BY <1>4, <2>3, UnchangedInSync DEF HandleVoteReply, PersistIf, logVars
  <2> QED
    BY <2>2, <2>3
<1>5. ASSUME NEW i \in Server, Start(i) PROVE DiskInSync'
  BY <1>5, PersistInSync DEF Start, electionVars, TypeOfLogs
<1>6. ASSUME NEW i \in Server, NEW j \in Others(i), Replicate(i, j)
      PROVE  DiskInSync'
  BY <1>6, UnchangedInSync DEF Replicate, electionVars, logVars
<1>7. ASSUME NEW m \in appendRequests, HandleAppendEntries(m) PROVE DiskInSync'
  <2> DEFINE i == m.to
             ok == ~(m.term < currentTerm[i]) /\ Matches(log[i], m)
  <2>1. i \in Server /\ Len(m.entries) \in Nat
    BY LenProperties DEF TypeOfNet, AppendRequest
  <2>2. CASE Newer(i, m.term) \/ (ok /\ Len(m.entries) > 0)
    BY <1>7, <2>1, <2>2, PersistInSync
    DEF HandleAppendEntries, Follow, PersistIf, TypeOfElections, TypeOfLogs
  <2>3. CASE ~(Newer(i, m.term) \/ (ok /\ Len(m.entries) > 0))
    <3>1. UNCHANGED <<currentTerm, votedFor, snapshot, disk>>
      BY <1>7, <2>1, <2>3
      DEF HandleAppendEntries, Follow, PersistIf, TypeOfElections
    <3>2. log' = log
      <4>1. CASE ok
        <5>1. AppendEntries(log[i], m.prevIndex + 1, m.entries) = log[i]
          BY <2>1, <2>3, <4>1, NothingAppended
        <5> QED
          BY <1>7, <2>1, <4>1, <5>1 DEF HandleAppendEntries, TypeOfLogs
      <4> QED
        BY <1>7, <4>1 DEF HandleAppendEntries
    <3> QED
      BY <3>1, <3>2, UnchangedInSync
  <2> QED
    BY <2>2, <2>3
<1>8. ASSUME NEW i \in Server, NEW m, NewerReply(i, m) PROVE DiskInSync'
  BY <1>8, PersistInSync DEF NewerReply, StepDown, TypeOfElections
<1>9. ASSUME NEW m \in appendReplies, HandleAppendReply(m) PROVE DiskInSync'
  <2>1. m.to \in Server
    BY DEF TypeOfNet, AppendReplyType
  <2> QED
    BY <1>8, <1>9, <2>1, UnchangedInSync
    DEF HandleAppendReply, LateReply, AppendSucceeded, AppendRejected, electionVars
<1>10. ASSUME NEW m \in appendReplies, AnswerWithSnapshot(m) PROVE DiskInSync'
  BY <1>10, UnchangedInSync DEF AnswerWithSnapshot, electionVars, logVars
<1>11. ASSUME NEW i \in Server, NEW k \in Indices(log[i]), TakeSnapshot(i, k)
       PROVE  DiskInSync'
  BY <1>11, PersistInSync DEF TakeSnapshot, electionVars, TypeOfLogs
<1>12. ASSUME NEW m \in installRequests, HandleInstallSnapshot(m)
       PROVE  DiskInSync'
  <2>1. m.to \in Server
    BY DEF TypeOfNet, InstallRequest
  <2>2. CASE Newer(m.to, m.term) \/ Installs(m.to, m)
    BY <1>12, <2>1, <2>2, PersistInSync
    DEF HandleInstallSnapshot, Follow, PersistIf, TypeOfElections, TypeOfLogs
  <2>3. CASE ~(Newer(m.to, m.term) \/ Installs(m.to, m))
    BY <1>12, <2>1, <2>3, UnchangedInSync
    DEF HandleInstallSnapshot, Follow, PersistIf, TypeOfElections
  <2> QED
    BY <2>2, <2>3
<1>13. ASSUME NEW m \in installReplies, HandleInstallReply(m) PROVE DiskInSync'
  <2>1. m.to \in Server
    BY DEF TypeOfNet, InstallReply
  <2> QED
    BY <1>8, <1>13, <2>1, UnchangedInSync
    DEF HandleInstallReply, LateReply, InstallAnswered, electionVars
<1>14. ASSUME NEW caller, NEW t, TimesOut(caller, t) PROVE DiskInSync'
  BY <1>14, UnchangedInSync DEF TimesOut, electionVars, logVars
<1>15. ASSUME NEW i \in Server, Restart(i) PROVE DiskInSync'
  BY <1>15, BootInSync DEF Restart, TypeOfLogs
<1>16. ASSUME NEW m \in voteRequests \cup appendRequests \cup installRequests,
              CrashInHandler(m)
       PROVE  DiskInSync'
  <2> DEFINE image == [disk[m.to] EXCEPT !.term = m.term, !.vote = None]
  <2>1. m.to \in Server /\ m.term \in Nat
    BY DEF TypeOfNet, VoteRequest, AppendRequest, InstallRequest
  <2>2. image \in ImageType
    BY <2>1 DEF TypeOfLogs, ImageType, Vote
  <2>3. Boot(m.to, image)
    BY <1>16 DEF CrashInHandler
  <2> HIDE DEF image
  <2> QED
    BY <2>1, <2>2, <2>3, BootInSync
<1>17. CASE UNCHANGED vars
  BY <1>17, UnchangedInSync DEF vars, electionVars, logVars
<1> QED
  BY <1>1, <1>2, <1>3, <1>4, <1>5, <1>6, <1>7, <1>9, <1>10, <1>11, <1>12, <1>13,
     <1>14, <1>15, <1>16, <1>17
  DEF Next, AppendTimeout, AppendReplyTooLate, InstallTimeout, InstallReplyTooLate

(***************************************************************************)
(* What a peer holds between two steps is what a crash would leave it.     *)
(***************************************************************************)
THEOREM DiskInvariance == Spec => []DiskInSync
<1>1. Init => DiskInSync
  BY DEF Init, DiskInSync, InitialImage, Image
<1> QED
  BY <1>1, TypeInvariance, NextInSync, PTL DEF Spec

----------------------------------------------------------------------------
(* Votes.                                                                  *)

(***************************************************************************)
(* What a step does to the vote of a peer: nothing, clear it for a newer   *)
(* term, or cast it for somebody the peer has not voted against.           *)
(***************************************************************************)
KeepsVotes == UNCHANGED <<currentTerm, votedFor, ballots>>

ClearsVote(i, t) ==
    /\ t > currentTerm[i]
    /\ currentTerm' = [currentTerm EXCEPT ![i] = t]
    /\ votedFor' = [votedFor EXCEPT ![i] = None]
    /\ UNCHANGED ballots

CastsVote(i, t, c) ==
    /\ t > currentTerm[i] \/ (t = currentTerm[i] /\ votedFor[i] \in {None, c})
    /\ currentTerm' = [currentTerm EXCEPT ![i] = t]
    /\ votedFor' = [votedFor EXCEPT ![i] = c]
    /\ ballots' = ballots \cup {<<i, t, c>>}

VoteStep ==
    \/ KeepsVotes
    \/ \E i \in Server, t \in Nat : ClearsVote(i, t)
    \/ \E i \in Server, t \in Nat, c \in Server : CastsVote(i, t, c)

(***************************************************************************)
(* A ballot is of a term its peer has reached, and votedFor is the one of  *)
(* the current term: what makes VotesOnce inductive.                       *)
(***************************************************************************)
BallotsKept ==
    \A b \in ballots :
        /\ b[2] <= currentTerm[b[1]]
        /\ b[2] = currentTerm[b[1]] => votedFor[b[1]] = b[3]

VotesInv == VotesOnce /\ BallotsKept

LEMMA VoteStepKeepsVotesOnce ==
    ASSUME TypeOK, VotesInv, VoteStep
    PROVE  VotesInv'
<1> USE DEF TypeOK
<1>1. \A b \in ballots : /\ b[1] \in Server /\ b[2] \in Nat /\ b[3] \in Server
                         /\ b = <<b[1], b[2], b[3]>>
  BY DEF TypeOfHistory
<1>2. CASE KeepsVotes
  BY <1>2 DEF KeepsVotes, VotesInv, VotesOnce, BallotsKept
<1>3. ASSUME NEW i \in Server, NEW t \in Nat, ClearsVote(i, t)
      PROVE  VotesInv'
  BY <1>1, <1>3
  DEF ClearsVote, VotesInv, VotesOnce, BallotsKept, TypeOfElections
<1>4. ASSUME NEW i \in Server, NEW t \in Nat, NEW c \in Server, CastsVote(i, t, c)
      PROVE  VotesInv'
  <2>1. None # c
    BY NoneAssumption
  <2>2. \A b \in ballots : b[1] = i => b[2] < t \/ (b[2] = t /\ b[3] = c)
    BY <1>1, <1>4, <2>1, NoneAssumption
    DEF CastsVote, VotesInv, BallotsKept, TypeOfElections
  <2>3. \A b \in ballots' : b \in ballots \/ (b[1] = i /\ b[2] = t /\ b[3] = c)
    BY <1>4 DEF CastsVote
  <2>4. VotesOnce'
    BY <1>1, <2>2, <2>3 DEF VotesInv, VotesOnce
  <2>5. /\ currentTerm'[i] = t /\ votedFor'[i] = c
        /\ \A j \in Server \ {i} : /\ currentTerm'[j] = currentTerm[j]
                                   /\ votedFor'[j] = votedFor[j]
    BY <1>4 DEF CastsVote, TypeOfElections
  <2>6. BallotsKept'
    BY <1>1, <2>2, <2>3, <2>5 DEF VotesInv, BallotsKept
  <2> QED
    BY <2>4, <2>6 DEF VotesInv
<1> QED
  BY <1>2, <1>3, <1>4 DEF VoteStep

LEMMA NextVoteStep ==
    ASSUME TypeOK, DiskInSync, [Next]_vars
    PROVE  VoteStep
<1> USE DEF TypeOK
<1>1. ASSUME NEW i \in Server, Tick(i) PROVE VoteStep
  <2>1. CASE StaysQuiet(i)
    BY <1>1, <2>1 DEF Tick, VoteStep, KeepsVotes
  <2>2. CASE ~StaysQuiet(i)
    <3>1. currentTerm[i] + 1 \in Nat /\ currentTerm[i] + 1 > currentTerm[i]
      BY DEF TypeOfElections
    <3>2. CastsVote(i, currentTerm[i] + 1, i)
      BY <1>1, <2>2, <3>1 DEF Tick, ToCandidate, CastsVote, TypeOfElections
    <3> QED
      BY <3>1, <3>2 DEF VoteStep
  <2> QED
    BY <2>1, <2>2
<1>2. ASSUME NEW m \in voteRequests, HandleRequestVote(m) PROVE VoteStep
  <2> DEFINE i == m.to
  <2>1. i \in Server /\ m.from \in Server /\ m.term \in Nat /\ currentTerm[i] \in Nat
    BY DEF TypeOfNet, TypeOfElections, VoteRequest
  <2>2. CASE GrantsVote(i, m)
    <3>1. \/ m.term > currentTerm[i]
          \/ m.term = currentTerm[i] /\ votedFor[i] \in {None, m.from}
      BY <2>1, <2>2 DEF GrantsVote, Newer
    <3>2. currentTerm' = [currentTerm EXCEPT ![i] = m.term]
      BY <1>2, <2>1, <3>1 DEF HandleRequestVote, Newer, TypeOfElections
    <3>3. CastsVote(i, m.term, m.from)
      BY <1>2, <2>2, <3>1, <3>2 DEF HandleRequestVote, CastsVote
    <3> QED
      BY <2>1, <3>3 DEF VoteStep
  <2>3. CASE ~GrantsVote(i, m) /\ Newer(i, m.term)
    <3>1. ClearsVote(i, m.term)
      BY <1>2, <2>1, <2>3 DEF HandleRequestVote, Newer, ClearsVote
    <3> QED
      BY <2>1, <3>1 DEF VoteStep
  <2>4. CASE ~GrantsVote(i, m) /\ ~Newer(i, m.term)
    BY <1>2, <2>1, <2>4
    DEF HandleRequestVote, VoteStep, KeepsVotes, TypeOfElections
  <2> QED
    BY <2>2, <2>3, <2>4
<1>3. ASSUME NEW i \in Server, NEW t \in Nat, Newer(i, t), StepDown(i, t),
             UNCHANGED ballots
      PROVE  VoteStep
  <2>1. ClearsVote(i, t)
    BY <1>3 DEF Newer, StepDown, ClearsVote
  <2> QED
    BY <2>1 DEF VoteStep
<1>4. ASSUME NEW m \in voteReplies, HandleVoteReply(m) PROVE VoteStep
  <2>1. m.to \in Server /\ m.term \in Nat
    BY DEF TypeOfNet, VoteReply
  <2> QED
    BY <1>3, <1>4, <2>1 DEF HandleVoteReply, VoteStep, KeepsVotes
<1>5. ASSUME NEW m, m.to \in Server, m.term \in Nat, Follow(m.to, m),
             UNCHANGED ballots
      PROVE  VoteStep
  <2>1. CASE Newer(m.to, m.term)
    <3>1. ClearsVote(m.to, m.term)
      BY <1>5, <2>1 DEF Follow, Newer, ClearsVote
    <3> QED
      BY <1>5, <3>1 DEF VoteStep
  <2>2. CASE ~Newer(m.to, m.term)
    BY <1>5, <2>2 DEF Follow, VoteStep, KeepsVotes, TypeOfElections
  <2> QED
    BY <2>1, <2>2
<1>6. ASSUME NEW m \in appendRequests, HandleAppendEntries(m) PROVE VoteStep
  BY <1>5, <1>6 DEF HandleAppendEntries, TypeOfNet, AppendRequest
<1>7. ASSUME NEW m \in installRequests, HandleInstallSnapshot(m) PROVE VoteStep
  BY <1>5, <1>7 DEF HandleInstallSnapshot, TypeOfNet, InstallRequest
<1>8. ASSUME NEW m \in appendReplies, HandleAppendReply(m) PROVE VoteStep
  <2>1. m.to \in Server /\ m.term \in Nat
    BY DEF TypeOfNet, AppendReplyType
  <2> QED
    BY <1>3, <1>8, <2>1
    DEF HandleAppendReply, NewerReply, LateReply, AppendSucceeded, AppendRejected,
        electionVars, VoteStep, KeepsVotes
<1>9. ASSUME NEW m \in installReplies, HandleInstallReply(m) PROVE VoteStep
  <2>1. m.to \in Server /\ m.term \in Nat
    BY DEF TypeOfNet, InstallReply
  <2> QED
    BY <1>3, <1>9, <2>1
    DEF HandleInstallReply, NewerReply, LateReply, InstallAnswered, electionVars,
        VoteStep, KeepsVotes
<1>10. ASSUME \/ \E g \in soliciting : SolicitVote(g)
              \/ \E i \in Server : Start(i)
              \/ \E i \in Server : \E j \in Others(i) : Replicate(i, j)
              \/ \E m \in appendReplies : AnswerWithSnapshot(m)
              \/ \E i \in Server : \E k \in Indices(log[i]) : TakeSnapshot(i, k)
       PROVE  VoteStep
  BY <1>10 DEF SolicitVote, Start, Replicate, AnswerWithSnapshot, TakeSnapshot,
               electionVars, history, VoteStep, KeepsVotes
<1>11. ASSUME NEW caller, NEW t, TimesOut(caller, t) PROVE VoteStep
  BY <1>11 DEF TimesOut, electionVars, history, VoteStep, KeepsVotes
<1>12. ASSUME NEW i \in Server, Restart(i) PROVE VoteStep
  <2> DEFINE image == Image(currentTerm[i], votedFor[i], log[i], snapshot[i].bytes)
  <2>1. disk[i] = image
    BY DEF DiskInSync
  <2>2. image.term = currentTerm[i] /\ image.vote = votedFor[i]
    BY DEF Image
  <2> HIDE DEF image
  <2>3. disk[i].term = currentTerm[i] /\ disk[i].vote = votedFor[i]
    BY <2>1, <2>2
  <2> QED
    BY <1>12, <2>3
    DEF Restart, Boot, history, TypeOfElections, VoteStep, KeepsVotes
<1>13. ASSUME NEW m \in voteRequests \cup appendRequests \cup installRequests,
              CrashInHandler(m)
       PROVE  VoteStep
  <2>1. m.to \in Server /\ m.term \in Nat
    BY DEF TypeOfNet, VoteRequest, AppendRequest, InstallRequest
  <2>2. disk[m.to] \in ImageType
    BY <2>1 DEF TypeOfLogs
  <2>3. ClearsVote(m.to, m.term)
    BY <1>13, <2>1, <2>2
    DEF CrashInHandler, Boot, Newer, history, ClearsVote, ImageType
  <2> QED
    BY <2>1, <2>3 DEF VoteStep
<1>14. CASE UNCHANGED vars
  BY <1>14 DEF vars, electionVars, history, VoteStep, KeepsVotes
<1> QED
  BY <1>1, <1>2, <1>4, <1>6, <1>7, <1>8, <1>9, <1>10, <1>11, <1>12, <1>13, <1>14
  DEF Next, AppendTimeout, AppendReplyTooLate, InstallTimeout, InstallReplyTooLate

(***************************************************************************)
(* A peer votes for one candidate of a term, whatever crashes: for any     *)
(* number of peers.                                                        *)
(***************************************************************************)
THEOREM VotesInvariance == Spec => []VotesInv
<1>1. Init => VotesInv
  BY DEF Init, VotesInv, VotesOnce, BallotsKept
<1>2. TypeOK /\ DiskInSync /\ VotesInv /\ [Next]_vars => VotesInv'
  BY NextVoteStep, VoteStepKeepsVotesOnce
<1> QED
  BY <1>1, <1>2, TypeCorrect, DiskInvariance, PTL DEF Spec

THEOREM EachPeerVotesOnce == Spec => []VotesOnce
<1>1. VotesInv => VotesOnce
  BY DEF VotesInv
<1> QED
  BY <1>1, VotesInvariance, PTL

----------------------------------------------------------------------------
(* Leaders.                                                                *)

(***************************************************************************)
(* A granted reply stands for a ballot, a candidate has voted for itself,  *)
(* and a leader was elected with its own vote and at least one more.  That *)
(* is all the code guarantees: voteCount may count one peer twice.         *)
(***************************************************************************)
RepliesTrue ==
    \A r \in voteReplies : r.granted => <<r.from, r.asked, r.to>> \in ballots

CandidatesVoted ==
    \A i \in Server : state[i] = Candidate => <<i, currentTerm[i], i>> \in ballots

ElectedByTwo ==
    \A e \in elected :
        /\ <<e[2], e[1], e[2]>> \in ballots
        /\ \E v \in Server \ {e[2]} : <<v, e[1], e[2]>> \in ballots

ElectedInv == RepliesTrue /\ CandidatesVoted /\ ElectedByTwo

(***************************************************************************)
(* The steps that have no part in an election.                             *)
(***************************************************************************)
NoElectionStep ==
    /\ UNCHANGED <<ballots, elected>>
    /\ voteReplies' \subseteq voteReplies
    /\ \A i \in Server : state'[i] = Candidate =>
           state[i] = Candidate /\ currentTerm'[i] = currentTerm[i]

LEMMA NoElectionKeepsElected ==
    ASSUME ElectedInv, NoElectionStep
    PROVE  ElectedInv'
BY DEF ElectedInv, RepliesTrue, CandidatesVoted, ElectedByTwo, NoElectionStep

LEMMA OtherStepsAreNoElection ==
    ASSUME TypeOK, [Next]_vars,
           ~ \E i \in Server : Tick(i),
           ~ \E m \in voteRequests : HandleRequestVote(m),
           ~ \E m \in voteReplies : HandleVoteReply(m)
    PROVE  NoElectionStep
<1> USE DEF TypeOK
<1>1. ASSUME UNCHANGED <<electionVars, ballots, elected>>,
             voteReplies' \subseteq voteReplies
      PROVE  NoElectionStep
  BY <1>1 DEF NoElectionStep, electionVars
<1>2. ASSUME NEW i \in Server, NEW m, NewerReply(i, m),
             UNCHANGED <<ballots, elected, voteReplies>>
      PROVE  NoElectionStep
  BY <1>2, RolesAssumption
  DEF NewerReply, StepDown, NoElectionStep, TypeOfElections
<1>3. ASSUME \/ \E g \in soliciting : SolicitVote(g)
             \/ \E i \in Server : Start(i)
             \/ \E i \in Server : \E j \in Others(i) : Replicate(i, j)
             \/ \E m \in appendReplies : AnswerWithSnapshot(m)
             \/ \E i \in Server : \E k \in Indices(log[i]) : TakeSnapshot(i, k)
      PROVE  NoElectionStep
  BY <1>1, <1>3 DEF SolicitVote, Start, Replicate, AnswerWithSnapshot,
                    TakeSnapshot, voteNet, history
<1>4. ASSUME NEW m \in appendRequests, HandleAppendEntries(m)
      PROVE  NoElectionStep
  <2>1. m.to \in Server
    BY DEF TypeOfNet, AppendRequest
  <2> QED
    BY <1>4, <2>1, RolesAssumption
    DEF HandleAppendEntries, Follow, Newer, voteNet, NoElectionStep,
        TypeOfElections
<1>5. ASSUME NEW m \in installRequests, HandleInstallSnapshot(m)
      PROVE  NoElectionStep
  <2>1. m.to \in Server
    BY DEF TypeOfNet, InstallRequest
  <2> QED
    BY <1>5, <2>1, RolesAssumption
    DEF HandleInstallSnapshot, Follow, Newer, voteNet, NoElectionStep,
        TypeOfElections
<1>6. ASSUME NEW m \in appendReplies, HandleAppendReply(m)
      PROVE  NoElectionStep
  <2>1. m.to \in Server
    BY DEF TypeOfNet, AppendReplyType
  <2> QED
    BY <1>1, <1>2, <1>6, <2>1
    DEF HandleAppendReply, LateReply, AppendSucceeded, AppendRejected, voteNet
<1>7. ASSUME NEW m \in installReplies, HandleInstallReply(m)
      PROVE  NoElectionStep
  <2>1. m.to \in Server
    BY DEF TypeOfNet, InstallReply
  <2> QED
    BY <1>1, <1>2, <1>7, <2>1
    DEF HandleInstallReply, LateReply, InstallAnswered, voteNet
<1>8. ASSUME NEW caller, NEW t, TimesOut(caller, t) PROVE NoElectionStep
  BY <1>1, <1>8 DEF TimesOut, voteNet, history
<1>9. ASSUME NEW i \in Server, NEW image, Boot(i, image) PROVE NoElectionStep
  BY <1>9, RolesAssumption
  DEF Boot, Unanswered, history, NoElectionStep, TypeOfElections
<1>10. ASSUME NEW m \in voteRequests \cup appendRequests \cup installRequests,
              CrashInHandler(m)
       PROVE  NoElectionStep
  <2>1. m.to \in Server
    BY DEF TypeOfNet, VoteRequest, AppendRequest, InstallRequest
  <2> QED
    BY <1>9, <1>10, <2>1 DEF CrashInHandler
<1>11. CASE UNCHANGED vars
  BY <1>1, <1>11 DEF vars, voteNet, history
<1> QED
  BY <1>3, <1>4, <1>5, <1>6, <1>7, <1>8, <1>9, <1>10, <1>11
  DEF Next, AppendTimeout, AppendReplyTooLate, InstallTimeout,
      InstallReplyTooLate, Restart

LEMMA TickKeepsElected ==
    ASSUME TypeOK, ElectedInv, NEW i \in Server, Tick(i)
    PROVE  ElectedInv'
<1> USE DEF TypeOK
<1>1. CASE StaysQuiet(i)
  BY <1>1, NoElectionKeepsElected DEF Tick, NoElectionStep
<1>2. CASE ~StaysQuiet(i)
  <2>1. /\ UNCHANGED <<voteReplies, elected>>
        /\ currentTerm'[i] = currentTerm[i] + 1
        /\ \A j \in Server \ {i} : /\ state'[j] = state[j]
                                   /\ currentTerm'[j] = currentTerm[j]
        /\ ballots' = ballots \cup {<<i, currentTerm'[i], i>>}
    BY <1>2 DEF Tick, ToCandidate, TypeOfElections
  <2> QED
    BY <2>1 DEF ElectedInv, RepliesTrue, CandidatesVoted, ElectedByTwo
<1> QED
  BY <1>1, <1>2

LEMMA HandleRequestVoteKeepsElected ==
    ASSUME TypeOK, ElectedInv, NEW m \in voteRequests, HandleRequestVote(m)
    PROVE  ElectedInv'
<1> USE DEF TypeOK
<1> DEFINE i == m.to
<1>1. i \in Server /\ m \in VoteRequest
  BY DEF TypeOfNet, VoteRequest
<1>2. /\ elected' = elected
      /\ ballots \subseteq ballots'
      /\ GrantsVote(i, m) => <<i, m.term, m.from>> \in ballots'
  BY DEF HandleRequestVote
<1>3. RepliesTrue'
  <2>1. \A r \in voteReplies' :
            \/ r \in voteReplies
            \/ r.from = i /\ r.to = m.from /\ r.asked = m.term
                 /\ r.granted = GrantsVote(i, m)
    BY DEF HandleRequestVote
  <2> QED
    BY <1>2, <2>1 DEF ElectedInv, RepliesTrue
<1>4. CandidatesVoted'
  <2>1. \A j \in Server : state'[j] = Candidate =>
            state[j] = Candidate /\ currentTerm'[j] = currentTerm[j]
    BY <1>1, RolesAssumption DEF HandleRequestVote, TypeOfElections
  <2> QED
    BY <1>2, <2>1 DEF ElectedInv, CandidatesVoted
<1>5. ElectedByTwo'
  BY <1>2 DEF ElectedInv, ElectedByTwo
<1> QED
  BY <1>3, <1>4, <1>5 DEF ElectedInv

LEMMA HandleVoteReplyKeepsElected ==
    ASSUME TypeOK, ElectedInv, NEW m \in voteReplies, HandleVoteReply(m)
    PROVE  ElectedInv'
<1> USE DEF TypeOK
<1> DEFINE i == m.to
<1>1. i \in Server /\ m.from \in Server /\ m.from # i
  BY DEF TypeOfNet, NoCallToSelf, VoteReply
<1>2. ballots' = ballots /\ voteReplies' \subseteq voteReplies
  BY DEF HandleVoteReply
<1>3. CandidatesVoted'
  <2>1. \A j \in Server : state'[j] = Candidate =>
            state[j] = Candidate /\ currentTerm'[j] = currentTerm[j]
    BY <1>1, RolesAssumption
    DEF HandleVoteReply, StepDown, ToLeader, TypeOfElections
  <2> QED
    BY <1>2, <2>1 DEF ElectedInv, CandidatesVoted
<1>4. ElectedByTwo'
  <2>1. CASE elected' = elected
    BY <1>2, <2>1 DEF ElectedInv, ElectedByTwo
  <2>2. CASE CountsVote(i, m) /\ elected' = elected \cup {<<currentTerm[i], i>>}
    <3>1. /\ state[i] = Candidate /\ m.granted
          /\ m.asked = currentTerm[i]
      BY <2>2 DEF CountsVote
    <3>2. /\ <<i, currentTerm[i], i>> \in ballots
          /\ <<m.from, currentTerm[i], i>> \in ballots
      BY <1>1, <3>1 DEF ElectedInv, CandidatesVoted, RepliesTrue
    <3> DEFINE e == <<currentTerm[i], i>>
    <3>3. /\ <<e[2], e[1], e[2]>> \in ballots
          /\ \E v \in Server \ {e[2]} : <<v, e[1], e[2]>> \in ballots
      BY <1>1, <3>2
    <3> HIDE DEF e
    <3>4. elected' = elected \cup {e}
      BY <2>2 DEF e
    <3> QED
      BY <1>2, <3>3, <3>4 DEF ElectedInv, ElectedByTwo
  <2> QED
    BY <2>1, <2>2 DEF HandleVoteReply, ToLeader
<1> QED
  BY <1>2, <1>3, <1>4 DEF ElectedInv, RepliesTrue

LEMMA FourPeers ==
    ASSUME IsFiniteSet(Server), Cardinality(Server) <= 3,
           NEW a \in Server, NEW b \in Server, NEW c \in Server, NEW d \in Server
    PROVE  a = b \/ a = c \/ a = d \/ b = c \/ b = d \/ c = d
<1> SUFFICES ASSUME a # b, a # c, a # d, b # c, b # d, c # d PROVE FALSE
  OBVIOUS
<1> DEFINE A == {a}
           B == A \cup {b}
           C == B \cup {c}
           D == C \cup {d}
<1>1. IsFiniteSet(A) /\ Cardinality(A) = 1
  BY FS_Singleton
<1>2. IsFiniteSet(B) /\ Cardinality(B) = 2
  <2> b \notin A
    OBVIOUS
  <2> HIDE DEF A
  <2> QED
    BY <1>1, FS_AddElement
<1>3. IsFiniteSet(C) /\ Cardinality(C) = 3
  <2> c \notin B
    OBVIOUS
  <2> HIDE DEF B
  <2> QED
    BY <1>2, FS_AddElement
<1>4. IsFiniteSet(D) /\ Cardinality(D) = 4
  <2> d \notin C
    OBVIOUS
  <2> HIDE DEF C
  <2> QED
    BY <1>3, FS_AddElement
<1>5. D \subseteq Server
  OBVIOUS
<1>6. Cardinality(D) <= Cardinality(Server) /\ Cardinality(Server) \in Nat
  <2> HIDE DEF D
  <2> QED
    BY <1>5, FS_Subset, FS_CardinalityType
<1> QED
  BY <1>4, <1>6

(***************************************************************************)
(* With at most three peers two votes are a majority, and two leaders of   *)
(* one term would be four different peers: the two and a voter of each.    *)
(***************************************************************************)
LEMMA OneLeaderOfThree ==
    ASSUME IsFiniteSet(Server), Cardinality(Server) <= 3,
           TypeOK, VotesOnce, ElectedByTwo
    PROVE  ElectionSafety
<1> SUFFICES ASSUME NEW e \in elected, NEW f \in elected,
                    e[1] = f[1], e[2] # f[2]
             PROVE  FALSE
  BY DEF ElectionSafety
<1>1. e[2] \in Server /\ f[2] \in Server
  BY DEF TypeOK, TypeOfHistory
<1>2. PICK v \in Server \ {e[2]} : <<v, e[1], e[2]>> \in ballots
  BY DEF ElectedByTwo
<1>3. PICK w \in Server \ {f[2]} : <<w, f[1], f[2]>> \in ballots
  BY DEF ElectedByTwo
<1>4. <<e[2], e[1], e[2]>> \in ballots /\ <<f[2], f[1], f[2]>> \in ballots
  BY DEF ElectedByTwo
<1>5. v # f[2] /\ w # e[2] /\ v # w
  BY <1>2, <1>3, <1>4 DEF VotesOnce
<1> QED
  BY <1>1, <1>2, <1>3, <1>5, FourPeers

THEOREM ElectedInvariance == Spec => []ElectedInv
<1>1. Init => ElectedInv
  BY RolesAssumption
  DEF Init, ElectedInv, RepliesTrue, CandidatesVoted, ElectedByTwo
<1>2. TypeOK /\ ElectedInv /\ [Next]_vars => ElectedInv'
  BY TickKeepsElected, HandleRequestVoteKeepsElected, HandleVoteReplyKeepsElected,
     OtherStepsAreNoElection, NoElectionKeepsElected
<1> QED
  BY <1>1, <1>2, TypeCorrect, PTL DEF Spec

(***************************************************************************)
(* One leader per term, in a group of at most three peers.                 *)
(***************************************************************************)
THEOREM OneLeaderPerTerm ==
    ASSUME IsFiniteSet(Server), Cardinality(Server) <= 3
    PROVE  Spec => []ElectionSafety
<1>1. TypeOK /\ VotesOnce /\ ElectedInv => ElectionSafety
  BY OneLeaderOfThree DEF ElectedInv
<1> QED
  BY <1>1, TypeCorrect, EachPeerVotesOnce, ElectedInvariance, PTL

----------------------------------------------------------------------------
(* Part three: the logs of a group stay well formed, and two logs with an  *)
(* entry of the same term at an index agree up to it.  The group has at    *)
(* most three peers, for one leader per term rests on that.                *)

----------------------------------------------------------------------------
(* What the operations of a log do, entry by entry.                        *)

LEMMA EntryOfLog ==
    ASSUME NEW l \in LogType, NEW k \in Indices(l)
    PROVE  /\ k \in Int /\ k >= l.base /\ k <= LastIndex(l)
           /\ k - l.base + 1 \in 1 .. Len(l.entries)
           /\ EntryAt(l, k) = l.entries[k - l.base + 1]
           /\ EntryAt(l, k) \in Entry
<1>1. k \in Int /\ k >= l.base /\ k <= LastIndex(l)
  BY LogIndices DEF Indices
<1>2. k - l.base + 1 \in 1 .. Len(l.entries)
  BY <1>1, LogIndices DEF LastIndex
<1>3. EntryAt(l, k) = l.entries[k - l.base + 1]
  BY DEF EntryAt
<1> QED
  BY <1>1, <1>2, <1>3, EntryAtType

LEMMA PartOfEntries ==
    ASSUME NEW s \in Seq(Entry), NEW a \in Int, NEW z \in Int,
           1 <= a, z <= Len(s)
    PROVE  /\ SubSeq(s, a, z) \in Seq(Entry)
           /\ Len(SubSeq(s, a, z)) = IF a <= z THEN z - a + 1 ELSE 0
           /\ \A n \in 1 .. z - a + 1 : SubSeq(s, a, z)[n] = s[a + n - 1]
<1>1. \A n \in a .. z : s[n] \in Entry
  BY LenProperties, ElementOfSeq
<1> QED
  BY <1>1, SubSeqProperties

LEMMA AppendEntryAt ==
    ASSUME NEW l \in LogType, NEW e \in Entry, LastIndex(l) >= l.base
    PROVE  LET r == AppendEntry(l, e) IN
           /\ r \in LogType
           /\ r.base = l.base
           /\ LastIndex(r) = LastIndex(l) + 1
           /\ \A k \in Indices(r) : EntryAt(r, k) =
                  IF k = LastIndex(l) + 1 THEN e ELSE EntryAt(l, k)
<1> DEFINE r == AppendEntry(l, e)
<1>1. r \in LogType /\ r.base = l.base /\ r.entries = Append(l.entries, e)
  BY AppendEntryType DEF AppendEntry, LogType
<1>2. /\ Len(r.entries) = Len(l.entries) + 1
      /\ \A n \in 1 .. Len(r.entries) : r.entries[n] =
             IF n = Len(l.entries) + 1 THEN e ELSE l.entries[n]
  BY <1>1, LogIndices, AppendProperties
<1> HIDE DEF r
<1>3. l.base \in Nat /\ Len(l.entries) \in Nat
  BY LogIndices
<1>4. LastIndex(r) = LastIndex(l) + 1
  BY <1>1, <1>2, <1>3 DEF LastIndex
<1>5. ASSUME NEW k \in Indices(r)
      PROVE  EntryAt(r, k) = IF k = LastIndex(l) + 1 THEN e ELSE EntryAt(l, k)
  <2> DEFINE n == k - l.base + 1
  <2>1. k \in Int /\ k >= l.base /\ k <= LastIndex(l) + 1
    BY <1>1, <1>4, EntryOfLog
  <2>2. EntryAt(r, k) = r.entries[n] /\ n \in 1 .. Len(r.entries)
    BY <1>1, EntryOfLog
  <2>3. LastIndex(l) = l.base + Len(l.entries) - 1
    BY DEF LastIndex
  <2>4. k = LastIndex(l) + 1 <=> n = Len(l.entries) + 1
    BY <1>3, <2>1, <2>3 DEF LogType
  <2>5. k # LastIndex(l) + 1 => k \in Indices(l)
    BY <1>3, <2>1, <2>3 DEF Indices, LogType
  <2>6. k # LastIndex(l) + 1 => EntryAt(l, k) = l.entries[n]
    BY <2>5, EntryOfLog
  <2> HIDE DEF n
  <2> QED
    BY <1>2, <2>2, <2>4, <2>6
<1> QED
  BY <1>1, <1>4, <1>5 DEF r

LEMMA RebaseAt ==
    ASSUME NEW l \in LogType, NEW k \in Indices(l)
    PROVE  LET r == Rebase(l, k) IN
           /\ r \in LogType
           /\ r.base = k
           /\ LastIndex(r) = LastIndex(l)
           /\ \A n \in Indices(r) : EntryAt(r, n) = EntryAt(l, n)
<1> DEFINE r == Rebase(l, k)
           a == k - l.base + 1
<1>1. /\ l.base \in Nat /\ Len(l.entries) \in Nat
      /\ l.entries \in Seq(Entry)
      /\ LastIndex(l) = l.base + Len(l.entries) - 1
  BY LogIndices DEF LastIndex
<1>2. k \in Nat /\ k >= l.base /\ k <= LastIndex(l)
  BY <1>1 DEF Indices
<1>3. /\ r \in LogType /\ r.base = k
      /\ r.entries = SubSeq(l.entries, a, Len(l.entries))
  <2>1. r \in LogType
    BY <1>1, <1>2, RebaseType
  <2>2. ~(k > LastIndex(l))
    BY <1>1, <1>2 DEF LogType
  <2> QED
    BY <2>1, <2>2 DEF Rebase, EntriesFrom
<1>4. a \in Int /\ 1 <= a /\ a <= Len(l.entries)
  BY <1>1, <1>2
<1> HIDE DEF r, a
<1>5. /\ Len(r.entries) = Len(l.entries) - a + 1
      /\ \A n \in 1 .. Len(l.entries) - a + 1 : r.entries[n] = l.entries[a + n - 1]
  BY <1>1, <1>3, <1>4, PartOfEntries
<1> USE DEF a
<1>6. LastIndex(r) = LastIndex(l)
  <2>1. Len(r.entries) = Len(l.entries) - a + 1
    BY <1>5
  <2>2. LastIndex(r) = k + Len(r.entries) - 1
    BY <1>3 DEF LastIndex
  <2> QED
    BY <1>1, <1>2, <2>1, <2>2
<1>7. ASSUME NEW n \in Indices(r) PROVE EntryAt(r, n) = EntryAt(l, n)
  <2>1. /\ EntryAt(r, n) = r.entries[n - k + 1] /\ n \in Int
        /\ n - k + 1 \in 1 .. Len(r.entries) /\ n >= k /\ n <= LastIndex(l)
    BY <1>3, <1>6, EntryOfLog
  <2>2. n \in Indices(l)
    BY <1>1, <1>2, <2>1 DEF Indices
  <2>3. EntryAt(l, n) = l.entries[n - l.base + 1]
    BY <2>2, EntryOfLog
  <2>4. r.entries[n - k + 1] = l.entries[a + (n - k + 1) - 1]
    BY <1>1, <1>2, <1>5, <2>1
  <2>5. a + (n - k + 1) - 1 = n - l.base + 1
    BY <1>1, <1>2, <2>1 DEF LogType
  <2> QED
    BY <2>1, <2>3, <2>4, <2>5
<1> QED
  BY <1>3, <1>6, <1>7 DEF r

(***************************************************************************)
(* A base entry without a command, and what follows it: what a request     *)
(* says of the sender's log, and what InstallSnapshot leaves of a log.     *)
(***************************************************************************)
Segment(b, t, es) ==
    [base |-> b, entries |-> <<[term |-> t, cmd |-> None]>> \o es]

LEMMA SegmentAt ==
    ASSUME NEW b \in Nat, NEW t \in Int, NEW es \in Seq(Entry)
    PROVE  LET s == Segment(b, t, es) IN
           /\ s \in LogType
           /\ s.base = b
           /\ LastIndex(s) = b + Len(es)
           /\ b \in Indices(s)
           /\ EntryAt(s, b) = [term |-> t, cmd |-> None]
           /\ \A k \in Indices(s) : k # b =>
                  EntryAt(s, k) = es[k - b] /\ k - b \in 1 .. Len(es)
<1> DEFINE s == Segment(b, t, es)
           first == [term |-> t, cmd |-> None]
<1>1. first \in Entry /\ <<first>> \in Seq(Entry) /\ Len(es) \in Nat
  BY LenProperties DEF Entry, Command
<1>2. s.base = b /\ s.entries = <<first>> \o es
  BY DEF Segment
<1> HIDE DEF first
<1>3. /\ <<first>> \o es \in Seq(Entry)
      /\ Len(<<first>> \o es) = 1 + Len(es)
      /\ \A n \in 1 .. 1 + Len(es) :
             (<<first>> \o es)[n] = IF n <= 1 THEN <<first>>[n] ELSE es[n - 1]
  <2>1. Len(<<first>>) = 1
    OBVIOUS
  <2> QED
    BY <1>1, <2>1, ConcatProperties
<1>4. s \in LogType
  BY <1>2, <1>3 DEF Segment, LogType, first
<1> HIDE DEF s
<1>5. Len(s.entries) = 1 + Len(es)
  BY <1>2, <1>3
<1>6. LastIndex(s) = b + Len(es)
  BY <1>1, <1>2, <1>5 DEF LastIndex
<1>7. b \in Indices(s)
  BY <1>1, <1>2, <1>6 DEF Indices
<1>8. EntryAt(s, b) = first
  <2>1. EntryAt(s, b) = s.entries[b - b + 1]
    BY <1>2, <1>4, <1>7, EntryOfLog
  <2>2. b - b + 1 = 1
    OBVIOUS
  <2>3. s.entries[1] = first
    BY <1>1, <1>2, <1>3
  <2> QED
    BY <2>1, <2>2, <2>3
<1>9. ASSUME NEW k \in Indices(s), k # b
      PROVE  EntryAt(s, k) = es[k - b] /\ k - b \in 1 .. Len(es)
  <2>1. k \in Int /\ k >= b /\ k <= b + Len(es)
    BY <1>2, <1>4, <1>6, EntryOfLog
  <2>2. EntryAt(s, k) = s.entries[k - b + 1]
    BY <1>2, <1>4, EntryOfLog
  <2> DEFINE n == k - b + 1
  <2>3. n \in 1 .. 1 + Len(es) /\ ~(n <= 1) /\ n - 1 = k - b
    BY <1>1, <1>9, <2>1
  <2> HIDE DEF n
  <2>4. s.entries[n] = es[n - 1]
    BY <1>2, <1>3, <2>3
  <2>5. k - b \in 1 .. Len(es)
    BY <1>1, <1>9, <2>1
  <2> USE DEF n
  <2> QED
    BY <2>2, <2>3, <2>4, <2>5
<1> QED
  BY <1>2, <1>4, <1>6, <1>7, <1>8, <1>9 DEF s, first

LEMMA SegmentOf ==
    ASSUME NEW b \in Nat, NEW t \in Int, NEW es \in Seq(Entry),
           NEW s, s = Segment(b, t, es)
    PROVE  /\ s \in LogType /\ s.base = b /\ LastIndex(s) = b + Len(es)
           /\ \A k \in Indices(s) : k # b => EntryAt(s, k) = es[k - b]
<1>1. LET r == Segment(b, t, es) IN
      /\ r \in LogType
      /\ r.base = b
      /\ LastIndex(r) = b + Len(es)
      /\ b \in Indices(r)
      /\ EntryAt(r, b) = [term |-> t, cmd |-> None]
      /\ \A k \in Indices(r) : k # b =>
             EntryAt(r, k) = es[k - b] /\ k - b \in 1 .. Len(es)
  BY SegmentAt
<1> QED
  BY <1>1

(***************************************************************************)
(* A part of a log: it begins and ends within the log and holds the same   *)
(* entries, but its base may have lost its command.                        *)
(***************************************************************************)
PartOf(c, l) ==
    /\ c \in LogType
    /\ c.base \in Indices(l)
    /\ c.base <= LastIndex(c)
    /\ LastIndex(c) <= LastIndex(l)
    /\ \A k \in Indices(c) : Agree(EntryAt(c, k), EntryAt(l, k), k = c.base)

LEMMA PartOfEntry ==
    ASSUME NEW l \in LogType, NEW c, PartOf(c, l), NEW k \in Indices(c)
    PROVE  /\ k \in Indices(l)
           /\ TermAt(c, k) = TermAt(l, k)
           /\ k # c.base => EntryAt(c, k) = EntryAt(l, k)
<1>1. c \in LogType /\ c.base \in Indices(l) /\ LastIndex(c) <= LastIndex(l)
  BY DEF PartOf
<1>2. l.base \in Int /\ LastIndex(l) \in Int /\ LastIndex(c) \in Int
  BY <1>1, LogIndices
<1>3. k \in Int /\ k >= c.base /\ k <= LastIndex(c)
  BY <1>1, EntryOfLog
<1>4. c.base \in Int /\ c.base >= l.base
  BY <1>1, EntryOfLog
<1>5. k \in Indices(l)
  BY <1>1, <1>2, <1>3, <1>4 DEF Indices
<1> QED
  BY <1>5 DEF PartOf, Agree, TermAt

LEMMA RebaseIsPart ==
    ASSUME NEW l \in LogType, NEW k \in Indices(l)
    PROVE  PartOf(Rebase(l, k), l) /\ LastIndex(Rebase(l, k)) = LastIndex(l)
<1>1. k <= LastIndex(l) /\ LastIndex(l) \in Int
  BY EntryOfLog, LogIndices
<1> QED
  BY <1>1, RebaseAt DEF PartOf, Agree

LEMMA SentIsPart ==
    ASSUME NEW l \in LogType, NEW k \in Indices(l)
    PROVE  LET s == Segment(k, TermAt(l, k), EntriesFrom(l, k + 1)) IN
           PartOf(s, l) /\ LastIndex(s) = LastIndex(l)
<1> DEFINE es == EntriesFrom(l, k + 1)
           s == Segment(k, TermAt(l, k), es)
           a == (k + 1) - l.base + 1
<1>1. /\ l.base \in Nat /\ Len(l.entries) \in Nat /\ LastIndex(l) \in Int
      /\ l.entries \in Seq(Entry)
      /\ LastIndex(l) = l.base + Len(l.entries) - 1
  BY LogIndices DEF LastIndex
<1>2. k \in Int /\ k >= l.base /\ k <= LastIndex(l)
  BY EntryOfLog
<1>3. k \in Nat /\ a \in Int /\ 1 <= a /\ a <= Len(l.entries) + 1
  BY <1>1, <1>2 DEF LogType
<1> HIDE DEF a
<1>4. /\ es \in Seq(Entry)
      /\ Len(es) = Len(l.entries) - a + 1
      /\ \A n \in 1 .. Len(es) : es[n] = l.entries[a + n - 1]
  <2>1. es = SubSeq(l.entries, a, Len(l.entries))
    BY DEF EntriesFrom, a
  <2>2. /\ SubSeq(l.entries, a, Len(l.entries)) \in Seq(Entry)
        /\ Len(SubSeq(l.entries, a, Len(l.entries))) = Len(l.entries) - a + 1
        /\ \A n \in 1 .. Len(l.entries) - a + 1 :
               SubSeq(l.entries, a, Len(l.entries))[n] = l.entries[a + n - 1]
    BY <1>1, <1>3, PartOfEntries
  <2> QED
    BY <2>1, <2>2
<1> HIDE DEF es
<1>5. TermAt(l, k) \in Int
  BY <1>2, EntryAtType
<1>6. /\ s \in LogType /\ s.base = k /\ LastIndex(s) = k + Len(es)
      /\ EntryAt(s, k) = [term |-> TermAt(l, k), cmd |-> None]
      /\ \A n \in Indices(s) : n # k =>
             EntryAt(s, n) = es[n - k] /\ n - k \in 1 .. Len(es)
  BY <1>3, <1>4, <1>5, SegmentAt
<1> HIDE DEF s
<1>7. LastIndex(s) = LastIndex(l)
  BY <1>1, <1>2, <1>4, <1>6 DEF a, LogType
<1>8. ASSUME NEW n \in Indices(s), n # k PROVE EntryAt(s, n) = EntryAt(l, n)
  <2>1. n \in Int /\ n >= k /\ n <= LastIndex(l)
    BY <1>6, <1>7, EntryOfLog
  <2>2. n \in Indices(l)
    BY <1>1, <1>2, <2>1 DEF Indices, LogType
  <2>3. EntryAt(l, n) = l.entries[n - l.base + 1]
    BY <2>2, EntryOfLog
  <2>4. EntryAt(s, n) = l.entries[a + (n - k) - 1]
    BY <1>4, <1>6, <1>8
  <2>5. a + (n - k) - 1 = n - l.base + 1
    BY <1>1, <1>2, <2>1 DEF a, LogType
  <2> QED
    BY <2>3, <2>4, <2>5
<1>9. PartOf(s, l)
  BY <1>1, <1>2, <1>6, <1>7, <1>8 DEF PartOf, Agree, TermAt
<1> QED
  BY <1>7, <1>9 DEF s, es

LEMMA BaseIsPart ==
    ASSUME NEW l \in LogType, NEW k \in Indices(l)
    PROVE  PartOf(Segment(k, TermAt(l, k), << >>), l)
<1> DEFINE s == Segment(k, TermAt(l, k), << >>)
<1>1. k \in Nat /\ TermAt(l, k) \in Int /\ k <= LastIndex(l)
  <2>1. k \in Int /\ k >= l.base /\ k <= LastIndex(l)
    BY EntryOfLog
  <2>2. l.base \in Nat
    BY LogIndices
  <2> QED
    BY <2>1, <2>2, EntryAtType DEF LogType
<1>2. << >> \in Seq(Entry) /\ Len(<< >>) = 0
  BY EmptySeq
<1>3. /\ s \in LogType /\ s.base = k /\ LastIndex(s) = k + 0
      /\ EntryAt(s, k) = [term |-> TermAt(l, k), cmd |-> None]
      /\ \A n \in Indices(s) : n # k => n - k \in 1 .. 0
  BY <1>1, <1>2, SegmentAt
<1> HIDE DEF s
<1>4. \A n \in Indices(s) : n = k
  BY <1>3
<1> QED
  <2>1. PartOf(s, l)
    BY <1>1, <1>3, <1>4 DEF PartOf, Agree, TermAt
  <2> QED
    BY <2>1 DEF s

LEMMA InstalledIs ==
    ASSUME NEW l \in LogType, NEW k \in Nat, NEW t \in Nat
    PROVE  /\ TermAt(l, k) = t =>
                  /\ k \in Indices(l)
                  /\ PartOf(Installed(l, k, t), l)
                  /\ LastIndex(Installed(l, k, t)) = LastIndex(l)
           /\ TermAt(l, k) # t => Installed(l, k, t) = Segment(k, t, << >>)
<1>1. CASE TermAt(l, k) # t
  BY <1>1 DEF Installed, Segment
<1>2. CASE TermAt(l, k) = t
  <2>1. k \in Indices(l)
    BY <1>2 DEF TermAt, EntryAt, Missing
  <2>2. /\ l.base \in Nat /\ Len(l.entries) \in Nat /\ l.entries \in Seq(Entry)
        /\ LastIndex(l) = l.base + Len(l.entries) - 1
    BY LogIndices DEF LastIndex
  <2>3. k >= l.base /\ k <= LastIndex(l) /\ LastIndex(l) \in Int
    BY <2>1, EntryOfLog, LogIndices
  <2> DEFINE a == k - l.base + 1
             z == Len(l.entries)
             es == Rebase(l, k).entries
             w == LastIndex(l) - k + 1
  <2>4. a \in Int /\ 1 <= a /\ a <= z /\ w = z - a + 1 /\ z \in Nat
    BY <2>2, <2>3 DEF LogType
  <2>5. /\ es = SubSeq(l.entries, a, z)
        /\ EntriesFrom(l, k + 1) = SubSeq(l.entries, a + 1, z)
    <3>1. k + 1 - l.base + 1 = a + 1
      BY <2>2, <2>3 DEF LogType
    <3>2. ~(k > LastIndex(l))
      BY <2>2, <2>3 DEF LogType
    <3>3. es = EntriesFrom(l, k)
      BY <3>2 DEF Rebase
    <3>4. EntriesFrom(l, k) = SubSeq(l.entries, a, z)
      BY DEF EntriesFrom, a, z
    <3>5. EntriesFrom(l, k + 1) = SubSeq(l.entries, a + 1, z)
      <4> DEFINE n == k + 1
      <4>1. n - l.base + 1 = a + 1
        BY <2>2, <3>1 DEF LogType
      <4> HIDE DEF n, a
      <4>2. EntriesFrom(l, n) = SubSeq(l.entries, a + 1, z)
        BY <4>1 DEF EntriesFrom, z
      <4> QED
        BY <4>2 DEF n
    <3> HIDE DEF a, z, es
    <3> QED
      BY <3>3, <3>4, <3>5
  <2> HIDE DEF a, z, es, w
  <2>6. /\ es \in Seq(Entry) /\ Len(es) = w
        /\ \A n \in 1 .. w : es[n] = l.entries[a + n - 1]
    <3>1. z = Len(l.entries)
      BY DEF z
    <3> QED
      <4>1. /\ l.entries \in Seq(Entry) /\ a \in Int /\ z \in Int
            /\ 1 <= a /\ a <= z /\ z <= Len(l.entries)
        BY <2>2, <2>4, <3>1
      <4>2. /\ SubSeq(l.entries, a, z) \in Seq(Entry)
            /\ Len(SubSeq(l.entries, a, z)) = z - a + 1
            /\ \A n \in 1 .. z - a + 1 :
                   SubSeq(l.entries, a, z)[n] = l.entries[a + n - 1]
        BY <4>1, PartOfEntries
      <4> QED
        BY <2>4, <2>5, <4>2
  <2>7. /\ SubSeq(l.entries, a + 1, z) \in Seq(Entry)
        /\ Len(SubSeq(l.entries, a + 1, z)) = w - 1
        /\ \A n \in 1 .. w - 1 :
               SubSeq(l.entries, a + 1, z)[n] = l.entries[a + 1 + n - 1]
    <3>1. z = Len(l.entries)
      BY DEF z
    <3>2. a + 1 \in Int /\ 1 <= a + 1 /\ z - (a + 1) + 1 = w - 1
          /\ (a + 1 > z => w - 1 = 0)
      BY <2>4
    <3> QED
      BY <2>2, <2>4, <3>1, <3>2, PartOfEntries
  <2>8. /\ SubSeq(es, 2, w) \in Seq(Entry)
        /\ Len(SubSeq(es, 2, w)) = w - 1
        /\ \A n \in 1 .. w - 1 : SubSeq(es, 2, w)[n] = es[2 + n - 1]
    <3>1. w \in Int /\ w >= 1 /\ w - 2 + 1 = w - 1 /\ (2 > w => w - 1 = 0)
      BY <2>4
    <3> QED
      BY <2>6, <3>1, PartOfEntries
  <2>9. \A n \in 1 .. w - 1 : SubSeq(es, 2, w)[n] = SubSeq(l.entries, a + 1, z)[n]
    <3> TAKE n \in 1 .. w - 1
    <3>1. 2 + n - 1 \in 1 .. w /\ a + (2 + n - 1) - 1 = a + 1 + n - 1
      BY <2>4
    <3>2. es[2 + n - 1] = l.entries[a + (2 + n - 1) - 1]
      BY <2>6, <3>1
    <3> QED
      BY <2>7, <2>8, <3>1, <3>2
  <2>10. SubSeq(es, 2, w) = EntriesFrom(l, k + 1)
    BY <2>5, <2>7, <2>8, <2>9, SeqEqual
  <2>11. Installed(l, k, t) = Segment(k, t, SubSeq(es, 2, w))
    BY <1>2 DEF Installed, Segment, es, w
  <2>12. Installed(l, k, t) = Segment(k, TermAt(l, k), EntriesFrom(l, k + 1))
    BY <1>2, <2>10, <2>11
  <2> QED
    BY <1>2, <2>1, <2>12, SentIsPart
<1> QED
  BY <1>1, <1>2

(***************************************************************************)
(* What AppendEntries makes of a log l and of the segment s a request      *)
(* speaks of: l up to an index at which both have the same term, s beyond. *)
(***************************************************************************)
Joined(r, l, s) ==
    /\ r \in LogType
    /\ r.base = l.base
    /\ LastIndex(r) = LastIndex(s)
    /\ \E p \in Indices(l) \cap Indices(s) :
           /\ TermAt(l, p) = TermAt(s, p)
           /\ p < LastIndex(s)
           /\ \A k \in Indices(r) :
                  /\ k <= p => k \in Indices(l) /\ EntryAt(r, k) = EntryAt(l, k)
                  /\ k > p => k \in Indices(s) /\ EntryAt(r, k) = EntryAt(s, k)

LEMMA FirstDivergingLeast ==
    ASSUME NEW l, NEW start, NEW es \in Seq(Entry),
           Diverging(l, start, es) # {}
    PROVE  /\ FirstDiverging(l, start, es) \in Diverging(l, start, es)
           /\ \A m \in Diverging(l, start, es) : FirstDiverging(l, start, es) <= m
<1> DEFINE S == Diverging(l, start, es)
<1>1. \E n \in S : \A m \in S : n <= m
  <2>1. S \subseteq Int /\ S # {} /\ \E b \in Int : \A n \in S : b <= n
    BY LenProperties DEF Diverging
  <2> HIDE DEF S
  <2> QED
    BY <2>1, LeastElement
<1> QED
  BY <1>1 DEF FirstDiverging

LEMMA KeptBeforeAt ==
    ASSUME NEW l \in LogType, NEW p \in Indices(l)
    PROVE  LET kept == KeptBefore(l, p + 1).entries IN
           /\ kept \in Seq(Entry)
           /\ Len(kept) = p - l.base + 1
           /\ \A n \in 1 .. p - l.base + 1 : kept[n] = l.entries[n]
<1> DEFINE kept == KeptBefore(l, p + 1).entries
           z == p - l.base + 1
<1>1. /\ l.base \in Nat /\ Len(l.entries) \in Nat /\ l.entries \in Seq(Entry)
      /\ LastIndex(l) = l.base + Len(l.entries) - 1 /\ LastIndex(l) \in Int
  BY LogIndices DEF LastIndex
<1>2. p \in Int /\ p >= l.base /\ p <= LastIndex(l)
  BY EntryOfLog
<1>3. z \in Int /\ 1 <= z /\ z <= Len(l.entries)
  BY <1>1, <1>2 DEF LogType
<1>4. CASE p + 1 > LastIndex(l)
  <2>1. kept = l.entries
    BY <1>4 DEF KeptBefore
  <2>2. z = Len(l.entries)
    BY <1>1, <1>2, <1>4 DEF LogType
  <2> QED
    BY <1>1, <2>1, <2>2
<1>5. CASE ~(p + 1 > LastIndex(l))
  <2> DEFINE m == p + 1
  <2>1. m - l.base = z /\ ~(m > LastIndex(l))
    BY <1>1, <1>2, <1>5 DEF LogType
  <2>2. kept = KeptBefore(l, m).entries
    OBVIOUS
  <2> HIDE DEF z, kept, m
  <2>3. kept = SubSeq(l.entries, 1, z)
    <3>1. l = [base |-> l.base, entries |-> l.entries]
      BY DEF LogType
    <3>2. KeptBefore(l, m) = Truncate(l, m)
      BY <2>1 DEF KeptBefore
    <3>3. Truncate(l, m).entries = SubSeq(l.entries, 1, m - l.base)
      BY <3>1 DEF Truncate
    <3> QED
      BY <2>1, <2>2, <3>2, <3>3
  <2>4. z - 1 + 1 = z /\ \A n \in 1 .. z : 1 + n - 1 = n
    BY <1>3
  <2>5. /\ kept \in Seq(Entry) /\ Len(kept) = z
        /\ \A n \in 1 .. z : kept[n] = l.entries[n]
    BY <1>1, <1>3, <2>3, <2>4, PartOfEntries
  <2> QED
    BY <2>5 DEF z, kept
<1> QED
  BY <1>4, <1>5

LEMMA AppendEntriesJoins ==
    ASSUME NEW l \in LogType, NEW prev \in Indices(l), NEW es \in Seq(Entry)
    PROVE  LET s == Segment(prev, TermAt(l, prev), es)
               r == AppendEntries(l, prev + 1, es)
           IN \/ r = l /\ Diverging(l, prev + 1, es) = {}
              \/ Joined(r, l, s)
<1> DEFINE t == TermAt(l, prev)
           s == Segment(prev, t, es)
           start == prev + 1
           r == AppendEntries(l, start, es)
           S == Diverging(l, start, es)
<1>1. CASE S = {}
  BY <1>1 DEF AppendEntries
<1>2. CASE S # {}
  <2> DEFINE n == FirstDiverging(l, start, es)
             p == prev + n
             kept == KeptBefore(l, p + 1).entries
             rest == SubSeq(es, n + 1, Len(es))
             w == p - l.base + 1
  <2>1. /\ l.base \in Nat /\ Len(l.entries) \in Nat /\ Len(es) \in Nat
        /\ LastIndex(l) = l.base + Len(l.entries) - 1 /\ LastIndex(l) \in Int
    BY LogIndices, LenProperties DEF LastIndex
  <2>2. prev \in Nat /\ prev >= l.base /\ prev <= LastIndex(l) /\ t \in Int
    <3>1. prev \in Int /\ prev >= l.base /\ prev <= LastIndex(l)
      BY EntryOfLog
    <3> QED
      BY <2>1, <3>1, EntryAtType DEF LogType
  <2>3. n \in S /\ \A m \in S : n <= m
    BY <1>2, FirstDivergingLeast
  <2>4. n \in 0 .. Len(es) - 1
    BY <2>3 DEF Diverging
  <2>5. start = prev + 1
    OBVIOUS
  <2> HIDE DEF n, S, start, t
  <2>6. /\ s \in LogType /\ s.base = prev /\ LastIndex(s) = prev + Len(es)
        /\ prev \in Indices(s) /\ EntryAt(s, prev) = [term |-> t, cmd |-> None]
        /\ \A k \in Indices(s) : k # prev => EntryAt(s, k) = es[k - prev]
    BY <2>2, SegmentAt
  <2> HIDE DEF s
  <2>7. p \in Indices(l) /\ p \in Indices(s) /\ TermAt(l, p) = TermAt(s, p)
    <3>1. CASE n = 0
      <4>1. p = prev
        BY <2>2, <3>1
      <4> QED
        BY <2>6, <4>1 DEF TermAt, t
    <3>2. CASE n # 0
      <4> DEFINE m == n - 1
      <4>1. m \in 0 .. Len(es) - 1 /\ ~(n <= m)
        BY <2>1, <2>4, <3>2
      <4>2. start + m = p /\ m + 1 = n /\ p - prev = n /\ p # prev
        BY <2>2, <2>4, <2>5, <3>2
      <4>3. p \in Int /\ p >= prev /\ p <= prev + Len(es)
        BY <2>1, <2>2, <2>4
      <4> HIDE DEF m, p
      <4>4. m \notin S
        BY <2>3, <4>1
      <4>5. ~(p > LastIndex(l)) /\ TermAt(l, p) = es[n].term
        BY <4>1, <4>2, <4>4 DEF Diverging, S
      <4>6. p \in Indices(l)
        BY <2>1, <2>2, <4>3, <4>5 DEF Indices, LogType
      <4>7. p \in Indices(s)
        BY <2>1, <2>2, <2>6, <4>3 DEF Indices
      <4> QED
        BY <2>6, <4>2, <4>5, <4>6, <4>7 DEF TermAt
    <3> QED
      BY <3>1, <3>2
  <2>8. /\ p \in Int /\ p >= l.base /\ p >= prev /\ p < prev + Len(es)
        /\ n = p - prev /\ w \in Int /\ w >= 1
    BY <2>1, <2>2, <2>4 DEF LogType
  <2> HIDE DEF p
  <2>9. /\ kept \in Seq(Entry) /\ Len(kept) = w
        /\ \A k \in 1 .. w : kept[k] = l.entries[k]
    BY <2>7, KeptBeforeAt
  <2> DEFINE m == n + 1
             z == Len(es)
  <2>10. m \in Int /\ 1 <= m /\ m <= z /\ z \in Nat
    BY <2>1, <2>4
  <2>11. rest = SubSeq(es, m, z)
    OBVIOUS
  <2>12. z = Len(es)
    OBVIOUS
  <2> HIDE DEF kept, rest, w, m, z
  <2>13. /\ rest \in Seq(Entry) /\ Len(rest) = z - m + 1
         /\ \A k \in 1 .. z - m + 1 : rest[k] = es[m + k - 1]
    BY <2>10, <2>11, <2>12, PartOfEntries
  <2>14. /\ kept \o rest \in Seq(Entry)
         /\ Len(kept \o rest) = w + (z - m + 1)
         /\ \A k \in 1 .. w + (z - m + 1) : (kept \o rest)[k] =
                IF k <= w THEN kept[k] ELSE rest[k - w]
    <3>1. /\ kept \o rest \in Seq(Entry)
          /\ Len(kept \o rest) = Len(kept) + Len(rest)
          /\ \A k \in 1 .. Len(kept) + Len(rest) : (kept \o rest)[k] =
                 IF k <= Len(kept) THEN kept[k] ELSE rest[k - Len(kept)]
      BY <2>9, <2>13, ConcatProperties
    <3> QED
      BY <2>9, <2>13, <3>1
  <2>15. r.base = l.base /\ r.entries = kept \o rest
    <3>1. start + n = p + 1
      BY <2>2, <2>4, <2>5 DEF p
    <3> QED
      BY <1>2, <3>1 DEF AppendEntries, S, n, kept, rest
  <2>16. r \in LogType
    BY <2>2, <2>5, AppendEntriesType
  <2> HIDE DEF r
  <2>17. LastIndex(r) = LastIndex(s)
    <3>1. LastIndex(r) = l.base + (w + (z - m + 1)) - 1
      BY <2>14, <2>15 DEF LastIndex
    <3>2. m = p - prev + 1 /\ w = p - l.base + 1
      BY <2>2, <2>8 DEF m, w
    <3>3. l.base + (w + (z - m + 1)) - 1 = prev + Len(es)
      <4>1. \A b, c, d, e \in Int :
                b + ((c - b + 1) + (e - (c - d + 1) + 1)) - 1 = d + e
        OBVIOUS
      <4>2. l.base \in Int /\ p \in Int /\ prev \in Int /\ Len(es) \in Int
        BY <2>1, <2>2, <2>8
      <4> QED
        BY <2>12, <3>2, <4>1, <4>2
    <3> QED
      BY <2>6, <3>1, <3>3
  <2>18. ASSUME NEW k \in Indices(r)
         PROVE  /\ k <= p => k \in Indices(l) /\ EntryAt(r, k) = EntryAt(l, k)
                /\ k > p => k \in Indices(s) /\ EntryAt(r, k) = EntryAt(s, k)
    <3> DEFINE q == k - l.base + 1
    <3>1. k \in Int /\ k >= l.base /\ k <= prev + z
      BY <2>6, <2>12, <2>15, <2>16, <2>17, EntryOfLog
    <3>2. q \in 1 .. w + (z - m + 1) /\ (q <= w <=> k <= p) /\ q \in Int
      BY <2>1, <2>2, <2>8, <3>1 DEF w, m, z, LogType
    <3>3. EntryAt(r, k) = r.entries[q]
      BY <2>15, <2>16, EntryOfLog
    <3>4. CASE k <= p
      <4>1. q \in 1 .. w
        BY <2>8, <3>2, <3>4
      <4>2. k \in Indices(l)
        <5>1. p <= LastIndex(l)
          BY <2>7, EntryOfLog
        <5> QED
          BY <2>1, <2>8, <3>1, <3>4, <5>1 DEF Indices
      <4>3. EntryAt(l, k) = l.entries[q]
        BY <4>2, EntryOfLog
      <4> HIDE DEF q
      <4> QED
        BY <2>8, <2>9, <2>14, <2>15, <3>1, <3>2, <3>3, <3>4, <4>1, <4>2, <4>3
    <3>5. CASE k > p
      <4>1. /\ q - w \in 1 .. z - m + 1 /\ m + (q - w) - 1 = k - prev
            /\ ~(q <= w) /\ k # prev
        <5>1. q - w = k - p
          BY <2>1, <2>8, <3>1 DEF w, LogType
        <5>2. m = p - prev + 1
          BY <2>2, <2>8 DEF m
        <5> HIDE DEF q
        <5> QED
          BY <2>2, <2>8, <2>10, <3>1, <3>2, <3>5, <5>1, <5>2
      <4>2. k \in Indices(s)
        BY <2>2, <2>6, <2>8, <2>12, <3>1, <3>5 DEF Indices
      <4>3. EntryAt(s, k) = es[k - prev]
        BY <2>6, <4>1, <4>2
      <4>4. rest[q - w] = es[m + (q - w) - 1]
        BY <2>13, <4>1
      <4> HIDE DEF q
      <4>5. r.entries[q] = rest[q - w]
        BY <2>14, <2>15, <3>2, <4>1
      <4> QED
        BY <2>8, <3>1, <3>3, <3>5, <4>1, <4>2, <4>3, <4>4, <4>5
    <3> QED
      BY <2>8, <3>1, <3>4, <3>5
  <2>19. p < LastIndex(s)
    BY <2>6, <2>8
  <2>20. Joined(r, l, s)
    BY <2>7, <2>15, <2>16, <2>17, <2>18, <2>19 DEF Joined
  <2> QED
    BY <2>20 DEF r, s, t, start
<1> QED
  BY <1>1, <1>2

----------------------------------------------------------------------------
(* Logs that agree.  A pair is a log, or a segment of one, and a term that *)
(* bounds the terms in it.                                                 *)

TermsRise(l) ==
    \A k, n \in Indices(l) : k <= n => TermAt(l, k) <= TermAt(l, n)

WellFormed(l, t) ==
    /\ l \in LogType
    /\ LastIndex(l) >= l.base
    /\ \A k \in Indices(l) : TermAt(l, k) \in 0 .. t
    /\ TermsRise(l)

Matching(a, b) ==
    \A k \in Indices(a) \cap Indices(b) :
        TermAt(a, k) = TermAt(b, k) =>
            \A n \in Indices(a) \cap Indices(b) :
                n <= k => Agree(EntryAt(a, n), EntryAt(b, n),
                                n \in {a.base, b.base})

Consistent(C) ==
    /\ \A c \in C : c[2] \in Nat /\ WellFormed(c[1], c[2])
    /\ \A c, d \in C : Matching(c[1], d[1])

(***************************************************************************)
(* The entries of a set of pairs, as far as elections care about them.     *)
(***************************************************************************)
Holds(C, k, t) == \E c \in C : k \in Indices(c[1]) /\ TermAt(c[1], k) = t

LEMMA MatchingReflexive ==
    ASSUME NEW a PROVE Matching(a, a)
BY DEF Matching, Agree

LEMMA MatchingSymmetric ==
    ASSUME NEW a, NEW b, Matching(a, b) PROVE Matching(b, a)
BY DEF Matching, Agree

LEMMA PartOfItself ==
    ASSUME NEW l \in LogType, LastIndex(l) >= l.base
    PROVE  PartOf(l, l)
<1>1. l.base \in Indices(l)
  BY LogIndices DEF Indices
<1> QED
  BY <1>1, LogIndices DEF PartOf, Agree

LEMMA PartWellFormed ==
    ASSUME NEW l, NEW t \in Nat, WellFormed(l, t), NEW c, PartOf(c, l),
           NEW u \in Nat, t <= u
    PROVE  WellFormed(c, u)
<1>1. l \in LogType /\ c \in LogType /\ LastIndex(c) >= c.base
  <2>1. c.base \in Nat /\ LastIndex(c) \in Int
    BY LogIndices DEF PartOf
  <2> QED
    BY <2>1 DEF WellFormed, PartOf
<1>2. \A k \in Indices(c) : k \in Indices(l) /\ TermAt(c, k) = TermAt(l, k)
  BY <1>1, PartOfEntry
<1>3. \A k \in Indices(c) : TermAt(c, k) \in 0 .. u
  <2> TAKE k \in Indices(c)
  <2>1. TermAt(l, k) \in 0 .. t
    BY <1>2 DEF WellFormed
  <2> QED
    BY <1>2, <2>1
<1>4. TermsRise(c)
  BY <1>2 DEF WellFormed, TermsRise
<1> QED
  BY <1>1, <1>3, <1>4 DEF WellFormed

LEMMA PartMatches ==
    ASSUME NEW l \in LogType, NEW b, Matching(l, b), NEW c, PartOf(c, l)
    PROVE  Matching(c, b)
<1>1. c \in LogType /\ c.base \in Indices(l) /\ c.base <= LastIndex(c)
  BY DEF PartOf
<1> SUFFICES ASSUME NEW k \in Indices(c) \cap Indices(b),
                    TermAt(c, k) = TermAt(b, k),
                    NEW n \in Indices(c) \cap Indices(b), n <= k
             PROVE  Agree(EntryAt(c, n), EntryAt(b, n), n \in {c.base, b.base})
  BY DEF Matching
<1>2. k \in Indices(l) /\ n \in Indices(l) /\ TermAt(l, k) = TermAt(b, k)
  BY PartOfEntry
<1>3. Agree(EntryAt(l, n), EntryAt(b, n), n \in {l.base, b.base})
  BY <1>2 DEF Matching
<1>4. Agree(EntryAt(c, n), EntryAt(l, n), n = c.base)
  BY DEF PartOf
<1>5. n = l.base => n = c.base
  <2>1. n \in Int /\ n >= c.base
    BY <1>1, EntryOfLog
  <2>2. c.base \in Int /\ c.base >= l.base
    BY <1>1, EntryOfLog
  <2> QED
    BY <2>1, <2>2, LogIndices
<1> QED
  BY <1>3, <1>4, <1>5 DEF Agree

(***************************************************************************)
(* Parts of consistent logs are consistent and hold no other entries.      *)
(***************************************************************************)
LEMMA PartsConsistent ==
    ASSUME NEW C, Consistent(C), NEW D,
           \A d \in D : d[2] \in Nat
                        /\ \E c \in C : PartOf(d[1], c[1]) /\ c[2] <= d[2]
    PROVE  /\ Consistent(D)
           /\ \A k, t : Holds(D, k, t) => Holds(C, k, t)
<1>1. \A c \in C : c[2] \in Nat /\ WellFormed(c[1], c[2]) /\ c[1] \in LogType
  BY DEF Consistent, WellFormed
<1>2. ASSUME NEW d \in D PROVE d[2] \in Nat /\ WellFormed(d[1], d[2])
  BY <1>1, PartWellFormed
<1>3. ASSUME NEW d \in D, NEW e \in D PROVE Matching(d[1], e[1])
  <2>1. PICK c \in C : PartOf(d[1], c[1])
    OBVIOUS
  <2>2. PICK f \in C : PartOf(e[1], f[1])
    OBVIOUS
  <2>3. Matching(c[1], f[1])
    BY DEF Consistent
  <2>4. Matching(d[1], f[1])
    BY <1>1, <2>1, <2>3, PartMatches
  <2>5. Matching(e[1], d[1])
    BY <1>1, <2>2, <2>4, MatchingSymmetric, PartMatches
  <2> QED
    BY <2>5, MatchingSymmetric
<1>4. ASSUME NEW k, NEW t, Holds(D, k, t) PROVE Holds(C, k, t)
  <2>1. PICK d \in D : k \in Indices(d[1]) /\ TermAt(d[1], k) = t
    BY <1>4 DEF Holds
  <2>2. PICK c \in C : PartOf(d[1], c[1])
    OBVIOUS
  <2>3. c[1] \in LogType
    BY <1>1
  <2> QED
    BY <2>1, <2>2, <2>3, PartOfEntry DEF Holds
<1> QED
  BY <1>2, <1>3, <1>4 DEF Consistent

LEMMA JoinedWellFormed ==
    ASSUME NEW l, NEW s, NEW r, Joined(r, l, s),
           NEW t \in Nat, WellFormed(l, t), NEW u \in Nat, WellFormed(s, u),
           NEW v \in Nat, t <= v, u <= v
    PROVE  WellFormed(r, v)
<1>1. PICK p \in Indices(l) \cap Indices(s) :
          /\ TermAt(l, p) = TermAt(s, p)
          /\ p < LastIndex(s)
          /\ \A k \in Indices(r) :
                 /\ k <= p => k \in Indices(l) /\ EntryAt(r, k) = EntryAt(l, k)
                 /\ k > p => k \in Indices(s) /\ EntryAt(r, k) = EntryAt(s, k)
  BY DEF Joined
<1>2. /\ r \in LogType /\ l \in LogType /\ s \in LogType
      /\ r.base = l.base /\ LastIndex(r) = LastIndex(s)
  BY DEF Joined, WellFormed
<1>3. p \in Int /\ p >= l.base /\ l.base \in Nat /\ LastIndex(s) \in Int
  BY <1>2, EntryOfLog, LogIndices
<1>4. \A k \in Indices(r) : k \in Int
  BY <1>2, EntryOfLog
<1>5. \A k \in Indices(r) :
          /\ k <= p => k \in Indices(l) /\ TermAt(r, k) = TermAt(l, k)
          /\ k > p => k \in Indices(s) /\ TermAt(r, k) = TermAt(s, k)
  BY <1>1 DEF TermAt
<1>6. /\ \A k \in Indices(l) : TermAt(l, k) \in 0 .. t
      /\ \A k \in Indices(s) : TermAt(s, k) \in 0 .. u
      /\ TermsRise(l) /\ TermsRise(s)
  BY DEF WellFormed
<1>7. \A k \in Indices(r) : TermAt(r, k) \in 0 .. v
  <2> TAKE k \in Indices(r)
  <2>1. CASE k <= p
    <3>1. TermAt(l, k) \in 0 .. t /\ TermAt(r, k) = TermAt(l, k)
      BY <1>5, <1>6, <2>1
    <3> QED
      BY <3>1
  <2>2. CASE k > p
    <3>1. TermAt(s, k) \in 0 .. u /\ TermAt(r, k) = TermAt(s, k)
      BY <1>5, <1>6, <2>2
    <3> QED
      BY <3>1
  <2> QED
    BY <1>3, <1>4, <2>1, <2>2
<1>8. TermsRise(r)
  <2> SUFFICES ASSUME NEW k \in Indices(r), NEW n \in Indices(r), k <= n
               PROVE  TermAt(r, k) <= TermAt(r, n)
    BY DEF TermsRise
  <2>1. CASE n <= p
    <3>1. k <= p
      BY <1>3, <1>4, <2>1
    <3> QED
      BY <1>5, <1>6, <2>1, <3>1 DEF TermsRise
  <2>2. CASE k > p
    <3>1. n > p
      BY <1>3, <1>4, <2>2
    <3> QED
      BY <1>5, <1>6, <2>2, <3>1 DEF TermsRise
  <2>3. CASE k <= p /\ n > p
    <3>1. TermAt(r, k) = TermAt(l, k) /\ TermAt(r, n) = TermAt(s, n)
          /\ k \in Indices(l) /\ n \in Indices(s)
      BY <1>5, <2>3
    <3>2. TermAt(l, k) <= TermAt(l, p)
      BY <1>6, <2>3, <3>1 DEF TermsRise
    <3>3. TermAt(s, p) <= TermAt(s, n)
      <4>1. p <= n
        BY <1>3, <1>4, <2>3
      <4> QED
        BY <1>6, <3>1, <4>1 DEF TermsRise
    <3>4. TermAt(l, k) \in Int /\ TermAt(l, p) \in Int /\ TermAt(s, n) \in Int
      BY <1>2, <1>3, <1>4, EntryAtType
    <3> QED
      BY <1>1, <3>1, <3>2, <3>3, <3>4
  <2> QED
    BY <1>3, <1>4, <2>1, <2>2, <2>3
<1>9. LastIndex(r) >= r.base
  BY <1>1, <1>2, <1>3
<1> QED
  BY <1>2, <1>7, <1>8, <1>9 DEF WellFormed

LEMMA JoinedMatches ==
    ASSUME NEW l \in LogType, NEW s \in LogType, NEW r, Joined(r, l, s),
           NEW b \in LogType, Matching(l, b), Matching(s, b)
    PROVE  Matching(r, b)
<1>1. PICK p \in Indices(l) \cap Indices(s) :
          /\ TermAt(l, p) = TermAt(s, p)
          /\ \A k \in Indices(r) :
                 /\ k <= p => k \in Indices(l) /\ EntryAt(r, k) = EntryAt(l, k)
                 /\ k > p => k \in Indices(s) /\ EntryAt(r, k) = EntryAt(s, k)
  BY DEF Joined
<1>2. r \in LogType /\ r.base = l.base
  BY DEF Joined
<1> SUFFICES ASSUME NEW k \in Indices(r) \cap Indices(b),
                    TermAt(r, k) = TermAt(b, k),
                    NEW n \in Indices(r) \cap Indices(b), n <= k
             PROVE  Agree(EntryAt(r, n), EntryAt(b, n), n \in {r.base, b.base})
  BY DEF Matching
<1>3. p \in Int /\ k \in Int /\ n \in Int
  BY <1>2, EntryOfLog
<1>4. CASE k <= p
  <2>1. n <= p
    BY <1>3, <1>4
  <2>2. /\ k \in Indices(l) /\ n \in Indices(l) /\ TermAt(l, k) = TermAt(b, k)
        /\ EntryAt(r, n) = EntryAt(l, n)
    BY <1>1, <1>4, <2>1 DEF TermAt
  <2> QED
    BY <1>2, <2>2 DEF Matching
<1>5. CASE k > p
  <2>1. k \in Indices(s) /\ TermAt(s, k) = TermAt(b, k)
    BY <1>1, <1>5 DEF TermAt
  <2>2. CASE n > p
    <3>1. n \in Indices(s) /\ EntryAt(r, n) = EntryAt(s, n)
      BY <1>1, <2>2
    <3>2. Agree(EntryAt(s, n), EntryAt(b, n), n \in {s.base, b.base})
      BY <2>1, <3>1 DEF Matching
    <3>3. n # s.base
      <4>1. p >= s.base /\ s.base \in Nat
        BY EntryOfLog, LogIndices
      <4> QED
        BY <1>3, <2>2, <4>1
    <3> QED
      BY <3>1, <3>2, <3>3 DEF Agree
  <2>3. CASE n <= p
    <3>1. n \in Indices(l) /\ EntryAt(r, n) = EntryAt(l, n)
      BY <1>1, <2>3
    <3>2. p \in Indices(b)
      <4>1. n >= b.base /\ k <= LastIndex(b)
        BY EntryOfLog
      <4>2. b.base \in Int /\ LastIndex(b) \in Int
        BY LogIndices
      <4> QED
        BY <1>3, <1>5, <2>3, <4>1, <4>2 DEF Indices
    <3>3. TermAt(s, p) = TermAt(b, p)
      <4>1. p <= k
        BY <1>3, <1>5
      <4> QED
        BY <2>1, <3>2, <4>1 DEF Matching, Agree, TermAt
    <3>4. Agree(EntryAt(l, n), EntryAt(b, n), n \in {l.base, b.base})
      BY <1>1, <2>3, <3>1, <3>2, <3>3 DEF Matching
    <3> QED
      BY <1>2, <3>1, <3>4
  <2> QED
    BY <1>3, <2>2, <2>3
<1> QED
  BY <1>3, <1>4, <1>5

LEMMA OneMoreConsistent ==
    ASSUME NEW C, Consistent(C), NEW r, NEW u \in Nat, WellFormed(r, u),
           \A c \in C : Matching(r, c[1])
    PROVE  Consistent(C \cup {<<r, u>>})
<1> DEFINE D == C \cup {<<r, u>>}
<1>1. \A d \in D : d[2] \in Nat /\ WellFormed(d[1], d[2])
  BY DEF Consistent
<1>2. ASSUME NEW c \in D, NEW d \in D PROVE Matching(c[1], d[1])
  <2>1. CASE c \in C /\ d \in C
    BY <2>1 DEF Consistent
  <2>2. CASE c \in C /\ d = <<r, u>>
    BY <2>2, MatchingSymmetric
  <2>3. CASE c = <<r, u>> /\ d \in C
    BY <2>3
  <2>4. CASE c = <<r, u>> /\ d = <<r, u>>
    BY <2>4, MatchingReflexive
  <2> QED
    BY <2>1, <2>2, <2>3, <2>4
<1> HIDE DEF D
<1>3. Consistent(D)
  BY <1>1, <1>2 DEF Consistent
<1> QED
  BY <1>3 DEF D

LEMMA JoinedConsistent ==
    ASSUME NEW C, Consistent(C), NEW c \in C, NEW d \in C,
           NEW r, Joined(r, c[1], d[1]),
           NEW u \in Nat, c[2] <= u, d[2] <= u
    PROVE  /\ Consistent(C \cup {<<r, u>>})
           /\ \A k, t : Holds(C \cup {<<r, u>>}, k, t) => Holds(C, k, t)
<1>1. \A e \in C : e[2] \in Nat /\ WellFormed(e[1], e[2]) /\ e[1] \in LogType
  BY DEF Consistent, WellFormed
<1>2. WellFormed(r, u)
  BY <1>1, JoinedWellFormed
<1>3. \A e \in C : Matching(r, e[1])
  BY <1>1, JoinedMatches DEF Consistent
<1>4. \A k \in Indices(r) : Holds(C, k, TermAt(r, k))
  <2> TAKE k \in Indices(r)
  <2>1. PICK p \in Indices(c[1]) \cap Indices(d[1]) :
            /\ k <= p => k \in Indices(c[1]) /\ EntryAt(r, k) = EntryAt(c[1], k)
            /\ k > p => k \in Indices(d[1]) /\ EntryAt(r, k) = EntryAt(d[1], k)
    BY DEF Joined
  <2>2. r \in LogType
    BY DEF Joined
  <2>3. p \in Int /\ k \in Int
    BY <1>1, <2>2, EntryOfLog
  <2> QED
    BY <2>1, <2>3 DEF Holds, TermAt
<1>5. ASSUME NEW k, NEW t, Holds(C \cup {<<r, u>>}, k, t) PROVE Holds(C, k, t)
  BY <1>4, <1>5 DEF Holds
<1> QED
  BY <1>2, <1>3, <1>5, OneMoreConsistent

(***************************************************************************)
(* Start: the new entry is of a term nobody holds an entry of at the new   *)
(* index or beyond it.                                                     *)
(***************************************************************************)
LEMMA AppendedConsistent ==
    ASSUME NEW C, Consistent(C), NEW c \in C, NEW e \in Entry,
           e.term \in Nat, c[2] <= e.term,
           \A k : Holds(C, k, e.term) => k <= LastIndex(c[1])
    PROVE  LET r == AppendEntry(c[1], e)
               D == C \cup {<<r, e.term>>}
           IN /\ Consistent(D)
              /\ \A k, t : Holds(D, k, t) =>
                     Holds(C, k, t) \/ (k = LastIndex(c[1]) + 1 /\ t = e.term)
<1> DEFINE l == c[1]
           r == AppendEntry(l, e)
           t == e.term
           z == LastIndex(l) + 1
<1>1. \A d \in C : d[2] \in Nat /\ WellFormed(d[1], d[2]) /\ d[1] \in LogType
  BY DEF Consistent, WellFormed
<1>2. l \in LogType /\ LastIndex(l) >= l.base /\ c[2] \in Nat
      /\ TermsRise(l) /\ \A k \in Indices(l) : TermAt(l, k) \in 0 .. c[2]
  BY <1>1 DEF WellFormed
<1>3. LastIndex(l) \in Int /\ l.base \in Nat /\ z \in Int
  BY <1>2, LogIndices
<1>4. t \in Nat /\ c[2] <= t
  OBVIOUS
<1> HIDE DEF l, t
<1>5. /\ r \in LogType /\ r.base = l.base /\ LastIndex(r) = z
      /\ \A k \in Indices(r) : EntryAt(r, k) = IF k = z THEN e ELSE EntryAt(l, k)
  BY <1>2, AppendEntryAt
<1> HIDE DEF r
<1>6. ASSUME NEW k \in Indices(r)
      PROVE  /\ k \in Int /\ k <= z
             /\ k = z => TermAt(r, k) = t
             /\ k # z => k \in Indices(l) /\ EntryAt(r, k) = EntryAt(l, k)
                         /\ TermAt(r, k) = TermAt(l, k)
  <2>1. k \in Int /\ k >= l.base /\ k <= z
    BY <1>5, EntryOfLog
  <2>2. k # z => k \in Indices(l)
    BY <1>3, <2>1 DEF Indices
  <2> QED
    BY <1>5, <2>1, <2>2 DEF TermAt, t
<1>7. \A k \in Indices(r) : TermAt(r, k) \in 0 .. t
  <2> TAKE k \in Indices(r)
  <2>1. CASE k = z
    BY <1>4, <1>6, <2>1
  <2>2. CASE k # z
    <3>1. TermAt(l, k) \in 0 .. c[2] /\ TermAt(r, k) = TermAt(l, k)
      BY <1>2, <1>6, <2>2
    <3> QED
      BY <1>2, <1>4, <3>1
  <2> QED
    BY <2>1, <2>2
<1>8. TermsRise(r)
  <2> SUFFICES ASSUME NEW k \in Indices(r), NEW n \in Indices(r), k <= n
               PROVE  TermAt(r, k) <= TermAt(r, n)
    BY DEF TermsRise
  <2>1. CASE n = z
    <3>1. TermAt(r, n) = t /\ TermAt(r, k) \in 0 .. t
      BY <1>6, <1>7, <2>1
    <3> QED
      BY <1>4, <3>1
  <2>2. CASE n # z
    <3>1. k # z
      BY <1>3, <1>6, <2>2
    <3> QED
      BY <1>2, <1>6, <2>2, <3>1 DEF TermsRise
  <2> QED
    BY <2>1, <2>2
<1>9. WellFormed(r, t)
  <2>1. LastIndex(r) >= r.base
    BY <1>2, <1>3, <1>5 DEF z
  <2> QED
    BY <1>5, <1>7, <1>8, <2>1 DEF WellFormed
<1>10. ASSUME NEW d \in C PROVE Matching(r, d[1])
  <2> DEFINE b == d[1]
  <2>1. b \in LogType /\ Matching(l, b)
    BY <1>1 DEF Consistent, l
  <2> SUFFICES ASSUME NEW k \in Indices(r) \cap Indices(b),
                      TermAt(r, k) = TermAt(b, k),
                      NEW n \in Indices(r) \cap Indices(b), n <= k
               PROVE  Agree(EntryAt(r, n), EntryAt(b, n), n \in {r.base, b.base})
    BY DEF Matching
  <2>2. k # z
    <3> SUFFICES ASSUME k = z PROVE FALSE
      OBVIOUS
    <3>1. Holds(C, k, t)
      BY <1>6 DEF Holds
    <3>2. k <= LastIndex(l)
      BY <3>1 DEF l, t
    <3> QED
      BY <1>3, <3>2
  <2>3. n # z
    BY <1>3, <1>6, <2>2
  <2>4. k \in Indices(l) /\ TermAt(l, k) = TermAt(b, k)
        /\ n \in Indices(l) /\ EntryAt(r, n) = EntryAt(l, n)
    BY <1>6, <2>2, <2>3
  <2> QED
    BY <1>5, <2>1, <2>4 DEF Matching
<1>11. ASSUME NEW k, NEW v, Holds(C \cup {<<r, t>>}, k, v)
       PROVE  Holds(C, k, v) \/ (k = z /\ v = t)
  <2>1. CASE Holds(C, k, v)
    BY <2>1
  <2>2. CASE k \in Indices(r) /\ TermAt(r, k) = v
    BY <1>6, <2>2 DEF Holds, l
  <2> QED
    BY <1>11, <2>1, <2>2 DEF Holds
<1> QED
  BY <1>4, <1>9, <1>10, <1>11, OneMoreConsistent DEF l, r, t, z

----------------------------------------------------------------------------
(* Calls under way.                                                        *)

(***************************************************************************)
(* The requests of R were in Q already, awaited or not.                    *)
(***************************************************************************)
SameCall(m, n) == m = n \/ m = [n EXCEPT !.awaited = FALSE]
FromAmong(R, Q) == \A m \in R : \E n \in Q : SameCall(m, n)

LEMMA SameAppendCall ==
    ASSUME NEW n \in AppendRequest, NEW m, SameCall(m, n)
    PROVE  /\ m.from = n.from /\ m.to = n.to /\ m.term = n.term
           /\ m.prevIndex = n.prevIndex /\ m.prevTerm = n.prevTerm
           /\ m.entries = n.entries /\ m.leaderCommit = n.leaderCommit
BY DEF SameCall, AppendRequest

LEMMA SameInstallCall ==
    ASSUME NEW n \in InstallRequest, NEW m, SameCall(m, n)
    PROVE  /\ m.from = n.from /\ m.to = n.to /\ m.term = n.term
           /\ m.snapshot = n.snapshot
BY DEF SameCall, InstallRequest

LEMMA FewerRequests ==
    ASSUME NEW Q
    PROVE  /\ \A R : R \subseteq Q => FromAmong(R, Q)
           /\ \A m \in Q : FromAmong(GivenUp(Q, m), Q)
           /\ \A R, i : R \subseteq Q => FromAmong(Orphaned(R, i), Q)
BY DEF FromAmong, SameCall, GivenUp, Orphaned

NoNewRequests ==
    /\ FromAmong(appendRequests', appendRequests)
    /\ FromAmong(installRequests', installRequests)

LEMMA OtherStepsSendNothing ==
    ASSUME [Next]_vars,
           ~ \E i \in Server : \E j \in Others(i) : Replicate(i, j),
           ~ \E m \in appendReplies : AnswerWithSnapshot(m)
    PROVE  NoNewRequests
<1>1. ASSUME appendRequests' \subseteq appendRequests,
             installRequests' \subseteq installRequests
      PROVE  NoNewRequests
  BY <1>1, FewerRequests DEF NoNewRequests
<1>2. ASSUME \/ \E i \in Server : Tick(i)
             \/ \E g \in soliciting : SolicitVote(g)
             \/ \E m \in voteRequests : HandleRequestVote(m)
             \/ \E m \in voteReplies : HandleVoteReply(m)
             \/ \E i \in Server : Start(i)
             \/ \E i \in Server : \E k \in Indices(log[i]) : TakeSnapshot(i, k)
             \/ \E m \in appendRequests : HandleAppendEntries(m)
             \/ \E m \in appendReplies : HandleAppendReply(m)
             \/ \E m \in installRequests : HandleInstallSnapshot(m)
             \/ \E m \in installReplies : HandleInstallReply(m)
      PROVE  NoNewRequests
  BY <1>1, <1>2
  DEF Tick, SolicitVote, HandleRequestVote, HandleVoteReply, Start, TakeSnapshot,
      HandleAppendEntries, HandleAppendReply, HandleInstallSnapshot,
      HandleInstallReply, appendNet, installNet
<1>3. ASSUME NEW m \in appendRequests, AppendTimeout(m) PROVE NoNewRequests
  BY <1>3, FewerRequests DEF AppendTimeout, installNet, NoNewRequests
<1>4. ASSUME NEW m \in installRequests, InstallTimeout(m) PROVE NoNewRequests
  BY <1>4, FewerRequests DEF InstallTimeout, appendNet, NoNewRequests
<1>5. ASSUME \/ \E m \in appendReplies : AppendReplyTooLate(m)
             \/ \E m \in installReplies : InstallReplyTooLate(m)
      PROVE  NoNewRequests
  BY <1>1, <1>5 DEF AppendReplyTooLate, InstallReplyTooLate, appendNet, installNet
<1>6. ASSUME NEW i, NEW A \in SUBSET appendRequests, NEW B \in SUBSET installRequests,
             appendRequests' = Orphaned(A, i), installRequests' = Orphaned(B, i)
      PROVE  NoNewRequests
  BY <1>6, FewerRequests DEF NoNewRequests
<1>7. ASSUME NEW i \in Server, Restart(i) PROVE NoNewRequests
  BY <1>6, <1>7 DEF Restart
<1>8. ASSUME NEW m \in voteRequests \cup appendRequests \cup installRequests,
             CrashInHandler(m)
      PROVE  NoNewRequests
  BY <1>6, <1>8 DEF CrashInHandler
<1>9. CASE UNCHANGED vars
  BY <1>1, <1>9 DEF vars, appendNet, installNet
<1> QED
  BY <1>2, <1>3, <1>4, <1>5, <1>7, <1>8, <1>9 DEF Next

(***************************************************************************)
(* Only AppendEntries and InstallSnapshot are answered.                    *)
(***************************************************************************)
RepliesAnswer ==
    /\ \A r \in appendReplies' \ appendReplies :
           \E m \in appendRequests :
               /\ HandleAppendEntries(m)
               /\ r = AppendReply(m.to, m, /\ ~(m.term < currentTerm[m.to])
                                          /\ ~Matches(log[m.to], m))
    /\ \A r \in installReplies' \ installReplies :
           \E m \in installRequests :
               /\ HandleInstallSnapshot(m)
               /\ r.from = m.to /\ r.to = m.from /\ r.asked = m.term

LEMMA RepliesToRequests ==
    ASSUME [Next]_vars
    PROVE  RepliesAnswer
<1>1. ASSUME appendReplies' \subseteq appendReplies,
             installReplies' \subseteq installReplies
      PROVE  RepliesAnswer
  BY <1>1 DEF RepliesAnswer
<1>2. ASSUME NEW m \in appendRequests, HandleAppendEntries(m) PROVE RepliesAnswer
  BY <1>2 DEF HandleAppendEntries, installNet, RepliesAnswer
<1>3. ASSUME NEW m \in installRequests, HandleInstallSnapshot(m) PROVE RepliesAnswer
  <2>1. /\ UNCHANGED appendReplies
        /\ \A r \in installReplies' \ installReplies :
               r = [from |-> m.to, to |-> m.from, asked |-> m.term,
                    term |-> currentTerm'[m.to]]
    BY <1>3 DEF HandleInstallSnapshot, appendNet
  <2> QED
    BY <1>3, <2>1 DEF RepliesAnswer
<1>4. ASSUME NEW i, NEW image, Boot(i, image) PROVE RepliesAnswer
  BY <1>1, <1>4 DEF Boot, Unanswered
<1>5. ASSUME \/ \E i \in Server : Tick(i)
             \/ \E g \in soliciting : SolicitVote(g)
             \/ \E m \in voteRequests : HandleRequestVote(m)
             \/ \E m \in voteReplies : HandleVoteReply(m)
             \/ \E i \in Server : Start(i)
             \/ \E i \in Server : \E j \in Others(i) : Replicate(i, j)
             \/ \E i \in Server : \E k \in Indices(log[i]) : TakeSnapshot(i, k)
             \/ \E m \in appendReplies : HandleAppendReply(m)
             \/ \E m \in appendReplies : AnswerWithSnapshot(m)
             \/ \E m \in installReplies : HandleInstallReply(m)
      PROVE  RepliesAnswer
  <2>1. appendReplies' \subseteq appendReplies
    BY <1>5
    DEF Tick, SolicitVote, HandleRequestVote, HandleVoteReply, Start, Replicate,
        TakeSnapshot, HandleAppendReply, AnswerWithSnapshot, HandleInstallReply,
        appendNet
  <2>2. installReplies' \subseteq installReplies
    BY <1>5
    DEF Tick, SolicitVote, HandleRequestVote, HandleVoteReply, Start, Replicate,
        TakeSnapshot, HandleAppendReply, AnswerWithSnapshot, HandleInstallReply,
        installNet
  <2> QED
    BY <1>1, <2>1, <2>2
<1>6. ASSUME \/ \E m \in appendRequests : AppendTimeout(m)
             \/ \E m \in appendReplies : AppendReplyTooLate(m)
             \/ \E m \in installRequests : InstallTimeout(m)
             \/ \E m \in installReplies : InstallReplyTooLate(m)
      PROVE  RepliesAnswer
  BY <1>1, <1>6 DEF AppendTimeout, AppendReplyTooLate, InstallTimeout,
                    InstallReplyTooLate, appendNet, installNet
<1>7. CASE UNCHANGED vars
  BY <1>1, <1>7 DEF vars, appendNet, installNet
<1> QED
  BY <1>2, <1>3, <1>4, <1>5, <1>6, <1>7 DEF Next, Restart, CrashInHandler

----------------------------------------------------------------------------
(* Who leads, and who has led.                                             *)

(***************************************************************************)
(* A leader has been elected in its term, a candidate has not, and nobody  *)
(* was elected in a term it has not reached.                               *)
(***************************************************************************)
LeadersElected ==
    /\ \A i \in Server : state[i] = Leader => <<currentTerm[i], i>> \in elected
    /\ \A i \in Server : state[i] = Candidate =>
           currentTerm[i] > 0 /\ <<currentTerm[i], i>> \notin elected
    /\ \A e \in elected : e[1] <= currentTerm[e[2]]

(***************************************************************************)
(* AppendEntries and InstallSnapshot are calls of peers that led the term  *)
(* they name, at the time.                                                 *)
(***************************************************************************)
CallersElected ==
    /\ \A m \in appendRequests \cup installRequests :
           <<m.term, m.from>> \in elected
    /\ \A r \in appendReplies \cup installReplies :
           <<r.asked, r.to>> \in elected

RoleInv == LeadersElected /\ CallersElected

RolesKept ==
    /\ elected' = elected
    /\ \A i \in Server : state'[i] \in {Leader, Candidate} =>
           state'[i] = state[i] /\ currentTerm'[i] = currentTerm[i]

LEMMA TermsGrow ==
    ASSUME TypeOK, DiskInSync, [Next]_vars
    PROVE  \A i \in Server : currentTerm'[i] \in Nat /\ currentTerm'[i] >= currentTerm[i]
<1>1. VoteStep
  BY NextVoteStep
<1> QED
  BY <1>1 DEF VoteStep, KeepsVotes, ClearsVote, CastsVote, TypeOK, TypeOfElections

LEMMA OtherStepsKeepRoles ==
    ASSUME TypeOK, [Next]_vars,
           ~ \E i \in Server : Tick(i),
           ~ \E m \in voteReplies : HandleVoteReply(m)
    PROVE  RolesKept
<1> USE DEF TypeOK
<1>1. ASSUME UNCHANGED <<state, currentTerm, elected>> PROVE RolesKept
  BY <1>1 DEF RolesKept
<1>2. ASSUME NEW i \in Server, NEW m, NewerReply(i, m), UNCHANGED elected
      PROVE  RolesKept
  BY <1>2, RolesAssumption DEF NewerReply, StepDown, RolesKept, TypeOfElections
<1>3. ASSUME \/ \E g \in soliciting : SolicitVote(g)
             \/ \E i \in Server : Start(i)
             \/ \E i \in Server : \E j \in Others(i) : Replicate(i, j)
             \/ \E m \in appendReplies : AnswerWithSnapshot(m)
             \/ \E i \in Server : \E k \in Indices(log[i]) : TakeSnapshot(i, k)
      PROVE  RolesKept
  BY <1>1, <1>3 DEF SolicitVote, Start, Replicate, AnswerWithSnapshot,
                    TakeSnapshot, electionVars, history
<1>4. ASSUME NEW m \in appendRequests, HandleAppendEntries(m) PROVE RolesKept
  <2>1. m.to \in Server
    BY DEF TypeOfNet, AppendRequest
  <2> QED
    BY <1>4, <2>1, RolesAssumption
    DEF HandleAppendEntries, Follow, Newer, RolesKept, TypeOfElections
<1>5. ASSUME NEW m \in installRequests, HandleInstallSnapshot(m) PROVE RolesKept
  <2>1. m.to \in Server
    BY DEF TypeOfNet, InstallRequest
  <2> QED
    BY <1>5, <2>1, RolesAssumption
    DEF HandleInstallSnapshot, Follow, Newer, RolesKept, TypeOfElections
<1>6. ASSUME NEW m \in appendReplies, HandleAppendReply(m) PROVE RolesKept
  <2>1. m.to \in Server
    BY DEF TypeOfNet, AppendReplyType
  <2> QED
    BY <1>1, <1>2, <1>6, <2>1
    DEF HandleAppendReply, LateReply, AppendSucceeded, AppendRejected, electionVars
<1>7. ASSUME NEW m \in installReplies, HandleInstallReply(m) PROVE RolesKept
  <2>1. m.to \in Server
    BY DEF TypeOfNet, InstallReply
  <2> QED
    BY <1>1, <1>2, <1>7, <2>1
    DEF HandleInstallReply, LateReply, InstallAnswered, electionVars
<1>8. ASSUME NEW caller, NEW t, TimesOut(caller, t) PROVE RolesKept
  BY <1>1, <1>8 DEF TimesOut, electionVars, history
<1>9. ASSUME NEW i \in Server, NEW image, Boot(i, image) PROVE RolesKept
  BY <1>9, RolesAssumption DEF Boot, history, RolesKept, TypeOfElections
<1>10. ASSUME NEW m \in voteRequests \cup appendRequests \cup installRequests,
              CrashInHandler(m)
       PROVE  RolesKept
  <2>1. m.to \in Server
    BY DEF TypeOfNet, VoteRequest, AppendRequest, InstallRequest
  <2> QED
    BY <1>9, <1>10, <2>1 DEF CrashInHandler
<1>11. CASE UNCHANGED vars
  BY <1>1, <1>11 DEF vars, electionVars, history
<1>12. ASSUME NEW m \in voteRequests, HandleRequestVote(m) PROVE RolesKept
  <2>1. m.to \in Server
    BY DEF TypeOfNet, VoteRequest
  <2> QED
    BY <1>12, <2>1, RolesAssumption DEF HandleRequestVote, RolesKept, TypeOfElections
<1> QED
  BY <1>3, <1>4, <1>5, <1>6, <1>7, <1>8, <1>9, <1>10, <1>11, <1>12
  DEF Next, AppendTimeout, AppendReplyTooLate, InstallTimeout,
      InstallReplyTooLate, Restart

LEMMA NextLeadersElected ==
    ASSUME TypeOK, DiskInSync, LeadersElected, [Next]_vars
    PROVE  LeadersElected' /\ elected \subseteq elected'
<1> USE DEF TypeOK
<1>1. \A e \in elected : e[1] \in Nat /\ e[2] \in Server /\ e = <<e[1], e[2]>>
  BY DEF TypeOfHistory
<1>2. \A i \in Server : /\ currentTerm[i] \in Nat /\ currentTerm'[i] \in Nat
                        /\ currentTerm'[i] >= currentTerm[i]
  BY TermsGrow DEF TypeOfElections
<1>3. \A e \in elected : e[1] <= currentTerm'[e[2]]
  BY <1>1, <1>2 DEF LeadersElected
<1>4. CASE RolesKept
  BY <1>3, <1>4 DEF RolesKept, LeadersElected
<1>5. ASSUME NEW i \in Server, Tick(i) PROVE LeadersElected' /\ elected \subseteq elected'
  <2>1. CASE StaysQuiet(i)
    BY <1>4, <1>5, <2>1 DEF Tick, RolesKept
  <2>2. CASE ~StaysQuiet(i)
    <3>1. /\ elected' = elected
          /\ state'[i] = Candidate /\ currentTerm'[i] = currentTerm[i] + 1
          /\ \A j \in Server \ {i} : /\ state'[j] = state[j]
                                     /\ currentTerm'[j] = currentTerm[j]
      BY <1>5, <2>2 DEF Tick, ToCandidate, TypeOfElections
    <3>2. currentTerm'[i] > 0 /\ <<currentTerm'[i], i>> \notin elected
      BY <1>1, <1>2, <3>1 DEF LeadersElected
    <3> QED
      BY <1>3, <3>1, <3>2, RolesAssumption DEF LeadersElected
  <2> QED
    BY <2>1, <2>2
<1>6. ASSUME NEW m \in voteReplies, HandleVoteReply(m)
      PROVE  LeadersElected' /\ elected \subseteq elected'
  <2> DEFINE i == m.to
  <2>1. i \in Server
    BY DEF TypeOfNet, VoteReply
  <2>2. CASE Newer(i, m.term)
    <3>1. RolesKept
      BY <1>6, <2>1, <2>2, RolesAssumption
      DEF HandleVoteReply, StepDown, RolesKept, TypeOfElections
    <3> QED
      BY <1>4, <3>1
  <2>3. CASE ~Newer(i, m.term) /\ UNCHANGED <<state, elected>>
    <3>1. RolesKept
      BY <1>6, <2>3 DEF HandleVoteReply, RolesKept
    <3> QED
      BY <1>4, <3>1
  <2>4. CASE ~Newer(i, m.term) /\ ToLeader(i)
    <3>1. /\ currentTerm' = currentTerm
          /\ elected' = elected \cup {<<currentTerm[i], i>>}
          /\ state' = [state EXCEPT ![i] = Leader]
      BY <1>6, <2>4 DEF HandleVoteReply, ToLeader
    <3> QED
      BY <1>2, <1>3, <2>1, <3>1, RolesAssumption DEF LeadersElected, TypeOfElections
  <2> QED
    BY <1>6, <2>2, <2>3, <2>4 DEF HandleVoteReply
<1> QED
  BY <1>4, <1>5, <1>6, OtherStepsKeepRoles DEF RolesKept

LEMMA NextCallersElected ==
    ASSUME TypeOK, DiskInSync, RoleInv, [Next]_vars
    PROVE  CallersElected'
<1> USE DEF TypeOK
<1>1. elected \subseteq elected'
  BY NextLeadersElected DEF RoleInv
<1>2. ASSUME NEW m \in appendRequests' \cup installRequests'
      PROVE  <<m.term, m.from>> \in elected
  <2>1. ASSUME NEW i \in Server, state[i] = Leader
        PROVE  <<currentTerm[i], i>> \in elected
    BY <2>1 DEF RoleInv, LeadersElected
  <2>2. ASSUME NEW i \in Server, NEW j \in Others(i), Replicate(i, j)
        PROVE  <<m.term, m.from>> \in elected
    <3>1. \/ m \in appendRequests \cup installRequests
          \/ m = InstallArgs(i, j)
          \/ m = AppendArgs(i, j)
      BY <2>2 DEF Replicate
    <3>2. state[i] = Leader
      BY <2>2 DEF Replicate
    <3> QED
      BY <2>1, <3>1, <3>2 DEF InstallArgs, AppendArgs, RoleInv, CallersElected
  <2>3. ASSUME NEW r \in appendReplies, AnswerWithSnapshot(r)
        PROVE  <<m.term, m.from>> \in elected
    <3>1. \/ m \in appendRequests \cup installRequests
          \/ m = InstallArgs(r.to, r.from)
      BY <2>3 DEF AnswerWithSnapshot
    <3>2. state[r.to] = Leader /\ r.to \in Server
      BY <2>3 DEF AnswerWithSnapshot, InTime, TypeOfNet, AppendReplyType
    <3> QED
      BY <2>1, <3>1, <3>2 DEF InstallArgs, RoleInv, CallersElected
  <2>4. CASE NoNewRequests
    <3>1. CASE m \in appendRequests'
      <4>1. PICK n \in appendRequests : SameCall(m, n)
        BY <2>4, <3>1 DEF NoNewRequests, FromAmong
      <4>2. n \in AppendRequest
        BY DEF TypeOfNet
      <4> QED
        BY <4>1, <4>2, SameAppendCall DEF RoleInv, CallersElected
    <3>2. CASE m \in installRequests'
      <4>1. PICK n \in installRequests : SameCall(m, n)
        BY <2>4, <3>2 DEF NoNewRequests, FromAmong
      <4>2. n \in InstallRequest
        BY DEF TypeOfNet
      <4> QED
        BY <4>1, <4>2, SameInstallCall DEF RoleInv, CallersElected
    <3> QED
      BY <3>1, <3>2
  <2> QED
    BY <2>2, <2>3, <2>4, OtherStepsSendNothing
<1>3. ASSUME NEW r \in appendReplies' \cup installReplies'
      PROVE  <<r.asked, r.to>> \in elected
  <2>1. \/ r \in appendReplies \cup installReplies
        \/ \E m \in appendRequests \cup installRequests :
               r.asked = m.term /\ r.to = m.from
    BY RepliesToRequests DEF RepliesAnswer, AppendReply
  <2> QED
    BY <2>1 DEF RoleInv, CallersElected
<1> QED
  BY <1>1, <1>2, <1>3 DEF CallersElected

THEOREM RolesInvariance == Spec => []RoleInv
<1>1. Init => RoleInv
  BY RolesAssumption DEF Init, RoleInv, LeadersElected, CallersElected
<1>2. TypeOK /\ DiskInSync /\ RoleInv /\ [Next]_vars => RoleInv'
  BY NextLeadersElected, NextCallersElected DEF RoleInv
<1> QED
  BY <1>1, <1>2, TypeCorrect, DiskInvariance, PTL DEF Spec

----------------------------------------------------------------------------
(* The logs of the peers and the segments of logs the requests carry.      *)

Sent(m) == Segment(m.prevIndex, m.prevTerm, m.entries)

SnapshotBase(s) == Segment(s.index, s.term, << >>)

Carried ==
    {<<log[i], currentTerm[i]>> : i \in Server}
        \cup {<<Sent(m), m.term>> : m \in appendRequests}
        \cup {<<SnapshotBase(m.snapshot), m.term>> : m \in installRequests}

(***************************************************************************)
(* Terms are proposed in by those who were elected in them.                *)
(***************************************************************************)
EntriesElected ==
    \A c \in Carried : \A k \in Indices(c[1]) :
        TermAt(c[1], k) > 0 => \E e \in elected : e[1] = TermAt(c[1], k)

(***************************************************************************)
(* A leader holds every entry of its term.                                 *)
(***************************************************************************)
LeaderAhead ==
    \A i \in Server : state[i] = Leader =>
        \A c \in Carried : \A k \in Indices(c[1]) :
            TermAt(c[1], k) = currentTerm[i] => k <= LastIndex(log[i])

(***************************************************************************)
(* What a leader knows of its followers, and what it hears from them, is   *)
(* about indices up to the end of its own log.                             *)
(***************************************************************************)
Leads(i, t) == state[i] = Leader /\ currentTerm[i] = t

Probes ==
    /\ \A i, j \in Server :
           state[i] = Leader => nextIndex[i][j] <= LastIndex(log[i]) + 1
    /\ \A m \in appendRequests :
           Leads(m.from, m.term) =>
               m.prevIndex + Len(m.entries) <= LastIndex(log[m.from])
    /\ \A r \in appendReplies :
           /\ Leads(r.to, r.asked) =>
                  r.prevIndex + r.sent <= LastIndex(log[r.to])
           /\ r.conflictStart <= r.prevIndex

SnapshotsOfLogs ==
    \A i \in Server : snapshot[i].term = TermAt(log[i], log[i].base)

LogInv ==
    /\ Consistent(Carried)
    /\ EntriesElected
    /\ LeaderAhead
    /\ Probes
    /\ SnapshotsOfLogs

LEMMA CarriedHolds ==
    /\ EntriesElected <=>
           \A k, t : Holds(Carried, k, t) /\ t > 0 => \E e \in elected : e[1] = t
    /\ LeaderAhead <=>
           \A i \in Server : state[i] = Leader =>
               \A k : Holds(Carried, k, currentTerm[i]) => k <= LastIndex(log[i])
BY DEF EntriesElected, LeaderAhead, Holds

(***************************************************************************)
(* A request that is kept carries what it did.                             *)
(***************************************************************************)
LEMMA CarriedAfter ==
    ASSUME TypeOK, TypeOK', NEW C, Carried \subseteq C, Consistent(C),
           \A i \in Server :
               \E c \in C : PartOf(log'[i], c[1]) /\ c[2] <= currentTerm'[i],
           \A m \in appendRequests' :
               \/ \E n \in appendRequests : SameCall(m, n)
               \/ \E c \in C : PartOf(Sent(m), c[1]) /\ c[2] <= m.term,
           \A m \in installRequests' :
               \/ \E n \in installRequests : SameCall(m, n)
               \/ \E c \in C : PartOf(SnapshotBase(m.snapshot), c[1]) /\ c[2] <= m.term
    PROVE  /\ Consistent(Carried')
           /\ \A k, t : Holds(Carried', k, t) => Holds(C, k, t)
<1> USE DEF TypeOK
<1>1. \A c \in C : PartOf(c[1], c[1]) /\ c[2] <= c[2]
  BY PartOfItself DEF Consistent, WellFormed
<1>2. ASSUME NEW i \in Server
      PROVE  currentTerm'[i] \in Nat
  BY DEF TypeOfElections
<1>3. ASSUME NEW m \in appendRequests'
      PROVE  /\ m.term \in Nat
             /\ \E c \in C : PartOf(Sent(m), c[1]) /\ c[2] <= m.term
  <2>1. m.term \in Nat
    BY DEF TypeOfNet, AppendRequest
  <2>2. ASSUME NEW n \in appendRequests, SameCall(m, n)
        PROVE  \E c \in C : PartOf(Sent(m), c[1]) /\ c[2] <= m.term
    <3>1. n \in AppendRequest
      BY DEF TypeOfNet
    <3>2. Sent(m) = Sent(n) /\ m.term = n.term
      BY <2>2, <3>1, SameAppendCall DEF Sent
    <3>3. <<Sent(n), n.term>> \in C
      BY DEF Carried
    <3>4. PartOf(Sent(n), Sent(n)) /\ n.term <= n.term
      BY <1>1, <3>3
    <3> QED
      BY <3>2, <3>3, <3>4
  <2> QED
    BY <2>1, <2>2
<1>4. ASSUME NEW m \in installRequests'
      PROVE  /\ m.term \in Nat
             /\ \E c \in C : PartOf(SnapshotBase(m.snapshot), c[1]) /\ c[2] <= m.term
  <2>1. m.term \in Nat
    BY DEF TypeOfNet, InstallRequest
  <2>2. ASSUME NEW n \in installRequests, SameCall(m, n)
        PROVE  \E c \in C : PartOf(SnapshotBase(m.snapshot), c[1]) /\ c[2] <= m.term
    <3>1. n \in InstallRequest
      BY DEF TypeOfNet
    <3>2. SnapshotBase(m.snapshot) = SnapshotBase(n.snapshot) /\ m.term = n.term
      BY <2>2, <3>1, SameInstallCall
    <3>3. <<SnapshotBase(n.snapshot), n.term>> \in C
      BY DEF Carried
    <3>4. PartOf(SnapshotBase(n.snapshot), SnapshotBase(n.snapshot))
             /\ n.term <= n.term
      BY <1>1, <3>3
    <3> QED
      BY <3>2, <3>3, <3>4
  <2> QED
    BY <2>1, <2>2
<1> DEFINE D == Carried'
<1>5. \A d \in D : d[2] \in Nat
                   /\ \E c \in C : PartOf(d[1], c[1]) /\ c[2] <= d[2]
  <2> TAKE d \in D
  <2>1. ASSUME NEW i \in Server, d = <<log'[i], currentTerm'[i]>>
        PROVE  d[2] \in Nat /\ \E c \in C : PartOf(d[1], c[1]) /\ c[2] <= d[2]
    BY <1>2, <2>1
  <2>2. ASSUME NEW m \in appendRequests', d = <<Sent(m), m.term>>
        PROVE  d[2] \in Nat /\ \E c \in C : PartOf(d[1], c[1]) /\ c[2] <= d[2]
    BY <1>3, <2>2
  <2>3. ASSUME NEW m \in installRequests', d = <<SnapshotBase(m.snapshot), m.term>>
        PROVE  d[2] \in Nat /\ \E c \in C : PartOf(d[1], c[1]) /\ c[2] <= d[2]
    BY <1>4, <2>3
  <2> QED
    BY <2>1, <2>2, <2>3 DEF Carried
<1> HIDE DEF D
<1>6. Consistent(D) /\ \A k, t : Holds(D, k, t) => Holds(C, k, t)
  BY <1>5, PartsConsistent
<1> QED
  BY <1>6 DEF D

(***************************************************************************)
(* No entry is new, and the logs and requests are consistent as before.    *)
(***************************************************************************)
NothingNew ==
    /\ Consistent(Carried')
    /\ \A k, t : Holds(Carried', k, t) => Holds(Carried, k, t)

LEMMA LogIsCarried ==
    ASSUME Consistent(Carried), NEW i \in Server
    PROVE  /\ <<log[i], currentTerm[i]>> \in Carried
           /\ log[i] \in LogType
           /\ LastIndex(log[i]) >= log[i].base
           /\ \A k \in Indices(log[i]) : TermAt(log[i], k) \in 0 .. currentTerm[i]
           /\ TermsRise(log[i])
           /\ PartOf(log[i], log[i])
<1>1. <<log[i], currentTerm[i]>> \in Carried
  BY DEF Carried
<1>2. WellFormed(log[i], currentTerm[i])
  BY <1>1 DEF Consistent
<1> QED
  BY <1>1, <1>2, PartOfItself DEF WellFormed

LEMMA KeptLogs ==
    ASSUME TypeOK, Consistent(Carried), NEW S \in SUBSET Server,
           \A i \in S : /\ log'[i] = log[i]
                        /\ currentTerm'[i] \in Nat
                        /\ currentTerm'[i] >= currentTerm[i]
    PROVE  \A i \in S :
               \E c \in Carried : PartOf(log'[i], c[1]) /\ c[2] <= currentTerm'[i]
<1> TAKE i \in S
<1> DEFINE c == <<log[i], currentTerm[i]>>
<1>1. c \in Carried /\ PartOf(log'[i], c[1])
  BY LogIsCarried
<1>2. c[2] <= currentTerm'[i]
  BY DEF TypeOK, TypeOfElections
<1> QED
  BY <1>1, <1>2

LEMMA QuietStepCarries ==
    ASSUME TypeOK, TypeOK', DiskInSync, Consistent(Carried), [Next]_vars,
           log' = log, NoNewRequests
    PROVE  NothingNew
<1>1. \A i \in Server :
          \E c \in Carried : PartOf(log'[i], c[1]) /\ c[2] <= currentTerm'[i]
  BY TermsGrow, KeptLogs
<1> QED
  BY <1>1, CarriedAfter DEF NothingNew, NoNewRequests, FromAmong

LEMMA InstallArgsCarries ==
    ASSUME TypeInv, Consistent(Carried), SnapshotsOfLogs,
           NEW i \in Server, NEW j
    PROVE  LET m == InstallArgs(i, j) IN
           \E c \in Carried : PartOf(SnapshotBase(m.snapshot), c[1]) /\ c[2] <= m.term
<1> DEFINE l == log[i]
           c == <<l, currentTerm[i]>>
<1>1. c \in Carried /\ l \in LogType /\ l.base \in Indices(l)
  <2>1. PartOf(l, l)
    BY LogIsCarried
  <2> QED
    BY <2>1, LogIsCarried DEF PartOf
<1>2. snapshot[i].index = l.base /\ snapshot[i].term = TermAt(l, l.base)
  BY DEF TypeInv, Positions, SnapshotsOfLogs
<1>3. PartOf(SnapshotBase(snapshot[i]), l)
  BY <1>1, <1>2, BaseIsPart DEF SnapshotBase
<1>4. currentTerm[i] <= currentTerm[i]
  BY DEF TypeInv, TypeOK, TypeOfElections
<1> QED
  BY <1>1, <1>3, <1>4 DEF InstallArgs

LEMMA AppendArgsCarries ==
    ASSUME TypeInv, Consistent(Carried), Probes, NEW i \in Server, NEW j \in Server,
           state[i] = Leader, ~LacksPrevious(i, j)
    PROVE  LET m == AppendArgs(i, j) IN
           /\ \E c \in Carried : PartOf(Sent(m), c[1]) /\ c[2] <= m.term
           /\ LastIndex(Sent(m)) = LastIndex(log[i])
           /\ m.prevIndex \in Indices(log[i])
<1> DEFINE l == log[i]
           c == <<l, currentTerm[i]>>
           prev == nextIndex[i][j] - 1
           m == AppendArgs(i, j)
<1>1. c \in Carried /\ l \in LogType
  BY LogIsCarried
<1>2. nextIndex[i][j] \in Int /\ nextIndex[i][j] <= LastIndex(l) + 1
        /\ l.base \in Nat /\ LastIndex(l) \in Int
  BY <1>1, LogIndices DEF TypeInv, TypeOK, TypeOfLogs, Probes
<1>3. prev \in Indices(l)
  BY <1>2 DEF LacksPrevious, Indices
<1>4. /\ m.prevIndex = prev /\ m.prevTerm = TermAt(l, prev)
      /\ m.entries = EntriesFrom(l, prev + 1) /\ m.term = currentTerm[i]
  BY DEF AppendArgs
<1> HIDE DEF prev, m, l
<1>5. PartOf(Sent(m), l) /\ LastIndex(Sent(m)) = LastIndex(l)
  BY <1>1, <1>3, <1>4, SentIsPart DEF Sent
<1>6. currentTerm[i] <= currentTerm[i]
  BY DEF TypeInv, TypeOK, TypeOfElections
<1> QED
  BY <1>1, <1>3, <1>4, <1>5, <1>6 DEF m, l

LEMMA ReplicateCarries ==
    ASSUME TypeInv, TypeOK', DiskInSync, LogInv, [Next]_vars,
           NEW i \in Server, NEW j \in Others(i), Replicate(i, j)
    PROVE  NothingNew
<1>1. Consistent(Carried) /\ Probes /\ SnapshotsOfLogs /\ j \in Server
  BY DEF LogInv, Others
<1>2. log' = log /\ state[i] = Leader
  BY DEF Replicate, logVars
<1>3. \A n \in Server :
          \E c \in Carried : PartOf(log'[n], c[1]) /\ c[2] <= currentTerm'[n]
  BY <1>1, <1>2, TermsGrow, KeptLogs DEF TypeInv
<1>4. \A m \in appendRequests' :
          \/ \E n \in appendRequests : SameCall(m, n)
          \/ \E c \in Carried : PartOf(Sent(m), c[1]) /\ c[2] <= m.term
  <2> TAKE m \in appendRequests'
  <2>1. CASE m \in appendRequests
    BY <2>1 DEF SameCall
  <2>2. CASE m = AppendArgs(i, j) /\ ~LacksPrevious(i, j)
    BY <1>1, <1>2, <2>2, AppendArgsCarries
  <2> QED
    BY <2>1, <2>2 DEF Replicate
<1>5. \A m \in installRequests' :
          \/ \E n \in installRequests : SameCall(m, n)
          \/ \E c \in Carried : PartOf(SnapshotBase(m.snapshot), c[1]) /\ c[2] <= m.term
  <2> TAKE m \in installRequests'
  <2>1. CASE m \in installRequests
    BY <2>1 DEF SameCall
  <2>2. CASE m = InstallArgs(i, j)
    BY <1>1, <2>2, InstallArgsCarries
  <2> QED
    BY <2>1, <2>2 DEF Replicate
<1> QED
  BY <1>1, <1>3, <1>4, <1>5, CarriedAfter DEF TypeInv, NothingNew

LEMMA AnswerWithSnapshotCarries ==
    ASSUME TypeInv, TypeOK', DiskInSync, LogInv, [Next]_vars,
           NEW r \in appendReplies, AnswerWithSnapshot(r)
    PROVE  NothingNew
<1>1. Consistent(Carried) /\ SnapshotsOfLogs /\ r.to \in Server
  BY DEF LogInv, TypeInv, TypeOK, TypeOfNet, AppendReplyType
<1>2. log' = log /\ appendRequests' = appendRequests
  BY DEF AnswerWithSnapshot, logVars
<1>3. \A n \in Server :
          \E c \in Carried : PartOf(log'[n], c[1]) /\ c[2] <= currentTerm'[n]
  BY <1>1, <1>2, TermsGrow, KeptLogs DEF TypeInv
<1>4. \A m \in appendRequests' : \E n \in appendRequests : SameCall(m, n)
  BY <1>2 DEF SameCall
<1>5. \A m \in installRequests' :
          \/ \E n \in installRequests : SameCall(m, n)
          \/ \E c \in Carried : PartOf(SnapshotBase(m.snapshot), c[1]) /\ c[2] <= m.term
  <2> TAKE m \in installRequests'
  <2>1. CASE m \in installRequests
    BY <2>1 DEF SameCall
  <2>2. CASE m = InstallArgs(r.to, r.from)
    BY <1>1, <2>2, InstallArgsCarries
  <2> QED
    BY <2>1, <2>2 DEF AnswerWithSnapshot
<1> QED
  BY <1>1, <1>3, <1>4, <1>5, CarriedAfter DEF TypeInv, NothingNew

(***************************************************************************)
(* A command is appended beyond everything of the leader's term.           *)
(***************************************************************************)
LEMMA StartCarries ==
    ASSUME TypeInv, TypeOK', DiskInSync, LogInv, [Next]_vars,
           NEW i \in Server, Start(i)
    PROVE  /\ Consistent(Carried')
           /\ LastIndex(log'[i]) = LastIndex(log[i]) + 1
           /\ log'[i].base = log[i].base
           /\ TermAt(log'[i], log'[i].base) = TermAt(log[i], log[i].base)
           /\ \A j \in Server \ {i} : log'[j] = log[j]
           /\ \A k, t : Holds(Carried', k, t) =>
                  \/ Holds(Carried, k, t)
                  \/ k = LastIndex(log[i]) + 1 /\ t = currentTerm[i]
<1> DEFINE l == log[i]
           e == [term |-> currentTerm[i], cmd |-> <<i, LastIndex(l) + 1>>]
           r == AppendEntry(l, e)
           c == <<l, currentTerm[i]>>
           C == Carried \cup {<<r, e.term>>}
<1>1. /\ c \in Carried /\ l \in LogType /\ LastIndex(l) >= l.base
      /\ LastIndex(l) \in Int /\ currentTerm[i] \in Nat
      /\ Consistent(Carried) /\ l.base \in Nat
  BY LogIsCarried, LogIndices DEF LogInv, TypeInv, TypeOK, TypeOfElections
<1>2. e \in Entry /\ e.term = currentTerm[i]
  BY <1>1 DEF Entry, Command
<1>3. /\ log'[i] = r /\ \A j \in Server \ {i} : log'[j] = log[j]
      /\ currentTerm' = currentTerm /\ state[i] = Leader
      /\ appendRequests' = appendRequests /\ installRequests' = installRequests
  BY DEF Start, electionVars, appendNet, installNet, TypeInv, TypeOK, TypeOfLogs
<1>4. \A k : Holds(Carried, k, e.term) => k <= LastIndex(l)
  BY <1>2, <1>3, CarriedHolds DEF LogInv
<1>5. currentTerm[i] <= currentTerm[i]
  BY <1>1
<1>6. /\ Consistent(C)
      /\ \A k, t : Holds(C, k, t) =>
             Holds(Carried, k, t) \/ (k = LastIndex(l) + 1 /\ t = e.term)
  <2> HIDE DEF e
  <2> QED
    BY <1>1, <1>2, <1>4, <1>5, AppendedConsistent
<1>7. /\ r \in LogType /\ r.base = l.base /\ LastIndex(r) = LastIndex(l) + 1
      /\ \A k \in Indices(r) : EntryAt(r, k) =
             IF k = LastIndex(l) + 1 THEN e ELSE EntryAt(l, k)
  <2> HIDE DEF e
  <2> QED
    BY <1>1, <1>2, AppendEntryAt
<1>8. TermAt(r, r.base) = TermAt(l, l.base)
  <2>1. l.base \in Indices(r) /\ l.base # LastIndex(l) + 1
    BY <1>1, <1>7 DEF Indices
  <2> HIDE DEF r, e
  <2> QED
    BY <1>7, <2>1 DEF TermAt
<1> HIDE DEF r, e
<1>9. \A n \in Server :
          \E d \in C : PartOf(log'[n], d[1]) /\ d[2] <= currentTerm'[n]
  <2> TAKE n \in Server
  <2>1. CASE n = i
    <3>1. LastIndex(r) >= r.base
      BY <1>1, <1>7
    <3>2. PartOf(r, r)
      BY <1>7, <3>1, PartOfItself
    <3> DEFINE d == <<r, currentTerm[i]>>
    <3>3. d \in C
      BY <1>2
    <3>4. PartOf(log'[n], d[1]) /\ d[2] <= currentTerm'[n]
      BY <1>3, <1>5, <2>1, <3>2
    <3> QED
      BY <3>3, <3>4
  <2>2. CASE n # i
    <3>1. n \in Server \ {i} /\ \A j \in Server \ {i} : currentTerm[j] \in Nat
                                    /\ currentTerm[j] >= currentTerm[j]
      BY <2>2 DEF TypeInv, TypeOK, TypeOfElections
    <3>2. \E d \in Carried : PartOf(log'[n], d[1]) /\ d[2] <= currentTerm'[n]
      BY <1>1, <1>3, <3>1, KeptLogs DEF TypeInv
    <3> QED
      BY <3>2
  <2> QED
    BY <2>1, <2>2
<1>10. /\ \A m \in appendRequests' : \E n \in appendRequests : SameCall(m, n)
       /\ \A m \in installRequests' : \E n \in installRequests : SameCall(m, n)
  BY <1>3 DEF SameCall
<1>11. /\ Consistent(Carried')
       /\ \A k, t : Holds(Carried', k, t) => Holds(C, k, t)
  <2> HIDE DEF C
  <2>1. Carried \subseteq C
    BY DEF C
  <2> QED
    BY <1>6, <1>9, <1>10, <2>1, CarriedAfter DEF TypeInv
<1> QED
  BY <1>2, <1>3, <1>6, <1>7, <1>8, <1>11

LEMMA TakeSnapshotCarries ==
    ASSUME TypeInv, TypeOK', DiskInSync, LogInv, [Next]_vars,
           NEW i \in Server, NEW k \in Indices(log[i]), TakeSnapshot(i, k)
    PROVE  /\ NothingNew
           /\ LastIndex(log'[i]) = LastIndex(log[i])
           /\ TermAt(log'[i], log'[i].base) = snapshot'[i].term
           /\ \A j \in Server \ {i} : log'[j] = log[j] /\ snapshot'[j] = snapshot[j]
<1> DEFINE l == log[i]
           c == <<l, currentTerm[i]>>
<1>1. c \in Carried /\ l \in LogType /\ Consistent(Carried)
  BY LogIsCarried DEF LogInv
<1>2. /\ log'[i] = Rebase(l, k) /\ \A j \in Server \ {i} : log'[j] = log[j]
      /\ snapshot'[i] = SnapshotAt(i, k)
      /\ \A j \in Server \ {i} : snapshot'[j] = snapshot[j]
      /\ appendRequests' = appendRequests /\ installRequests' = installRequests
  BY DEF TakeSnapshot, appendNet, installNet, TypeInv, TypeOK, TypeOfLogs
<1>3. currentTerm[i] <= currentTerm'[i]
  BY TermsGrow DEF TypeInv, TypeOK, TypeOfElections
<1>4. PartOf(Rebase(l, k), l) /\ LastIndex(Rebase(l, k)) = LastIndex(l)
  BY <1>1, RebaseIsPart
<1>5. \A n \in Server :
          \E d \in Carried : PartOf(log'[n], d[1]) /\ d[2] <= currentTerm'[n]
  <2>1. \A n \in Server \ {i} :
          \E d \in Carried : PartOf(log'[n], d[1]) /\ d[2] <= currentTerm'[n]
    BY <1>1, <1>2, TermsGrow, KeptLogs DEF TypeInv
  <2> QED
    BY <1>1, <1>2, <1>3, <1>4, <2>1
<1>6. /\ \A m \in appendRequests' : \E n \in appendRequests : SameCall(m, n)
      /\ \A m \in installRequests' : \E n \in installRequests : SameCall(m, n)
  BY <1>2 DEF SameCall
<1>7. NothingNew
  BY <1>1, <1>5, <1>6, CarriedAfter DEF TypeInv, NothingNew
<1>8. TermAt(log'[i], log'[i].base) = snapshot'[i].term
  <2>1. LET r == Rebase(l, k) IN
        r \in LogType /\ r.base = k /\ LastIndex(r) = LastIndex(l)
            /\ \A n \in Indices(r) : EntryAt(r, n) = EntryAt(l, n)
    BY <1>1, RebaseAt
  <2>2. k \in Int /\ k <= LastIndex(l) /\ LastIndex(l) \in Int
    BY <1>1, EntryOfLog, LogIndices
  <2>3. k \in Indices(Rebase(l, k))
    BY <2>1, <2>2 DEF Indices
  <2> QED
    BY <1>2, <2>1, <2>3 DEF SnapshotAt, TermAt
<1> QED
  BY <1>2, <1>4, <1>7, <1>8

(***************************************************************************)
(* The request names an entry the follower holds: a missing one would have *)
(* term -1, which no request carries.                                      *)
(***************************************************************************)
LEMMA ProbeHeld ==
    ASSUME TypeInv, Consistent(Carried), NEW m \in appendRequests
    PROVE  m.prevIndex \in Nat /\ m.prevTerm # -1
<1>1. /\ m.prevIndex \in Int /\ m.prevTerm \in Int /\ m.entries \in Seq(Entry)
      /\ m.term \in Nat
  BY DEF TypeInv, TypeOK, TypeOfNet, AppendRequest
<1>2. WellFormed(Sent(m), m.term)
  <2>1. <<Sent(m), m.term>> \in Carried
    BY DEF Carried
  <2> QED
    BY <2>1 DEF Consistent
<1>3. m.prevIndex \in Nat
  BY <1>2 DEF WellFormed, Sent, Segment, LogType
<1>4. m.prevIndex \in Indices(Sent(m)) /\ TermAt(Sent(m), m.prevIndex) = m.prevTerm
  BY <1>1, <1>3, SegmentAt DEF Sent, TermAt
<1> QED
  BY <1>1, <1>2, <1>3, <1>4 DEF WellFormed

LEMMA MatchedIndexHeld ==
    ASSUME TypeInv, Consistent(Carried), NEW m \in appendRequests,
           NEW l, Matches(l, m)
    PROVE  m.prevIndex \in Indices(l)
BY ProbeHeld DEF Matches, TermAt, EntryAt, Missing

LEMMA AppendEntriesCarries ==
    ASSUME TypeInv, TypeOK', DiskInSync, LogInv, [Next]_vars,
           NEW m \in appendRequests, HandleAppendEntries(m)
    PROVE  /\ NothingNew
           /\ \A j \in Server : /\ log'[j].base = log[j].base
                                /\ TermAt(log'[j], log'[j].base)
                                       = TermAt(log[j], log[j].base)
                                /\ snapshot'[j] = snapshot[j]
<1> DEFINE i == m.to
           l == log[i]
           s == Sent(m)
           r == log'[i]
           u == currentTerm'[i]
           ok == ~(m.term < currentTerm[i]) /\ Matches(l, m)
<1>1. /\ i \in Server /\ m.term \in Nat /\ m.entries \in Seq(Entry)
      /\ snapshot' = snapshot /\ Consistent(Carried)
      /\ currentTerm[i] \in Nat
  BY DEF TypeInv, TypeOK, TypeOfNet, AppendRequest, HandleAppendEntries, LogInv,
         TypeOfElections
<1>2. appendRequests' \subseteq appendRequests /\ installRequests' = installRequests
  BY DEF HandleAppendEntries, installNet
<1>3. NoNewRequests
  BY <1>2, FewerRequests DEF NoNewRequests
<1>4. CASE log' = log
  BY <1>1, <1>3, <1>4, QuietStepCarries DEF TypeInv
<1>5. CASE log' # log
  <2>1. ok /\ log' = [log EXCEPT ![i] = AppendEntries(l, m.prevIndex + 1, m.entries)]
    BY <1>5 DEF HandleAppendEntries
  <2>2. /\ r = AppendEntries(l, m.prevIndex + 1, m.entries)
        /\ \A j \in Server \ {i} : log'[j] = log[j]
    BY <1>1, <2>1 DEF TypeInv, TypeOK, TypeOfLogs
  <2>3. /\ <<l, currentTerm[i]>> \in Carried /\ <<s, m.term>> \in Carried
        /\ l \in LogType /\ s \in LogType
    <3>1. <<s, m.term>> \in Carried
      BY DEF Carried
    <3>2. WellFormed(s, m.term)
      BY <1>1, <3>1 DEF Consistent
    <3> QED
      BY <1>1, <3>1, <3>2, LogIsCarried DEF WellFormed
  <2>4. m.prevIndex \in Indices(l)
    BY <1>1, <2>1, MatchedIndexHeld
  <2>5. s = Segment(m.prevIndex, TermAt(l, m.prevIndex), m.entries)
    BY <2>1 DEF Matches, Sent
  <2>6. r = l \/ Joined(r, l, s)
    BY <1>1, <2>2, <2>3, <2>4, <2>5, AppendEntriesJoins
  <2>7. r # l
    <3>1. log \in [Server -> LogType] /\ log' \in [Server -> LogType]
      BY DEF TypeInv, TypeOK, TypeOfLogs
    <3> QED
      BY <1>5, <2>2, <3>1
  <2>8. Joined(r, l, s)
    BY <2>6, <2>7
  <2>9. u \in Nat /\ currentTerm[i] <= u /\ m.term <= u
    <3>1. u \in Nat /\ u >= currentTerm[i]
      BY <1>1, TermsGrow DEF TypeInv
    <3>2. u = IF Newer(i, m.term) THEN m.term ELSE currentTerm[i]
      BY <1>1 DEF HandleAppendEntries, Follow, TypeInv, TypeOK, TypeOfElections
    <3> QED
      BY <1>1, <2>1, <3>1, <3>2 DEF Newer
  <2> DEFINE C == Carried \cup {<<r, u>>}
  <2> HIDE DEF u, s, l, r
  <2>10. /\ Consistent(C)
         /\ \A k, t : Holds(C, k, t) => Holds(Carried, k, t)
    <3> DEFINE c == <<l, currentTerm[i]>>
               d == <<s, m.term>>
    <3>1. c \in Carried /\ d \in Carried /\ Joined(r, c[1], d[1])
             /\ c[2] <= u /\ d[2] <= u
      BY <2>3, <2>8, <2>9
    <3> HIDE DEF c, d
    <3> QED
      BY <1>1, <2>9, <3>1, JoinedConsistent
  <2>11. PartOf(r, r)
    <3>1. <<r, u>> \in C
      OBVIOUS
    <3>2. WellFormed(r, u)
      BY <2>10, <3>1 DEF Consistent
    <3> QED
      BY <3>2, PartOfItself DEF WellFormed
  <2>12. \A n \in Server :
             \E d \in C : PartOf(log'[n], d[1]) /\ d[2] <= currentTerm'[n]
    <3> TAKE n \in Server
    <3>1. CASE n = i
      <4> DEFINE d == <<r, u>>
      <4>1. d \in C
        OBVIOUS
      <4>2. PartOf(log'[n], d[1]) /\ d[2] <= currentTerm'[n]
        BY <2>9, <2>11, <3>1 DEF r, u
      <4> QED
        BY <4>1, <4>2
    <3>2. CASE n # i
      <4>1. \A j \in Server \ {i} :
               \E d \in Carried : PartOf(log'[j], d[1]) /\ d[2] <= currentTerm'[j]
        BY <1>1, <2>2, TermsGrow, KeptLogs DEF TypeInv
      <4> QED
        BY <3>2, <4>1
    <3> QED
      BY <3>1, <3>2
  <2> HIDE DEF C
  <2>13. Carried \subseteq C
    BY DEF C
  <2>14. /\ Consistent(Carried')
         /\ \A k, t : Holds(Carried', k, t) => Holds(C, k, t)
    BY <1>3, <2>10, <2>12, <2>13, CarriedAfter DEF TypeInv, NoNewRequests, FromAmong
  <2>15. r.base = l.base /\ TermAt(r, r.base) = TermAt(l, l.base)
    <3>1. r.base = l.base /\ r \in LogType
      BY <2>8 DEF Joined
    <3>2. PICK p \in Indices(l) :
              \A k \in Indices(r) : k <= p => EntryAt(r, k) = EntryAt(l, k)
      BY <2>8 DEF Joined
    <3>3. l.base <= p
      BY <2>3, EntryOfLog
    <3>4. r.base \in Indices(r)
      BY <2>11 DEF PartOf
    <3> QED
      BY <3>1, <3>2, <3>3, <3>4 DEF TermAt
  <2> QED
    BY <1>1, <2>2, <2>10, <2>14, <2>15 DEF NothingNew, r, l
<1> QED
  BY <1>4, <1>5

LEMMA InstallSnapshotCarries ==
    ASSUME TypeInv, TypeOK', DiskInSync, LogInv, [Next]_vars,
           NEW m \in installRequests, HandleInstallSnapshot(m)
    PROVE  /\ NothingNew
           /\ \A j \in Server :
                  \/ log'[j] = log[j] /\ snapshot'[j] = snapshot[j]
                  \/ TermAt(log'[j], log'[j].base) = snapshot'[j].term
<1> DEFINE i == m.to
           l == log[i]
           s == m.snapshot
           r == log'[i]
           u == currentTerm'[i]
<1>1. /\ i \in Server /\ m.term \in Nat /\ s.index \in Nat /\ s.term \in Int
      /\ Consistent(Carried) /\ currentTerm[i] \in Nat
  BY DEF TypeInv, TypeOK, TypeOfNet, InstallRequest, SnapshotType, LogInv,
         TypeOfElections
<1>2. installRequests' \subseteq installRequests /\ appendRequests' = appendRequests
  BY DEF HandleInstallSnapshot, appendNet
<1>3. NoNewRequests
  BY <1>2, FewerRequests DEF NoNewRequests
<1>4. CASE ~Installs(i, m)
  <2>1. log' = log /\ snapshot' = snapshot
    BY <1>4 DEF HandleInstallSnapshot
  <2> QED
    BY <1>1, <1>3, <2>1, QuietStepCarries DEF TypeInv
<1>5. CASE Installs(i, m)
  <2>1. /\ r = Installed(l, s.index, s.term)
        /\ \A j \in Server \ {i} : log'[j] = log[j] /\ snapshot'[j] = snapshot[j]
        /\ snapshot'[i] = s
    BY <1>1, <1>5 DEF HandleInstallSnapshot, TypeInv, TypeOK, TypeOfLogs
  <2>2. u \in Nat /\ currentTerm[i] <= u /\ m.term <= u
    <3>1. u \in Nat /\ u >= currentTerm[i]
      BY <1>1, TermsGrow DEF TypeInv
    <3>2. u = IF Newer(i, m.term) THEN m.term ELSE currentTerm[i]
      BY <1>1 DEF HandleInstallSnapshot, Follow, TypeInv, TypeOK, TypeOfElections
    <3> QED
      BY <1>1, <1>5, <3>1, <3>2 DEF Newer
  <2> DEFINE b == SnapshotBase(s)
  <2>3. /\ <<l, currentTerm[i]>> \in Carried /\ <<b, m.term>> \in Carried
        /\ l \in LogType
    BY <1>1, LogIsCarried DEF Carried
  <2>4. /\ b \in LogType /\ b.base = s.index /\ s.index \in Indices(b)
        /\ TermAt(b, s.index) = s.term
    <3>1. << >> \in Seq(Entry)
      BY EmptySeq
    <3>2. b = Segment(s.index, s.term, << >>)
      BY DEF SnapshotBase
    <3> HIDE DEF b
    <3>3. /\ b \in LogType /\ b.base = s.index /\ s.index \in Indices(b)
          /\ EntryAt(b, s.index) = [term |-> s.term, cmd |-> None]
      BY <1>1, <3>1, <3>2, SegmentAt
    <3> QED
      BY <3>3 DEF TermAt
  <2>5. s.term \in Nat /\ PartOf(b, b)
    <3>1. WellFormed(b, m.term)
      BY <1>1, <2>3 DEF Consistent
    <3> QED
      BY <1>1, <2>4, <3>1, PartOfItself DEF WellFormed
  <2>6. \/ TermAt(l, s.index) = s.term /\ s.index \in Indices(l) /\ PartOf(r, l)
        \/ r = b
    BY <1>1, <2>1, <2>3, <2>5, InstalledIs DEF SnapshotBase
  <2>7. r.base = s.index
    BY <2>1 DEF Installed
  <2>8. TermAt(r, r.base) = s.term
    <3>1. CASE TermAt(l, s.index) = s.term /\ s.index \in Indices(l) /\ PartOf(r, l)
      <4>1. r.base \in Indices(r)
        <5>1. r \in LogType /\ r.base <= LastIndex(r)
          BY <3>1 DEF PartOf
        <5> QED
          BY <5>1, LogIndices DEF Indices
      <4> QED
        BY <2>3, <2>7, <3>1, <4>1, PartOfEntry
    <3>2. CASE r = b
      BY <2>4, <3>2
    <3> QED
      BY <2>6, <3>1, <3>2
  <2> HIDE DEF r, l, b
  <2>9. \A n \in Server :
            \E d \in Carried : PartOf(log'[n], d[1]) /\ d[2] <= currentTerm'[n]
    <3>1. \A n \in Server \ {i} :
            \E d \in Carried : PartOf(log'[n], d[1]) /\ d[2] <= currentTerm'[n]
      BY <1>1, <2>1, TermsGrow, KeptLogs DEF TypeInv
    <3>2. \E d \in Carried : PartOf(r, d[1]) /\ d[2] <= u
      BY <2>2, <2>3, <2>5, <2>6
    <3> QED
      BY <3>1, <3>2 DEF r
  <2>10. NothingNew
    BY <1>1, <1>3, <2>9, CarriedAfter
    DEF TypeInv, NothingNew, NoNewRequests, FromAmong
  <2> QED
    BY <2>1, <2>8, <2>10 DEF r
<1> QED
  BY <1>4, <1>5

----------------------------------------------------------------------------
(* The invariant holds after every step.                                   *)

LEMMA OtherStepsKeepLogs ==
    ASSUME TypeInv, DiskInSync, [Next]_vars,
           ~ \E i \in Server : Start(i),
           ~ \E m \in appendRequests : HandleAppendEntries(m),
           ~ \E i \in Server : \E k \in Indices(log[i]) : TakeSnapshot(i, k),
           ~ \E m \in installRequests : HandleInstallSnapshot(m)
    PROVE  /\ log' = log
           /\ \A i \in Server :
                  /\ \/ snapshot'[i] = snapshot[i]
                     \/ snapshot'[i].term = TermAt(log[i], log[i].base)
                  /\ snapshot'[i].bytes = snapshot[i].bytes
<1> USE DEF TypeInv, TypeOK
<1> DEFINE Kept == /\ log' = log
                   /\ \A i \in Server :
                          /\ \/ snapshot'[i] = snapshot[i]
                             \/ snapshot'[i].term = TermAt(log[i], log[i].base)
                          /\ snapshot'[i].bytes = snapshot[i].bytes
<1>1. ASSUME \/ \E i \in Server : Tick(i)
             \/ \E g \in soliciting : SolicitVote(g)
             \/ \E m \in voteRequests : HandleRequestVote(m)
             \/ \E m \in voteReplies : HandleVoteReply(m)
             \/ \E i \in Server : \E j \in Others(i) : Replicate(i, j)
             \/ \E m \in appendReplies : HandleAppendReply(m)
             \/ \E m \in appendReplies : AnswerWithSnapshot(m)
             \/ \E m \in installReplies : HandleInstallReply(m)
      PROVE  Kept
  <2>1. UNCHANGED <<log, snapshot>>
    BY <1>1 DEF Tick, SolicitVote, HandleRequestVote, HandleVoteReply, Replicate,
                HandleAppendReply, AnswerWithSnapshot, HandleInstallReply, logVars
  <2> QED
    BY <2>1
<1>2. ASSUME NEW caller, NEW t, TimesOut(caller, t) PROVE Kept
  BY <1>2 DEF TimesOut, logVars
<1>3. ASSUME NEW i \in Server, NEW image, Boot(i, image), image.log = log[i],
             image.bytes = snapshot[i].bytes
      PROVE  Kept
  <2>1. log' = log
    BY <1>3 DEF Boot, TypeOfLogs
  <2>2. /\ snapshot'[i].term = TermAt(log[i], log[i].base)
        /\ snapshot'[i].bytes = snapshot[i].bytes
        /\ \A j \in Server \ {i} : snapshot'[j] = snapshot[j]
    BY <1>3 DEF Boot, TypeOfLogs
  <2> QED
    BY <2>1, <2>2
<1>4. \A i \in Server : /\ disk[i].log = log[i] /\ disk[i] \in ImageType
                         /\ disk[i].bytes = snapshot[i].bytes
  BY DEF DiskInSync, Image, TypeOfLogs
<1>5. ASSUME NEW m \in voteRequests \cup appendRequests \cup installRequests,
             CrashInHandler(m)
      PROVE  Kept
  <2> DEFINE i == m.to
             image == [disk[i] EXCEPT !.term = m.term, !.vote = None]
  <2>1. i \in Server
    BY DEF TypeOfNet, VoteRequest, AppendRequest, InstallRequest
  <2>2. image.log = log[i] /\ image.bytes = snapshot[i].bytes
    BY <1>4, <2>1 DEF ImageType
  <2>3. Boot(i, image)
    BY <1>5 DEF CrashInHandler
  <2> HIDE DEF image
  <2> QED
    BY <1>3, <2>1, <2>2, <2>3
<1>6. CASE UNCHANGED vars
  BY <1>6 DEF vars, logVars
<1> QED
  BY <1>1, <1>2, <1>3, <1>4, <1>5, <1>6
  DEF Next, AppendTimeout, AppendReplyTooLate, InstallTimeout,
      InstallReplyTooLate, Restart

LEMMA NextCarries ==
    ASSUME TypeInv, TypeOK', DiskInSync, LogInv, [Next]_vars,
           ~ \E i \in Server : Start(i)
    PROVE  NothingNew
<1>1. CASE log' = log /\ NoNewRequests
  BY <1>1, QuietStepCarries DEF TypeInv, LogInv
<1> QED
  BY <1>1, ReplicateCarries, AnswerWithSnapshotCarries, AppendEntriesCarries,
     TakeSnapshotCarries, InstallSnapshotCarries, OtherStepsKeepLogs,
     OtherStepsSendNothing

LEMMA NextConsistent ==
    ASSUME TypeInv, TypeOK', DiskInSync, LogInv, [Next]_vars
    PROVE  Consistent(Carried')
BY NextCarries, StartCarries DEF NothingNew

LEMMA NextEntriesElected ==
    ASSUME TypeInv, TypeOK', DiskInSync, RoleInv, LogInv, [Next]_vars
    PROVE  EntriesElected'
<1>1. elected \subseteq elected'
  BY NextLeadersElected DEF TypeInv, RoleInv
<1>2. \A k, t : Holds(Carried, k, t) /\ t > 0 => \E e \in elected : e[1] = t
  BY CarriedHolds DEF LogInv
<1> SUFFICES ASSUME NEW k, NEW t, Holds(Carried', k, t), t > 0
             PROVE  \E e \in elected : e[1] = t
  BY <1>1 DEF EntriesElected, Holds
<1>3. CASE Holds(Carried, k, t)
  BY <1>2, <1>3
<1>4. ASSUME NEW i \in Server, Start(i), t = currentTerm[i]
      PROVE  \E e \in elected : e[1] = t
  <2>1. <<currentTerm[i], i>> \in elected
    BY <1>4 DEF Start, RoleInv, LeadersElected
  <2> QED
    BY <1>4, <2>1
<1> QED
  BY <1>3, <1>4, NextCarries, StartCarries DEF NothingNew

LEMMA NextSnapshotsOfLogs ==
    ASSUME TypeInv, TypeOK', DiskInSync, LogInv, [Next]_vars
    PROVE  SnapshotsOfLogs'
<1>1. SnapshotsOfLogs
  BY DEF LogInv
<1>2. ASSUME NEW i \in Server, Start(i) PROVE SnapshotsOfLogs'
  <2>1. snapshot' = snapshot
    BY <1>2 DEF Start
  <2> QED
    BY <1>1, <1>2, <2>1, StartCarries DEF SnapshotsOfLogs
<1>3. ASSUME NEW m \in appendRequests, HandleAppendEntries(m) PROVE SnapshotsOfLogs'
  BY <1>1, <1>3, AppendEntriesCarries DEF SnapshotsOfLogs
<1>4. ASSUME NEW i \in Server, NEW k \in Indices(log[i]), TakeSnapshot(i, k)
      PROVE  SnapshotsOfLogs'
  BY <1>1, <1>4, TakeSnapshotCarries DEF SnapshotsOfLogs
<1>5. ASSUME NEW m \in installRequests, HandleInstallSnapshot(m)
      PROVE  SnapshotsOfLogs'
  BY <1>1, <1>5, InstallSnapshotCarries DEF SnapshotsOfLogs
<1> QED
  BY <1>1, <1>2, <1>3, <1>4, <1>5, OtherStepsKeepLogs DEF SnapshotsOfLogs

(***************************************************************************)
(* A leader is new, or it leads on and has lost no entry: nobody calls the *)
(* leader of its own term.                                                 *)
(***************************************************************************)
JustElected(i) ==
    /\ state[i] = Candidate
    /\ UNCHANGED <<currentTerm, ballots, logVars, appendNet>>
    /\ ToLeader(i)

LeadsOn(i) ==
    /\ state[i] = Leader
    /\ currentTerm'[i] = currentTerm[i]
    /\ LastIndex(log'[i]) >= LastIndex(log[i])

LEMMA NoLeaderIsCalled ==
    ASSUME TypeOK, RoleInv, ElectionSafety,
           NEW m \in appendRequests \cup installRequests, state[m.to] = Leader
    PROVE  m.term # currentTerm[m.to]
<1>1. m.to \in Server /\ m.from # m.to
  BY DEF TypeOK, TypeOfNet, NoCallToSelf, AppendRequest, InstallRequest
<1>2. /\ <<m.term, m.from>> \in elected
      /\ <<currentTerm[m.to], m.to>> \in elected
  BY <1>1 DEF RoleInv, LeadersElected, CallersElected
<1> QED
  BY <1>1, <1>2 DEF ElectionSafety

LEMMA StillLeader ==
    ASSUME TypeInv, RoleInv, ElectionSafety, [Next]_vars,
           NEW i \in Server, state'[i] = Leader
    PROVE  \/ JustElected(i)
           \/ state[i] = Leader /\ currentTerm'[i] = currentTerm[i]
<1> USE DEF TypeInv, TypeOK
<1>1. CASE RolesKept
  BY <1>1 DEF RolesKept
<1>2. ASSUME NEW j \in Server, Tick(j)
      PROVE  state[i] = Leader /\ currentTerm'[i] = currentTerm[i]
  BY <1>2, RolesAssumption DEF Tick, ToCandidate, TypeOfElections
<1>3. ASSUME NEW m \in voteReplies, HandleVoteReply(m)
      PROVE  \/ JustElected(i)
             \/ state[i] = Leader /\ currentTerm'[i] = currentTerm[i]
  <2>1. m.to \in Server
    BY DEF TypeOfNet, VoteReply
  <2>2. CASE Newer(m.to, m.term)
    BY <1>3, <2>1, <2>2, RolesAssumption
    DEF HandleVoteReply, StepDown, TypeOfElections
  <2>3. CASE ~Newer(m.to, m.term) /\ UNCHANGED state
    BY <1>3, <2>3 DEF HandleVoteReply
  <2>4. CASE /\ ~Newer(m.to, m.term)
             /\ CountsVote(m.to, m)
             /\ ToLeader(m.to)
    <3>1. /\ UNCHANGED <<currentTerm, ballots, logVars, appendNet>>
          /\ state[m.to] = Candidate
      BY <1>3, <2>4 DEF HandleVoteReply, CountsVote
    <3>2. \A j \in Server \ {m.to} : state'[j] = state[j]
      BY <2>4 DEF ToLeader, TypeOfElections
    <3> QED
      BY <2>4, <3>1, <3>2 DEF JustElected
  <2> QED
    BY <1>3, <2>2, <2>3, <2>4 DEF HandleVoteReply
<1> QED
  BY <1>1, <1>2, <1>3, OtherStepsKeepRoles

LEMMA NextLeader ==
    ASSUME TypeInv, TypeOK', DiskInSync, RoleInv, ElectionSafety, LogInv,
           [Next]_vars, NEW i \in Server, state'[i] = Leader
    PROVE  JustElected(i) \/ LeadsOn(i)
<1> SUFFICES ASSUME ~JustElected(i) PROVE LeadsOn(i)
  OBVIOUS
<1>1. state[i] = Leader /\ currentTerm'[i] = currentTerm[i]
  BY StillLeader
<1>2. ASSUME log'[i] = log[i] PROVE LeadsOn(i)
  <2>1. LastIndex(log[i]) \in Int
    BY LogIndices DEF TypeInv, TypeOK, TypeOfLogs
  <2> QED
    BY <1>1, <1>2, <2>1 DEF LeadsOn
<1>3. LastIndex(log[i]) \in Int /\ currentTerm[i] \in Nat
  BY LogIndices DEF TypeInv, TypeOK, TypeOfLogs, TypeOfElections
<1>4. ASSUME NEW j \in Server, Start(j) PROVE LeadsOn(i)
  BY <1>1, <1>2, <1>3, <1>4, StartCarries DEF LeadsOn
<1>5. ASSUME NEW j \in Server, NEW k \in Indices(log[j]), TakeSnapshot(j, k)
      PROVE  LeadsOn(i)
  BY <1>1, <1>2, <1>3, <1>5, TakeSnapshotCarries DEF LeadsOn
<1>6. ASSUME NEW m \in appendRequests, HandleAppendEntries(m) PROVE LeadsOn(i)
  <2>1. CASE m.to = i
    <3>1. m.term # currentTerm[i] /\ m.term \in Nat
      BY <1>1, <2>1, NoLeaderIsCalled DEF TypeInv, TypeOK, TypeOfNet, AppendRequest
    <3>2. m.term < currentTerm[i] => log' = log
      BY <1>6, <2>1 DEF HandleAppendEntries
    <3>3. ~Newer(i, m.term)
      BY <1>1, <1>3, <1>6, <2>1, <3>1
      DEF HandleAppendEntries, Follow, Newer, TypeInv, TypeOK, TypeOfElections
    <3> QED
      BY <1>2, <1>3, <3>1, <3>2, <3>3 DEF Newer
  <2>2. CASE m.to # i
    <3>1. log'[i] = log[i]
      BY <1>6, <2>2 DEF HandleAppendEntries, TypeInv, TypeOK, TypeOfLogs
    <3> QED
      BY <1>2, <3>1
  <2> QED
    BY <2>1, <2>2
<1>7. ASSUME NEW m \in installRequests, HandleInstallSnapshot(m) PROVE LeadsOn(i)
  <2>1. CASE m.to = i
    <3>1. m.term # currentTerm[i] /\ m.term \in Nat
      BY <1>1, <2>1, NoLeaderIsCalled DEF TypeInv, TypeOK, TypeOfNet, InstallRequest
    <3>2. ~(m.term >= currentTerm[i]) => log' = log
      BY <1>7, <2>1 DEF HandleInstallSnapshot, Installs
    <3>3. ~Newer(i, m.term)
      BY <1>1, <1>3, <1>7, <2>1, <3>1
      DEF HandleInstallSnapshot, Follow, Newer, TypeInv, TypeOK, TypeOfElections
    <3> QED
      BY <1>2, <1>3, <3>1, <3>2, <3>3 DEF Newer
  <2>2. CASE m.to # i
    <3>1. log'[i] = log[i]
      BY <1>7, <2>2 DEF HandleInstallSnapshot, TypeInv, TypeOK, TypeOfLogs
    <3> QED
      BY <1>2, <3>1
  <2> QED
    BY <2>1, <2>2
<1> QED
  BY <1>2, <1>4, <1>5, <1>6, <1>7, OtherStepsKeepLogs

(***************************************************************************)
(* Nobody holds an entry of a term before its leader is elected.           *)
(***************************************************************************)
LEMMA NextLeaderAhead ==
    ASSUME TypeInv, TypeOK', DiskInSync, RoleInv, ElectionSafety, ElectionSafety',
           LogInv, [Next]_vars
    PROVE  LeaderAhead'
<1> SUFFICES ASSUME NEW i \in Server, state'[i] = Leader,
                    NEW k \in Int, Holds(Carried', k, currentTerm'[i])
             PROVE  k <= LastIndex(log'[i])
  <2>1. \A c \in Carried' : \A k \in Indices(c[1]) : k \in Int
    BY NextConsistent, EntryOfLog DEF Consistent, WellFormed
  <2> QED
    BY <2>1 DEF LeaderAhead, Holds
<1>1. LastIndex(log[i]) \in Int /\ LastIndex(log'[i]) \in Int
  BY LogIndices DEF TypeInv, TypeOK, TypeOfLogs
<1>2. CASE JustElected(i)
  <2>1. /\ state[i] = Candidate /\ currentTerm' = currentTerm
        /\ <<currentTerm[i], i>> \in elected' /\ appendRequests' = appendRequests
        /\ log' = log
    BY <1>2 DEF JustElected, ToLeader, logVars, appendNet
  <2>2. <<currentTerm[i], i>> \notin elected /\ currentTerm[i] > 0
    BY <2>1 DEF RoleInv, LeadersElected
  <2>3. Holds(Carried, k, currentTerm[i])
    <3>1. ~ \E j \in Server : Start(j)
      <4> SUFFICES ASSUME NEW j \in Server, Start(j) PROVE FALSE
        OBVIOUS
      <4> QED
        BY <2>1, <2>2 DEF Start, history
    <3> QED
      BY <2>1, <3>1, NextCarries DEF NothingNew
  <2>4. PICK e \in elected : e[1] = currentTerm[i]
    BY <2>2, <2>3, CarriedHolds DEF LogInv
  <2>5. e \in elected' /\ e = <<e[1], e[2]>>
    BY NextLeadersElected DEF RoleInv, TypeInv, TypeOK, TypeOfHistory
  <2>6. e[2] = i
    BY <2>1, <2>4, <2>5 DEF ElectionSafety
  <2> QED
    BY <2>2, <2>4, <2>5, <2>6
<1>3. CASE LeadsOn(i)
  <2>1. /\ state[i] = Leader /\ currentTerm'[i] = currentTerm[i]
        /\ LastIndex(log'[i]) >= LastIndex(log[i])
    BY <1>3 DEF LeadsOn
  <2>2. CASE Holds(Carried, k, currentTerm[i])
    <3>1. k <= LastIndex(log[i])
      BY <2>1, <2>2, CarriedHolds DEF LogInv
    <3> QED
      BY <1>1, <2>1, <3>1
  <2>3. ASSUME NEW j \in Server, Start(j), k = LastIndex(log[j]) + 1,
               currentTerm[i] = currentTerm[j]
        PROVE  k <= LastIndex(log'[i])
    <3>1. /\ <<currentTerm[i], i>> \in elected
          /\ <<currentTerm[j], j>> \in elected
      BY <2>1, <2>3 DEF Start, RoleInv, LeadersElected
    <3>2. i = j
      BY <2>3, <3>1 DEF ElectionSafety
    <3>3. LastIndex(log'[i]) = LastIndex(log[i]) + 1
      BY <2>3, <3>2, StartCarries
    <3> QED
      BY <1>1, <2>3, <3>2, <3>3
  <2> QED
    BY <2>1, <2>2, <2>3, NextCarries, StartCarries DEF NothingNew
<1> QED
  BY <1>2, <1>3, NextLeader

LEMMA TermStartFirst ==
    ASSUME NEW l \in LogType, NEW k \in Indices(l)
    PROVE  TermStart(l, TermAt(l, k)) <= k
<1> DEFINE t == TermAt(l, k)
           S == IndicesOfTerm(l, t)
<1>1. k \in S /\ S \subseteq Int /\ \E b \in Int : \A n \in S : b <= n
  <2>1. l.base \in Int /\ LastIndex(l) \in Int
    BY LogIndices
  <2>2. \A n \in S : n \in Int /\ l.base <= n
    BY <2>1 DEF IndicesOfTerm, Indices
  <2> QED
    BY <2>1, <2>2 DEF IndicesOfTerm
<1> HIDE DEF S
<1>2. \E m \in S : \A n \in S : m <= n
  <2>1. S # {}
    BY <1>1
  <2> QED
    BY <1>1, <2>1, LeastElement
<1>3. TermStart(l, t) = CHOOSE m \in S : \A n \in S : m <= n
  BY <1>1 DEF TermStart, S
<1> QED
  BY <1>1, <1>2, <1>3

LEMMA TermEndWithin ==
    ASSUME NEW l \in LogType, NEW t \in Int, LastIndex(l) >= l.base
    PROVE  TermEnd(l, t) <= LastIndex(l)
<1> DEFINE S == IndicesOfTerm(l, t)
<1>1. l.base \in Nat /\ LastIndex(l) \in Int
  BY LogIndices
<1>2. CASE S = {}
  BY <1>1, <1>2 DEF TermEnd
<1>3. CASE S # {}
  <2>1. S \subseteq Int /\ \A n \in S : n <= LastIndex(l)
    BY <1>1 DEF IndicesOfTerm, Indices
  <2> HIDE DEF S
  <2>2. \E m \in S : \A n \in S : n <= m
    BY <1>1, <1>3, <2>1, GreatestElement
  <2>3. TermEnd(l, t) = CHOOSE m \in S : \A n \in S : n <= m
    BY <1>3 DEF TermEnd, S
  <2> QED
    BY <2>1, <2>2, <2>3
<1> QED
  BY <1>2, <1>3

(***************************************************************************)
(* Whatever updateFollower makes of a reply, it goes on within its log.    *)
(***************************************************************************)
LEMMA NextIndexBounded ==
    ASSUME TypeInv, TypeOK', DiskInSync, RoleInv, ElectionSafety, LogInv,
           [Next]_vars, NEW i \in Server, NEW j \in Server, state'[i] = Leader
    PROVE  nextIndex'[i][j] <= LastIndex(log'[i]) + 1
<1> DEFINE z == LastIndex(log[i])
<1>1. /\ z \in Int /\ LastIndex(log'[i]) \in Int
      /\ log[i] \in LogType /\ log[i].base \in Nat /\ log[i].base <= z
      /\ nextIndex[i][j] \in Int /\ nextIndex'[i][j] \in Int
  BY LogIsCarried, LogIndices DEF LogInv, TypeInv, TypeOK, TypeOfLogs
<1>2. CASE JustElected(i)
  BY <1>1, <1>2 DEF JustElected, ToLeader, logVars, TypeInv, TypeOK, TypeOfLogs
<1>3. CASE LeadsOn(i)
  <2>1. state[i] = Leader /\ LastIndex(log'[i]) >= z /\ nextIndex[i][j] <= z + 1
    BY <1>3 DEF LeadsOn, LogInv, Probes
  <2> SUFFICES ASSUME nextIndex'[i][j] # nextIndex[i][j]
               PROVE  nextIndex'[i][j] <= z + 1
    <3> HIDE DEF z
    <3> QED
      BY <1>1, <2>1
  <2>2. ASSUME NEW m \in appendReplies, HandleAppendReply(m)
        PROVE  nextIndex'[i][j] <= z + 1
    <3>1. m.to \in Server /\ m.from \in Server /\ m.prevIndex \in Int
            /\ m.sent \in Nat /\ m.logLength \in Int /\ m.conflictTerm \in Int
            /\ m.conflictStart \in Int
      BY DEF TypeInv, TypeOK, TypeOfNet, AppendReplyType
    <3>2. CASE AppendSucceeded(m.to, m)
      <4>1. m.to = i /\ m.from = j /\ nextIndex'[i][j] = m.prevIndex + m.sent + 1
        BY <2>2, <3>1, <3>2
        DEF AppendSucceeded, Acknowledged, TypeInv, TypeOK, TypeOfLogs
      <4>2. m.prevIndex + m.sent <= z
        BY <3>2, <4>1 DEF AppendSucceeded, InTime, LogInv, Probes, Leads
      <4> QED
        BY <1>1, <3>1, <4>1, <4>2
    <3>3. CASE AppendRejected(m.to, m)
      <4>1. m.to = i /\ m.from = j /\ nextIndex'[i][j] = Backtracked(i, m)
        BY <2>2, <3>1, <3>3 DEF AppendRejected, TypeInv, TypeOK, TypeOfLogs
      <4>2. m.prevIndex + m.sent <= z /\ m.conflictStart <= m.prevIndex
        BY <3>3, <4>1 DEF AppendRejected, InTime, LogInv, Probes, Leads
      <4>3. /\ TermEnd(log[i], m.conflictTerm) <= z
            /\ TermEnd(log[i], m.conflictTerm) \in Int
        BY <1>1, <3>1, TermEndWithin, TermBoundsType
      <4> HIDE DEF z
      <4> QED
        BY <1>1, <3>1, <4>1, <4>2, <4>3 DEF Backtracked
    <3>4. CASE UNCHANGED nextIndex
      BY <3>4
    <3> QED
      BY <2>2, <3>2, <3>3, <3>4
      DEF HandleAppendReply, NewerReply, LateReply, leaderVars
  <2>3. ASSUME NEW m \in installReplies, HandleInstallReply(m)
        PROVE  nextIndex'[i][j] <= z + 1
    <3>1. m.to \in Server /\ m.from \in Server
      BY DEF TypeInv, TypeOK, TypeOfNet, InstallReply
    <3>2. CASE InstallAnswered(m.to, m)
      <4>1. m.to = i /\ m.from = j /\ nextIndex'[i][j] = snapshot[i].index + 1
        BY <2>3, <3>1, <3>2 DEF InstallAnswered, TypeInv, TypeOK, TypeOfLogs
      <4>2. snapshot[i].index = log[i].base
        BY DEF TypeInv, Positions
      <4> QED
        BY <1>1, <4>1, <4>2
    <3>3. CASE UNCHANGED nextIndex
      BY <3>3
    <3> QED
      BY <2>3, <3>2, <3>3
      DEF HandleInstallReply, NewerReply, LateReply, leaderVars
  <2>4. ASSUME NEW m \in voteReplies, HandleVoteReply(m) PROVE FALSE
    <3>1. nextIndex' # nextIndex
      OBVIOUS
    <3>2. ToLeader(m.to)
      BY <2>4, <3>1 DEF HandleVoteReply, leaderVars
    <3>3. m.to \in Server /\ CountsVote(m.to, m)
      BY <2>4, <3>1 DEF HandleVoteReply, leaderVars, TypeInv, TypeOK, TypeOfNet, VoteReply
    <3>4. m.to = i
      BY <3>2, <3>3 DEF ToLeader, TypeInv, TypeOK, TypeOfLogs
    <3> QED
      BY <2>1, <3>3, <3>4, RolesAssumption DEF CountsVote
  <2>5. ASSUME NEW n \in Server, NEW image, Boot(n, image) PROVE FALSE
    <3>1. state'[n] = Follower /\ n # i
      BY <2>5, RolesAssumption DEF Boot, TypeInv, TypeOK, TypeOfElections
    <3> QED
      BY <2>5, <3>1 DEF Boot, TypeInv, TypeOK, TypeOfLogs
  <2>6. ASSUME NEW caller, NEW t, TimesOut(caller, t) PROVE FALSE
    BY <2>6 DEF TimesOut, leaderVars
  <2>7. ASSUME \/ \E n \in Server : Tick(n)
               \/ \E g \in soliciting : SolicitVote(g)
               \/ \E m \in voteRequests : HandleRequestVote(m)
               \/ \E n \in Server : Start(n)
               \/ \E n \in Server : \E m \in Others(n) : Replicate(n, m)
               \/ \E m \in appendRequests : HandleAppendEntries(m)
               \/ \E m \in appendReplies : AnswerWithSnapshot(m)
               \/ \E n \in Server : \E k \in Indices(log[n]) : TakeSnapshot(n, k)
               \/ \E m \in installRequests : HandleInstallSnapshot(m)
               \/ UNCHANGED vars
        PROVE  FALSE
    <3>1. nextIndex' = nextIndex
      BY <2>7 DEF Tick, SolicitVote, HandleRequestVote, Start, Replicate,
                  HandleAppendEntries, AnswerWithSnapshot, TakeSnapshot,
                  HandleInstallSnapshot, leaderVars, vars
    <3> QED
      BY <3>1
  <2>8. ASSUME NEW m \in voteRequests \cup appendRequests \cup installRequests,
               CrashInHandler(m)
        PROVE  FALSE
    <3>1. m.to \in Server
      BY DEF TypeInv, TypeOK, TypeOfNet, VoteRequest, AppendRequest, InstallRequest
    <3> QED
      BY <2>5, <2>8, <3>1 DEF CrashInHandler
  <2> QED
    BY <2>2, <2>3, <2>4, <2>5, <2>6, <2>7, <2>8
    DEF Next, AppendTimeout, AppendReplyTooLate, InstallTimeout,
        InstallReplyTooLate, Restart
<1> QED
  BY <1>2, <1>3, NextLeader

(***************************************************************************)
(* A call under way names indices of its leader's log for as long as that  *)
(* leader leads; who is newly elected has made none.                       *)
(***************************************************************************)
LEMMA CallerLeadsOn ==
    ASSUME TypeInv, TypeOK', DiskInSync, RoleInv, ElectionSafety, LogInv,
           [Next]_vars, NEW i \in Server, NEW t,
           <<t, i>> \in elected, state'[i] = Leader, currentTerm'[i] = t
    PROVE  Leads(i, t) /\ LastIndex(log'[i]) >= LastIndex(log[i])
<1>1. ~JustElected(i)
  BY DEF JustElected, RoleInv, LeadersElected
<1> QED
  BY <1>1, NextLeader DEF LeadsOn, Leads

LEMMA RequestsBounded ==
    ASSUME TypeInv, TypeOK', DiskInSync, RoleInv, ElectionSafety, LogInv,
           [Next]_vars, NEW m \in appendRequests', (Leads(m.from, m.term))'
    PROVE  m.prevIndex + Len(m.entries) <= LastIndex(log'[m.from])
<1> DEFINE i == m.from
           last == m.prevIndex + Len(m.entries)
<1>1. /\ i \in Server /\ last \in Int
      /\ LastIndex(log[i]) \in Int /\ LastIndex(log'[i]) \in Int
  <2>1. i \in Server /\ m.prevIndex \in Int /\ m.entries \in Seq(Entry)
    BY DEF TypeOK, TypeOfNet, AppendRequest
  <2>2. log[i] \in LogType /\ log'[i] \in LogType
    BY <2>1 DEF TypeInv, TypeOK, TypeOfLogs
  <2>3. LastIndex(log[i]) \in Int /\ LastIndex(log'[i]) \in Int
    BY <2>2, LogIndices
  <2>4. Len(m.entries) \in Nat
    BY <2>1, LenProperties
  <2>5. last \in Int
    BY <2>1, <2>4
  <2> QED
    BY <2>1, <2>3, <2>5
<1>2. state'[i] = Leader /\ currentTerm'[i] = m.term
  BY DEF Leads
<1>3. ASSUME NEW n \in appendRequests, SameCall(m, n)
      PROVE  last <= LastIndex(log'[i])
  <2>1. n \in AppendRequest
    BY DEF TypeInv, TypeOK, TypeOfNet
  <2>2. /\ n.from = i /\ n.term = m.term
        /\ n.prevIndex + Len(n.entries) = last
    BY <1>3, <2>1, SameAppendCall
  <2>3. <<m.term, i>> \in elected
    BY <2>2 DEF RoleInv, CallersElected
  <2>4. Leads(i, m.term) /\ LastIndex(log'[i]) >= LastIndex(log[i])
    BY <1>1, <1>2, <2>3, CallerLeadsOn
  <2>5. last <= LastIndex(log[i])
    BY <2>2, <2>4 DEF LogInv, Probes
  <2> HIDE DEF last
  <2> QED
    BY <1>1, <2>4, <2>5
<1>4. ASSUME NEW n \in Server, NEW j \in Others(n), Replicate(n, j),
             m \notin appendRequests
      PROVE  last <= LastIndex(log'[i])
  <2>1. m = AppendArgs(n, j) /\ ~LacksPrevious(n, j) /\ state[n] = Leader
        /\ log' = log /\ j \in Server
    BY <1>4 DEF Replicate, logVars, Others
  <2>2. /\ LastIndex(Sent(m)) = LastIndex(log[n])
        /\ m.prevIndex \in Indices(log[n]) /\ i = n
    BY <2>1, AppendArgsCarries DEF LogInv, AppendArgs
  <2>3. log[n] \in LogType
    BY DEF TypeInv, TypeOK, TypeOfLogs
  <2>4. m.prevIndex \in Nat /\ m.prevTerm \in Int /\ m.entries \in Seq(Entry)
    <3>1. m \in AppendRequest
      BY DEF TypeOK, TypeOfNet
    <3>2. m.prevIndex >= log[n].base /\ log[n].base \in Nat
      BY <2>2, <2>3, EntryOfLog, LogIndices
    <3> QED
      BY <3>1, <3>2 DEF AppendRequest
  <2>5. LastIndex(Sent(m)) = last
    BY <2>4, SegmentAt DEF Sent
  <2> HIDE DEF last
  <2> QED
    BY <1>1, <2>1, <2>2, <2>5
<1>5. ASSUME NEW r \in appendReplies, AnswerWithSnapshot(r)
      PROVE  last <= LastIndex(log'[i])
  BY <1>3, <1>5 DEF AnswerWithSnapshot, SameCall
<1>6. CASE NoNewRequests
  BY <1>3, <1>6 DEF NoNewRequests, FromAmong
<1>7. CASE m \in appendRequests
  BY <1>3, <1>7 DEF SameCall
<1> QED
  BY <1>4, <1>5, <1>6, <1>7, OtherStepsSendNothing

LEMMA RepliesBounded ==
    ASSUME TypeInv, TypeOK', DiskInSync, RoleInv, ElectionSafety, LogInv,
           [Next]_vars, NEW r \in appendReplies'
    PROVE  /\ (Leads(r.to, r.asked))' =>
                  r.prevIndex + r.sent <= LastIndex(log'[r.to])
           /\ r.conflictStart <= r.prevIndex
<1> DEFINE i == r.to
           last == r.prevIndex + r.sent
<1>1. i \in Server /\ last \in Int /\ LastIndex(log[i]) \in Int
         /\ LastIndex(log'[i]) \in Int
  <2>1. i \in Server /\ r.prevIndex \in Int /\ r.sent \in Nat
    BY DEF TypeOK, TypeOfNet, AppendReplyType
  <2>2. log[i] \in LogType /\ log'[i] \in LogType
    BY <2>1 DEF TypeInv, TypeOK, TypeOfLogs
  <2>3. LastIndex(log[i]) \in Int /\ LastIndex(log'[i]) \in Int
    BY <2>2, LogIndices
  <2>4. last \in Int
    BY <2>1
  <2> QED
    BY <2>1, <2>3, <2>4
<1>2. ASSUME <<r.asked, i>> \in elected, state'[i] = Leader,
             currentTerm'[i] = r.asked,
             Leads(i, r.asked) => last <= LastIndex(log[i])
      PROVE  last <= LastIndex(log'[i])
  <2>1. Leads(i, r.asked) /\ LastIndex(log'[i]) >= LastIndex(log[i])
    BY <1>1, <1>2, CallerLeadsOn
  <2> HIDE DEF last
  <2> QED
    BY <1>1, <1>2, <2>1
<1>3. CASE r \in appendReplies
  <2>1. /\ <<r.asked, i>> \in elected
        /\ Leads(i, r.asked) => last <= LastIndex(log[i])
        /\ r.conflictStart <= r.prevIndex
    BY <1>3 DEF RoleInv, CallersElected, LogInv, Probes
  <2> QED
    BY <1>2, <2>1 DEF Leads
<1>4. ASSUME NEW m \in appendRequests, HandleAppendEntries(m),
             r = AppendReply(m.to, m, /\ ~(m.term < currentTerm[m.to])
                                      /\ ~Matches(log[m.to], m))
      PROVE  /\ (Leads(i, r.asked))' => last <= LastIndex(log'[i])
             /\ r.conflictStart <= r.prevIndex
  <2> DEFINE l == log[m.to]
             t == TermAt(l, m.prevIndex)
  <2>1. /\ r.to = m.from /\ r.asked = m.term /\ r.prevIndex = m.prevIndex
        /\ r.sent = Len(m.entries)
        /\ r.conflictStart \in {0, TermStart(l, t)}
    BY <1>4 DEF AppendReply
  <2>2. /\ <<r.asked, i>> \in elected
        /\ Leads(i, r.asked) => last <= LastIndex(log[i])
    BY <2>1 DEF RoleInv, CallersElected, LogInv, Probes
  <2>3. m.prevIndex \in Nat /\ l \in LogType /\ m.to \in Server
    <3>1. <<Sent(m), m.term>> \in Carried
      BY DEF Carried
    <3>2. WellFormed(Sent(m), m.term)
      BY <3>1 DEF LogInv, Consistent
    <3> QED
      BY <3>2 DEF WellFormed, Sent, Segment, LogType, TypeInv, TypeOK, TypeOfLogs,
                  TypeOfNet, AppendRequest
  <2>4. TermStart(l, t) <= m.prevIndex
    <3>1. CASE m.prevIndex \in Indices(l)
      BY <2>3, <3>1, TermStartFirst
    <3>2. CASE m.prevIndex \notin Indices(l)
      <4>1. t = -1
        BY <3>2 DEF TermAt, EntryAt, Missing
      <4>2. \A k \in Indices(l) : TermAt(l, k) \in Nat
        <5>1. \A k \in Indices(l) : TermAt(l, k) \in 0 .. currentTerm[m.to]
          BY <2>3, LogIsCarried DEF LogInv
        <5>2. currentTerm[m.to] \in Nat
          BY <2>3 DEF TypeInv, TypeOK, TypeOfElections
        <5> QED
          BY <5>1, <5>2
      <4>3. TermStart(l, t) = -1
        BY <4>1, <4>2 DEF TermStart, IndicesOfTerm
      <4> QED
        BY <2>3, <4>3
    <3> QED
      BY <3>1, <3>2
  <2>5. r.conflictStart <= r.prevIndex
    BY <2>1, <2>3, <2>4
  <2> QED
    BY <1>2, <2>2, <2>5 DEF Leads
<1> QED
  BY <1>3, <1>4, RepliesToRequests DEF RepliesAnswer

LEMMA NextProbes ==
    ASSUME TypeInv, TypeOK', DiskInSync, RoleInv, ElectionSafety, LogInv,
           [Next]_vars
    PROVE  Probes'
BY NextIndexBounded, RequestsBounded, RepliesBounded DEF Probes, Leads

----------------------------------------------------------------------------
(* The invariant of the logs.                                              *)

LEMMA InitialLogWellFormed ==
    /\ WellFormed(InitialLog, 0)
    /\ \A k \in Indices(InitialLog) : k = 0 /\ TermAt(InitialLog, k) = 0
    /\ LastIndex(InitialLog) = 0
    /\ InitialLog.base = 0
<1>1. /\ InitialLog.base = 0
      /\ InitialLog.entries = << [term |-> 0, cmd |-> None] >>
      /\ Len(InitialLog.entries) = 1
  BY DEF InitialLog
<1>2. LastIndex(InitialLog) = 0
  BY <1>1 DEF LastIndex, LogLength
<1>3. Indices(InitialLog) = {0}
  BY <1>1, <1>2 DEF Indices
<1>4. TermAt(InitialLog, 0) = 0
  <2>1. EntryAt(InitialLog, 0) = [term |-> 0, cmd |-> None]
    BY <1>1, <1>3 DEF EntryAt
  <2> QED
    BY <2>1 DEF TermAt
<1>5. InitialLog \in LogType
  BY DEF InitialLog, LogType, Entry, Command
<1>6. TermsRise(InitialLog)
  BY <1>3, <1>4 DEF TermsRise
<1> QED
  BY <1>1, <1>2, <1>3, <1>4, <1>5, <1>6 DEF WellFormed

LEMMA InitLogInv == Init => LogInv
<1> SUFFICES ASSUME Init PROVE LogInv
  OBVIOUS
<1>1. /\ \A i \in Server : log[i] = InitialLog /\ currentTerm[i] = 0
                           /\ state[i] = Follower /\ snapshot[i].term = 0
      /\ appendRequests = {} /\ installRequests = {} /\ appendReplies = {}
  BY DEF Init
<1>2. \A c \in Carried : c = <<InitialLog, 0>>
  BY <1>1 DEF Carried
<1>3. Consistent(Carried)
  BY <1>2, InitialLogWellFormed, MatchingReflexive DEF Consistent
<1>4. EntriesElected
  BY <1>2, InitialLogWellFormed DEF EntriesElected
<1>5. LeaderAhead /\ Probes
  BY <1>1, RolesAssumption DEF LeaderAhead, Probes
<1>6. SnapshotsOfLogs
  <2>1. 0 \in Indices(InitialLog)
    BY InitialLogWellFormed DEF Indices
  <2> QED
    BY <1>1, <2>1, InitialLogWellFormed DEF SnapshotsOfLogs
<1> QED
  BY <1>3, <1>4, <1>5, <1>6 DEF LogInv

LEMMA NextLogInv ==
    ASSUME TypeInv, TypeOK', DiskInSync, RoleInv, ElectionSafety,
           ElectionSafety', LogInv, [Next]_vars
    PROVE  LogInv'
<1>1. Consistent(Carried)'
  BY NextConsistent
<1> QED
  BY <1>1, NextEntriesElected, NextLeaderAhead, NextProbes, NextSnapshotsOfLogs
  DEF LogInv

(***************************************************************************)
(* Everything that can ever be in a log - the logs, the segments on their  *)
(* way in AppendEntries calls, the bases of snapshots on theirs - agrees,  *)
(* leaders stay ahead of their terms and probe only what they hold.  With  *)
(* four peers a term may have two leaders, and none of this holds.         *)
(***************************************************************************)
THEOREM LogInvariance ==
    ASSUME IsFiniteSet(Server), Cardinality(Server) <= 3
    PROVE  Spec => []LogInv
<1>1. Spec => []ElectionSafety
  BY OneLeaderPerTerm
<1>2. TypeInv /\ TypeOK' /\ DiskInSync /\ RoleInv /\ ElectionSafety
        /\ ElectionSafety' /\ LogInv /\ [Next]_vars => LogInv'
  BY NextLogInv
<1> QED
  BY <1>1, <1>2, InitLogInv, TypeInvariance, TypeCorrect, DiskInvariance,
     RolesInvariance, PTL DEF Spec

(***************************************************************************)
(* No log of a group of three is ever without its last entry, and the      *)
(* terms in it never decrease: neither AppendEntries nor a snapshot joins  *)
(* a log to entries that do not follow it.                                 *)
(***************************************************************************)
THEOREM LogsStayWellFormed ==
    ASSUME IsFiniteSet(Server), Cardinality(Server) <= 3
    PROVE  Spec => []LogsWellFormed
<1>1. TypeInv /\ LogInv => LogsWellFormed
  <2> SUFFICES ASSUME TypeInv, LogInv, NEW i \in Server
               PROVE  /\ LastIndex(log[i]) >= log[i].base
                      /\ \A k \in Indices(log[i]) :
                             /\ TermAt(log[i], k) \in 0 .. currentTerm[i]
                             /\ k > log[i].base =>
                                   TermAt(log[i], k) >= TermAt(log[i], k - 1)
    BY DEF LogsWellFormed
  <2>1. /\ log[i] \in LogType /\ LastIndex(log[i]) >= log[i].base
        /\ \A k \in Indices(log[i]) : TermAt(log[i], k) \in 0 .. currentTerm[i]
        /\ TermsRise(log[i])
    BY LogIsCarried DEF LogInv
  <2>2. ASSUME NEW k \in Indices(log[i]), k > log[i].base
        PROVE  TermAt(log[i], k) >= TermAt(log[i], k - 1)
    <3> DEFINE n == k - 1
    <3>1. log[i].base \in Nat /\ LastIndex(log[i]) \in Int
      BY <2>1, LogIndices
    <3>2. k \in Int /\ n \in Indices(log[i]) /\ n <= k
      BY <2>2, <3>1 DEF Indices
    <3>3. currentTerm[i] \in Nat
      BY DEF TypeInv, TypeOK, TypeOfElections
    <3>4. /\ TermAt(log[i], n) \in 0 .. currentTerm[i]
          /\ TermAt(log[i], k) \in 0 .. currentTerm[i]
      BY <2>1, <2>2, <3>2
    <3> HIDE DEF n
    <3>5. TermAt(log[i], n) <= TermAt(log[i], k)
      BY <2>1, <2>2, <3>2 DEF TermsRise
    <3>6. TermAt(log[i], k) >= TermAt(log[i], n)
      BY <3>3, <3>4, <3>5
    <3> QED
      BY <3>6 DEF n
  <2> QED
    BY <2>1, <2>2
<1>2. Spec => []LogInv
  BY LogInvariance
<1> QED
  BY <1>1, <1>2, TypeInvariance, PTL

(***************************************************************************)
(* Log Matching: two peers of a group of three that hold entries of one    *)
(* term at one index hold the same commands up to it, wherever each has    *)
(* cut its log and whichever delayed calls it still answers.               *)
(***************************************************************************)
THEOREM LogsMatch ==
    ASSUME IsFiniteSet(Server), Cardinality(Server) <= 3
    PROVE  Spec => []LogMatching
<1>1. LogInv => LogMatching
  <2> SUFFICES ASSUME LogInv, NEW i \in Server, NEW j \in Server
               PROVE  Matching(log[i], log[j])
    BY DEF LogMatching, Matching
  <2>1. /\ <<log[i], currentTerm[i]>> \in Carried
        /\ <<log[j], currentTerm[j]>> \in Carried
    BY DEF Carried
  <2> QED
    BY <2>1 DEF LogInv, Consistent
<1>2. Spec => []LogInv
  BY LogInvariance
<1> QED
  BY <1>1, <1>2, PTL

(***************************************************************************)
(* A leader of a group of three never probes an index outside its log, so  *)
(* the prefix check of AppendEntries compares two terms and never the -1   *)
(* of a missing entry with another -1.                                     *)
(***************************************************************************)
THEOREM LeadersProbeHeldEntries ==
    ASSUME IsFiniteSet(Server), Cardinality(Server) <= 3
    PROVE  Spec => []ProbesHeldEntry
<1>1. TypeInv /\ LogInv => ProbesHeldEntry
  BY ProbeHeld DEF LogInv, ProbesHeldEntry
<1>2. Spec => []LogInv
  BY LogInvariance
<1> QED
  BY <1>1, <1>2, TypeInvariance, PTL

----------------------------------------------------------------------------
(* Part four: the whole log of a peer, its log with the entries put back   *)
(* that its snapshot replaced.  Compaction does not change it, and         *)
(* InstallSnapshot joins entries to it as AppendEntries does: seen whole,  *)
(* a group knows of no snapshots.                                          *)

----------------------------------------------------------------------------
(* Whole logs.                                                             *)

FirstEntry == [term |-> 0, cmd |-> None]

WholeEntry(l, bytes, k) ==
    IF k = 0 THEN FirstEntry
    ELSE IF k <= l.base THEN bytes[k] ELSE EntryAt(l, k)

WholeOf(l, bytes) ==
    [base |-> 0,
     entries |-> [n \in 1 .. LastIndex(l) + 1 |-> WholeEntry(l, bytes, n - 1)]]

LEMMA WholeAt ==
    ASSUME NEW l \in LogType, NEW bytes \in Seq(Entry), Len(bytes) = l.base,
           LastIndex(l) >= l.base
    PROVE  LET w == WholeOf(l, bytes) IN
           /\ w \in LogType
           /\ w.base = 0
           /\ LastIndex(w) = LastIndex(l)
           /\ Indices(w) = 0 .. LastIndex(l)
           /\ \A k \in 0 .. LastIndex(l) : EntryAt(w, k) = WholeEntry(l, bytes, k)
<1> DEFINE z == LastIndex(l)
           es == [n \in 1 .. z + 1 |-> WholeEntry(l, bytes, n - 1)]
           w == WholeOf(l, bytes)
<1>1. z \in Nat /\ l.base \in Nat
  BY LogIndices
<1>2. FirstEntry \in Entry
  BY DEF FirstEntry, Entry, Command
<1>3. ASSUME NEW k \in 0 .. z PROVE WholeEntry(l, bytes, k) \in Entry
  <2>1. CASE k = 0
    BY <1>2, <2>1 DEF WholeEntry
  <2>2. CASE k # 0 /\ k <= l.base
    <3>1. k \in 1 .. Len(bytes)
      BY <1>1, <2>2
    <3>2. bytes[k] \in Entry
      BY <3>1, ElementOfSeq
    <3> QED
      BY <2>2, <3>2 DEF WholeEntry
  <2>3. CASE k # 0 /\ ~(k <= l.base)
    <3>1. EntryAt(l, k) \in Entry
      BY EntryAtType
    <3> QED
      BY <2>3, <3>1 DEF WholeEntry
  <2> QED
    BY <2>1, <2>2, <2>3
<1>4. \A n \in 1 .. z + 1 : n - 1 \in 0 .. z
  BY <1>1
<1>5. es \in [1 .. z + 1 -> Entry] /\ DOMAIN es = 1 .. z + 1
  BY <1>3, <1>4
<1>6. es \in Seq(Entry) /\ Len(es) = z + 1
  <2> HIDE DEF es, z
  <2>1. es \in Seq(Entry)
    BY <1>1, <1>5, SeqDef
  <2>2. Len(es) \in Nat /\ 1 .. Len(es) = 1 .. z + 1
    BY <1>5, <2>1, LenProperties
  <2> QED
    BY <1>1, <2>1, <2>2
<1>7. w.base = 0 /\ w.entries = es /\ w \in LogType
  BY <1>6 DEF WholeOf, LogType
<1>8. \A k \in 0 .. z : es[k + 1] = WholeEntry(l, bytes, k)
  <2> TAKE k \in 0 .. z
  <2>1. k + 1 \in 1 .. z + 1 /\ (k + 1) - 1 = k
    BY <1>1
  <2> QED
    BY <2>1
<1> HIDE DEF es, z, w
<1>9. LastIndex(w) = z /\ Indices(w) = 0 .. z
  BY <1>1, <1>6, <1>7 DEF LastIndex, Indices
<1>10. \A k \in 0 .. z : EntryAt(w, k) = WholeEntry(l, bytes, k)
  <2> TAKE k \in 0 .. z
  <2>1. EntryAt(w, k) = w.entries[k - 0 + 1]
    BY <1>7, <1>9, EntryOfLog
  <2>2. k - 0 + 1 = k + 1
    BY <1>1
  <2> QED
    BY <1>7, <1>8, <2>1, <2>2
<1> QED
  BY <1>7, <1>9, <1>10 DEF z, w

(***************************************************************************)
(* Two logs with the same entries are the same log.                        *)
(***************************************************************************)
LEMMA LogEqual ==
    ASSUME NEW a \in LogType, NEW b \in LogType, a.base = b.base,
           LastIndex(a) = LastIndex(b),
           \A k \in Indices(a) : EntryAt(a, k) = EntryAt(b, k)
    PROVE  a = b
<1>1. /\ a.base \in Nat /\ Len(a.entries) \in Nat /\ a.entries \in Seq(Entry)
      /\ LastIndex(a) = a.base + Len(a.entries) - 1
  BY LogIndices DEF LastIndex
<1>2. /\ b.base \in Nat /\ Len(b.entries) \in Nat /\ b.entries \in Seq(Entry)
      /\ LastIndex(b) = b.base + Len(b.entries) - 1
  BY LogIndices DEF LastIndex
<1>3. Len(a.entries) = Len(b.entries) /\ Indices(a) = Indices(b)
  <2>1. Indices(a) = Indices(b)
    BY DEF Indices
  <2>2. a.base + Len(a.entries) - 1 = a.base + Len(b.entries) - 1
    BY <1>1, <1>2
  <2>3. Len(a.entries) = Len(b.entries)
    BY <1>1, <1>2, <2>2
  <2> QED
    BY <2>1, <2>3
<1>4. ASSUME NEW n \in 1 .. Len(a.entries) PROVE a.entries[n] = b.entries[n]
  <2> DEFINE k == a.base + n - 1
  <2>1. k \in Indices(a) /\ k - a.base + 1 = n
    BY <1>1 DEF Indices
  <2> HIDE DEF k
  <2>2. EntryAt(a, k) = a.entries[n] /\ EntryAt(b, k) = b.entries[n]
    BY <1>3, <2>1, EntryOfLog
  <2> QED
    BY <2>1, <2>2
<1>5. a.entries = b.entries
  BY <1>1, <1>2, <1>3, <1>4, SeqEqual
<1>6. /\ a = [base |-> a.base, entries |-> a.entries]
      /\ b = [base |-> b.base, entries |-> b.entries]
  BY DEF LogType
<1> QED
  BY <1>5, <1>6

(***************************************************************************)
(* A log is a part of the whole it belongs to when its base has the term   *)
(* of the entry it replaced.                                               *)
(***************************************************************************)
LEMMA PartOfWhole ==
    ASSUME NEW l \in LogType, NEW bytes \in Seq(Entry), Len(bytes) = l.base,
           LastIndex(l) >= l.base
    PROVE  LET w == WholeOf(l, bytes) IN
           /\ TermAt(w, l.base) = TermAt(l, l.base) <=> PartOf(l, w)
           /\ \A k \in Indices(l) : k # l.base => EntryAt(w, k) = EntryAt(l, k)
<1> DEFINE w == WholeOf(l, bytes)
           z == LastIndex(l)
<1>1. /\ w \in LogType /\ w.base = 0 /\ LastIndex(w) = z /\ Indices(w) = 0 .. z
      /\ \A k \in 0 .. z : EntryAt(w, k) = WholeEntry(l, bytes, k)
  BY WholeAt
<1>2. z \in Nat /\ l.base \in Nat /\ l.base \in Indices(l) /\ l.base \in 0 .. z
  BY LogIndices DEF Indices
<1> HIDE DEF w
<1>3. ASSUME NEW k \in Indices(l), k # l.base PROVE EntryAt(w, k) = EntryAt(l, k)
  <2>1. k \in 0 .. z /\ k > l.base /\ k # 0
    BY <1>2, <1>3, EntryOfLog
  <2>2. ~(k <= l.base)
    BY <1>2, <2>1
  <2> QED
    BY <1>1, <2>1, <2>2 DEF WholeEntry
<1>4. ASSUME TermAt(w, l.base) = TermAt(l, l.base) PROVE PartOf(l, w)
  <2>1. z <= z
    BY <1>2
  <2>2. ASSUME NEW k \in Indices(l)
        PROVE  Agree(EntryAt(l, k), EntryAt(w, k), k = l.base)
    BY <1>3, <1>4 DEF Agree, TermAt
  <2> QED
    BY <1>1, <1>2, <2>1, <2>2 DEF PartOf
<1>5. ASSUME PartOf(l, w) PROVE TermAt(w, l.base) = TermAt(l, l.base)
  BY <1>1, <1>2, <1>5, PartOfEntry
<1> QED
  BY <1>3, <1>4, <1>5 DEF w

(***************************************************************************)
(* A log and the commands its snapshot stands for: the base carries the    *)
(* term of the last of them.                                               *)
(***************************************************************************)
BaseTerm(bytes) == IF Len(bytes) = 0 THEN 0 ELSE bytes[Len(bytes)].term

Fitting(l, bytes) ==
    /\ l \in LogType
    /\ bytes \in Seq(Entry)
    /\ Len(bytes) = l.base
    /\ LastIndex(l) >= l.base
    /\ TermAt(l, l.base) = BaseTerm(bytes)

LEMMA FittingWhole ==
    ASSUME NEW l, NEW bytes, Fitting(l, bytes)
    PROVE  LET w == WholeOf(l, bytes) IN
           /\ w \in LogType
           /\ w.base = 0
           /\ LastIndex(w) = LastIndex(l)
           /\ Indices(w) = 0 .. LastIndex(l)
           /\ \A k \in 0 .. LastIndex(l) : EntryAt(w, k) = WholeEntry(l, bytes, k)
           /\ PartOf(l, w)
           /\ \A k \in Indices(l) : k # l.base => EntryAt(w, k) = EntryAt(l, k)
<1> DEFINE w == WholeOf(l, bytes)
<1>1. /\ l \in LogType /\ bytes \in Seq(Entry) /\ Len(bytes) = l.base
      /\ LastIndex(l) >= l.base /\ TermAt(l, l.base) = BaseTerm(bytes)
  BY DEF Fitting
<1>2. /\ w \in LogType /\ w.base = 0 /\ LastIndex(w) = LastIndex(l)
      /\ Indices(w) = 0 .. LastIndex(l)
      /\ \A k \in 0 .. LastIndex(l) : EntryAt(w, k) = WholeEntry(l, bytes, k)
  BY <1>1, WholeAt
<1>3. l.base \in 0 .. LastIndex(l)
  BY <1>1, LogIndices
<1>4. TermAt(w, l.base) = WholeEntry(l, bytes, l.base).term
  BY <1>2, <1>3 DEF TermAt
<1>5. WholeEntry(l, bytes, l.base).term = BaseTerm(bytes)
  <2>1. l.base <= l.base
    BY <1>3
  <2>2. CASE l.base = 0
    BY <1>1, <2>2 DEF WholeEntry, BaseTerm, FirstEntry
  <2>3. CASE l.base # 0
    BY <1>1, <2>1, <2>3 DEF WholeEntry, BaseTerm
  <2> QED
    BY <2>2, <2>3
<1>6. /\ TermAt(w, l.base) = TermAt(l, l.base) <=> PartOf(l, w)
      /\ \A k \in Indices(l) : k # l.base => EntryAt(w, k) = EntryAt(l, k)
  BY <1>1, PartOfWhole
<1> QED
  BY <1>1, <1>2, <1>4, <1>5, <1>6

LEMMA FittingTerms ==
    ASSUME NEW l, NEW bytes, Fitting(l, bytes), NEW k \in Indices(l)
    PROVE  TermAt(WholeOf(l, bytes), k) = TermAt(l, k)
<1>1. WholeOf(l, bytes) \in LogType /\ PartOf(l, WholeOf(l, bytes))
  BY FittingWhole
<1> QED
  BY <1>1, PartOfEntry

(***************************************************************************)
(* A snapshot is a log of its own: InstallSnapshot carries entries.        *)
(***************************************************************************)
SnapshotLog(bytes) == Segment(0, 0, bytes)

LEMMA SnapshotLogAt ==
    ASSUME NEW bytes \in Seq(Entry)
    PROVE  LET s == SnapshotLog(bytes) IN
           /\ s \in LogType
           /\ s.base = 0
           /\ LastIndex(s) = Len(bytes)
           /\ Indices(s) = 0 .. Len(bytes)
           /\ EntryAt(s, 0) = FirstEntry
           /\ \A k \in 1 .. Len(bytes) : EntryAt(s, k) = bytes[k]
           /\ TermAt(s, Len(bytes)) = BaseTerm(bytes)
<1> DEFINE s == SnapshotLog(bytes)
<1>1. Len(bytes) \in Nat
  BY LenProperties
<1>2. /\ s \in LogType /\ s.base = 0 /\ LastIndex(s) = 0 + Len(bytes)
      /\ EntryAt(s, 0) = [term |-> 0, cmd |-> None]
      /\ \A k \in Indices(s) : k # 0 => EntryAt(s, k) = bytes[k - 0]
  <2>1. PICK z : z = 0
    OBVIOUS
  <2>2. s = Segment(z, z, bytes) /\ z \in Nat /\ z \in Int
    BY <2>1 DEF SnapshotLog
  <2> HIDE DEF s
  <2>3. /\ s \in LogType /\ s.base = z /\ LastIndex(s) = z + Len(bytes)
        /\ EntryAt(s, z) = [term |-> z, cmd |-> None]
        /\ \A k \in Indices(s) : k # z => EntryAt(s, k) = bytes[k - z]
    BY <2>2, SegmentAt
  <2> QED
    BY <2>1, <2>3
<1> HIDE DEF s
<1>3. LastIndex(s) = Len(bytes) /\ Indices(s) = 0 .. Len(bytes)
  BY <1>1, <1>2 DEF Indices
<1>4. EntryAt(s, 0) = FirstEntry
  BY <1>2 DEF FirstEntry
<1>5. ASSUME NEW k \in 1 .. Len(bytes) PROVE EntryAt(s, k) = bytes[k]
  <2>1. k \in Indices(s) /\ k # 0 /\ k - 0 = k
    BY <1>1, <1>3
  <2> QED
    BY <1>2, <2>1
<1>6. TermAt(s, Len(bytes)) = BaseTerm(bytes)
  <2>1. CASE Len(bytes) = 0
    BY <1>4, <2>1 DEF TermAt, BaseTerm, FirstEntry
  <2>2. CASE Len(bytes) # 0
    <3>1. Len(bytes) \in 1 .. Len(bytes)
      BY <1>1, <2>2
    <3> QED
      BY <1>5, <2>2, <3>1 DEF TermAt, BaseTerm
  <2> QED
    BY <2>1, <2>2
<1> QED
  BY <1>2, <1>3, <1>4, <1>5, <1>6 DEF s

----------------------------------------------------------------------------
(* What the operations on a log do to its whole.                           *)

LEMMA PartOfPart ==
    ASSUME NEW w \in LogType, NEW l, PartOf(l, w), NEW c, PartOf(c, l)
    PROVE  PartOf(c, w)
<1>1. /\ l \in LogType /\ c \in LogType /\ l.base \in Indices(w)
      /\ c.base \in Indices(l) /\ c.base <= LastIndex(c)
      /\ LastIndex(c) <= LastIndex(l) /\ LastIndex(l) <= LastIndex(w)
  BY DEF PartOf
<1>2. c.base \in Indices(w)
  BY <1>1, PartOfEntry
<1>3. LastIndex(c) <= LastIndex(w)
  BY <1>1, LogIndices
<1>4. ASSUME NEW k \in Indices(c)
      PROVE  Agree(EntryAt(c, k), EntryAt(w, k), k = c.base)
  <2>1. k \in Indices(l) /\ Agree(EntryAt(c, k), EntryAt(l, k), k = c.base)
    BY <1>1, PartOfEntry DEF PartOf
  <2>2. Agree(EntryAt(l, k), EntryAt(w, k), k = l.base)
    BY <2>1 DEF PartOf
  <2>3. k = l.base => k = c.base
    <3>1. k \in Int /\ k >= c.base
      BY <1>1, EntryOfLog
    <3>2. c.base \in Int /\ c.base >= l.base
      BY <1>1, EntryOfLog
    <3> QED
      BY <1>1, <3>1, <3>2, LogIndices
  <2> QED
    BY <2>1, <2>2, <2>3 DEF Agree
<1> QED
  BY <1>1, <1>2, <1>3, <1>4 DEF PartOf

LEMMA WholeAppends ==
    ASSUME NEW l, NEW bytes, Fitting(l, bytes), NEW e \in Entry
    PROVE  LET r == AppendEntry(l, e) IN
           /\ Fitting(r, bytes)
           /\ WholeOf(r, bytes) = AppendEntry(WholeOf(l, bytes), e)
<1> DEFINE r == AppendEntry(l, e)
           w == WholeOf(l, bytes)
           v == WholeOf(r, bytes)
           u == AppendEntry(w, e)
           z == LastIndex(l)
<1>1. /\ l \in LogType /\ bytes \in Seq(Entry) /\ Len(bytes) = l.base
      /\ z >= l.base /\ TermAt(l, l.base) = BaseTerm(bytes)
      /\ l.base \in Nat /\ z \in Nat
  BY LogIndices DEF Fitting
<1>2. /\ r \in LogType /\ r.base = l.base /\ LastIndex(r) = z + 1
      /\ \A k \in Indices(r) : EntryAt(r, k) =
             IF k = z + 1 THEN e ELSE EntryAt(l, k)
  BY <1>1, AppendEntryAt
<1> HIDE DEF r, z
<1>3. Indices(r) = l.base .. z + 1 /\ l.base \in Indices(r) /\ l.base # z + 1
  BY <1>1, <1>2 DEF Indices
<1>4. Fitting(r, bytes)
  <2>1. TermAt(r, r.base) = BaseTerm(bytes)
    BY <1>1, <1>2, <1>3 DEF TermAt
  <2> QED
    BY <1>1, <1>2, <2>1 DEF Fitting
<1>5. /\ w \in LogType /\ w.base = 0 /\ LastIndex(w) = z /\ Indices(w) = 0 .. z
      /\ \A k \in 0 .. z : EntryAt(w, k) = WholeEntry(l, bytes, k)
  BY FittingWhole DEF z
<1>6. /\ v \in LogType /\ v.base = 0 /\ LastIndex(v) = z + 1
      /\ Indices(v) = 0 .. z + 1
      /\ \A k \in 0 .. z + 1 : EntryAt(v, k) = WholeEntry(r, bytes, k)
  BY <1>2, <1>4, FittingWhole
<1> HIDE DEF v, w
<1>7. /\ u \in LogType /\ u.base = 0 /\ LastIndex(u) = z + 1
      /\ \A k \in Indices(u) : EntryAt(u, k) =
             IF k = z + 1 THEN e ELSE EntryAt(w, k)
  BY <1>1, <1>5, AppendEntryAt
<1> HIDE DEF u
<1>8. Indices(u) = 0 .. z + 1
  BY <1>7 DEF Indices
<1>9. ASSUME NEW k \in 0 .. z + 1 PROVE EntryAt(v, k) = EntryAt(u, k)
  <2>1. EntryAt(v, k) = WholeEntry(r, bytes, k)
    BY <1>6
  <2>2. CASE k = z + 1
    <3>1. k \in Indices(r) /\ k # 0 /\ ~(k <= l.base)
      BY <1>1, <1>3, <2>2
    <3>2. EntryAt(r, k) = e /\ EntryAt(u, k) = e
      BY <1>2, <1>7, <1>8, <2>2, <3>1
    <3> QED
      BY <1>2, <2>1, <3>1, <3>2 DEF WholeEntry
  <2>3. CASE k # z + 1
    <3>1. k \in 0 .. z
      BY <1>1, <2>3
    <3>2. EntryAt(u, k) = WholeEntry(l, bytes, k)
      BY <1>5, <1>7, <1>8, <2>3, <3>1
    <3>3. ~(k <= l.base) => EntryAt(r, k) = EntryAt(l, k)
      <4>1. ~(k <= l.base) => k \in Indices(r)
        BY <1>1, <1>3, <3>1
      <4> QED
        BY <1>2, <2>3, <4>1
    <3> QED
      BY <1>2, <2>1, <3>2, <3>3 DEF WholeEntry
  <2> QED
    BY <2>2, <2>3
<1>10. v = u
  BY <1>6, <1>7, <1>9, LogEqual
<1> QED
  BY <1>4, <1>10 DEF r, v, u, w

LEMMA WholeJoins ==
    ASSUME NEW l, NEW bytes, Fitting(l, bytes), NEW s \in LogType,
           NEW r, Joined(r, l, s)
    PROVE  /\ Fitting(r, bytes)
           /\ Joined(WholeOf(r, bytes), WholeOf(l, bytes), s)
<1> DEFINE w == WholeOf(l, bytes)
           v == WholeOf(r, bytes)
<1>1. /\ l \in LogType /\ bytes \in Seq(Entry) /\ Len(bytes) = l.base
      /\ LastIndex(l) >= l.base /\ TermAt(l, l.base) = BaseTerm(bytes)
      /\ l.base \in Nat
  BY LogIndices DEF Fitting
<1>2. /\ r \in LogType /\ r.base = l.base /\ LastIndex(r) = LastIndex(s)
      /\ LastIndex(r) \in Int
  BY LogIndices DEF Joined
<1>3. PICK p \in Indices(l) \cap Indices(s) :
          /\ TermAt(l, p) = TermAt(s, p)
          /\ p < LastIndex(s)
          /\ \A k \in Indices(r) :
                 /\ k <= p => k \in Indices(l) /\ EntryAt(r, k) = EntryAt(l, k)
                 /\ k > p => k \in Indices(s) /\ EntryAt(r, k) = EntryAt(s, k)
  BY DEF Joined
<1>4. p \in Int /\ p >= l.base /\ p <= LastIndex(l)
  BY <1>1, EntryOfLog
<1>5. Fitting(r, bytes)
  <2>1. LastIndex(r) >= r.base /\ l.base \in Indices(r) /\ l.base <= p
    BY <1>1, <1>2, <1>3, <1>4 DEF Indices
  <2>2. TermAt(r, r.base) = BaseTerm(bytes)
    BY <1>1, <1>2, <1>3, <2>1 DEF TermAt
  <2> QED
    BY <1>1, <1>2, <2>1, <2>2 DEF Fitting
<1>6. /\ w \in LogType /\ w.base = 0 /\ LastIndex(w) = LastIndex(l)
      /\ Indices(w) = 0 .. LastIndex(l)
      /\ \A k \in 0 .. LastIndex(l) : EntryAt(w, k) = WholeEntry(l, bytes, k)
  BY FittingWhole
<1>7. /\ v \in LogType /\ v.base = 0 /\ LastIndex(v) = LastIndex(r)
      /\ Indices(v) = 0 .. LastIndex(r)
      /\ \A k \in 0 .. LastIndex(r) : EntryAt(v, k) = WholeEntry(r, bytes, k)
  BY <1>5, FittingWhole
<1>8. TermAt(w, p) = TermAt(s, p)
  BY <1>3, FittingTerms
<1> HIDE DEF v, w
<1>9. p \in Indices(w) \cap Indices(s)
  BY <1>1, <1>3, <1>4, <1>6
<1>10. ASSUME NEW k \in Indices(v), k <= p
       PROVE  k \in Indices(w) /\ EntryAt(v, k) = EntryAt(w, k)
  <2>1. k \in 0 .. LastIndex(l) /\ k \in 0 .. LastIndex(r)
    BY <1>1, <1>4, <1>6, <1>7, <1>10, LogIndices
  <2>2. ~(k <= l.base) => EntryAt(r, k) = EntryAt(l, k)
    <3>1. ~(k <= l.base) => k \in Indices(r)
      BY <1>1, <1>2, <2>1 DEF Indices
    <3> QED
      BY <1>3, <1>10, <3>1
  <2> QED
    BY <1>2, <1>6, <1>7, <2>1, <2>2 DEF WholeEntry
<1>11. ASSUME NEW k \in Indices(v), k > p
       PROVE  k \in Indices(s) /\ EntryAt(v, k) = EntryAt(s, k)
  <2>1. k \in 0 .. LastIndex(r) /\ ~(k <= l.base) /\ k # 0 /\ k \in Indices(r)
    BY <1>1, <1>2, <1>4, <1>7, <1>11 DEF Indices
  <2> QED
    BY <1>2, <1>3, <1>7, <1>11, <2>1 DEF WholeEntry
<1> QED
  <2>1. Joined(v, w, s)
    BY <1>2, <1>3, <1>6, <1>7, <1>8, <1>9, <1>10, <1>11 DEF Joined
  <2> QED
    BY <1>5, <2>1 DEF v, w

(***************************************************************************)
(* Snapshot, and InstallSnapshot with an entry the log holds: a later base *)
(* and the commands up to it leave the whole as it was.                    *)
(***************************************************************************)
LEMMA WholeRebased ==
    ASSUME NEW l, NEW bytes, Fitting(l, bytes), NEW k \in Indices(l),
           NEW r, PartOf(r, l), r.base = k, LastIndex(r) = LastIndex(l),
           NEW b \in Seq(Entry), Len(b) = k,
           \A n \in 1 .. k : b[n] = EntryAt(WholeOf(l, bytes), n)
    PROVE  /\ Fitting(r, b)
           /\ WholeOf(r, b) = WholeOf(l, bytes)
<1> DEFINE w == WholeOf(l, bytes)
           v == WholeOf(r, b)
           z == LastIndex(l)
<1>1. /\ l \in LogType /\ l.base \in Nat /\ z \in Nat /\ k \in Int
      /\ k >= l.base /\ k <= z
  <2>1. l \in LogType /\ LastIndex(l) >= l.base
    BY DEF Fitting
  <2> QED
    BY <2>1, LogIndices, EntryOfLog
<1>2. /\ w \in LogType /\ w.base = 0 /\ LastIndex(w) = z /\ Indices(w) = 0 .. z
      /\ \A n \in 0 .. z : EntryAt(w, n) = WholeEntry(l, bytes, n)
      /\ \A n \in Indices(l) : n # l.base => EntryAt(w, n) = EntryAt(l, n)
      /\ PartOf(l, w)
  BY FittingWhole
<1> HIDE DEF w, z
<1>3. PartOf(r, w) /\ r \in LogType
  BY <1>2, PartOfPart DEF PartOf
<1>4. k \in Indices(r) /\ k \in 0 .. z
  BY <1>1, <1>3, LogIndices DEF Indices, z
<1>5. TermAt(r, k) = TermAt(w, k)
  BY <1>2, <1>3, <1>4, PartOfEntry
<1>6. TermAt(w, k) = BaseTerm(b)
  <2>1. CASE k = 0
    <3>1. EntryAt(w, k) = FirstEntry
      BY <1>2, <1>4, <2>1 DEF WholeEntry
    <3> QED
      BY <2>1, <3>1 DEF TermAt, BaseTerm, FirstEntry
  <2>2. CASE k # 0
    <3>1. k \in 1 .. k
      BY <1>1, <2>2
    <3>2. b[k] = EntryAt(w, k)
      BY <3>1 DEF w
    <3> QED
      BY <2>2, <3>2 DEF TermAt, BaseTerm
  <2> QED
    BY <2>1, <2>2
<1>7. Fitting(r, b)
  <2>1. LastIndex(r) >= r.base
    BY <1>1 DEF z
  <2> QED
    BY <1>3, <1>5, <1>6, <2>1 DEF Fitting
<1>8. /\ v \in LogType /\ v.base = 0 /\ LastIndex(v) = z /\ Indices(v) = 0 .. z
      /\ \A n \in 0 .. z : EntryAt(v, n) = WholeEntry(r, b, n)
      /\ \A n \in Indices(r) : n # r.base => EntryAt(v, n) = EntryAt(r, n)
  BY <1>7, FittingWhole DEF z
<1> HIDE DEF v
<1>9. ASSUME NEW n \in 0 .. z PROVE EntryAt(v, n) = EntryAt(w, n)
  <2>1. CASE n = 0
    BY <1>2, <1>8, <2>1 DEF WholeEntry
  <2>2. CASE n # 0 /\ n <= k
    <3>1. n \in 1 .. k
      BY <1>1, <2>2
    <3>2. b[n] = EntryAt(w, n)
      BY <3>1 DEF w
    <3>3. EntryAt(v, n) = b[n]
      BY <1>8, <2>2 DEF WholeEntry
    <3> QED
      BY <3>2, <3>3
  <2>3. CASE n # 0 /\ ~(n <= k)
    <3>1. n \in Indices(r) /\ n # r.base
      BY <1>1, <2>3 DEF Indices, z
    <3>2. EntryAt(v, n) = EntryAt(r, n)
      BY <1>8, <3>1
    <3>3. EntryAt(r, n) = EntryAt(w, n)
      BY <1>2, <1>3, <3>1, PartOfEntry
    <3> QED
      BY <3>2, <3>3
  <2> QED
    BY <2>1, <2>2, <2>3
<1>10. v = w
  <2>1. w \in LogType /\ w.base = 0 /\ LastIndex(w) = z
    BY <1>2
  <2>2. \A n \in Indices(v) : EntryAt(v, n) = EntryAt(w, n)
    BY <1>8, <1>9
  <2> HIDE DEF w, z
  <2> QED
    BY <1>8, <2>1, <2>2, LogEqual
<1> QED
  BY <1>7, <1>10 DEF v, w

LEMMA WholeInstalled ==
    ASSUME NEW b \in Seq(Entry)
    PROVE  LET r == Segment(Len(b), BaseTerm(b), << >>) IN
           /\ Fitting(r, b)
           /\ WholeOf(r, b) = SnapshotLog(b)
<1> DEFINE k == Len(b)
           t == BaseTerm(b)
           r == Segment(k, t, << >>)
           v == WholeOf(r, b)
           s == SnapshotLog(b)
<1>1. k \in Nat
  BY LenProperties
<1>2. t \in Int
  <2>1. CASE k = 0
    BY <2>1 DEF BaseTerm
  <2>2. CASE k # 0
    <3>1. k \in 1 .. Len(b)
      BY <1>1, <2>2
    <3>2. b[k] \in Entry
      BY <3>1, ElementOfSeq
    <3> QED
      BY <2>2, <3>2 DEF BaseTerm, Entry
  <2> QED
    BY <2>1, <2>2
<1>3. << >> \in Seq(Entry) /\ Len(<< >>) = 0
  BY EmptySeq
<1> HIDE DEF k, t
<1>4. /\ r \in LogType /\ r.base = k /\ LastIndex(r) = k + 0
      /\ k \in Indices(r) /\ EntryAt(r, k) = [term |-> t, cmd |-> None]
  BY <1>1, <1>2, <1>3, SegmentAt
<1> HIDE DEF r
<1>5. LastIndex(r) = k /\ TermAt(r, k) = t
  BY <1>1, <1>4 DEF TermAt
<1>6. Fitting(r, b)
  <2>1. LastIndex(r) >= r.base
    BY <1>1, <1>4, <1>5
  <2> QED
    BY <1>4, <1>5, <2>1 DEF Fitting, k, t
<1>7. /\ v \in LogType /\ v.base = 0 /\ LastIndex(v) = k /\ Indices(v) = 0 .. k
      /\ \A n \in 0 .. k : EntryAt(v, n) = WholeEntry(r, b, n)
  BY <1>5, <1>6, FittingWhole
<1>8. /\ s \in LogType /\ s.base = 0 /\ LastIndex(s) = k
      /\ EntryAt(s, 0) = FirstEntry
      /\ \A n \in 1 .. k : EntryAt(s, n) = b[n]
  BY SnapshotLogAt DEF k
<1> HIDE DEF v, s
<1>9. ASSUME NEW n \in 0 .. k PROVE EntryAt(v, n) = EntryAt(s, n)
  <2>1. CASE n = 0
    BY <1>7, <1>8, <2>1 DEF WholeEntry
  <2>2. CASE n # 0
    <3>1. n \in 1 .. k /\ n <= k
      BY <1>1, <2>2
    <3> QED
      BY <1>4, <1>7, <1>8, <2>2, <3>1 DEF WholeEntry
  <2> QED
    BY <2>1, <2>2
<1>10. v = s
  BY <1>7, <1>8, <1>9, LogEqual
<1> QED
  BY <1>6, <1>10 DEF r, v, s, k, t

(***************************************************************************)
(* AppendEntries changes a log only where the request holds an entry that  *)
(* the log does not, or of another term.                                   *)
(***************************************************************************)
Diverges(l, s) ==
    \E d \in Indices(s) : d \notin Indices(l) \/ TermAt(l, d) # TermAt(s, d)

LEMMA AppendEntriesDiverges ==
    ASSUME NEW l \in LogType, NEW prev \in Indices(l), NEW es \in Seq(Entry),
           AppendEntries(l, prev + 1, es) # l
    PROVE  Diverges(l, Segment(prev, TermAt(l, prev), es))
<1> DEFINE t == TermAt(l, prev)
           s == Segment(prev, t, es)
           S == Diverging(l, prev + 1, es)
<1>1. PICK n \in S : TRUE
  BY DEF AppendEntries
<1>2. /\ n \in 0 .. Len(es) - 1
      /\ \/ prev + 1 + n > LastIndex(l)
         \/ TermAt(l, prev + 1 + n) # es[n + 1].term
  BY DEF Diverging
<1>3. prev \in Nat /\ t \in Int /\ Len(es) \in Nat /\ LastIndex(l) \in Int
  <2>1. prev \in Int /\ prev >= l.base /\ l.base \in Nat
    BY EntryOfLog, LogIndices
  <2>2. t \in Int
    BY <2>1, EntryAtType
  <2>3. prev \in Nat
    BY <2>1
  <2> QED
    BY <2>2, <2>3, LogIndices, LenProperties
<1> HIDE DEF t
<1>4. /\ s \in LogType /\ s.base = prev /\ LastIndex(s) = prev + Len(es)
      /\ \A k \in Indices(s) : k # prev => EntryAt(s, k) = es[k - prev]
  <2>1. prev \in Nat /\ t \in Int
    BY <1>3
  <2>2. s = Segment(prev, t, es)
    OBVIOUS
  <2> HIDE DEF s, S
  <2> QED
    BY <2>1, <2>2, SegmentOf
<1> HIDE DEF s
<1> DEFINE d == prev + 1 + n
<1>5. d \in Indices(s) /\ d # prev /\ d - prev = n + 1
  BY <1>2, <1>3, <1>4 DEF Indices
<1> HIDE DEF d
<1>6. TermAt(s, d) = es[n + 1].term
  BY <1>4, <1>5 DEF TermAt
<1>7. d > LastIndex(l) \/ TermAt(l, d) # TermAt(s, d)
  BY <1>2, <1>6 DEF d
<1>8. d > LastIndex(l) => d \notin Indices(l)
  <2> SUFFICES ASSUME d \in Indices(l) PROVE ~(d > LastIndex(l))
    OBVIOUS
  <2>1. d \in Int /\ d <= LastIndex(l)
    BY EntryOfLog
  <2> QED
    BY <1>3, <2>1
<1> QED
  <2>1. Diverges(l, s)
    BY <1>5, <1>7, <1>8 DEF Diverges
  <2> QED
    BY <2>1 DEF s, t

LEMMA WholeDiverges ==
    ASSUME NEW l, NEW bytes, Fitting(l, bytes), NEW s \in LogType,
           s.base >= l.base, Diverges(l, s)
    PROVE  Diverges(WholeOf(l, bytes), s)
<1> DEFINE w == WholeOf(l, bytes)
<1>1. PICK d \in Indices(s) : d \notin Indices(l) \/ TermAt(l, d) # TermAt(s, d)
  BY DEF Diverges
<1>2. l \in LogType /\ Indices(w) = 0 .. LastIndex(l)
  BY FittingWhole DEF Fitting
<1>3. d \in Int /\ d >= s.base /\ s.base \in Nat /\ l.base \in Nat
  BY <1>2, EntryOfLog, LogIndices
<1>4. CASE d \in Indices(l)
  BY <1>1, <1>4, FittingTerms DEF Diverges
<1>5. CASE d \notin Indices(l)
  <2>1. d >= l.base
    BY <1>3
  <2>2. ~(d <= LastIndex(l))
    BY <1>3, <1>5, <2>1 DEF Indices
  <2>3. d \notin Indices(w)
    BY <1>2, <1>3, <2>2, LogIndices
  <2> QED
    BY <2>3 DEF Diverges
<1> QED
  BY <1>4, <1>5

----------------------------------------------------------------------------
(* The whole logs of the peers and what the requests carry of them.        *)

Whole(i) == WholeOf(log[i], snapshot[i].bytes)

Stored == {<<Whole(i), currentTerm[i]>> : i \in Server}

Moving ==
    {<<Sent(m), m.term>> : m \in appendRequests}
        \cup {<<SnapshotLog(m.snapshot.bytes), m.term>> : m \in installRequests}

Full == Stored \cup Moving

(***************************************************************************)
(* Where a snapshot ends and the log goes on, both name the same term.     *)
(***************************************************************************)
SeamsMatch ==
    /\ \A i \in Server : Fitting(log[i], snapshot[i].bytes)
    /\ \A m \in installRequests : m.snapshot.term = BaseTerm(m.snapshot.bytes)

WholesElected ==
    \A c \in Full : \A k \in Indices(c[1]) :
        TermAt(c[1], k) > 0 => \E e \in elected : e[1] = TermAt(c[1], k)

(***************************************************************************)
(* A leader holds every entry of its term, and whatever is under way in    *)
(* its term is a part of its log.                                          *)
(***************************************************************************)
WholesBehind ==
    \A i \in Server : state[i] = Leader =>
        \A c \in Full : \A k \in Indices(c[1]) :
            TermAt(c[1], k) = currentTerm[i] => k <= LastIndex(Whole(i))

MovingFromLeader ==
    \A i \in Server : state[i] = Leader =>
        \A c \in Moving : c[2] = currentTerm[i] => PartOf(c[1], Whole(i))

WholesInv ==
    /\ Consistent(Full)
    /\ SeamsMatch
    /\ WholesElected
    /\ WholesBehind
    /\ MovingFromLeader

(***************************************************************************)
(* What a state machine has been handed is what the log holds up to the    *)
(* commit index.                                                           *)
(***************************************************************************)
Aligned ==
    \A i \in Server :
        /\ log[i].base <= commitIndex[i]
        /\ commitIndex[i] <= LastIndex(log[i])
        /\ \A n \in 1 .. commitIndex[i] : machine[i][n] = EntryAt(Whole(i), n)

(***************************************************************************)
(* What a step does to the whole logs: a leader accepts a command, or a    *)
(* peer takes what a call of a leader of its term carries.                 *)
(***************************************************************************)
OthersStay(i) == \A j \in Server \ {i} : Whole(j)' = Whole(j)

Grows(i) ==
    /\ state[i] = Leader
    /\ currentTerm'[i] = currentTerm[i]
    /\ \E e \in Entry : /\ e.term = currentTerm[i]
                        /\ Whole(i)' = AppendEntry(Whole(i), e)

Takes(i, c) ==
    /\ currentTerm[i] <= c[2]
    /\ currentTerm'[i] = c[2]
    /\ Joined(Whole(i)', Whole(i), c[1])
    /\ Diverges(Whole(i), c[1])

WholesStep ==
    \/ \A i \in Server : Whole(i)' = Whole(i)
    \/ \E i \in Server : /\ OthersStay(i)
                         /\ Grows(i) \/ \E c \in Moving : Takes(i, c)

LogsFit == \A i \in Server : Fitting(log[i], snapshot[i].bytes)

LEMMA WholeIs ==
    ASSUME LogsFit, NEW i \in Server
    PROVE  /\ Whole(i) \in LogType
           /\ Whole(i).base = 0
           /\ LastIndex(Whole(i)) = LastIndex(log[i])
           /\ LastIndex(log[i]) \in Nat
           /\ Indices(Whole(i)) = 0 .. LastIndex(log[i])
           /\ EntryAt(Whole(i), 0) = FirstEntry
           /\ PartOf(log[i], Whole(i))
           /\ \A k \in Indices(log[i]) :
                  k # log[i].base => EntryAt(Whole(i), k) = EntryAt(log[i], k)
           /\ \A k \in 1 .. log[i].base : EntryAt(Whole(i), k) = snapshot[i].bytes[k]
<1> DEFINE l == log[i]
           bytes == snapshot[i].bytes
           w == WholeOf(l, bytes)
<1>1. Fitting(l, bytes)
  BY DEF LogsFit
<1>2. l \in LogType /\ LastIndex(l) >= l.base
  BY <1>1 DEF Fitting
<1>3. LastIndex(l) \in Nat /\ l.base \in Nat
  BY <1>2, LogIndices
<1> HIDE DEF l, bytes
<1>4. /\ w \in LogType /\ w.base = 0 /\ LastIndex(w) = LastIndex(l)
      /\ Indices(w) = 0 .. LastIndex(l)
      /\ \A k \in 0 .. LastIndex(l) : EntryAt(w, k) = WholeEntry(l, bytes, k)
      /\ PartOf(l, w)
      /\ \A k \in Indices(l) : k # l.base => EntryAt(w, k) = EntryAt(l, k)
  BY <1>1, FittingWhole
<1> HIDE DEF w
<1>5. EntryAt(w, 0) = FirstEntry
  BY <1>3, <1>4 DEF WholeEntry
<1>6. \A k \in 1 .. l.base : EntryAt(w, k) = bytes[k]
  <2> TAKE k \in 1 .. l.base
  <2>1. k \in 0 .. LastIndex(l) /\ k # 0 /\ k <= l.base
    BY <1>2, <1>3
  <2> QED
    BY <1>4, <2>1 DEF WholeEntry
<1>7. w = Whole(i)
  BY DEF w, l, bytes, Whole
<1> QED
  BY <1>3, <1>4, <1>5, <1>6, <1>7 DEF l, bytes

LEMMA StartGrows ==
    ASSUME TypeInv, LogsFit, NEW i \in Server, Start(i)
    PROVE  OthersStay(i) /\ Grows(i) /\ LogsFit'
<1> DEFINE e == [term |-> currentTerm[i], cmd |-> <<i, LastIndex(log[i]) + 1>>]
<1>1. /\ log'[i] = AppendEntry(log[i], e)
      /\ \A j \in Server \ {i} : log'[j] = log[j]
      /\ snapshot' = snapshot /\ state[i] = Leader /\ currentTerm' = currentTerm
  BY DEF Start, electionVars, TypeInv, TypeOK, TypeOfLogs
<1>2. log[i] \in LogType /\ currentTerm[i] \in Nat
  BY DEF TypeInv, TypeOK, TypeOfLogs, TypeOfElections
<1>3. e \in Entry /\ e.term = currentTerm[i]
  BY <1>2, LogIndices DEF Entry, Command
<1> HIDE DEF e
<1>4. /\ Fitting(log'[i], snapshot[i].bytes)
      /\ WholeOf(log'[i], snapshot[i].bytes) = AppendEntry(Whole(i), e)
  BY <1>1, <1>3, WholeAppends DEF LogsFit, Whole
<1>5. OthersStay(i)
  BY <1>1 DEF OthersStay, Whole
<1>6. Whole(i)' = AppendEntry(Whole(i), e)
  BY <1>1, <1>4 DEF Whole
<1>7. Grows(i)
  BY <1>1, <1>3, <1>6 DEF Grows
<1>8. LogsFit'
  BY <1>1, <1>4 DEF LogsFit
<1> QED
  BY <1>5, <1>7, <1>8

LEMMA AppendEntriesTakes ==
    ASSUME TypeInv, Consistent(Carried), LogsFit,
           NEW m \in appendRequests, HandleAppendEntries(m)
    PROVE  /\ LogsFit'
           /\ OthersStay(m.to)
           /\ Whole(m.to)' = Whole(m.to) \/ Takes(m.to, <<Sent(m), m.term>>)
<1> DEFINE i == m.to
           l == log[i]
           s == Sent(m)
           r == log'[i]
<1>1. /\ i \in Server /\ m.term \in Nat /\ m.entries \in Seq(Entry)
      /\ snapshot' = snapshot /\ currentTerm[i] \in Nat /\ l \in LogType
      /\ \A j \in Server \ {i} : log'[j] = log[j]
  BY DEF TypeInv, TypeOK, TypeOfNet, AppendRequest, HandleAppendEntries,
         TypeOfElections, TypeOfLogs
<1>2. OthersStay(i)
  BY <1>1 DEF OthersStay, Whole
<1>3. Fitting(l, snapshot[i].bytes)
  BY <1>1 DEF LogsFit
<1>4. CASE r = l
  BY <1>1, <1>2, <1>4 DEF LogsFit, Whole
<1>5. CASE r # l
  <2>1. /\ ~(m.term < currentTerm[i]) /\ Matches(l, m)
        /\ r = AppendEntries(l, m.prevIndex + 1, m.entries)
    BY <1>1, <1>5 DEF HandleAppendEntries, TypeInv, TypeOK, TypeOfLogs
  <2>2. m.prevIndex \in Indices(l)
    BY <2>1, MatchedIndexHeld
  <2>3. s = Segment(m.prevIndex, TermAt(l, m.prevIndex), m.entries)
    BY <2>1 DEF Matches, Sent
  <2>4. s \in LogType /\ s.base = m.prevIndex
    <3>1. m.prevIndex \in Int /\ m.prevIndex >= l.base /\ l.base \in Nat
      BY <1>1, <2>2, EntryOfLog, LogIndices
    <3>2. m.prevIndex \in Nat /\ TermAt(l, m.prevIndex) \in Int
      BY <1>1, <3>1, EntryAtType
    <3> QED
      BY <1>1, <2>3, <3>2, SegmentAt
  <2>5. s.base >= l.base
    BY <1>1, <2>2, <2>4, EntryOfLog
  <2>6. currentTerm[i] <= m.term /\ currentTerm'[i] = m.term
    BY <1>1, <2>1
    DEF HandleAppendEntries, Follow, Newer, TypeInv, TypeOK, TypeOfElections
  <2> HIDE DEF r, l, s
  <2>7. Joined(r, l, s)
    BY <1>1, <1>5, <2>1, <2>2, <2>3, AppendEntriesJoins
  <2>8. Diverges(l, s)
    BY <1>1, <1>5, <2>1, <2>2, <2>3, AppendEntriesDiverges
  <2>9. /\ Fitting(r, snapshot[i].bytes)
        /\ Joined(WholeOf(r, snapshot[i].bytes), WholeOf(l, snapshot[i].bytes), s)
    BY <1>3, <2>4, <2>7, WholeJoins
  <2>10. Diverges(WholeOf(l, snapshot[i].bytes), s)
    BY <1>3, <2>4, <2>5, <2>8, WholeDiverges
  <2>11. /\ Whole(i) = WholeOf(l, snapshot[i].bytes)
         /\ Whole(i)' = WholeOf(r, snapshot[i].bytes)
    BY <1>1 DEF Whole, l, r
  <2>12. Takes(i, <<s, m.term>>)
    BY <2>6, <2>9, <2>10, <2>11 DEF Takes
  <2>13. LogsFit'
    BY <1>1, <2>9 DEF LogsFit, r
  <2> QED
    BY <1>2, <2>12, <2>13 DEF s
<1> QED
  BY <1>4, <1>5

LEMMA TakeSnapshotStays ==
    ASSUME TypeInv, LogsFit, Aligned,
           NEW i \in Server, NEW k \in Indices(log[i]), TakeSnapshot(i, k)
    PROVE  LogsFit' /\ \A j \in Server : Whole(j)' = Whole(j)
<1> DEFINE l == log[i]
           r == Rebase(l, k)
           b == SubSeq(machine[i], 1, k)
<1>1. /\ log'[i] = r /\ \A j \in Server \ {i} : log'[j] = log[j]
      /\ snapshot'[i].bytes = b
      /\ \A j \in Server \ {i} : snapshot'[j] = snapshot[j]
      /\ k \in l.base + 1 .. lastApplied[i]
  BY DEF TakeSnapshot, SnapshotAt, TypeInv, TypeOK, TypeOfLogs
<1>2. /\ l \in LogType /\ l.base \in Nat /\ machine[i] \in Seq(Entry)
      /\ lastApplied[i] \in Int /\ lastApplied[i] = Len(machine[i])
      /\ lastApplied[i] = commitIndex[i]
  BY LogIndices DEF TypeInv, TypeOK, TypeOfLogs, Positions, Commands
<1>3. k \in Int /\ 1 <= k /\ k <= Len(machine[i]) /\ k - 1 + 1 = k
  BY <1>1, <1>2
<1>4. 1 \in Int /\ 1 <= 1 /\ \A n \in 1 .. k : 1 + n - 1 = n
  BY <1>3
<1>5. b \in Seq(Entry) /\ Len(b) = k /\ \A n \in 1 .. k : b[n] = machine[i][n]
  <2>1. /\ b \in Seq(Entry)
        /\ Len(b) = IF 1 <= k THEN k - 1 + 1 ELSE 0
        /\ \A n \in 1 .. k - 1 + 1 : b[n] = machine[i][1 + n - 1]
    BY <1>2, <1>3, <1>4, PartOfEntries
  <2> HIDE DEF b
  <2> QED
    BY <1>3, <1>4, <2>1
<1> HIDE DEF b, l
<1>6. \A n \in 1 .. k : b[n] = EntryAt(Whole(i), n)
  <2> TAKE n \in 1 .. k
  <2>1. n \in 1 .. commitIndex[i]
    BY <1>2, <1>3
  <2> QED
    BY <1>5, <2>1 DEF Aligned
<1>7. PartOf(r, l) /\ LastIndex(r) = LastIndex(l) /\ r.base = k
  BY <1>2, RebaseIsPart DEF Rebase, l
<1> HIDE DEF r
<1>8. Fitting(l, snapshot[i].bytes) /\ Whole(i) = WholeOf(l, snapshot[i].bytes)
  BY DEF LogsFit, Whole, l
<1>9. k \in Indices(l)
  BY DEF l
<1>10. Fitting(r, b) /\ WholeOf(r, b) = Whole(i)
  BY <1>5, <1>6, <1>7, <1>8, <1>9, WholeRebased
<1>11. Whole(i)' = Whole(i)
  BY <1>1, <1>10 DEF Whole
<1>12. \A j \in Server \ {i} : Whole(j)' = Whole(j)
  BY <1>1 DEF Whole
<1>13. LogsFit'
  BY <1>1, <1>10 DEF LogsFit
<1> QED
  BY <1>11, <1>12, <1>13

LEMMA InstallSnapshotTakes ==
    ASSUME TypeInv, Consistent(Full), SeamsMatch,
           NEW m \in installRequests, HandleInstallSnapshot(m)
    PROVE  /\ LogsFit'
           /\ OthersStay(m.to)
           /\ \/ Whole(m.to)' = Whole(m.to)
              \/ Takes(m.to, <<SnapshotLog(m.snapshot.bytes), m.term>>)
<1> DEFINE i == m.to
           l == log[i]
           s == m.snapshot
           r == log'[i]
           w == Whole(i)
           S == SnapshotLog(s.bytes)
           k == s.index
<1>1. /\ i \in Server /\ m.term \in Nat /\ currentTerm[i] \in Nat
      /\ l \in LogType /\ k \in Nat /\ s.term \in Int /\ s.bytes \in Seq(Entry)
      /\ Len(s.bytes) = k /\ s.term = BaseTerm(s.bytes) /\ LogsFit
  BY DEF TypeInv, TypeOK, TypeOfNet, InstallRequest, SnapshotType, Commands,
         TypeOfElections, TypeOfLogs, Positions, SeamsMatch, LogsFit
<1>2. \A j \in Server \ {i} : log'[j] = log[j] /\ snapshot'[j] = snapshot[j]
  <2>1. /\ log' = log \/ \E new : log' = [log EXCEPT ![i] = new]
        /\ snapshot' = snapshot \/ snapshot' = [snapshot EXCEPT ![i] = s]
    <3>1. \/ /\ log' = [log EXCEPT ![i] = Installed(log[i], s.index, s.term)]
             /\ snapshot' = [snapshot EXCEPT ![i] = s]
          \/ UNCHANGED <<snapshot, log>>
      BY DEF HandleInstallSnapshot
    <3> QED
      BY <3>1
  <2>2. log \in [Server -> LogType] /\ snapshot \in [Server -> SnapshotType]
    BY DEF TypeInv, TypeOK, TypeOfLogs
  <2> QED
    BY <2>1, <2>2
<1>3. OthersStay(i)
  BY <1>2 DEF OthersStay, Whole
<1>4. CASE ~Installs(i, m)
  <2>1. log' = log /\ snapshot' = snapshot
    BY <1>4 DEF HandleInstallSnapshot
  <2> QED
    BY <1>1, <1>3, <2>1 DEF LogsFit, Whole
<1>5. CASE Installs(i, m)
  <2>1. /\ r = Installed(l, k, s.term) /\ snapshot'[i] = s
        /\ k >= l.base /\ m.term >= currentTerm[i]
    BY <1>1, <1>5 DEF HandleInstallSnapshot, Installs, TypeInv, TypeOK, TypeOfLogs
  <2>2. currentTerm[i] <= m.term /\ currentTerm'[i] = m.term
    BY <1>1, <2>1
    DEF HandleInstallSnapshot, Follow, Newer, TypeInv, TypeOK, TypeOfElections
  <2>3. /\ S \in LogType /\ S.base = 0 /\ LastIndex(S) = k /\ Indices(S) = 0 .. k
        /\ EntryAt(S, 0) = FirstEntry
        /\ \A n \in 1 .. k : EntryAt(S, n) = s.bytes[n]
        /\ TermAt(S, k) = s.term
    BY <1>1, SnapshotLogAt
  <2>4. /\ w \in LogType /\ w.base = 0 /\ LastIndex(w) = LastIndex(l)
        /\ LastIndex(l) \in Nat /\ Indices(w) = 0 .. LastIndex(l)
        /\ EntryAt(w, 0) = FirstEntry
    BY <1>1, WholeIs
  <2>5. Fitting(l, snapshot[i].bytes) /\ w = WholeOf(l, snapshot[i].bytes)
    BY <1>1 DEF LogsFit, Whole
  <2>6. /\ <<S, m.term>> \in Full /\ <<w, currentTerm[i]>> \in Full
    BY <1>1 DEF Full, Moving, Stored
  <2>7. s.term \in Nat
    <3>1. WellFormed(S, m.term)
      BY <2>6 DEF Consistent
    <3>2. k \in Indices(S)
      BY <1>1, <2>3
    <3>3. TermAt(S, k) \in 0 .. m.term
      BY <3>1, <3>2 DEF WellFormed
    <3> QED
      BY <1>1, <2>3, <3>3
  <2>8. Whole(i)' = WholeOf(r, s.bytes)
    BY <2>1 DEF Whole
  <2> HIDE DEF S, w, l, r
  <2>9. CASE TermAt(l, k) = s.term
    <3>1. /\ k \in Indices(l) /\ PartOf(r, l) /\ LastIndex(r) = LastIndex(l)
          /\ r.base = k
      <4>1. r = Installed(l, k, s.term)
        BY <2>1
      <4>2. /\ k \in Indices(l) /\ PartOf(Installed(l, k, s.term), l)
            /\ LastIndex(Installed(l, k, s.term)) = LastIndex(l)
        BY <1>1, <2>7, <2>9, InstalledIs
      <4>3. r.base = k
        BY <4>1 DEF Installed
      <4> QED
        BY <4>1, <4>2, <4>3
    <3>2. \A n \in 1 .. k : s.bytes[n] = EntryAt(w, n)
      <4> TAKE n \in 1 .. k
      <4>1. k \in Indices(S) \cap Indices(w) /\ n \in Indices(S) \cap Indices(w)
               /\ n <= k /\ n # 0
        <5>1. k <= LastIndex(l)
          BY <1>1, <3>1, EntryOfLog
        <5> QED
          BY <1>1, <2>3, <2>4, <5>1
      <4>2. TermAt(S, k) = TermAt(w, k)
        BY <2>3, <2>5, <2>9, <3>1, FittingTerms
      <4>3. Matching(S, w)
        BY <2>6 DEF Consistent
      <4>4. Agree(EntryAt(S, n), EntryAt(w, n), n \in {S.base, w.base})
        BY <4>1, <4>2, <4>3 DEF Matching
      <4> QED
        BY <2>3, <2>4, <4>1, <4>4 DEF Agree
    <3>3. Fitting(r, s.bytes) /\ WholeOf(r, s.bytes) = w
      BY <1>1, <2>5, <3>1, <3>2, WholeRebased
    <3>4. LogsFit'
      BY <1>1, <1>2, <2>1, <3>3 DEF LogsFit, r
    <3> QED
      BY <1>3, <2>8, <3>3, <3>4 DEF w
  <2>10. CASE TermAt(l, k) # s.term
    <3>1. r = Segment(k, s.term, << >>)
      <4>1. r = Installed(l, k, s.term)
        BY <2>1
      <4> QED
        BY <1>1, <2>7, <2>10, <4>1, InstalledIs
    <3>2. Fitting(r, s.bytes) /\ WholeOf(r, s.bytes) = S
      BY <1>1, <3>1, WholeInstalled DEF S
    <3>3. k # 0
      <4> SUFFICES ASSUME k = 0 PROVE FALSE
        OBVIOUS
      <4>1. 0 \in Indices(l)
        BY <1>1, <2>1, <2>4, LogIndices DEF Indices
      <4>2. TermAt(l, 0) = TermAt(w, 0)
        BY <2>5, <4>1, FittingTerms
      <4> QED
        BY <2>3, <2>4, <2>10, <4>2 DEF TermAt
    <3>4. Joined(S, w, S)
      <4>1. 0 \in Indices(w) \cap Indices(S) /\ 0 < LastIndex(S)
        BY <1>1, <2>3, <2>4, <3>3
      <4>2. TermAt(w, 0) = TermAt(S, 0)
        BY <2>3, <2>4 DEF TermAt
      <4>3. \A n \in Indices(S) : n <= 0 => n = 0
        BY <1>1, <2>3
      <4> QED
        BY <2>3, <2>4, <4>1, <4>2, <4>3 DEF Joined
    <3>5. Diverges(w, S)
      <4>1. k \in Indices(S)
        BY <1>1, <2>3
      <4>2. CASE k \in Indices(l)
        BY <2>3, <2>5, <2>10, <4>1, <4>2, FittingTerms DEF Diverges
      <4>3. CASE k \notin Indices(l)
        <5>1. k \notin Indices(w)
          BY <1>1, <2>1, <2>4, <4>3, LogIndices DEF Indices
        <5> QED
          BY <4>1, <5>1 DEF Diverges
      <4> QED
        BY <4>2, <4>3
    <3>6. Takes(i, <<S, m.term>>)
      BY <2>2, <2>8, <3>2, <3>4, <3>5 DEF Takes, w
    <3>7. LogsFit'
      BY <1>1, <1>2, <2>1, <3>2 DEF LogsFit, r
    <3> QED
      BY <1>3, <3>6, <3>7 DEF S
  <2> QED
    BY <2>9, <2>10
<1> QED
  BY <1>4, <1>5

LEMMA NextWholesStep ==
    ASSUME TypeInv, DiskInSync, Consistent(Carried), Consistent(Full), SeamsMatch,
           Aligned, [Next]_vars
    PROVE  LogsFit' /\ WholesStep
<1>1. LogsFit
  BY DEF SeamsMatch, LogsFit
<1>2. ASSUME NEW i \in Server, Start(i) PROVE LogsFit' /\ WholesStep
  BY <1>1, <1>2, StartGrows DEF WholesStep
<1>3. ASSUME NEW i \in Server, OthersStay(i), Whole(i)' = Whole(i)
      PROVE  WholesStep
  BY <1>3 DEF WholesStep, OthersStay
<1>4. ASSUME NEW m \in appendRequests, HandleAppendEntries(m)
      PROVE  LogsFit' /\ WholesStep
  <2>1. m.to \in Server /\ <<Sent(m), m.term>> \in Moving
    BY DEF TypeInv, TypeOK, TypeOfNet, AppendRequest, Moving
  <2>2. /\ LogsFit' /\ OthersStay(m.to)
        /\ Whole(m.to)' = Whole(m.to) \/ Takes(m.to, <<Sent(m), m.term>>)
    BY <1>1, <1>4, AppendEntriesTakes
  <2> QED
    BY <1>3, <2>1, <2>2 DEF WholesStep
<1>5. ASSUME NEW i \in Server, NEW k \in Indices(log[i]), TakeSnapshot(i, k)
      PROVE  LogsFit' /\ WholesStep
  BY <1>1, <1>5, TakeSnapshotStays DEF WholesStep
<1>6. ASSUME NEW m \in installRequests, HandleInstallSnapshot(m)
      PROVE  LogsFit' /\ WholesStep
  <2> DEFINE c == <<SnapshotLog(m.snapshot.bytes), m.term>>
  <2>1. m.to \in Server /\ c \in Moving
    BY DEF TypeInv, TypeOK, TypeOfNet, InstallRequest, Moving
  <2>2. /\ LogsFit' /\ OthersStay(m.to)
        /\ Whole(m.to)' = Whole(m.to) \/ Takes(m.to, c)
    BY <1>6, InstallSnapshotTakes
  <2> HIDE DEF c
  <2> QED
    BY <1>3, <2>1, <2>2 DEF WholesStep
<1>7. ASSUME log' = log,
             \A i \in Server : snapshot'[i].bytes = snapshot[i].bytes
      PROVE  LogsFit' /\ WholesStep
  BY <1>1, <1>7 DEF LogsFit, WholesStep, Whole
<1> QED
  BY <1>2, <1>4, <1>5, <1>6, <1>7, OtherStepsKeepLogs

(***************************************************************************)
(* Requests are sent by leaders that change nothing else meanwhile.        *)
(***************************************************************************)
Calls(i) == state[i] = Leader /\ UNCHANGED <<electionVars, logVars>>

RequestsStep ==
    /\ \A m \in appendRequests' :
           \/ \E n \in appendRequests : SameCall(m, n)
           \/ \E i, j \in Server :
                  Calls(i) /\ ~LacksPrevious(i, j) /\ m = AppendArgs(i, j)
    /\ \A m \in installRequests' :
           \/ \E n \in installRequests : SameCall(m, n)
           \/ \E i, j \in Server : Calls(i) /\ m = InstallArgs(i, j)

LEMMA NextRequestsStep ==
    ASSUME TypeOK, [Next]_vars
    PROVE  RequestsStep
<1>1. \A m : SameCall(m, m)
  BY DEF SameCall
<1>2. CASE NoNewRequests
  BY <1>2 DEF NoNewRequests, FromAmong, RequestsStep
<1>3. ASSUME NEW i \in Server, NEW j \in Others(i), Replicate(i, j)
      PROVE  RequestsStep
  <2>1. j \in Server /\ Calls(i)
    BY <1>3 DEF Replicate, Calls, Others
  <2>2. CASE LacksPrevious(i, j)
    <3>1. /\ installRequests' = installRequests \cup {InstallArgs(i, j)}
          /\ appendRequests' = appendRequests
      BY <1>3, <2>2 DEF Replicate
    <3> QED
      BY <1>1, <2>1, <3>1 DEF RequestsStep
  <2>3. CASE ~LacksPrevious(i, j)
    <3>1. /\ appendRequests' = appendRequests \cup {AppendArgs(i, j)}
          /\ installRequests' = installRequests
      BY <1>3, <2>3 DEF Replicate
    <3> QED
      BY <1>1, <2>1, <2>3, <3>1 DEF RequestsStep
  <2> QED
    BY <2>2, <2>3
<1>4. ASSUME NEW r \in appendReplies, AnswerWithSnapshot(r) PROVE RequestsStep
  <2>1. r.to \in Server /\ r.from \in Server
    BY DEF TypeOK, TypeOfNet, AppendReplyType
  <2>2. /\ Calls(r.to) /\ appendRequests' = appendRequests
        /\ installRequests' = installRequests \cup {InstallArgs(r.to, r.from)}
    BY <1>4 DEF AnswerWithSnapshot, InTime, Calls
  <2> QED
    BY <1>1, <2>1, <2>2 DEF RequestsStep
<1> QED
  BY <1>2, <1>3, <1>4, OtherStepsSendNothing

Sends(i, c) ==
    /\ Calls(i)
    /\ c[2] = currentTerm[i]
    /\ PartOf(c[1], Whole(i))

LEMMA NextMoving ==
    ASSUME TypeInv, TypeOK', LogInv, SeamsMatch, [Next]_vars
    PROVE  \A c \in Moving' : c \in Moving \/ \E i \in Server : Sends(i, c)
<1>1. RequestsStep /\ LogsFit
  BY NextRequestsStep DEF TypeInv, SeamsMatch, LogsFit
<1>2. ASSUME NEW m \in appendRequests'
      PROVE  \/ <<Sent(m), m.term>> \in Moving
             \/ \E i \in Server : Sends(i, <<Sent(m), m.term>>)
  <2>1. ASSUME NEW n \in appendRequests, SameCall(m, n)
        PROVE  <<Sent(m), m.term>> \in Moving
    <3>1. n \in AppendRequest
      BY DEF TypeInv, TypeOK, TypeOfNet
    <3>2. Sent(m) = Sent(n) /\ m.term = n.term
      BY <2>1, <3>1, SameAppendCall DEF Sent
    <3> QED
      BY <3>2 DEF Moving
  <2>2. ASSUME NEW i \in Server, NEW j \in Server, Calls(i), ~LacksPrevious(i, j),
               m = AppendArgs(i, j)
        PROVE  Sends(i, <<Sent(m), m.term>>)
    <3>1. /\ log[i] \in LogType /\ nextIndex[i][j] \in Int
          /\ nextIndex[i][j] <= LastIndex(log[i]) + 1
          /\ log[i].base \in Nat /\ LastIndex(log[i]) \in Int
      BY <2>2, LogIndices DEF TypeInv, TypeOK, TypeOfLogs, LogInv, Probes, Calls
    <3> DEFINE prev == nextIndex[i][j] - 1
    <3>2. prev \in Indices(log[i])
      BY <2>2, <3>1 DEF LacksPrevious, Indices
    <3>3. /\ m.prevIndex = prev /\ m.prevTerm = TermAt(log[i], prev)
          /\ m.entries = EntriesFrom(log[i], prev + 1) /\ m.term = currentTerm[i]
      BY <2>2 DEF AppendArgs
    <3> HIDE DEF prev
    <3>4. PartOf(Sent(m), log[i])
      BY <3>1, <3>2, <3>3, SentIsPart DEF Sent
    <3>5. PartOf(Sent(m), Whole(i))
      BY <1>1, <3>4, WholeIs, PartOfPart
    <3> QED
      BY <2>2, <3>3, <3>5 DEF Sends
  <2> QED
    BY <1>1, <2>1, <2>2 DEF RequestsStep
<1>3. ASSUME NEW m \in installRequests'
      PROVE  \/ <<SnapshotLog(m.snapshot.bytes), m.term>> \in Moving
             \/ \E i \in Server : Sends(i, <<SnapshotLog(m.snapshot.bytes), m.term>>)
  <2>1. ASSUME NEW n \in installRequests, SameCall(m, n)
        PROVE  <<SnapshotLog(m.snapshot.bytes), m.term>> \in Moving
    <3>1. n \in InstallRequest
      BY DEF TypeInv, TypeOK, TypeOfNet
    <3>2. m.snapshot = n.snapshot /\ m.term = n.term
      BY <2>1, <3>1, SameInstallCall
    <3> QED
      BY <3>2 DEF Moving
  <2>2. ASSUME NEW i \in Server, NEW j \in Server, Calls(i), m = InstallArgs(i, j)
        PROVE  Sends(i, <<SnapshotLog(m.snapshot.bytes), m.term>>)
    <3> DEFINE b == snapshot[i].bytes
               s == SnapshotLog(b)
               w == Whole(i)
    <3>1. m.snapshot.bytes = b /\ m.term = currentTerm[i]
      BY <2>2 DEF InstallArgs
    <3>2. /\ b \in Seq(Entry) /\ Len(b) = log[i].base /\ log[i] \in LogType
          /\ log[i].base <= LastIndex(log[i]) /\ log[i].base \in Nat
      <4>1. Fitting(log[i], b)
        BY <1>1 DEF LogsFit
      <4>2. log[i] \in LogType
        BY <4>1 DEF Fitting
      <4>3. log[i].base \in Nat /\ LastIndex(log[i]) \in Int
        BY <4>2, LogIndices
      <4>4. LastIndex(log[i]) >= log[i].base
        BY <4>1 DEF Fitting
      <4>5. log[i].base <= LastIndex(log[i])
        BY <4>3, <4>4
      <4> QED
        BY <4>1, <4>3, <4>5 DEF Fitting
    <3>3. /\ s \in LogType /\ s.base = 0 /\ LastIndex(s) = Len(b)
          /\ Indices(s) = 0 .. Len(b) /\ EntryAt(s, 0) = FirstEntry
          /\ \A k \in 1 .. Len(b) : EntryAt(s, k) = b[k]
      BY <3>2, SnapshotLogAt
    <3>4. /\ w \in LogType /\ LastIndex(w) = LastIndex(log[i])
          /\ Indices(w) = 0 .. LastIndex(log[i]) /\ EntryAt(w, 0) = FirstEntry
          /\ \A k \in 1 .. log[i].base : EntryAt(w, k) = b[k]
          /\ LastIndex(log[i]) \in Nat
      BY <1>1, WholeIs
    <3> HIDE DEF s, w, b
    <3>5. ASSUME NEW k \in Indices(s)
          PROVE  Agree(EntryAt(s, k), EntryAt(w, k), k = s.base)
      <4>1. k = 0 \/ k \in 1 .. Len(b)
        BY <3>2, <3>3
      <4> QED
        BY <3>2, <3>3, <3>4, <4>1 DEF Agree
    <3>6. s.base \in Indices(w) /\ s.base <= LastIndex(s)
             /\ LastIndex(s) <= LastIndex(w)
      BY <3>2, <3>3, <3>4
    <3>7. PartOf(s, w)
      BY <3>3, <3>5, <3>6 DEF PartOf
    <3> QED
      BY <2>2, <3>1, <3>7 DEF Sends, s, w
  <2> QED
    BY <1>1, <2>1, <2>2 DEF RequestsStep
<1> QED
  BY <1>2, <1>3 DEF Moving

----------------------------------------------------------------------------
(* The whole logs agree after every step.                                  *)

LEMMA WholeIsFull ==
    ASSUME Consistent(Full), NEW i \in Server
    PROVE  /\ <<Whole(i), currentTerm[i]>> \in Full
           /\ Whole(i) \in LogType
           /\ LastIndex(Whole(i)) >= Whole(i).base
           /\ \A k \in Indices(Whole(i)) : TermAt(Whole(i), k) \in 0 .. currentTerm[i]
           /\ TermsRise(Whole(i))
<1>1. <<Whole(i), currentTerm[i]>> \in Full
  BY DEF Full, Stored
<1>2. WellFormed(Whole(i), currentTerm[i])
  BY <1>1 DEF Consistent
<1> QED
  BY <1>1, <1>2 DEF WellFormed

LEMMA FullAfter ==
    ASSUME TypeInv, TypeOK', DiskInSync, LogInv, SeamsMatch, [Next]_vars,
           NEW C, Full \subseteq C, Consistent(C),
           \A i \in Server :
               \E c \in C : Whole(i)' = c[1] /\ c[2] <= currentTerm'[i]
    PROVE  /\ Consistent(Full')
           /\ \A k, t : Holds(Full', k, t) => Holds(C, k, t)
<1> DEFINE D == Full'
<1>1. \A c \in C : c[2] \in Nat /\ PartOf(c[1], c[1]) /\ c[2] <= c[2]
  BY PartOfItself DEF Consistent, WellFormed
<1>2. ASSUME NEW i \in Server
      PROVE  /\ currentTerm'[i] \in Nat
             /\ \E c \in C : PartOf(Whole(i)', c[1]) /\ c[2] <= currentTerm'[i]
  BY <1>1 DEF TypeOK, TypeOfElections
<1>3. ASSUME NEW d \in Moving'
      PROVE  d[2] \in Nat /\ \E c \in C : PartOf(d[1], c[1]) /\ c[2] <= d[2]
  <2>1. CASE d \in Moving
    <3>1. d \in C
      BY <2>1 DEF Full
    <3> QED
      BY <1>1, <3>1
  <2>2. ASSUME NEW i \in Server, Sends(i, d)
        PROVE  d[2] \in Nat /\ \E c \in C : PartOf(d[1], c[1]) /\ c[2] <= d[2]
    <3> DEFINE c == <<Whole(i), currentTerm[i]>>
    <3>1. c \in C
      BY DEF Full, Stored
    <3>2. c[1] = Whole(i) /\ c[2] = currentTerm[i]
      OBVIOUS
    <3> HIDE DEF c
    <3> QED
      BY <1>1, <2>2, <3>1, <3>2 DEF Sends
  <2> QED
    BY <2>1, <2>2, NextMoving
<1>4. \A d \in D : d[2] \in Nat /\ \E c \in C : PartOf(d[1], c[1]) /\ c[2] <= d[2]
  <2> TAKE d \in D
  <2>1. CASE d \in Moving'
    BY <1>3, <2>1
  <2>2. CASE d \notin Moving'
    <3>1. PICK i \in Server : d = <<Whole(i)', currentTerm'[i]>>
      BY <2>2 DEF Full, Stored
    <3> QED
      BY <1>2, <3>1
  <2> QED
    BY <2>1, <2>2
<1> HIDE DEF D
<1>5. Consistent(D) /\ \A k, t : Holds(D, k, t) => Holds(C, k, t)
  BY <1>4, PartsConsistent
<1> QED
  BY <1>5 DEF D

LEMMA WholesHold ==
    /\ WholesElected <=>
           \A k, t : Holds(Full, k, t) /\ t > 0 => \E e \in elected : e[1] = t
    /\ WholesBehind <=>
           \A i \in Server : state[i] = Leader =>
               \A k : Holds(Full, k, currentTerm[i]) => k <= LastIndex(Whole(i))
BY DEF WholesElected, WholesBehind, Holds

(***************************************************************************)
(* Nothing is new but what a leader accepts.                               *)
(***************************************************************************)
Accepted(k, t) ==
    \E i \in Server : /\ Grows(i)
                      /\ k = LastIndex(Whole(i)) + 1
                      /\ t = currentTerm[i]

LEMMA NextFull ==
    ASSUME TypeInv, TypeOK', DiskInSync, LogInv, WholesInv, Aligned, [Next]_vars
    PROVE  /\ Consistent(Full')
           /\ \A k, t : Holds(Full', k, t) => Holds(Full, k, t) \/ Accepted(k, t)
<1>1. /\ Consistent(Full) /\ SeamsMatch /\ WholesStep
      /\ \A i \in Server : currentTerm[i] \in Nat /\ currentTerm'[i] \in Nat
                           /\ currentTerm[i] <= currentTerm'[i]
  <2>1. WholesStep
    BY NextWholesStep DEF WholesInv, LogInv
  <2>2. ASSUME NEW i \in Server
        PROVE  currentTerm[i] \in Nat /\ currentTerm'[i] \in Nat
               /\ currentTerm[i] <= currentTerm'[i]
    <3>1. currentTerm'[i] \in Nat /\ currentTerm'[i] >= currentTerm[i]
      BY TermsGrow DEF TypeInv
    <3>2. currentTerm[i] \in Nat
      BY DEF TypeInv, TypeOK, TypeOfElections
    <3> QED
      BY <3>1, <3>2
  <2> QED
    BY <2>1, <2>2 DEF WholesInv
<1>2. ASSUME NEW C, Full \subseteq C, NEW i \in Server, Whole(i)' = Whole(i)
      PROVE  \E c \in C : Whole(i)' = c[1] /\ c[2] <= currentTerm'[i]
  <2> DEFINE c == <<Whole(i), currentTerm[i]>>
  <2>1. c \in Full /\ c[1] = Whole(i) /\ c[2] = currentTerm[i]
    BY DEF Full, Stored
  <2>2. currentTerm[i] <= currentTerm'[i]
    BY <1>1
  <2> HIDE DEF c
  <2>3. c \in C
    BY <1>2, <2>1
  <2>4. Whole(i)' = c[1] /\ c[2] <= currentTerm'[i]
    BY <1>2, <2>1, <2>2
  <2> QED
    BY <2>3, <2>4
<1>3. CASE \A i \in Server : Whole(i)' = Whole(i)
  <2>1. \A i \in Server :
            \E c \in Full : Whole(i)' = c[1] /\ c[2] <= currentTerm'[i]
    BY <1>2, <1>3
  <2> QED
    BY <1>1, <2>1, FullAfter
<1>4. ASSUME NEW i \in Server, OthersStay(i), NEW C, Full \subseteq C,
             NEW r, NEW u, <<r, u>> \in C, Whole(i)' = r, u <= currentTerm'[i],
             Consistent(C)
      PROVE  /\ Consistent(Full')
             /\ \A k, t : Holds(Full', k, t) => Holds(C, k, t)
  <2>1. \A j \in Server :
            \E c \in C : Whole(j)' = c[1] /\ c[2] <= currentTerm'[j]
    <3> TAKE j \in Server
    <3>1. CASE j = i
      <4> DEFINE c == <<r, u>>
      <4>1. c \in C /\ c[1] = r /\ c[2] = u
        BY <1>4
      <4> HIDE DEF c
      <4> QED
        BY <1>4, <3>1, <4>1
    <3>2. CASE j # i
      BY <1>2, <1>4, <3>2 DEF OthersStay
    <3> QED
      BY <3>1, <3>2
  <2> QED
    BY <1>1, <1>4, <2>1, FullAfter
<1>5. ASSUME NEW i \in Server, OthersStay(i), NEW d \in Moving, Takes(i, d)
      PROVE  /\ Consistent(Full')
             /\ \A k, t : Holds(Full', k, t) => Holds(Full, k, t)
  <2> DEFINE c == <<Whole(i), currentTerm[i]>>
             r == Whole(i)'
             u == currentTerm'[i]
             C == Full \cup {<<r, u>>}
  <2>1. /\ c \in Full /\ d \in Full /\ Joined(r, c[1], d[1])
        /\ c[2] <= u /\ d[2] <= u /\ u \in Nat
    BY <1>1, <1>5 DEF Takes, Full, Stored
  <2> HIDE DEF c, r, u
  <2>2. /\ Consistent(C)
        /\ \A k, t : Holds(C, k, t) => Holds(Full, k, t)
    BY <1>1, <2>1, JoinedConsistent
  <2>3. Full \subseteq C /\ <<r, u>> \in C /\ Whole(i)' = r /\ u <= currentTerm'[i]
    BY <1>1 DEF r, u
  <2> HIDE DEF C
  <2> QED
    BY <1>4, <1>5, <2>2, <2>3
<1>6. ASSUME NEW i \in Server, OthersStay(i), Grows(i)
      PROVE  /\ Consistent(Full')
             /\ \A k, t : Holds(Full', k, t) => Holds(Full, k, t) \/ Accepted(k, t)
  <2>1. PICK e \in Entry : /\ e.term = currentTerm[i]
                           /\ Whole(i)' = AppendEntry(Whole(i), e)
    BY <1>6 DEF Grows
  <2> DEFINE c == <<Whole(i), currentTerm[i]>>
             r == AppendEntry(Whole(i), e)
             C == Full \cup {<<r, e.term>>}
  <2>2. c \in Full /\ c[1] = Whole(i) /\ c[2] <= e.term /\ e.term \in Nat
    BY <1>1, <2>1 DEF Full, Stored
  <2>3. \A k : Holds(Full, k, e.term) => k <= LastIndex(c[1])
    BY <1>6, <2>1, WholesHold DEF Grows, WholesInv
  <2> HIDE DEF c
  <2>4. /\ Consistent(C)
        /\ \A k, t : Holds(C, k, t) =>
               Holds(Full, k, t) \/ (k = LastIndex(Whole(i)) + 1 /\ t = e.term)
    BY <1>1, <2>2, <2>3, AppendedConsistent
  <2>5. Full \subseteq C /\ <<r, e.term>> \in C /\ Whole(i)' = r
           /\ e.term <= currentTerm'[i]
    BY <1>1, <2>1
  <2> HIDE DEF C, r
  <2>6. /\ Consistent(Full')
        /\ \A k, t : Holds(Full', k, t) => Holds(C, k, t)
    BY <1>4, <1>6, <2>4, <2>5
  <2> QED
    BY <1>6, <2>1, <2>4, <2>6 DEF Accepted
<1> QED
  BY <1>1, <1>3, <1>5, <1>6 DEF WholesStep

LEMMA NextSeamsMatch ==
    ASSUME TypeInv, DiskInSync, LogInv, WholesInv, Aligned, [Next]_vars
    PROVE  SeamsMatch'
<1>1. LogsFit' /\ SeamsMatch
  BY NextWholesStep DEF WholesInv, LogInv
<1>2. ASSUME NEW m \in installRequests'
      PROVE  m.snapshot.term = BaseTerm(m.snapshot.bytes)
  <2>1. ASSUME NEW n \in installRequests, SameCall(m, n)
        PROVE  m.snapshot.term = BaseTerm(m.snapshot.bytes)
    <3>1. n \in InstallRequest
      BY DEF TypeInv, TypeOK, TypeOfNet
    <3>2. m.snapshot = n.snapshot
      BY <2>1, <3>1, SameInstallCall
    <3> QED
      BY <1>1, <3>2 DEF SeamsMatch
  <2>2. ASSUME NEW i \in Server, NEW j \in Server, m = InstallArgs(i, j)
        PROVE  m.snapshot.term = BaseTerm(m.snapshot.bytes)
    <3>1. m.snapshot = snapshot[i]
      BY <2>2 DEF InstallArgs
    <3>2. snapshot[i].term = TermAt(log[i], log[i].base)
      BY DEF LogInv, SnapshotsOfLogs
    <3>3. Fitting(log[i], snapshot[i].bytes)
      BY <1>1 DEF SeamsMatch
    <3> QED
      BY <3>1, <3>2, <3>3 DEF Fitting
  <2>3. RequestsStep
    BY NextRequestsStep DEF TypeInv
  <2> QED
    BY <2>1, <2>2, <2>3 DEF RequestsStep
<1> QED
  BY <1>1, <1>2 DEF SeamsMatch, LogsFit

LEMMA NextWholesElected ==
    ASSUME TypeInv, TypeOK', DiskInSync, RoleInv, LogInv, WholesInv, Aligned,
           [Next]_vars
    PROVE  WholesElected'
<1>1. elected \subseteq elected'
  BY NextLeadersElected DEF RoleInv, TypeInv
<1>2. ASSUME NEW k, NEW t, Holds(Full', k, t), t > 0
      PROVE  \E e \in elected' : e[1] = t
  <2>1. CASE Holds(Full, k, t)
    BY <1>1, <1>2, <2>1, WholesHold DEF WholesInv
  <2>2. CASE Accepted(k, t)
    <3>1. PICK i \in Server : Grows(i) /\ t = currentTerm[i]
      BY <2>2 DEF Accepted
    <3> DEFINE e == <<t, i>>
    <3>2. e \in elected /\ e[1] = t
      BY <3>1 DEF Grows, RoleInv, LeadersElected
    <3> HIDE DEF e
    <3> QED
      BY <1>1, <3>2
  <2> QED
    BY <1>2, <2>1, <2>2, NextFull
<1> QED
  BY <1>2 DEF WholesElected, Holds

LEMMA NextWholesBehind ==
    ASSUME TypeInv, TypeOK', DiskInSync, RoleInv, ElectionSafety, ElectionSafety',
           LogInv, WholesInv, Aligned, [Next]_vars
    PROVE  WholesBehind'
<1> SUFFICES ASSUME NEW i \in Server, state'[i] = Leader,
                    NEW k, Holds(Full', k, currentTerm'[i])
             PROVE  k <= LastIndex(Whole(i)')
  BY DEF WholesBehind, Holds
<1>1. /\ Consistent(Full') /\ LogsFit /\ LogsFit'
      /\ LastIndex(log[i]) \in Nat /\ LastIndex(log'[i]) \in Nat
      /\ LastIndex(Whole(i)) = LastIndex(log[i])
      /\ LastIndex(Whole(i)') = LastIndex(log'[i])
  <2>1. LogsFit'
    BY NextSeamsMatch DEF SeamsMatch, LogsFit
  <2>2. LogsFit
    BY DEF WholesInv, SeamsMatch, LogsFit
  <2>3. Fitting(log'[i], snapshot'[i].bytes)
    BY <2>1 DEF LogsFit
  <2>4. LastIndex(Whole(i)') = LastIndex(log'[i])
    BY <2>3, FittingWhole DEF Whole
  <2>5. log'[i] \in LogType /\ LastIndex(log'[i]) >= log'[i].base
    BY <2>3 DEF Fitting
  <2>6. LastIndex(log'[i]) \in Nat
    BY <2>5, LogIndices
  <2>7. LastIndex(Whole(i)) = LastIndex(log[i]) /\ LastIndex(log[i]) \in Nat
    BY <2>2, WholeIs
  <2> QED
    BY <2>1, <2>2, <2>4, <2>6, <2>7, NextFull
<1>2. k \in Int
  BY <1>1, EntryOfLog DEF Consistent, WellFormed, Holds
<1>3. CASE JustElected(i)
  <2>1. /\ state[i] = Candidate /\ currentTerm'[i] = currentTerm[i]
        /\ <<currentTerm[i], i>> \in elected'
    BY <1>3 DEF JustElected, ToLeader
  <2>2. <<currentTerm[i], i>> \notin elected /\ currentTerm[i] > 0
    BY <2>1 DEF RoleInv, LeadersElected
  <2>3. ASSUME NEW e \in elected, e[1] = currentTerm[i]
        PROVE  FALSE
    <3>1. e \in elected' /\ e = <<e[1], e[2]>>
      BY NextLeadersElected DEF RoleInv, TypeInv, TypeOK, TypeOfHistory
    <3>2. e[2] = i
      BY <2>1, <2>3, <3>1 DEF ElectionSafety
    <3> QED
      BY <2>2, <2>3, <3>1, <3>2
  <2>4. CASE Holds(Full, k, currentTerm[i])
    BY <2>2, <2>3, <2>4, WholesHold DEF WholesInv
  <2>5. CASE Accepted(k, currentTerm[i])
    <3>1. PICK j \in Server : state[j] = Leader /\ currentTerm[i] = currentTerm[j]
      BY <2>5 DEF Accepted, Grows
    <3>2. <<currentTerm[i], j>> \in elected
      BY <3>1 DEF RoleInv, LeadersElected
    <3> QED
      BY <2>3, <3>2
  <2> QED
    BY <2>1, <2>4, <2>5, NextFull
<1>4. CASE LeadsOn(i)
  <2>1. /\ state[i] = Leader /\ currentTerm'[i] = currentTerm[i]
        /\ LastIndex(log'[i]) >= LastIndex(log[i])
    BY <1>4 DEF LeadsOn
  <2>2. CASE Holds(Full, k, currentTerm[i])
    <3>1. k <= LastIndex(log[i])
      BY <1>1, <2>1, <2>2, WholesHold DEF WholesInv
    <3> QED
      BY <1>1, <1>2, <2>1, <3>1
  <2>3. CASE Accepted(k, currentTerm[i])
    <3>1. PICK j \in Server : /\ Grows(j) /\ k = LastIndex(Whole(j)) + 1
                              /\ currentTerm[i] = currentTerm[j]
      BY <2>3 DEF Accepted
    <3>2. /\ <<currentTerm[i], i>> \in elected
          /\ <<currentTerm[j], j>> \in elected
      BY <2>1, <3>1 DEF Grows, RoleInv, LeadersElected
    <3>3. i = j
      BY <3>1, <3>2 DEF ElectionSafety
    <3>4. PICK e \in Entry : Whole(i)' = AppendEntry(Whole(i), e)
      BY <3>1, <3>3 DEF Grows
    <3>5. Whole(i) \in LogType /\ LastIndex(Whole(i)) >= Whole(i).base
      BY <1>1, WholeIs
    <3>6. LastIndex(Whole(i)') = LastIndex(Whole(i)) + 1
      BY <3>4, <3>5, AppendEntryAt
    <3>7. LastIndex(Whole(i)') \in Int
      BY <1>1
    <3> QED
      BY <1>1, <1>2, <3>1, <3>3, <3>6, <3>7
  <2> QED
    BY <2>1, <2>2, <2>3, NextFull
<1> QED
  BY <1>3, <1>4, NextLeader

LEMMA WholeIsAfter ==
    ASSUME LogsFit', NEW i \in Server
    PROVE  /\ Whole(i)' \in LogType
           /\ Whole(i)'.base = 0
           /\ LastIndex(Whole(i)') = LastIndex(log'[i])
           /\ LastIndex(log'[i]) \in Nat
           /\ Indices(Whole(i)') = 0 .. LastIndex(log'[i])
<1> DEFINE l == log'[i]
           bytes == snapshot'[i].bytes
           w == WholeOf(l, bytes)
<1>1. Fitting(l, bytes)
  BY DEF LogsFit
<1>2. l \in LogType /\ LastIndex(l) >= l.base
  BY <1>1 DEF Fitting
<1>3. LastIndex(l) \in Nat /\ l.base \in Nat
  BY <1>2, LogIndices
<1>4. w = Whole(i)'
  BY DEF Whole
<1> HIDE DEF l, bytes
<1>5. /\ w \in LogType /\ w.base = 0 /\ LastIndex(w) = LastIndex(l)
      /\ Indices(w) = 0 .. LastIndex(l)
  BY <1>1, FittingWhole
<1> HIDE DEF w
<1> QED
  BY <1>3, <1>4, <1>5 DEF l

(***************************************************************************)
(* A term is won before anything of it is accepted or sent.                *)
(***************************************************************************)
LEMMA FreshTerm ==
    ASSUME TypeInv, TypeOK', DiskInSync, RoleInv, ElectionSafety', [Next]_vars,
           NEW i \in Server, JustElected(i)
    PROVE  /\ \A e \in elected : e[1] # currentTerm[i]
           /\ \A c \in Moving : c[2] # currentTerm[i]
           /\ \A j \in Server : state[j] = Leader => currentTerm[j] # currentTerm[i]
<1>1. state[i] = Candidate /\ <<currentTerm[i], i>> \in elected'
  BY DEF JustElected, ToLeader
<1>2. <<currentTerm[i], i>> \notin elected
  BY <1>1 DEF RoleInv, LeadersElected
<1>3. ASSUME NEW e \in elected, e[1] = currentTerm[i]
      PROVE  FALSE
  <2>1. e \in elected' /\ e = <<e[1], e[2]>>
    BY NextLeadersElected DEF RoleInv, TypeInv, TypeOK, TypeOfHistory
  <2>2. e[2] = i
    BY <1>1, <1>3, <2>1 DEF ElectionSafety
  <2> QED
    BY <1>2, <1>3, <2>1, <2>2
<1>4. ASSUME NEW n, <<currentTerm[i], n>> \in elected PROVE FALSE
  BY <1>3, <1>4
<1>5. ASSUME NEW c \in Moving PROVE c[2] # currentTerm[i]
  <2>1. PICK m \in appendRequests \cup installRequests : c[2] = m.term
    BY DEF Moving
  <2>2. <<m.term, m.from>> \in elected
    BY DEF RoleInv, CallersElected
  <2> QED
    BY <1>4, <2>1, <2>2
<1>6. \A j \in Server : state[j] = Leader => currentTerm[j] # currentTerm[i]
  BY <1>4 DEF RoleInv, LeadersElected
<1> QED
  BY <1>3, <1>5, <1>6

(***************************************************************************)
(* Nobody takes anything from the leader of a term in which it leads.      *)
(***************************************************************************)
LEMMA LeaderTakesNothing ==
    ASSUME TypeInv, DiskInSync, LogInv, WholesInv, Aligned, [Next]_vars,
           NEW i \in Server, state[i] = Leader, currentTerm'[i] = currentTerm[i]
    PROVE  Whole(i)' = Whole(i) \/ Grows(i)
<1>1. ASSUME NEW c \in Moving, Takes(i, c) PROVE FALSE
  <2>1. c[2] = currentTerm[i] /\ Diverges(Whole(i), c[1])
    BY <1>1 DEF Takes
  <2>2. PartOf(c[1], Whole(i))
    BY <2>1 DEF WholesInv, MovingFromLeader
  <2>3. LogsFit
    BY DEF WholesInv, SeamsMatch, LogsFit
  <2>4. \A k \in Indices(c[1]) : /\ k \in Indices(Whole(i))
                                 /\ TermAt(c[1], k) = TermAt(Whole(i), k)
    BY <2>2, <2>3, WholeIs, PartOfEntry
  <2> QED
    BY <2>1, <2>4 DEF Diverges
<1>2. WholesStep
  BY NextWholesStep DEF WholesInv, LogInv
<1>3. ASSUME NEW j \in Server, OthersStay(j),
             Grows(j) \/ \E c \in Moving : Takes(j, c)
      PROVE  Whole(i)' = Whole(i) \/ Grows(i)
  <2>1. CASE j = i
    BY <1>1, <1>3, <2>1
  <2>2. CASE j # i
    BY <1>3, <2>2 DEF OthersStay
  <2> QED
    BY <2>1, <2>2
<1> QED
  BY <1>2, <1>3 DEF WholesStep

LEMMA PartOfLonger ==
    ASSUME NEW l \in LogType, LastIndex(l) >= l.base, NEW e \in Entry,
           NEW c, PartOf(c, l)
    PROVE  PartOf(c, AppendEntry(l, e))
<1> DEFINE r == AppendEntry(l, e)
<1>1. /\ r \in LogType /\ r.base = l.base /\ LastIndex(r) = LastIndex(l) + 1
      /\ \A k \in Indices(r) : EntryAt(r, k) =
             IF k = LastIndex(l) + 1 THEN e ELSE EntryAt(l, k)
  BY AppendEntryAt
<1>2. LastIndex(l) \in Int /\ l.base \in Nat
  BY LogIndices
<1> HIDE DEF r
<1>3. ASSUME NEW k \in Indices(l) PROVE k \in Indices(r) /\ EntryAt(r, k) = EntryAt(l, k)
  <2>1. k \in Int /\ k >= l.base /\ k <= LastIndex(l)
    BY EntryOfLog
  <2>2. k \in Indices(r) /\ k # LastIndex(l) + 1
    BY <1>1, <1>2, <2>1 DEF Indices
  <2> QED
    BY <1>1, <2>2
<1>4. /\ c \in LogType /\ c.base \in Indices(l) /\ c.base <= LastIndex(c)
      /\ LastIndex(c) <= LastIndex(l)
      /\ \A k \in Indices(c) : Agree(EntryAt(c, k), EntryAt(l, k), k = c.base)
  BY DEF PartOf
<1>5. c.base \in Indices(r)
  BY <1>3, <1>4
<1>6. LastIndex(c) <= LastIndex(r)
  <2>1. LastIndex(c) \in Int
    BY <1>4, LogIndices
  <2> QED
    BY <1>1, <1>2, <1>4, <2>1
<1>7. \A k \in Indices(c) : Agree(EntryAt(c, k), EntryAt(r, k), k = c.base)
  BY <1>3, <1>4, PartOfEntry
<1>8. PartOf(c, r)
  BY <1>4, <1>5, <1>6, <1>7 DEF PartOf
<1> QED
  BY <1>8 DEF r

LEMMA NextMovingFromLeader ==
    ASSUME TypeInv, TypeOK', DiskInSync, RoleInv, ElectionSafety, ElectionSafety',
           LogInv, WholesInv, Aligned, [Next]_vars
    PROVE  MovingFromLeader'
<1> SUFFICES ASSUME NEW i \in Server, state'[i] = Leader,
                    NEW c \in Moving', c[2] = currentTerm'[i]
             PROVE  PartOf(c[1], Whole(i)')
  BY DEF MovingFromLeader
<1>1. c \in Moving \/ \E n \in Server : Sends(n, c)
  BY NextMoving DEF WholesInv
<1>2. CASE JustElected(i)
  <2>1. currentTerm'[i] = currentTerm[i]
    BY <1>2 DEF JustElected
  <2> QED
    BY <1>1, <1>2, <2>1, FreshTerm DEF Sends, Calls
<1>3. CASE LeadsOn(i)
  <2>1. state[i] = Leader /\ currentTerm'[i] = currentTerm[i]
    BY <1>3 DEF LeadsOn
  <2>2. CASE c \in Moving
    <3>1. PartOf(c[1], Whole(i))
      BY <2>1, <2>2 DEF WholesInv, MovingFromLeader
    <3>2. CASE Grows(i)
      <4>1. PICK e \in Entry : Whole(i)' = AppendEntry(Whole(i), e)
        BY <3>2 DEF Grows
      <4>2. LogsFit
        BY DEF WholesInv, SeamsMatch, LogsFit
      <4>3. Whole(i) \in LogType /\ LastIndex(Whole(i)) >= Whole(i).base
        BY <4>2, WholeIs
      <4> QED
        BY <3>1, <4>1, <4>3, PartOfLonger
    <3> QED
      BY <2>1, <3>1, <3>2, LeaderTakesNothing
  <2>3. ASSUME NEW n \in Server, Sends(n, c)
        PROVE  PartOf(c[1], Whole(i)')
    <3>1. /\ state[n] = Leader /\ currentTerm[n] = currentTerm[i]
          /\ PartOf(c[1], Whole(n)) /\ log' = log /\ snapshot' = snapshot
      BY <2>1, <2>3 DEF Sends, Calls, logVars
    <3>2. /\ <<currentTerm[i], i>> \in elected
          /\ <<currentTerm[n], n>> \in elected
      BY <2>1, <3>1 DEF RoleInv, LeadersElected
    <3>3. i = n
      BY <3>1, <3>2 DEF ElectionSafety
    <3>4. Whole(i)' = Whole(i)
      BY <3>1 DEF Whole
    <3> QED
      BY <3>1, <3>3, <3>4
  <2> QED
    BY <1>1, <2>2, <2>3
<1> QED
  BY <1>2, <1>3, NextLeader

LEMMA NextWholesInv ==
    ASSUME TypeInv, TypeOK', DiskInSync, RoleInv, ElectionSafety, ElectionSafety',
           LogInv, WholesInv, Aligned, [Next]_vars
    PROVE  WholesInv'
BY NextFull, NextSeamsMatch, NextWholesElected, NextWholesBehind,
   NextMovingFromLeader DEF WholesInv
==============================================================================
