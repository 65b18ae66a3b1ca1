------------------------------ MODULE RsmProofs ------------------------------
(***************************************************************************)
(* Proofs about a node's replicated state machine: what the messages on    *)
(* their way to the reader stand for, who holds rsm.mu, and which calls    *)
(* still have an empty channel.                                            *)
(***************************************************************************)
EXTENDS RsmProperties, SequenceTheorems, TLAPS

----------------------------------------------------------------------------
(* Maps and sequences.                                                     *)

LEMMA PrefixKept ==
    ASSUME NEW S, NEW s \in Seq(S), NEW t \in Seq(S), NEW k \in Nat,
           k <= Len(s), k <= Len(t), \A n \in 1 .. k : s[n] = t[n]
    PROVE  SubSeq(s, 1, k) = SubSeq(t, 1, k)
BY SMT

LEMMA FirstAndRest ==
    ASSUME NEW S, NEW s \in Seq(S), s # << >>
    PROVE  /\ <<Head(s)>> \o Tail(s) = s
           /\ Head(s) \in S /\ Tail(s) \in Seq(S)
           /\ Head(s) = s[1]
           /\ Len(Tail(s)) = Len(s) - 1
           /\ \A j \in 1 .. Len(s) - 1 : Tail(s)[j] = s[j + 1]
BY SMT

----------------------------------------------------------------------------
(* What is on its way to the reader, and what the reader has done.         *)

(***************************************************************************)
(* The operations executed so far, the snapshot restored at boot included. *)
(***************************************************************************)
Executed == Len(machine)

(***************************************************************************)
(* A message carries what the log held, and still holds, at its index.     *)
(***************************************************************************)
Carries(m) ==
    /\ m \in ApplyMsg
    /\ m.index \in 1 .. lastApplied
    /\ m.operations = IF m.snapshot THEN SubSeq(log, 1, m.index)
                      ELSE <<log[m.index]>>

Follows(m, k) == m.index = k + 1 \/ (m.snapshot /\ m.index = k)

(***************************************************************************)
(* The messages lead from one index to another with no gap.                *)
(***************************************************************************)
Chain(q, from, to) ==
    /\ \A j \in 1 .. Len(q) :
           Follows(q[j], IF j = 1 THEN from ELSE q[j - 1].index)
    /\ to = IF q = << >> THEN from ELSE q[Len(q)].index

DeliveryInv ==
    /\ \A j \in 1 .. Len(Queue) : Carries(Queue[j])
    /\ Chain(Queue, Executed, lastApplied)
    /\ Executed <= lastApplied
    /\ \A k \in 1 .. Executed : machine[k] = log[k]

(***************************************************************************)
(* rsm.commitIndex is behind from the boot to the first message alone, and *)
(* no snapshot is taken while it is.                                       *)
(***************************************************************************)
CountInv ==
    /\ commitIndex \in {0, Executed}
    /\ persister = "snapshotting" => commitIndex = Executed

(***************************************************************************)
(* The reader hands over the result of the command it has just executed.   *)
(***************************************************************************)
HandsOver ==
    mu = ReaderThread =>
        /\ commit # None
        /\ Carries(commit) /\ ~commit.snapshot
        /\ commit.index = Executed
        /\ commit.index \in DOMAIN submitCh
        /\ log[commit.index] # Foreign

(***************************************************************************)
(* Who holds rsm.mu.                                                       *)
(***************************************************************************)
MutexInv ==
    /\ \A c \in Call : pc[c] = "starting" <=> mu = c
    /\ persister # "asleep" <=> mu = PersistThread
    /\ HandsOver

(***************************************************************************)
(* An index is promised to one call at a time, and an entry of this node   *)
(* is of the call its index was last promised to.                          *)
(***************************************************************************)
PromiseInv ==
    /\ DOMAIN given \subseteq Nat \ {0}
    /\ \A k \in DOMAIN given : given[k] \in Call
    /\ DOMAIN submitCh \subseteq DOMAIN given
    /\ \A k \in DOMAIN submitCh : submitCh[k] = given[k]
    /\ \A k \in DOMAIN log : log[k] # Foreign =>
           k \in DOMAIN given /\ log[k] = given[k]

(***************************************************************************)
(* Which channels are empty.                                               *)
(***************************************************************************)
Unanswered(k) == k > Executed \/ (mu = ReaderThread /\ k = commit.index)

ChannelInv ==
    /\ \A c \in Call : reply[c] \in {<< >>, <<None>>, <<c>>}
    /\ \A c \in Call : pc[c] \in {"idle", "starting"} =>
           reply[c] = << >> /\ c \notin Registered /\ c \notin canceled
    /\ \A j, k \in DOMAIN submitCh : submitCh[j] = submitCh[k] => j = k
    /\ Registered \cap canceled = {}
    /\ \A c \in Registered \cup canceled : reply[c] # << >> => pc[c] = "waiting"
    /\ \A k \in DOMAIN submitCh : Unanswered(k) =>
           pc[submitCh[k]] = "waiting" /\ reply[submitCh[k]] = << >>
    /\ \A c \in Call : pc[c] = "OK" => result[c] = c

TypesInv ==
    /\ isLeader \in BOOLEAN /\ panicked \in BOOLEAN
    /\ log \in Seq(Operation) /\ machine \in Seq(Operation)
    /\ base \in Nat /\ lastApplied \in Nat /\ commitIndex \in Nat
    /\ base <= lastApplied /\ lastApplied <= Len(log)
    /\ sending \in Seq(ApplyMsg) /\ applyCh \in Seq(ApplyMsg)
    /\ commit \in ApplyMsg \cup {None}
    /\ mu \in Call \cup {None, ReaderThread, PersistThread}
    /\ checker \in {"asleep", "canceling", "sending"}
    /\ canceled \subseteq Call
    /\ persister \in {"asleep", "measuring", "snapshotting"}
    /\ pc \in [Call -> {"idle", "starting", "waiting", "OK", "ErrWrongLeader"}]
    /\ reply \in [Call -> Seq(Operation \cup {None})]
    /\ result \in [Call -> Operation \cup {None}]
    /\ submitCh \in [DOMAIN submitCh -> Call]
    /\ given \in [DOMAIN given -> Call]

RsmInv ==
    TypesInv /\ DeliveryInv /\ CountInv /\ MutexInv /\ PromiseInv /\ ChannelInv

----------------------------------------------------------------------------
(* Chains of messages.                                                     *)

LEMMA ChainTail ==
    ASSUME NEW q \in Seq(ApplyMsg), NEW a \in Nat, NEW b \in Nat,
           Chain(q, a, b), q # << >>
    PROVE  Follows(Head(q), a) /\ Chain(Tail(q), Head(q).index, b)
<1> DEFINE n == Len(q)
           r == Tail(q)
<1>1. /\ n \in Nat /\ n > 0 /\ Len(r) = n - 1 /\ Head(q) = q[1]
      /\ r \in Seq(ApplyMsg)
      /\ \A j \in 1 .. n - 1 : r[j] = q[j + 1]
  BY FirstAndRest, LenProperties
<1>2. Follows(q[1], a)
  BY <1>1 DEF Chain
<1>3. ASSUME NEW j \in 1 .. Len(r)
      PROVE  Follows(r[j], IF j = 1 THEN q[1].index ELSE r[j - 1].index)
  <2>1. j + 1 \in 1 .. n /\ j + 1 # 1 /\ (j + 1) - 1 = j /\ r[j] = q[j + 1]
    BY <1>1, <1>3
  <2>2. Follows(q[j + 1], q[j].index)
    BY <2>1 DEF Chain
  <2>3. j # 1 => j - 1 \in 1 .. n - 1 /\ (j - 1) + 1 = j
    BY <1>1, <1>3
  <2>4. j # 1 => r[j - 1] = q[j]
    BY <1>1, <2>3
  <2> QED
    BY <2>1, <2>2, <2>4
<1>4. b = IF r = << >> THEN q[1].index ELSE r[Len(r)].index
  <2>1. b = q[n].index
    BY DEF Chain
  <2>2. CASE r = << >>
    <3>1. n = 1
      BY <1>1, <2>2, EmptySeq
    <3> QED
      BY <2>1, <2>2, <3>1
  <2>3. CASE r # << >>
    <3>1. Len(r) \in 1 .. n - 1
      BY <1>1, <2>3
    <3>2. r[Len(r)] = q[Len(r) + 1]
      BY <1>1, <3>1
    <3> QED
      BY <1>1, <2>1, <2>3, <3>2
  <2> QED
    BY <2>2, <2>3
<1> QED
  BY <1>1, <1>2, <1>3, <1>4 DEF Chain

LEMMA ChainJoin ==
    ASSUME NEW q \in Seq(ApplyMsg), NEW r \in Seq(ApplyMsg),
           NEW a \in Nat, NEW b \in Nat, NEW c \in Nat,
           Chain(q, a, b), Chain(r, b, c)
    PROVE  Chain(q \o r, a, c)
<1> DEFINE s == q \o r
           n == Len(q)
<1>1. /\ n \in Nat /\ Len(r) \in Nat /\ Len(s) = n + Len(r)
      /\ s \in Seq(ApplyMsg)
      /\ \A j \in 1 .. n : s[j] = q[j]
      /\ \A j \in n + 1 .. Len(s) : s[j] = r[j - n]
  BY ConcatProperties, LenProperties
<1>2. ASSUME NEW j \in 1 .. Len(s)
      PROVE  Follows(s[j], IF j = 1 THEN a ELSE s[j - 1].index)
  <2>1. CASE j \in 1 .. n
    <3>1. j # 1 => j - 1 \in 1 .. n
      BY <1>1, <2>1
    <3> QED
      BY <1>1, <2>1, <3>1 DEF Chain
  <2>2. CASE j = n + 1
    <3>1. 1 \in 1 .. Len(r) /\ s[j] = r[1] /\ j - 1 = n
      BY <1>1, <1>2, <2>2
    <3>2. Follows(r[1], b)
      BY <3>1 DEF Chain
    <3>3. CASE n = 0
      <4>1. q = << >> /\ j = 1
        BY <1>1, <2>2, <3>3, EmptySeq
      <4> QED
        BY <3>1, <3>2, <4>1 DEF Chain
    <3>4. CASE n # 0
      <4>1. q # << >> /\ j # 1 /\ n \in 1 .. n
        BY <1>1, <2>2, <3>4
      <4>2. b = q[n].index /\ s[n] = q[n]
        BY <1>1, <4>1 DEF Chain
      <4> QED
        BY <3>1, <3>2, <4>1, <4>2
    <3> QED
      BY <3>3, <3>4
  <2>3. CASE j > n + 1
    <3> DEFINE i == j - n
    <3>1. /\ i \in 1 .. Len(r) /\ i # 1 /\ j # 1
          /\ j - 1 \in n + 1 .. Len(s) /\ (j - 1) - n = i - 1
      BY <1>1, <1>2, <2>3
    <3>2. s[j] = r[i] /\ s[j - 1] = r[i - 1]
      BY <1>1, <3>1, <2>3
    <3>3. Follows(r[i], r[i - 1].index)
      BY <3>1 DEF Chain
    <3> QED
      BY <3>1, <3>2, <3>3
  <2> QED
    BY <1>1, <1>2, <2>1, <2>2, <2>3
<1>3. c = IF s = << >> THEN a ELSE s[Len(s)].index
  <2>1. CASE r = << >>
    <3>1. s = q /\ c = b
      BY <2>1, ConcatEmptySeq DEF Chain
    <3> QED
      BY <3>1 DEF Chain
  <2>2. CASE r # << >>
    <3>1. Len(r) # 0
      BY <2>2, EmptySeq
    <3>2. /\ Len(s) \in n + 1 .. Len(s) /\ Len(s) - n = Len(r)
          /\ s # << >>
      BY <1>1, <3>1
    <3>3. c = r[Len(r)].index /\ s[Len(s)] = r[Len(r)]
      BY <1>1, <2>2, <3>2 DEF Chain
    <3> QED
      BY <3>2, <3>3
  <2> QED
    BY <2>1, <2>2
<1> QED
  BY <1>2, <1>3 DEF Chain

----------------------------------------------------------------------------
(* Types.                                                                  *)

LEMMA OperationNames ==
    /\ None \notin Operation /\ Foreign \notin Call /\ None \notin Call
    /\ None \notin ApplyMsg
    /\ ReaderThread \notin Call /\ PersistThread \notin Call
    /\ None # ReaderThread /\ None # PersistThread
    /\ ReaderThread # PersistThread
BY RsmNamesAssumption DEF Operation, ApplyMsg

LEMMA PromisesAreOperations ==
    ASSUME TypesInv, NEW k, NEW op \in OperationsAt(k)
    PROVE  op \in Operation
BY DEF OperationsAt, Operation, TypesInv

LEMMA Overwriting ==
    ASSUME TypesInv, NEW k \in lastApplied + 1 .. Len(log) + 1,
           NEW op \in Operation
    PROVE  LET l == Append(SubSeq(log, 1, k - 1), op) IN
           /\ l \in Seq(Operation)
           /\ lastApplied <= Len(l)
           /\ Len(l) = k
           /\ l[k] = op
           /\ \A n \in 1 .. k - 1 : l[n] = log[n]
<1> DEFINE s == SubSeq(log, 1, k - 1)
<1>1. log \in Seq(Operation) /\ lastApplied \in Nat /\ Len(log) \in Nat /\ k \in Int
  BY DEF TypesInv
<1>2. s \in Seq(Operation) /\ Len(s) = k - 1 /\ \A n \in 1 .. k - 1 : s[n] = log[n]
  BY <1>1
<1> HIDE DEF s
<1>3. /\ Append(s, op) \in Seq(Operation) /\ Len(Append(s, op)) = Len(s) + 1
      /\ Append(s, op)[Len(s) + 1] = op
      /\ \A n \in 1 .. Len(s) : Append(s, op)[n] = s[n]
  BY <1>2, AppendProperties
<1>4. Len(s) + 1 = k /\ k - 1 >= lastApplied
  BY <1>1, <1>2
<1>5. Append(s, op)[k] = op /\ Len(Append(s, op)) = k
  BY <1>3, <1>4
<1>6. \A n \in 1 .. k - 1 : Append(s, op)[n] = log[n]
  BY <1>2, <1>3
<1> QED
  BY <1>1, <1>3, <1>4, <1>5, <1>6 DEF s

(***************************************************************************)
(* What InstallSnapshot may leave of a log.                                *)
(***************************************************************************)
LEMMA Installing ==
    ASSUME TypesInv, NEW n \in {lastApplied, lastApplied + 1}, n >= 1,
           NEW op, op \in OperationsAt(n), InstallSnapshot(n, op)
    PROVE  \E upTo \in Seq(Operation) :
               /\ Len(upTo) = n
               /\ \A k \in 1 .. lastApplied : upTo[k] = log[k]
               /\ n > lastApplied => upTo[n] = op
               /\ \/ log' = log /\ n <= Len(log)
                                /\ \A k \in 1 .. n : upTo[k] = log[k]
                  \/ log' = upTo
               /\ sending' = <<[index |-> n, snapshot |-> TRUE,
                                operations |-> upTo]>>
<1>1. /\ log \in Seq(Operation) /\ lastApplied \in Nat /\ Len(log) \in Nat
      /\ n \in Nat /\ lastApplied <= Len(log) /\ op \in Operation
  BY PromisesAreOperations DEF TypesInv
<1>2. CASE n > lastApplied
  <2> DEFINE upTo == Append(SubSeq(log, 1, lastApplied), op)
  <2>1. n = lastApplied + 1 /\ n \in lastApplied + 1 .. Len(log) + 1 /\ n - 1 = lastApplied
    BY <1>1, <1>2
  <2>2. /\ upTo \in Seq(Operation) /\ Len(upTo) = n /\ upTo[n] = op
        /\ \A k \in 1 .. lastApplied : upTo[k] = log[k]
    BY <1>1, <2>1, Overwriting
  <2>3. /\ log' = IF IsPrefix(upTo, log) THEN log ELSE upTo
        /\ sending' = <<[index |-> n, snapshot |-> TRUE, operations |-> upTo]>>
    BY <1>2 DEF InstallSnapshot
  <2> HIDE DEF upTo
  <2>4. IsPrefix(upTo, log) => n <= Len(log) /\ \A k \in 1 .. n : upTo[k] = log[k]
    <3> SUFFICES ASSUME IsPrefix(upTo, log), NEW k \in 1 .. n
                 PROVE  n <= Len(log) /\ upTo[k] = log[k]
      BY <1>1, <2>1 DEF IsPrefix
    <3>1. n <= Len(log) /\ SubSeq(upTo, 1, n) = SubSeq(log, 1, n)
      BY <2>2 DEF IsPrefix
    <3>2. SubSeq(upTo, 1, n)[k] = upTo[k] /\ SubSeq(log, 1, n)[k] = log[k]
      BY <1>1, <2>2, <3>1
    <3> QED
      BY <3>1, <3>2
  <2> QED
    BY <2>2, <2>3, <2>4
<1>3. CASE ~(n > lastApplied)
  <2> DEFINE upTo == SubSeq(log, 1, n)
  <2>1. n = lastApplied
    BY <1>1, <1>3
  <2>2. upTo \in Seq(Operation) /\ Len(upTo) = n /\ \A k \in 1 .. n : upTo[k] = log[k]
    BY <1>1, <2>1
  <2>3. /\ log' = IF IsPrefix(upTo, log) THEN log ELSE upTo
        /\ sending' = <<[index |-> n, snapshot |-> TRUE, operations |-> upTo]>>
    BY <1>3 DEF InstallSnapshot
  <2> HIDE DEF upTo
  <2> QED
    BY <1>1, <1>3, <2>1, <2>2, <2>3
<1> QED
  BY <1>1, <1>2, <1>3

LEMMA Applying ==
    ASSUME TypesInv, NEW n \in lastApplied + 1 .. Len(log),
           NEW s, s = [k \in 1 .. n - lastApplied |-> CommandMsg(lastApplied + k)]
    PROVE  /\ s \in Seq(ApplyMsg)
           /\ Len(s) = n - lastApplied
           /\ \A k \in 1 .. Len(s) : s[k] = CommandMsg(lastApplied + k)
<1>1. log \in Seq(Operation) /\ lastApplied \in Nat /\ Len(log) \in Nat /\ n \in Nat
  BY DEF TypesInv
<1>2. ASSUME NEW k \in 1 .. n - lastApplied
      PROVE  CommandMsg(lastApplied + k) \in ApplyMsg
  <2>1. lastApplied + k \in 1 .. Len(log)
    BY <1>1, <1>2
  <2> DEFINE i == lastApplied + k
  <2> HIDE DEF i
  <2>2. i \in Nat /\ log[i] \in Operation
    BY <1>1, <2>1 DEF i
  <2>3. <<log[i]>> \in Seq(Operation)
    BY <2>2
  <2> QED
    BY <2>2, <2>3 DEF CommandMsg, ApplyMsg, i
<1>3. n - lastApplied \in Nat
  BY <1>1
<1>4. s \in Seq(ApplyMsg)
  BY <1>2, <1>3, IsASeq
<1> QED
  BY <1>3, <1>4

(***************************************************************************)
(* The message the reader has taken off the channel.                       *)
(***************************************************************************)
Coming == applyCh \o sending

LEMMA ExecutedNat == TypesInv => Executed \in Nat
BY LenProperties DEF TypesInv, Executed

LEMMA ExecutedKept == machine' = machine => Executed' = Executed
BY DEF Executed

LEMMA QueueTyped ==
    ASSUME TypesInv
    PROVE  /\ Queue = Unread \o Coming
           /\ Unread \in Seq(ApplyMsg) /\ Coming \in Seq(ApplyMsg)
           /\ Queue \in Seq(ApplyMsg)
<1>1. Unread \in Seq(ApplyMsg)
  BY DEF Unread, TypesInv
<1>2. Coming \in Seq(ApplyMsg)
  BY ConcatProperties DEF Coming, TypesInv
<1> QED
  BY <1>1, <1>2, ConcatProperties DEF Queue, Coming

LEMMA NextMessage ==
    ASSUME TypesInv, DeliveryInv, commit # None, mu = None
    PROVE  /\ Carries(commit) /\ Follows(commit, Executed)
           /\ commit.index \in Nat
           /\ Chain(Coming, commit.index, lastApplied)
           /\ \A j \in 1 .. Len(Coming) : Carries(Coming[j])
<1>1. Unread = <<commit>>
  BY OperationNames DEF Unread
<1>2. /\ Queue = <<commit>> \o Coming /\ Queue \in Seq(ApplyMsg)
      /\ Coming \in Seq(ApplyMsg) /\ <<commit>> \in Seq(ApplyMsg)
  BY <1>1, QueueTyped
<1>3. /\ Len(Queue) = 1 + Len(Coming) /\ Queue # << >>
      /\ Head(Queue) = commit /\ Tail(Queue) = Coming
      /\ Queue[1] = commit
      /\ \A j \in 1 .. Len(Coming) : Queue[j + 1] = Coming[j]
      /\ Len(Coming) \in Nat
  <2>1. commit \in ApplyMsg
    BY DEF TypesInv
  <2> QED
    BY <1>2, <2>1
<1>4. Carries(commit)
  <2>1. 1 \in 1 .. Len(Queue)
    BY <1>3
  <2> QED
    BY <1>3, <2>1 DEF DeliveryInv
<1>5. Follows(commit, Executed) /\ Chain(Coming, commit.index, lastApplied)
  <2>1. Executed \in Nat /\ lastApplied \in Nat
    BY ExecutedNat DEF TypesInv
  <2>2. Chain(Queue, Executed, lastApplied)
    BY DEF DeliveryInv
  <2> QED
    BY <1>2, <1>3, <2>1, <2>2, ChainTail
<1>6. ASSUME NEW j \in 1 .. Len(Coming) PROVE Carries(Coming[j])
  <2>1. j + 1 \in 1 .. Len(Queue)
    BY <1>3
  <2> QED
    BY <1>3, <2>1 DEF DeliveryInv
<1> QED
  BY <1>4, <1>5, <1>6 DEF Carries

LEMMA Operations ==
    ASSUME TypesInv, NEW m, Carries(m)
    PROVE  /\ m.operations \in Seq(Operation)
           /\ m.index \in 1 .. Len(log) /\ m.index \in Nat
           /\ log[m.index] \in Operation
           /\ ~m.snapshot => m.operations[1] = log[m.index]
           /\ m.snapshot => /\ Len(m.operations) = m.index
                            /\ \A k \in 1 .. m.index : m.operations[k] = log[k]
<1>1. /\ log \in Seq(Operation) /\ lastApplied \in Nat /\ Len(log) \in Nat
      /\ lastApplied <= Len(log)
  BY DEF TypesInv
<1>2. m \in ApplyMsg /\ m.index \in 1 .. lastApplied
  BY DEF Carries
<1>3. m.operations \in Seq(Operation) /\ m.index \in 1 .. Len(log) /\ m.index \in Nat
  BY <1>1, <1>2 DEF ApplyMsg
<1>4. log[m.index] \in Operation
  BY <1>1, <1>3
<1>5. ~m.snapshot => m.operations[1] = log[m.index]
  BY DEF Carries
<1>6. ASSUME m.snapshot
      PROVE  /\ Len(m.operations) = m.index
             /\ \A k \in 1 .. m.index : m.operations[k] = log[k]
  <2> DEFINE n == m.index
  <2>1. m.operations = SubSeq(log, 1, n)
    BY <1>6 DEF Carries
  <2>2. n \in Nat /\ n <= Len(log)
    BY <1>1, <1>3
  <2> HIDE DEF n
  <2>3. Len(SubSeq(log, 1, n)) = n /\ \A k \in 1 .. n : SubSeq(log, 1, n)[k] = log[k]
    BY <1>1, <2>2
  <2> QED
    BY <2>1, <2>3 DEF n
<1> QED
  BY <1>3, <1>4, <1>5, <1>6

LEMMA NextTypes ==
    ASSUME RsmInv, [Next]_vars
    PROVE  TypesInv'
<1> USE DEF RsmInv
<1>1. CASE UNCHANGED vars
  BY <1>1 DEF vars, peerVars, rsmVars, callVars, TypesInv
<1>2. CASE Elected
  BY <1>2 DEF Elected, rsmVars, callVars, TypesInv
<1>3. CASE Deposed
  BY <1>3 DEF Deposed, rsmVars, callVars, TypesInv
<1>4. ASSUME NEW k \in 1 .. Len(log) + 1, NEW op \in OperationsAt(k),
             Overwritten(k, op)
      PROVE  TypesInv'
  <2>1. k \in lastApplied + 1 .. Len(log) + 1 /\ op \in Operation
    BY <1>4, PromisesAreOperations DEF Overwritten
  <2>2. log' \in Seq(Operation) /\ lastApplied <= Len(log')
    BY <1>4, <2>1, Overwriting DEF Overwritten
  <2> QED
    BY <1>4, <2>2 DEF Overwritten, rsmVars, callVars, TypesInv
<1>5. ASSUME NEW n \in 1 .. Len(log), ApplyCommits(n) PROVE TypesInv'
  <2>1. n \in lastApplied + 1 .. Len(log) /\ lastApplied' = n
    BY <1>5 DEF ApplyCommits
  <2>2. sending' \in Seq(ApplyMsg)
    BY <1>5, <2>1, Applying DEF ApplyCommits
  <2>3. n \in Nat /\ base <= n /\ n <= Len(log)
    BY <2>1 DEF TypesInv
  <2> QED
    BY <1>5, <2>1, <2>2, <2>3 DEF ApplyCommits, rsmVars, callVars, TypesInv
<1>6. ASSUME NEW n \in {lastApplied, lastApplied + 1}, NEW op \in OperationsAt(n),
             InstallSnapshot(n, op)
      PROVE  TypesInv'
  <2>1. n >= 1 /\ n \in Nat /\ base' = n /\ lastApplied' = n
    BY <1>6 DEF InstallSnapshot, TypesInv
  <2>2. PICK upTo \in Seq(Operation) :
            /\ Len(upTo) = n
            /\ (log' = log /\ n <= Len(log)) \/ log' = upTo
            /\ sending' = <<[index |-> n, snapshot |-> TRUE, operations |-> upTo]>>
    BY <1>6, <2>1, Installing
  <2>3. sending' \in Seq(ApplyMsg)
    BY <2>1, <2>2 DEF ApplyMsg
  <2>4. log' \in Seq(Operation) /\ n <= Len(log')
    BY <2>1, <2>2 DEF TypesInv
  <2> QED
    BY <1>6, <2>1, <2>3, <2>4 DEF InstallSnapshot, rsmVars, callVars, TypesInv
<1>7. CASE SendApplyMsg
  <2>1. Head(sending) \in ApplyMsg /\ Tail(sending) \in Seq(ApplyMsg)
    BY <1>7, FirstAndRest DEF SendApplyMsg, TypesInv
  <2>2. sending' \in Seq(ApplyMsg) /\ applyCh' \in Seq(ApplyMsg)
    BY <1>7, <2>1, AppendProperties DEF SendApplyMsg, TypesInv
  <2> QED
    BY <1>7, <2>2 DEF SendApplyMsg, rsmVars, callVars, TypesInv
<1>8. ASSUME NEW c \in Call, SubmitLock(c) PROVE TypesInv'
  BY <1>8 DEF SubmitLock, peerVars, TypesInv
<1>9. ASSUME NEW c \in Call, SubmitStart(c) PROVE TypesInv'
  <2>1. /\ log' \in Seq(Operation) /\ lastApplied <= Len(log')
        /\ submitCh' \in [DOMAIN submitCh' -> Call]
        /\ given' \in [DOMAIN given' -> Call]
    <3>1. CASE isLeader
      <4>1. c \in Operation
        BY DEF Operation
      <4>2. log' = Append(log, c) /\ log \in Seq(Operation)
        BY <1>9, <3>1 DEF SubmitStart, TypesInv
      <4>3. log' \in Seq(Operation) /\ Len(log') = Len(log) + 1
        BY <4>1, <4>2, AppendProperties
      <4>4. lastApplied <= Len(log')
        BY <4>3 DEF TypesInv
      <4>5. submitCh' = With(submitCh, Len(log) + 1, c)
            /\ given' = With(given, Len(log) + 1, c)
        BY <1>9, <3>1 DEF SubmitStart
      <4> QED
        BY <4>3, <4>4, <4>5 DEF With, TypesInv
    <3>2. CASE ~isLeader
      BY <1>9, <3>2 DEF SubmitStart, TypesInv
    <3> QED
      BY <3>1, <3>2
  <2>2. pc' \in [Call -> {"idle", "starting", "waiting", "OK", "ErrWrongLeader"}]
    BY <1>9 DEF SubmitStart, TypesInv
  <2> QED
    BY <1>9, <2>1, <2>2 DEF SubmitStart, TypesInv
<1>10. ASSUME NEW c \in Call, SubmitReturn(c) PROVE TypesInv'
  <2>1. reply[c] \in Seq(Operation \cup {None}) /\ reply[c] # << >>
    BY <1>10 DEF SubmitReturn, TypesInv
  <2>2. /\ Head(reply[c]) \in Operation \cup {None}
        /\ Tail(reply[c]) \in Seq(Operation \cup {None})
    BY <2>1, FirstAndRest
  <2>3. /\ reply' \in [Call -> Seq(Operation \cup {None})]
        /\ result' \in [Call -> Operation \cup {None}]
        /\ pc' \in [Call -> {"idle", "starting", "waiting", "OK", "ErrWrongLeader"}]
    BY <1>10, <2>2 DEF SubmitReturn, TypesInv
  <2> QED
    BY <1>10, <2>3 DEF SubmitReturn, peerVars, rsmVars, TypesInv
<1>11. CASE Receive
  <2>1. Head(applyCh) \in ApplyMsg /\ Tail(applyCh) \in Seq(ApplyMsg)
    BY <1>11, FirstAndRest DEF Receive, TypesInv
  <2> QED
    BY <1>11, <2>1 DEF Receive, callVars, TypesInv
<1>12. CASE ReadCommand
  <2>1. Carries(commit)
    BY <1>12, NextMessage DEF ReadCommand
  <2>2. commit.index \in Nat /\ commit.operations[1] \in Operation
    BY <1>12, <2>1, Operations DEF ReadCommand
  <2>3. machine' \in Seq(Operation)
    BY <1>12, <2>2, AppendProperties DEF ReadCommand, TypesInv
  <2>4. commitIndex' = commit.index /\ commit' \in {commit, None}
        /\ mu' \in {ReaderThread, None}
    BY <1>12 DEF ReadCommand
  <2> QED
    BY <1>12, <2>2, <2>3, <2>4 DEF ReadCommand, peerVars, callVars, TypesInv
<1>13. CASE Answer
  <2>1. /\ commit.index \in DOMAIN submitCh /\ Carries(commit)
    BY <1>13 DEF Answer, MutexInv, HandsOver
  <2>2. commit.operations \in Seq(Operation \cup {None})
    <3>1. commit.operations \in Seq(Operation)
      BY <2>1, Operations
    <3> QED
      BY <3>1
  <2>3. reply' \in [Call -> Seq(Operation \cup {None})]
    BY <1>13, <2>1, <2>2 DEF Answer, TypesInv
  <2> QED
    BY <1>13, <2>3 DEF Answer, peerVars, TypesInv
<1>14. CASE ReadSnapshot
  <2>1. Carries(commit)
    BY <1>14, NextMessage DEF ReadSnapshot
  <2>2. commit.index \in Nat /\ commit.operations \in Seq(Operation)
    BY <2>1, Operations
  <2>3. commitIndex' \in Nat /\ machine' \in Seq(Operation)
    BY <1>14, <2>2 DEF ReadSnapshot, Restored, TypesInv
  <2> QED
    BY <1>14, <2>3 DEF ReadSnapshot, peerVars, callVars, TypesInv
<1>15. CASE SeeNoLeader
  BY <1>15 DEF SeeNoLeader, peerVars, callVars, TypesInv
<1>16. CASE CollectChannels
  <2>1. Registered \subseteq Call
    BY DEF Registered, TypesInv
  <2>2. submitCh' \in [DOMAIN submitCh' -> Call]
    BY <1>16 DEF CollectChannels
  <2> QED
    BY <1>16, <2>1, <2>2 DEF CollectChannels, peerVars, callVars, TypesInv
<1>17. ASSUME NEW c \in Call, Cancel(c) PROVE TypesInv'
  <2>1. <<None>> \in Seq(Operation \cup {None})
    OBVIOUS
  <2>2. reply' \in [Call -> Seq(Operation \cup {None})]
    BY <1>17, <2>1 DEF Cancel, TypesInv
  <2> QED
    BY <1>17, <2>2 DEF Cancel, peerVars, TypesInv
<1>18. CASE PersistLock
  BY <1>18 DEF PersistLock, peerVars, callVars, TypesInv
<1>19. CASE PersistMeasure
  BY <1>19 DEF PersistMeasure, peerVars, callVars, TypesInv
<1>20. CASE PersistSnapshot
  <2>1. base' \in Nat /\ base' <= lastApplied
    BY <1>20 DEF PersistSnapshot, SnapshotIndex, TypesInv, DeliveryInv, CountInv
  <2> QED
    BY <1>20, <2>1 DEF PersistSnapshot, SnapshotIndex, callVars, TypesInv
<1> QED
  BY <1>1, <1>2, <1>3, <1>4, <1>5, <1>6, <1>7, <1>8, <1>9, <1>10, <1>11, <1>12,
     <1>13, <1>14, <1>15, <1>16, <1>17, <1>18, <1>19, <1>20 DEF Next

----------------------------------------------------------------------------
(* Delivery.                                                               *)

LogKept == \A k \in 1 .. lastApplied : log'[k] = log[k]

LEMMA CarriesStill ==
    ASSUME TypesInv, TypesInv', lastApplied <= lastApplied', LogKept,
           NEW m, Carries(m)
    PROVE  Carries(m)'
<1> DEFINE n == m.index
<1>1. /\ log \in Seq(Operation) /\ log' \in Seq(Operation)
      /\ lastApplied \in Nat /\ lastApplied' \in Nat
      /\ Len(log) \in Nat /\ Len(log') \in Nat
      /\ lastApplied <= Len(log) /\ lastApplied' <= Len(log')
  BY DEF TypesInv
<1>2. n \in 1 .. lastApplied /\ m \in ApplyMsg
  BY DEF Carries
<1> HIDE DEF n
<1>3. n \in 1 .. lastApplied' /\ n \in Nat /\ n <= Len(log) /\ n <= Len(log')
  BY <1>1, <1>2
<1>4. log'[n] = log[n]
  BY <1>2 DEF LogKept
<1>5. \A k \in 1 .. n : log'[k] = log[k]
  BY <1>1, <1>2 DEF LogKept
<1>6. SubSeq(log', 1, n) = SubSeq(log, 1, n)
  BY <1>1, <1>3, <1>5, PrefixKept
<1>7. m.operations = IF m.snapshot THEN SubSeq(log, 1, n) ELSE <<log[n]>>
  BY DEF Carries, n
<1> QED
  BY <1>2, <1>3, <1>4, <1>6, <1>7 DEF Carries, n

LEMMA KeepsDelivered ==
    ASSUME TypesInv, TypesInv', DeliveryInv, LogKept,
           lastApplied' = lastApplied, Queue' = Queue,
           machine' = machine
    PROVE  DeliveryInv'
<1>1. ASSUME NEW j \in 1 .. Len(Queue') PROVE Carries(Queue[j])'
  <2>1. PICK m : m = Queue[j]
    OBVIOUS
  <2>2. Carries(m)
    BY <2>1 DEF DeliveryInv
  <2>3. lastApplied <= lastApplied'
    BY DEF TypesInv
  <2>4. Carries(m)'
    BY <2>2, <2>3, CarriesStill
  <2> QED
    BY <2>1, <2>4 DEF Carries
<1>2. \A k \in 1 .. Executed : machine[k] = log'[k]
  <2>1. Executed <= lastApplied /\ Executed \in Nat /\ lastApplied \in Nat
    BY ExecutedNat DEF DeliveryInv, TypesInv
  <2> QED
    BY <2>1 DEF DeliveryInv, LogKept
<1> QED
  BY <1>1, <1>2, ExecutedKept DEF DeliveryInv

LEMMA GrowsDelivered ==
    ASSUME TypesInv, TypesInv', DeliveryInv, LogKept,
           lastApplied <= lastApplied',
           NEW s \in Seq(ApplyMsg), Queue' = Queue \o s,
           Chain(s, lastApplied, lastApplied'),
           \A j \in 1 .. Len(s) : Carries(s[j])',
           machine' = machine
    PROVE  DeliveryInv'
<1>1. /\ Queue \in Seq(ApplyMsg) /\ Len(Queue) \in Nat /\ Len(s) \in Nat
      /\ Len(Queue') = Len(Queue) + Len(s)
      /\ \A j \in 1 .. Len(Queue) : Queue'[j] = Queue[j]
      /\ \A j \in Len(Queue) + 1 .. Len(Queue') : Queue'[j] = s[j - Len(Queue)]
  BY QueueTyped, ConcatProperties, LenProperties
<1>2. ASSUME NEW j \in 1 .. Len(Queue') PROVE Carries(Queue[j])'
  <2>1. CASE j \in 1 .. Len(Queue)
    <3>1. PICK m : m = Queue[j]
      OBVIOUS
    <3>2. Carries(m)
      BY <2>1, <3>1 DEF DeliveryInv
    <3>3. Carries(m)'
      BY <3>2, CarriesStill
    <3>4. m = Queue'[j]
      BY <1>1, <2>1, <3>1
    <3> QED
      BY <3>3, <3>4 DEF Carries
  <2>2. CASE j \notin 1 .. Len(Queue)
    <3>1. /\ j \in Len(Queue) + 1 .. Len(Queue')
          /\ j - Len(Queue) \in 1 .. Len(s)
      BY <1>1, <2>2
    <3>2. PICK m : m = s[j - Len(Queue)]
      OBVIOUS
    <3>3. Carries(m)' /\ m = Queue'[j]
      BY <1>1, <3>1, <3>2
    <3> QED
      BY <3>3 DEF Carries
  <2> QED
    BY <2>1, <2>2
<1>3. Chain(Queue', Executed, lastApplied')
  <2>1. Executed \in Nat /\ lastApplied \in Nat /\ lastApplied' \in Nat
    BY ExecutedNat DEF TypesInv
  <2>2. Chain(Queue, Executed, lastApplied)
    BY DEF DeliveryInv
  <2> QED
    BY <1>1, <2>1, <2>2, ChainJoin
<1>4. /\ Executed <= lastApplied /\ Executed \in Nat
      /\ lastApplied \in Nat /\ lastApplied' \in Nat
  BY ExecutedNat DEF DeliveryInv, TypesInv
<1>5. Executed' <= lastApplied' /\ Executed' = Executed
  BY <1>4, ExecutedKept
<1>6. \A k \in 1 .. Executed : machine[k] = log'[k]
  BY <1>4 DEF DeliveryInv, LogKept
<1> QED
  BY <1>2, <1>3, <1>5, <1>6 DEF DeliveryInv, Chain

LEMMA QuietDelivery ==
    ASSUME TypesInv, TypesInv', DeliveryInv,
           UNCHANGED <<log, lastApplied, applyCh, sending, commit, machine>>,
           mu = ReaderThread <=> mu' = ReaderThread
    PROVE  DeliveryInv'
<1>1. Queue' = Queue
  BY DEF Queue, Unread
<1> QED
  BY <1>1, KeepsDelivered DEF LogKept

LEMMA ApplyCommitsDelivers ==
    ASSUME TypesInv, TypesInv', DeliveryInv, NEW n \in 1 .. Len(log),
           ApplyCommits(n)
    PROVE  DeliveryInv'
<1>1. /\ n \in lastApplied + 1 .. Len(log) /\ lastApplied' = n /\ sending = << >>
      /\ sending' = [k \in 1 .. n - lastApplied |-> CommandMsg(lastApplied + k)]
      /\ UNCHANGED <<log, applyCh, commit, mu, machine>>
  BY DEF ApplyCommits, PeerUnlocked, rsmVars
<1>2. PICK s : s = sending'
  OBVIOUS
<1>3. /\ s \in Seq(ApplyMsg) /\ Len(s) = n - lastApplied
      /\ \A k \in 1 .. Len(s) : s[k] = CommandMsg(lastApplied + k)
  BY <1>1, <1>2, Applying
<1>4. lastApplied \in Nat /\ n \in Nat /\ n > lastApplied
  BY <1>1 DEF TypesInv
<1>5. Queue' = Queue \o s
  <2>1. Coming = applyCh /\ Coming' = applyCh \o s /\ Unread' = Unread
    BY <1>1, <1>2, ConcatEmptySeq DEF Coming, Unread, TypesInv
  <2>2. /\ Unread \in Seq(ApplyMsg) /\ applyCh \in Seq(ApplyMsg)
        /\ s \in Seq(ApplyMsg)
    BY <1>3, QueueTyped DEF TypesInv
  <2>3. Unread \o (applyCh \o s) = (Unread \o applyCh) \o s
    <3>1. PICK u, a, M : u = Unread /\ a = applyCh /\ M = ApplyMsg
      OBVIOUS
    <3>2. u \in Seq(M) /\ a \in Seq(M) /\ s \in Seq(M)
      BY <2>2, <3>1
    <3>3. u \o (a \o s) = (u \o a) \o s
      BY ONLY <3>2, ConcatAssociative
    <3> QED
      BY <3>1, <3>3
  <2>4. Queue = Unread \o applyCh /\ Queue' = Unread' \o Coming'
    BY <2>1, QueueTyped DEF Queue, Coming
  <2> QED
    BY <2>1, <2>3, <2>4
<1>6. Chain(s, lastApplied, n)
  <2>1. ASSUME NEW j \in 1 .. Len(s)
        PROVE  Follows(s[j], IF j = 1 THEN lastApplied
                                    ELSE s[j - 1].index)
    <3>1. s[j].index = lastApplied + j
      BY <1>3 DEF CommandMsg
    <3>2. j # 1 => j - 1 \in 1 .. Len(s)
      BY <1>3, <1>4
    <3>3. j # 1 => s[j - 1].index = lastApplied + (j - 1)
      BY <1>3, <3>2 DEF CommandMsg
    <3>4. lastApplied + j = (IF j = 1 THEN lastApplied
                             ELSE s[j - 1].index) + 1
      BY <1>3, <1>4, <3>3
    <3> QED
      BY <3>1, <3>4 DEF Follows
  <2>2. Len(s) \in 1 .. Len(s) /\ s # << >>
    BY <1>3, <1>4
  <2>3. s[Len(s)].index = n
    <3>1. s[Len(s)].index = lastApplied + Len(s)
      BY <1>3, <2>2 DEF CommandMsg
    <3> QED
      BY <1>3, <1>4, <3>1
  <2> QED
    BY <2>1, <2>2, <2>3 DEF Chain
<1>7. ASSUME NEW j \in 1 .. Len(s) PROVE Carries(s[j])'
  <2> DEFINE i == lastApplied + j
  <2>1. i \in 1 .. n /\ i \in Nat
    BY <1>3, <1>4
  <2>2. s[j] = CommandMsg(i)
    BY <1>3
  <2> HIDE DEF i
  <2>3. CommandMsg(i) \in ApplyMsg
    BY <1>3, <2>2, ElementOfSeq
  <2>4. PICK m : m = s[j]
    OBVIOUS
  <2>5. /\ m \in ApplyMsg /\ m.index = i /\ ~m.snapshot
        /\ m.operations = <<log[i]>>
    BY <2>2, <2>3, <2>4 DEF CommandMsg
  <2> QED
    BY <1>1, <2>1, <2>4, <2>5 DEF Carries
<1>8. LogKept /\ lastApplied <= lastApplied'
  BY <1>1, <1>4 DEF LogKept
<1> QED
  BY <1>1, <1>3, <1>5, <1>6, <1>7, <1>8, GrowsDelivered

LEMMA InstallSnapshotDelivers ==
    ASSUME TypesInv, TypesInv', DeliveryInv,
           NEW n \in {lastApplied, lastApplied + 1}, NEW op \in OperationsAt(n),
           InstallSnapshot(n, op)
    PROVE  DeliveryInv'
<1>1. /\ n >= 1 /\ lastApplied' = n /\ sending = << >>
      /\ UNCHANGED <<applyCh, commit, mu, machine>>
  BY DEF InstallSnapshot, PeerUnlocked, rsmVars
<1>2. lastApplied \in Nat /\ n \in Nat /\ Len(log) \in Nat
  BY DEF TypesInv
<1>3. PICK upTo \in Seq(Operation) :
          /\ Len(upTo) = n
          /\ \A k \in 1 .. lastApplied : upTo[k] = log[k]
          /\ \/ log' = log /\ n <= Len(log)
                           /\ \A k \in 1 .. n : upTo[k] = log[k]
             \/ log' = upTo
          /\ sending' = <<[index |-> n, snapshot |-> TRUE, operations |-> upTo]>>
  BY <1>1, Installing
<1>4. PICK m : m = [index |-> n, snapshot |-> TRUE, operations |-> upTo]
  OBVIOUS
<1>5. m \in ApplyMsg /\ m.index = n /\ m.snapshot /\ m.operations = upTo
  BY <1>2, <1>4 DEF ApplyMsg
<1>6. LogKept /\ lastApplied <= lastApplied'
  BY <1>1, <1>2, <1>3 DEF LogKept
<1>7. /\ <<m>> \in Seq(ApplyMsg) /\ Len(<<m>>) = 1 /\ <<m>>[1] = m
      /\ <<m>> # << >>
  BY <1>5
<1>8. Queue' = Queue \o <<m>>
  <2>1. Coming = applyCh /\ Coming' = applyCh \o <<m>> /\ Unread' = Unread
    BY <1>1, <1>3, <1>4, ConcatEmptySeq DEF Coming, Unread, TypesInv
  <2>2. Unread \in Seq(ApplyMsg) /\ applyCh \in Seq(ApplyMsg)
    BY QueueTyped DEF TypesInv
  <2>3. Unread \o (applyCh \o <<m>>) = (Unread \o applyCh) \o <<m>>
    <3>1. PICK u, a, s, M : u = Unread /\ a = applyCh /\ s = <<m>> /\ M = ApplyMsg
      OBVIOUS
    <3>2. u \in Seq(M) /\ a \in Seq(M) /\ s \in Seq(M)
      BY <1>7, <2>2, <3>1
    <3>3. u \o (a \o s) = (u \o a) \o s
      BY ONLY <3>2, ConcatAssociative
    <3> QED
      BY <3>1, <3>3
  <2>4. Queue = Unread \o applyCh /\ Queue' = Unread' \o Coming'
    BY <2>1, QueueTyped DEF Queue, Coming
  <2> QED
    BY <2>1, <2>3, <2>4
<1>9. Chain(<<m>>, lastApplied, n)
  <2>1. Follows(m, lastApplied)
    BY <1>2, <1>5 DEF Follows
  <2> QED
    BY <1>5, <1>7, <2>1 DEF Chain
<1>10. Carries(m)'
  <2>1. /\ log' \in Seq(Operation) /\ n <= Len(log') /\ Len(log') \in Nat
        /\ \A k \in 1 .. n : upTo[k] = log'[k]
    BY <1>1, <1>3 DEF TypesInv
  <2>2. SubSeq(upTo, 1, n) = SubSeq(log', 1, n)
    BY <1>2, <1>3, <2>1, PrefixKept
  <2>3. SubSeq(upTo, 1, n) = upTo
    BY <1>3, SubSeqFull
  <2> QED
    BY <1>1, <1>2, <1>5, <2>2, <2>3 DEF Carries
<1>11. \A j \in 1 .. Len(<<m>>) : Carries(<<m>>[j])'
  BY <1>7, <1>10
<1> QED
  BY <1>1, <1>6, <1>7, <1>8, <1>9, <1>11, GrowsDelivered

LEMMA ReadDelivers ==
    ASSUME RsmInv, TypesInv', ReadCommand \/ ReadSnapshot
    PROVE  DeliveryInv' /\ Executed' = commit.index
<1>1. /\ commit # None /\ mu = None
      /\ UNCHANGED <<log, lastApplied, applyCh, sending>>
  BY DEF ReadCommand, ReadSnapshot, peerVars
<1>2. /\ Carries(commit) /\ Follows(commit, Executed)
      /\ commit.index \in Nat
      /\ Chain(Coming, commit.index, lastApplied)
      /\ \A j \in 1 .. Len(Coming) : Carries(Coming[j])
  BY <1>1, NextMessage DEF RsmInv
<1>3. Queue' = Coming /\ Coming' = Coming
  <2>1. Unread' = << >>
    BY <1>1, OperationNames DEF ReadCommand, ReadSnapshot, Unread
  <2>2. Coming' = Coming
    BY <1>1 DEF Coming
  <2> QED
    BY <2>1, <2>2, QueueTyped, ConcatEmptySeq DEF Queue, Coming, RsmInv
<1>4. /\ commit.operations \in Seq(Operation) /\ commit.index \in 1 .. Len(log)
      /\ ~commit.snapshot => commit.operations[1] = log[commit.index]
      /\ commit.snapshot =>
             /\ Len(commit.operations) = commit.index
             /\ \A k \in 1 .. commit.index : commit.operations[k] = log[k]
      /\ commit.index \in 1 .. lastApplied
  BY <1>2, Operations DEF RsmInv, Carries
<1>5. /\ machine \in Seq(Operation) /\ Len(machine) = Executed
      /\ Executed \in Nat /\ lastApplied \in Nat
      /\ \A k \in 1 .. Executed : machine[k] = log[k]
  BY ExecutedNat DEF RsmInv, TypesInv, DeliveryInv, Executed
<1>6. /\ Executed' = commit.index
      /\ \A k \in 1 .. commit.index : machine'[k] = log[k]
  <2>1. CASE ReadCommand
    <3>1. ~commit.snapshot /\ machine' = Append(machine, commit.operations[1])
      BY <2>1 DEF ReadCommand
    <3>2. commit.index = Executed + 1
      BY <1>2, <3>1 DEF Follows
    <3>3. log[commit.index] \in Operation
      BY <1>2, Operations DEF RsmInv
    <3>4. machine' = Append(machine, log[Executed + 1])
      BY <1>4, <3>1, <3>2
    <3>5. /\ Len(machine') = Executed + 1
          /\ machine'[Executed + 1] = log[Executed + 1]
          /\ \A k \in 1 .. Executed : machine'[k] = machine[k]
      BY <1>5, <3>2, <3>3, <3>4, AppendProperties
    <3> QED
      BY <1>5, <3>2, <3>5 DEF Executed
  <2>2. CASE ReadSnapshot
    BY <1>4, <2>2 DEF ReadSnapshot, Restored, Executed
  <2> QED
    BY <2>1, <2>2
<1>7. ASSUME NEW j \in 1 .. Len(Queue') PROVE Carries(Queue[j])'
  <2>1. PICK m : m = Coming[j]
    OBVIOUS
  <2>2. Carries(m)
    BY <1>2, <1>3, <2>1
  <2>3. Carries(m)'
    BY <1>1, <1>5, <2>2, CarriesStill DEF LogKept, RsmInv
  <2> QED
    BY <1>3, <2>1, <2>3 DEF Carries
<1>8. Executed' <= lastApplied'
  BY <1>1, <1>4, <1>5, <1>6
<1>9. Chain(Queue', Executed', lastApplied')
  BY <1>1, <1>2, <1>3, <1>6
<1> QED
  BY <1>1, <1>6, <1>7, <1>8, <1>9 DEF DeliveryInv, Chain

LEMMA SendDelivers ==
    ASSUME TypesInv, TypesInv', DeliveryInv, SendApplyMsg
    PROVE  DeliveryInv'
<1>1. /\ sending # << >>
      /\ applyCh' = Append(applyCh, Head(sending)) /\ sending' = Tail(sending)
      /\ UNCHANGED <<log, lastApplied, commit, mu, machine>>
  BY DEF SendApplyMsg, rsmVars
<1>2. applyCh \in Seq(ApplyMsg) /\ sending \in Seq(ApplyMsg)
  BY DEF TypesInv
<1>3. PICK m : m = Head(sending)
  OBVIOUS
<1>4. PICK r : r = Tail(sending)
  OBVIOUS
<1>5. <<m>> \o r = sending /\ m \in ApplyMsg /\ r \in Seq(ApplyMsg)
  BY <1>1, <1>2, <1>3, <1>4, FirstAndRest
<1>6. Append(applyCh, m) = applyCh \o <<m>>
  BY <1>2, <1>5, AppendIsConcat
<1>7. (applyCh \o <<m>>) \o r = applyCh \o (<<m>> \o r)
  <2>1. <<m>> \in Seq(ApplyMsg)
    BY <1>5
  <2> QED
    BY <1>2, <1>5, <2>1, ConcatAssociative
<1>8. Coming' = Coming
  BY <1>1, <1>3, <1>4, <1>5, <1>6, <1>7 DEF Coming
<1>9. Queue' = Queue
  BY <1>1, <1>8 DEF Queue, Coming, Unread
<1> QED
  BY <1>1, <1>9, KeepsDelivered DEF LogKept

LEMMA ReceiveDelivers ==
    ASSUME TypesInv, TypesInv', DeliveryInv, MutexInv, Receive
    PROVE  DeliveryInv'
<1>1. /\ applyCh # << >> /\ commit = None
      /\ commit' = Head(applyCh) /\ applyCh' = Tail(applyCh)
      /\ UNCHANGED <<log, lastApplied, sending, mu, machine>>
  BY DEF Receive
<1>2. applyCh \in Seq(ApplyMsg) /\ sending \in Seq(ApplyMsg)
  BY DEF TypesInv
<1>3. PICK m : m = Head(applyCh)
  OBVIOUS
<1>4. PICK r : r = Tail(applyCh)
  OBVIOUS
<1>5. <<m>> \o r = applyCh /\ m \in ApplyMsg /\ r \in Seq(ApplyMsg)
  BY <1>1, <1>2, <1>3, <1>4, FirstAndRest
<1>6. mu # ReaderThread /\ m # None
  BY <1>1, <1>5, OperationNames DEF MutexInv, HandsOver
<1>7. Unread = << >> /\ Unread' = <<m>>
  BY <1>1, <1>3, <1>6 DEF Unread
<1>8. <<m>> \o (r \o sending) = (<<m>> \o r) \o sending
  <2>1. <<m>> \in Seq(ApplyMsg)
    BY <1>5
  <2> QED
    BY <1>2, <1>5, <2>1, ConcatAssociative
<1>9. Queue' = Queue
  <2>1. Queue = applyCh \o sending
    BY <1>7, QueueTyped, ConcatEmptySeq DEF Coming
  <2>2. Queue' = <<m>> \o (r \o sending)
    BY <1>1, <1>4, <1>7 DEF Queue
  <2> QED
    BY <1>5, <1>8, <2>1, <2>2
<1> QED
  BY <1>1, <1>9, KeepsDelivered DEF LogKept

LEMMA NextDelivery ==
    ASSUME RsmInv, TypesInv', [Next]_vars
    PROVE  DeliveryInv'
<1> USE DEF RsmInv
<1>1. CASE UNCHANGED vars
  BY <1>1, QuietDelivery DEF vars, peerVars, rsmVars
<1>2. CASE Elected
  BY <1>2, QuietDelivery DEF Elected, rsmVars
<1>3. CASE Deposed
  BY <1>3, QuietDelivery DEF Deposed, rsmVars
<1>4. ASSUME NEW k \in 1 .. Len(log) + 1, NEW op \in OperationsAt(k),
             Overwritten(k, op)
      PROVE  DeliveryInv'
  <2>1. /\ k \in lastApplied + 1 .. Len(log) + 1 /\ op \in Operation
        /\ log' = Append(SubSeq(log, 1, k - 1), op)
        /\ UNCHANGED <<lastApplied, sending, applyCh, commit, mu, machine>>
    BY <1>4, PromisesAreOperations DEF Overwritten, rsmVars
  <2>2. lastApplied \in Nat /\ Len(log) \in Nat
    BY DEF TypesInv
  <2>3. \A n \in 1 .. k - 1 : log'[n] = log[n]
    BY <2>1, Overwriting
  <2>4. LogKept
    BY <2>1, <2>2, <2>3 DEF LogKept
  <2>5. Queue' = Queue
    BY <2>1 DEF Queue, Unread
  <2> QED
    BY <2>1, <2>4, <2>5, KeepsDelivered
<1>5. ASSUME NEW n \in 1 .. Len(log), ApplyCommits(n) PROVE DeliveryInv'
  BY <1>5, ApplyCommitsDelivers
<1>6. ASSUME NEW n \in {lastApplied, lastApplied + 1}, NEW op \in OperationsAt(n),
             InstallSnapshot(n, op)
      PROVE  DeliveryInv'
  BY <1>6, InstallSnapshotDelivers
<1>7. CASE SendApplyMsg
  BY <1>7, SendDelivers
<1>8. ASSUME NEW c \in Call, SubmitLock(c) PROVE DeliveryInv'
  BY <1>8, QuietDelivery, OperationNames DEF SubmitLock, peerVars
<1>9. ASSUME NEW c \in Call, SubmitStart(c) PROVE DeliveryInv'
  <2>1. /\ log' = IF isLeader THEN Append(log, c) ELSE log
        /\ UNCHANGED <<lastApplied, sending, applyCh, commit, machine>>
        /\ mu = c /\ mu' = None
    BY <1>9 DEF SubmitStart, MutexInv
  <2>2. lastApplied \in Nat /\ Len(log) \in Nat /\ lastApplied <= Len(log)
        /\ log \in Seq(Operation) /\ c \in Operation
    BY DEF TypesInv, Operation
  <2>3. \A n \in 1 .. Len(log) : log'[n] = log[n]
    BY <2>1, <2>2, AppendProperties
  <2>4. LogKept
    BY <2>2, <2>3 DEF LogKept
  <2>5. Queue' = Queue
    BY <2>1, OperationNames DEF Queue, Unread
  <2> QED
    BY <2>1, <2>4, <2>5, KeepsDelivered
<1>10. ASSUME NEW c \in Call, SubmitReturn(c) PROVE DeliveryInv'
  BY <1>10, QuietDelivery DEF SubmitReturn, peerVars, rsmVars
<1>11. CASE Receive
  BY <1>11, ReceiveDelivers
<1>12. CASE ReadCommand
  BY <1>12, ReadDelivers
<1>13. CASE Answer
  <2>1. Unread = << >> /\ Unread' = << >>
    BY <1>13 DEF Answer, Unread
  <2>2. /\ UNCHANGED <<log, lastApplied, applyCh, sending, machine>>
    BY <1>13 DEF Answer, peerVars
  <2>3. Queue' = Queue
    BY <2>1, <2>2 DEF Queue
  <2> QED
    BY <2>2, <2>3, KeepsDelivered DEF LogKept
<1>14. CASE ReadSnapshot
  BY <1>14, ReadDelivers
<1>15. CASE SeeNoLeader
  BY <1>15, QuietDelivery DEF SeeNoLeader, peerVars
<1>16. CASE CollectChannels
  BY <1>16, QuietDelivery DEF CollectChannels, peerVars
<1>17. ASSUME NEW c \in Call, Cancel(c) PROVE DeliveryInv'
  BY <1>17, QuietDelivery DEF Cancel, peerVars
<1>18. CASE PersistLock
  BY <1>18, QuietDelivery, OperationNames DEF PersistLock, peerVars
<1>19. CASE PersistMeasure
  BY <1>19, QuietDelivery, OperationNames DEF PersistMeasure, peerVars, MutexInv
<1>20. CASE PersistSnapshot
  BY <1>20, QuietDelivery, OperationNames DEF PersistSnapshot, MutexInv
<1> QED
  BY <1>1, <1>2, <1>3, <1>4, <1>5, <1>6, <1>7, <1>8, <1>9, <1>10, <1>11, <1>12,
     <1>13, <1>14, <1>15, <1>16, <1>17, <1>18, <1>19, <1>20 DEF Next

----------------------------------------------------------------------------
(* The mutex.                                                              *)

LEMMA NextLogKept ==
    ASSUME RsmInv, [Next]_vars
    PROVE  LogKept /\ lastApplied <= lastApplied'
<1> USE DEF RsmInv
<1>1. lastApplied \in Nat /\ Len(log) \in Nat /\ log \in Seq(Operation)
      /\ lastApplied <= Len(log)
  BY DEF TypesInv
<1>2. CASE log' = log /\ lastApplied' = lastApplied
  BY <1>1, <1>2 DEF LogKept
<1>3. ASSUME NEW k \in 1 .. Len(log) + 1, NEW op \in OperationsAt(k),
             Overwritten(k, op)
      PROVE  LogKept /\ lastApplied <= lastApplied'
  <2>1. /\ k \in lastApplied + 1 .. Len(log) + 1 /\ op \in Operation
        /\ log' = Append(SubSeq(log, 1, k - 1), op)
        /\ lastApplied' = lastApplied
    BY <1>3, PromisesAreOperations DEF Overwritten
  <2>2. \A n \in 1 .. k - 1 : log'[n] = log[n]
    BY <2>1, Overwriting
  <2> QED
    BY <1>1, <2>1, <2>2 DEF LogKept
<1>4. ASSUME NEW n \in 1 .. Len(log), ApplyCommits(n)
      PROVE  LogKept /\ lastApplied <= lastApplied'
  BY <1>1, <1>4 DEF ApplyCommits, LogKept
<1>5. ASSUME NEW n \in {lastApplied, lastApplied + 1}, NEW op \in OperationsAt(n),
             InstallSnapshot(n, op)
      PROVE  LogKept /\ lastApplied <= lastApplied'
  <2>1. n >= 1 /\ lastApplied' = n
    BY <1>5 DEF InstallSnapshot
  <2>2. PICK upTo \in Seq(Operation) :
            /\ \A k \in 1 .. lastApplied : upTo[k] = log[k]
            /\ log' = log \/ log' = upTo
    BY <1>5, <2>1, Installing
  <2> QED
    BY <1>1, <2>1, <2>2 DEF LogKept
<1>6. ASSUME NEW c \in Call, SubmitStart(c)
      PROVE  LogKept /\ lastApplied <= lastApplied'
  <2>1. /\ log' = IF isLeader THEN Append(log, c) ELSE log
        /\ lastApplied' = lastApplied
    BY <1>6 DEF SubmitStart
  <2>2. c \in Operation
    BY DEF Operation
  <2>3. \A n \in 1 .. Len(log) : log'[n] = log[n]
    BY <1>1, <2>1, <2>2, AppendProperties
  <2> QED
    BY <1>1, <2>1, <2>3 DEF LogKept
<1>7. CASE UNCHANGED vars
  BY <1>2, <1>7 DEF vars, peerVars
<1>8. CASE Elected \/ Deposed \/ SendApplyMsg \/ Receive
  BY <1>2, <1>8 DEF Elected, Deposed, SendApplyMsg, Receive
<1>9. CASE ReadCommand \/ Answer \/ ReadSnapshot
  BY <1>2, <1>9 DEF ReadCommand, Answer, ReadSnapshot, peerVars
<1>10. CASE SeeNoLeader \/ CollectChannels
  BY <1>2, <1>10 DEF SeeNoLeader, CollectChannels, peerVars
<1>11. CASE PersistLock \/ PersistMeasure \/ PersistSnapshot
  BY <1>2, <1>11 DEF PersistLock, PersistMeasure, PersistSnapshot, peerVars
<1>12. ASSUME NEW c \in Call, SubmitLock(c) \/ SubmitReturn(c) \/ Cancel(c)
       PROVE  LogKept /\ lastApplied <= lastApplied'
  BY <1>2, <1>12 DEF SubmitLock, SubmitReturn, Cancel, peerVars
<1> QED
  BY <1>3, <1>4, <1>5, <1>6, <1>7, <1>8, <1>9, <1>10, <1>11, <1>12 DEF Next

LEMMA StillHandsOver ==
    ASSUME RsmInv, TypesInv', [Next]_vars, mu' = mu,
           mu = ReaderThread => UNCHANGED <<commit, machine, submitCh>>
    PROVE  HandsOver'
<1> SUFFICES ASSUME mu = ReaderThread
             PROVE  /\ commit' # None
                    /\ Carries(commit)' /\ ~commit'.snapshot
                    /\ commit'.index = Executed'
                    /\ commit'.index \in DOMAIN submitCh'
                    /\ log'[commit'.index] # Foreign
  BY DEF HandsOver
<1>1. UNCHANGED <<commit, Executed, submitCh>>
  BY ExecutedKept
<1>2. PICK m : m = commit
  OBVIOUS
<1>3. /\ m # None /\ Carries(m) /\ ~m.snapshot /\ m.index = Executed
      /\ m.index \in DOMAIN submitCh /\ log[m.index] # Foreign
  BY <1>2 DEF RsmInv, MutexInv, HandsOver
<1>4. Carries(m)'
  BY <1>3, NextLogKept, CarriesStill DEF RsmInv
<1>5. log'[m.index] = log[m.index]
  <2>1. m.index \in 1 .. lastApplied
    BY <1>3 DEF Carries
  <2> QED
    BY <2>1, NextLogKept DEF LogKept
<1> QED
  BY <1>1, <1>2, <1>3, <1>4, <1>5 DEF Carries

LEMMA NextMutex ==
    ASSUME RsmInv, TypesInv', [Next]_vars
    PROVE  MutexInv'
<1>1. /\ \A c \in Call : pc[c] = "starting" <=> mu = c
      /\ persister # "asleep" <=> mu = PersistThread
      /\ pc \in [Call -> {"idle", "starting", "waiting", "OK", "ErrWrongLeader"}]
  BY DEF RsmInv, MutexInv, TypesInv
<1> DEFINE Owners == /\ \A c \in Call : pc[c] = "starting" <=> mu = c
                     /\ persister # "asleep" <=> mu = PersistThread
<1>2. CASE /\ UNCHANGED <<mu, persister>>
           /\ pc' = pc \/ \E c \in Call : SubmitReturn(c)
           /\ mu = ReaderThread => UNCHANGED <<commit, machine, submitCh>>
  <2>1. HandsOver'
    BY <1>2, StillHandsOver
  <2>2. \A c \in Call : pc'[c] = "starting" <=> pc[c] = "starting"
    BY <1>1, <1>2 DEF SubmitReturn
  <2>3. Owners'
    BY <1>1, <1>2, <2>2
  <2> QED
    BY <2>1, <2>3 DEF MutexInv
<1>3. CASE UNCHANGED vars
  BY <1>2, <1>3 DEF vars, rsmVars, callVars
<1>4. CASE Elected \/ Deposed \/ SendApplyMsg
  BY <1>2, <1>4 DEF Elected, Deposed, SendApplyMsg, rsmVars, callVars
<1>5. ASSUME NEW k, NEW op, Overwritten(k, op) PROVE MutexInv'
  BY <1>2, <1>5 DEF Overwritten, rsmVars, callVars
<1>6. ASSUME NEW n, ApplyCommits(n) PROVE MutexInv'
  BY <1>2, <1>6 DEF ApplyCommits, rsmVars, callVars
<1>7. ASSUME NEW n, NEW op, InstallSnapshot(n, op) PROVE MutexInv'
  BY <1>2, <1>7 DEF InstallSnapshot, rsmVars, callVars
<1>8. ASSUME NEW c \in Call, SubmitLock(c) PROVE MutexInv'
  <2>1. /\ mu = None /\ mu' = c /\ persister' = persister
        /\ pc' = [pc EXCEPT ![c] = "starting"]
    BY <1>8 DEF SubmitLock
  <2> QED
    BY <1>1, <2>1, OperationNames DEF MutexInv, HandsOver
<1>9. ASSUME NEW c \in Call, SubmitStart(c) PROVE MutexInv'
  <2>1. /\ mu = c /\ mu' = None /\ persister' = persister
        /\ \A d \in Call \ {c} : pc'[d] = pc[d]
        /\ pc'[c] # "starting"
    BY <1>1, <1>9 DEF SubmitStart
  <2> QED
    BY <1>1, <2>1, OperationNames DEF MutexInv, HandsOver
<1>10. ASSUME NEW c \in Call, SubmitReturn(c) PROVE MutexInv'
  BY <1>2, <1>10 DEF SubmitReturn, rsmVars
<1>11. CASE Receive
  <2>1. mu # ReaderThread
    BY <1>11 DEF Receive, RsmInv, MutexInv, HandsOver
  <2> QED
    BY <1>2, <1>11, <2>1 DEF Receive, callVars
<1>12. CASE ReadCommand
  <2>1. /\ mu = None /\ commit # None /\ ~commit.snapshot
        /\ mu' = IF Awaits(commit.operations[1]) THEN ReaderThread ELSE None
        /\ commit' = IF Awaits(commit.operations[1]) THEN commit ELSE None
        /\ UNCHANGED <<log, lastApplied, submitCh, persister, pc>>
    BY <1>12 DEF ReadCommand, peerVars, callVars
  <2>2. /\ Carries(commit) /\ commit.operations[1] = log[commit.index]
        /\ Executed' = commit.index
    BY <1>12, <2>1, NextMessage, Operations, ReadDelivers DEF RsmInv
  <2>3. Owners'
    BY <1>1, <2>1, OperationNames
  <2>4. HandsOver'
    BY <2>1, <2>2, OperationNames DEF HandsOver, Awaits, Carries
  <2> QED
    BY <2>3, <2>4 DEF MutexInv
<1>13. CASE Answer
  <2>1. mu = ReaderThread /\ mu' = None /\ UNCHANGED <<persister, pc>>
    BY <1>13 DEF Answer
  <2> QED
    BY <1>1, <2>1, OperationNames DEF MutexInv, HandsOver
<1>14. CASE ReadSnapshot
  <2>1. mu = None /\ UNCHANGED <<mu, persister, pc>>
    BY <1>14 DEF ReadSnapshot, callVars
  <2> QED
    BY <1>2, <2>1, OperationNames
<1>15. CASE SeeNoLeader
  BY <1>2, <1>15 DEF SeeNoLeader, callVars
<1>16. CASE CollectChannels
  <2>1. mu = None /\ UNCHANGED <<mu, persister, pc>>
    BY <1>16 DEF CollectChannels, callVars
  <2> QED
    BY <1>2, <2>1, OperationNames
<1>17. ASSUME NEW c \in Call, Cancel(c) PROVE MutexInv'
  BY <1>2, <1>17 DEF Cancel
<1>18. CASE PersistLock
  <2>1. /\ mu = None /\ mu' = PersistThread /\ persister' = "measuring" /\ pc' = pc
    BY <1>18 DEF PersistLock, callVars
  <2> QED
    BY <1>1, <2>1, OperationNames DEF MutexInv, HandsOver
<1>19. CASE PersistMeasure
  <2>1. /\ mu = PersistThread /\ pc' = pc
        /\ \/ mu' = mu /\ persister' = "snapshotting"
           \/ mu' = None /\ persister' = "asleep"
    BY <1>1, <1>19 DEF PersistMeasure, callVars
  <2> QED
    BY <1>1, <2>1, OperationNames DEF MutexInv, HandsOver
<1>20. CASE PersistSnapshot
  <2>1. mu = PersistThread /\ mu' = None /\ persister' = "asleep" /\ pc' = pc
    BY <1>1, <1>20 DEF PersistSnapshot, callVars
  <2> QED
    BY <1>1, <2>1, OperationNames DEF MutexInv, HandsOver
<1> QED
  BY <1>3, <1>4, <1>5, <1>6, <1>7, <1>8, <1>9, <1>10, <1>11, <1>12,
     <1>13, <1>14, <1>15, <1>16, <1>17, <1>18, <1>19, <1>20 DEF Next

LEMMA NextCount ==
    ASSUME RsmInv, TypesInv', [Next]_vars
    PROVE  CountInv'
<1>1. CountInv /\ (persister # "asleep" <=> mu = PersistThread)
  BY DEF RsmInv, MutexInv
<1>2. CASE UNCHANGED <<commitIndex, machine>>
  <2>1. commitIndex' \in {0, Executed'}
    BY <1>1, <1>2, ExecutedKept DEF CountInv
  <2>2. CASE PersistMeasure
    <3>1. persister' = "snapshotting" => commitIndex # 0
      BY <2>2 DEF PersistMeasure
    <3> QED
      BY <1>2, <2>1, <3>1 DEF CountInv
  <2>3. CASE ~PersistMeasure
    <3>1. persister' = "snapshotting" => persister = "snapshotting"
      BY <2>3 DEF Next, vars, Elected, Deposed, Overwritten, ApplyCommits,
         InstallSnapshot, SendApplyMsg, SubmitLock, SubmitStart, SubmitReturn,
         Receive, ReadCommand, Answer, ReadSnapshot, SeeNoLeader,
         CollectChannels, Cancel, PersistLock, PersistSnapshot, rsmVars
    <3> QED
      BY <1>1, <1>2, <2>1, <3>1, ExecutedKept DEF CountInv
  <2> QED
    BY <2>2, <2>3
<1>3. CASE ReadCommand \/ ReadSnapshot
  <2>1. mu = None /\ persister' = persister /\ commit # None
    BY <1>3 DEF ReadCommand, ReadSnapshot
  <2>2. persister' = "asleep"
    BY <1>1, <2>1, OperationNames DEF RsmInv, TypesInv
  <2>3. Executed' = commit.index
    BY <1>3, ReadDelivers
  <2>4. /\ commit.index \in Nat /\ commitIndex \in Nat /\ Executed \in Nat
        /\ commit.index >= Executed
    <3>1. Follows(commit, Executed) /\ commit.index \in Nat
      BY <1>3, <2>1, NextMessage DEF RsmInv, ReadCommand, ReadSnapshot
    <3>2. commitIndex \in Nat /\ Executed \in Nat
      BY ExecutedNat DEF RsmInv, TypesInv
    <3> QED
      BY <3>1, <3>2 DEF Follows
  <2>5. commitIndex <= Executed
    BY <1>1, <2>4 DEF CountInv
  <2>6. commitIndex' = commit.index
    BY <1>3, <2>4, <2>5 DEF ReadCommand, ReadSnapshot
  <2> QED
    BY <2>2, <2>3, <2>6 DEF CountInv
<1>4. \/ UNCHANGED <<commitIndex, machine>>
      \/ ReadCommand \/ ReadSnapshot
  BY DEF Next, vars, Elected, Deposed, Overwritten, ApplyCommits,
     InstallSnapshot, SendApplyMsg, SubmitLock, SubmitStart, SubmitReturn,
     Receive, Answer, SeeNoLeader, CollectChannels, Cancel, PersistLock,
     PersistMeasure, PersistSnapshot, rsmVars
<1> QED
  BY <1>2, <1>3, <1>4

----------------------------------------------------------------------------
(* The promises.                                                           *)

LEMMA KeptPromises ==
    ASSUME PromiseInv, given' = given,
           submitCh' = submitCh \/ submitCh' = << >>,
           NEW l, log' = l,
           \A k \in DOMAIN l : l[k] # Foreign =>
               \/ k \in DOMAIN given /\ l[k] = given[k]
               \/ k \in DOMAIN log /\ l[k] = log[k]
    PROVE  PromiseInv'
<1>1. DOMAIN << >> = {}
  OBVIOUS
<1> QED
  BY <1>1 DEF PromiseInv

LEMMA NextPromises ==
    ASSUME RsmInv, [Next]_vars
    PROVE  PromiseInv'
<1>1. /\ PromiseInv /\ log \in Seq(Operation) /\ Len(log) \in Nat
      /\ lastApplied \in Nat /\ lastApplied <= Len(log)
      /\ DOMAIN log = 1 .. Len(log)
  BY DEF RsmInv, TypesInv
<1>2. CASE /\ log' = log /\ given' = given
           /\ submitCh' = submitCh \/ submitCh' = << >>
  BY <1>1, <1>2, KeptPromises
<1>3. ASSUME NEW k \in 1 .. Len(log) + 1, NEW op \in OperationsAt(k),
             Overwritten(k, op)
      PROVE  PromiseInv'
  <2>1. /\ k \in lastApplied + 1 .. Len(log) + 1 /\ op \in Operation
        /\ log' = Append(SubSeq(log, 1, k - 1), op)
        /\ given' = given /\ submitCh' = submitCh
    BY <1>3, PromisesAreOperations DEF Overwritten, rsmVars, RsmInv
  <2>2. PICK l : l = Append(SubSeq(log, 1, k - 1), op)
    OBVIOUS
  <2>3. /\ l \in Seq(Operation) /\ Len(l) = k /\ l[k] = op
        /\ \A n \in 1 .. k - 1 : l[n] = log[n]
    BY <2>1, <2>2, Overwriting DEF RsmInv
  <2>4. op # Foreign => k \in DOMAIN given /\ op = given[k]
    BY DEF OperationsAt
  <2>5. \A n \in DOMAIN l : n = k \/ (n \in 1 .. k - 1 /\ n \in DOMAIN log)
    BY <1>1, <2>3
  <2> QED
    BY <1>1, <2>1, <2>2, <2>3, <2>4, <2>5, KeptPromises
<1>4. ASSUME NEW n \in {lastApplied, lastApplied + 1}, NEW op \in OperationsAt(n),
             InstallSnapshot(n, op)
      PROVE  PromiseInv'
  <2>1. n >= 1 /\ given' = given /\ submitCh' = submitCh
    BY <1>4 DEF InstallSnapshot, rsmVars
  <2>2. PICK upTo \in Seq(Operation) :
            /\ Len(upTo) = n
            /\ \A k \in 1 .. lastApplied : upTo[k] = log[k]
            /\ n > lastApplied => upTo[n] = op
            /\ log' = log \/ log' = upTo
    BY <1>4, <2>1, Installing DEF RsmInv
  <2>3. op # Foreign => n \in DOMAIN given /\ op = given[n]
    BY DEF OperationsAt
  <2>4. \A k \in DOMAIN upTo : \/ k \in 1 .. lastApplied /\ k \in DOMAIN log
                               \/ k = n /\ n > lastApplied
    BY <1>1, <2>2
  <2>5. CASE log' = upTo
    BY <1>1, <2>1, <2>2, <2>3, <2>4, <2>5, KeptPromises
  <2> QED
    BY <1>2, <2>1, <2>2, <2>5
<1>5. ASSUME NEW c \in Call, SubmitStart(c) PROVE PromiseInv'
  <2>1. CASE isLeader
    <3> DEFINE i == Len(log) + 1
    <3>1. /\ log' = Append(log, c) /\ submitCh' = With(submitCh, i, c)
          /\ given' = With(given, i, c)
      BY <1>5, <2>1 DEF SubmitStart
    <3>2. c \in Operation
      BY DEF Operation
    <3>3. /\ DOMAIN log' = 1 .. i /\ log'[i] = c
          /\ \A n \in 1 .. Len(log) : log'[n] = log[n]
      BY <1>1, <3>1, <3>2, AppendProperties
    <3>4. i \in Nat \ {0} /\ \A n \in 1 .. i : n = i \/ n \in DOMAIN log
      BY <1>1
    <3> HIDE DEF i
    <3>5. /\ DOMAIN given' = DOMAIN given \cup {i}
          /\ DOMAIN submitCh' = DOMAIN submitCh \cup {i}
          /\ \A n \in DOMAIN given' : given'[n] = IF n = i THEN c ELSE given[n]
          /\ \A n \in DOMAIN submitCh' :
                 submitCh'[n] = IF n = i THEN c ELSE submitCh[n]
      BY <3>1 DEF With
    <3>6. \A n \in DOMAIN log' : n = i \/ (n \in DOMAIN log /\ log'[n] = log[n])
      BY <1>1, <3>3, <3>4
    <3> QED
      BY <1>1, <3>3, <3>4, <3>5, <3>6 DEF PromiseInv
  <2>2. CASE ~isLeader
    BY <1>2, <1>5, <2>2 DEF SubmitStart
  <2> QED
    BY <2>1, <2>2
<1>6. CASE UNCHANGED vars
  BY <1>2, <1>6 DEF vars, peerVars, rsmVars
<1>7. CASE Elected \/ Deposed \/ SendApplyMsg \/ Receive
  BY <1>2, <1>7 DEF Elected, Deposed, SendApplyMsg, Receive, rsmVars
<1>8. CASE ReadCommand \/ Answer \/ ReadSnapshot
  BY <1>2, <1>8 DEF ReadCommand, Answer, ReadSnapshot, peerVars
<1>9. CASE SeeNoLeader \/ CollectChannels
  BY <1>2, <1>9 DEF SeeNoLeader, CollectChannels, peerVars
<1>10. CASE PersistLock \/ PersistMeasure \/ PersistSnapshot
  BY <1>2, <1>10 DEF PersistLock, PersistMeasure, PersistSnapshot, peerVars
<1>11. ASSUME NEW c \in Call, SubmitLock(c) \/ SubmitReturn(c) \/ Cancel(c)
       PROVE  PromiseInv'
  BY <1>2, <1>11 DEF SubmitLock, SubmitReturn, Cancel, peerVars, rsmVars
<1>12. ASSUME NEW n, ApplyCommits(n) PROVE PromiseInv'
  BY <1>2, <1>12 DEF ApplyCommits, rsmVars
<1> QED
  BY <1>3, <1>4, <1>5, <1>6, <1>7, <1>8, <1>9, <1>10, <1>11, <1>12 DEF Next

----------------------------------------------------------------------------
(* The channels.                                                           *)

LEMMA QuietChannels ==
    ASSUME ChannelInv,
           UNCHANGED <<submitCh, canceled, pc, reply, result>>,
           \A k \in DOMAIN submitCh : Unanswered(k)' => Unanswered(k)
    PROVE  ChannelInv'
<1>1. Registered' = Registered
  BY DEF Registered
<1> QED
  BY <1>1 DEF ChannelInv

LEMMA SubmitStartChannels ==
    ASSUME RsmInv, NEW c \in Call, SubmitStart(c)
    PROVE  ChannelInv'
<1>1. /\ ChannelInv /\ pc[c] = "starting" /\ mu = c /\ mu' = None
      /\ pc \in [Call -> {"idle", "starting", "waiting", "OK", "ErrWrongLeader"}]
      /\ pc' = [pc EXCEPT ![c] = IF isLeader THEN "waiting" ELSE "ErrWrongLeader"]
      /\ UNCHANGED <<canceled, reply, result, Executed>>
  BY ExecutedKept DEF SubmitStart, RsmInv, MutexInv, TypesInv
<1>2. reply[c] = << >> /\ c \notin Registered /\ c \notin canceled
  BY <1>1 DEF ChannelInv
<1>3. /\ \A d \in Call : d # c => pc'[d] = pc[d]
      /\ pc'[c] \in {"waiting", "ErrWrongLeader"}
      /\ isLeader => pc'[c] = "waiting"
  BY <1>1
<1>4. \A k : Unanswered(k)' => k > Executed
  BY <1>1, OperationNames DEF Unanswered
<1>5. \A k \in DOMAIN submitCh : submitCh[k] \in Call /\ submitCh[k] # c
  BY <1>2 DEF RsmInv, TypesInv, Registered
<1>6. CASE isLeader
  <2> DEFINE i == Len(log) + 1
  <2>1. submitCh' = With(submitCh, i, c)
    BY <1>6 DEF SubmitStart
  <2> HIDE DEF i
  <2>2. /\ DOMAIN submitCh' = DOMAIN submitCh \cup {i}
        /\ \A n \in DOMAIN submitCh' :
               submitCh'[n] = IF n = i THEN c ELSE submitCh[n]
    BY <2>1 DEF With
  <2>3. Registered' \subseteq Registered \cup {c}
    BY <2>2 DEF Registered
  <2>4. \A d \in Call : pc'[d] \in {"idle", "starting"} =>
            reply[d] = << >> /\ d \notin Registered' /\ d \notin canceled
    BY <1>1, <1>3, <2>3 DEF ChannelInv
  <2>5. \A j, k \in DOMAIN submitCh' : submitCh'[j] = submitCh'[k] => j = k
    BY <1>1, <1>5, <2>2 DEF ChannelInv
  <2>6. Registered' \cap canceled = {}
    BY <1>1, <1>2, <2>3 DEF ChannelInv
  <2>7. \A d \in Registered' \cup canceled : reply[d] # << >> => pc'[d] = "waiting"
    <3> SUFFICES ASSUME NEW d \in Registered' \cup canceled, reply[d] # << >>
                 PROVE  pc'[d] = "waiting"
      OBVIOUS
    <3>1. d # c /\ d \in Registered \cup canceled
      BY <1>2, <2>3
    <3>2. d \in Call /\ pc[d] = "waiting"
      BY <1>1, <1>5, <3>1 DEF ChannelInv, RsmInv, TypesInv, Registered
    <3> QED
      BY <1>3, <3>1, <3>2
  <2>8. \A k \in DOMAIN submitCh' : Unanswered(k)' =>
            pc'[submitCh'[k]] = "waiting" /\ reply[submitCh'[k]] = << >>
    BY <1>1, <1>2, <1>3, <1>4, <1>5, <1>6, <2>2 DEF ChannelInv, Unanswered
  <2>9. \A d \in Call : pc'[d] = "OK" => result[d] = d
    BY <1>1, <1>3 DEF ChannelInv
  <2> QED
    BY <1>1, <2>4, <2>5, <2>6, <2>7, <2>8, <2>9 DEF ChannelInv
<1>7. CASE ~isLeader
  <2>1. submitCh' = submitCh /\ Registered' = Registered
    BY <1>7 DEF SubmitStart, Registered
  <2>2. \A d \in Call : pc'[d] \in {"idle", "starting"} =>
            reply[d] = << >> /\ d \notin Registered /\ d \notin canceled
    BY <1>1, <1>3 DEF ChannelInv
  <2>3. \A d \in Registered \cup canceled : reply[d] # << >> => pc'[d] = "waiting"
    BY <1>1, <1>2, <1>3 DEF ChannelInv, RsmInv, TypesInv, Registered
  <2>4. \A k \in DOMAIN submitCh : Unanswered(k)' =>
            pc'[submitCh[k]] = "waiting" /\ reply[submitCh[k]] = << >>
    BY <1>1, <1>3, <1>4, <1>5 DEF ChannelInv, Unanswered
  <2>5. \A d \in Call : pc'[d] = "OK" => result[d] = d
    BY <1>1, <1>3 DEF ChannelInv
  <2> QED
    BY <1>1, <2>1, <2>2, <2>3, <2>4, <2>5 DEF ChannelInv
<1> QED
  BY <1>6, <1>7

LEMMA SubmitReturnChannels ==
    ASSUME RsmInv, NEW c \in Call, SubmitReturn(c)
    PROVE  ChannelInv'
<1>1. /\ ChannelInv /\ pc[c] = "waiting" /\ reply[c] # << >>
      /\ pc' = [pc EXCEPT ![c] = IF Head(reply[c]) = None THEN "ErrWrongLeader"
                                 ELSE "OK"]
      /\ reply' = [reply EXCEPT ![c] = Tail(reply[c])]
      /\ result' = [result EXCEPT ![c] = Head(reply[c])]
      /\ UNCHANGED <<submitCh, canceled, Executed, mu, commit>>
  BY ExecutedKept DEF SubmitReturn, RsmInv, peerVars, rsmVars
<1>2. /\ reply \in [Call -> Seq(Operation \cup {None})]
      /\ result \in [Call -> Operation \cup {None}]
      /\ pc \in [Call -> {"idle", "starting", "waiting", "OK", "ErrWrongLeader"}]
      /\ canceled \subseteq Call
      /\ \A k \in DOMAIN submitCh : submitCh[k] \in Call
  BY DEF RsmInv, TypesInv
<1>3. reply[c] = <<None>> \/ reply[c] = <<c>>
  BY <1>1 DEF ChannelInv
<1>4. Tail(reply[c]) = << >> /\ Head(reply[c]) \in {None, c}
  <2>1. \A d : Tail(<<d>>) = << >> /\ Head(<<d>>) = d
    OBVIOUS
  <2> QED
    BY <1>3, <2>1
<1>5. /\ reply'[c] = << >>
      /\ pc'[c] \in {"OK", "ErrWrongLeader"}
      /\ pc'[c] = "OK" => result'[c] = c
      /\ \A d \in Call : d # c => /\ pc'[d] = pc[d]
                                  /\ reply'[d] = reply[d]
                                  /\ result'[d] = result[d]
  BY <1>1, <1>2, <1>4
<1>6. Registered' = Registered /\ Registered \subseteq Call
  BY <1>1, <1>2 DEF Registered
<1>7. \A k \in DOMAIN submitCh : Unanswered(k) => submitCh[k] # c
  BY <1>1 DEF ChannelInv
<1>8. \A k : Unanswered(k)' => Unanswered(k)
  BY <1>1 DEF Unanswered
<1>9. \A d \in Call : reply'[d] \in {<< >>, <<None>>, <<d>>}
  BY <1>1, <1>5 DEF ChannelInv
<1>10. \A d \in Call : pc'[d] \in {"idle", "starting"} =>
           reply'[d] = << >> /\ d \notin Registered /\ d \notin canceled
  BY <1>1, <1>5 DEF ChannelInv
<1>11. \A d \in Registered \cup canceled : reply'[d] # << >> => pc'[d] = "waiting"
  BY <1>1, <1>2, <1>5, <1>6 DEF ChannelInv
<1>12. \A k \in DOMAIN submitCh : Unanswered(k)' =>
           pc'[submitCh[k]] = "waiting" /\ reply'[submitCh[k]] = << >>
  BY <1>1, <1>2, <1>5, <1>7, <1>8 DEF ChannelInv
<1>13. \A d \in Call : pc'[d] = "OK" => result'[d] = d
  BY <1>1, <1>5 DEF ChannelInv
<1> QED
  BY <1>1, <1>6, <1>9, <1>10, <1>11, <1>12, <1>13 DEF ChannelInv

LEMMA AnswerChannels ==
    ASSUME RsmInv, Answer
    PROVE  ChannelInv'
<1> DEFINE i == commit.index
           c == submitCh[i]
<1>1. /\ ChannelInv /\ mu = ReaderThread /\ mu' = None /\ reply[c] = << >>
      /\ reply' = [reply EXCEPT ![c] = commit.operations]
      /\ UNCHANGED <<submitCh, canceled, Executed, pc, result>>
  BY ExecutedKept DEF Answer, RsmInv
<1>2. /\ reply \in [Call -> Seq(Operation \cup {None})]
      /\ canceled \subseteq Call
      /\ \A k \in DOMAIN submitCh : submitCh[k] \in Call
  BY DEF RsmInv, TypesInv
<1>3. /\ i \in DOMAIN submitCh /\ i = Executed
      /\ Carries(commit) /\ ~commit.snapshot /\ log[i] # Foreign
  BY <1>1 DEF RsmInv, MutexInv, HandsOver
<1>4. commit.operations = <<c>>
  <2>1. commit.operations = <<log[i]>>
    BY <1>3 DEF Carries
  <2>2. i \in DOMAIN log
    BY <1>3, Operations DEF RsmInv, TypesInv
  <2>3. log[i] = given[i] /\ submitCh[i] = given[i]
    BY <1>3, <2>2 DEF RsmInv, PromiseInv
  <2> QED
    BY <2>1, <2>3
<1>5. pc[c] = "waiting" /\ c \in Call /\ c \in Registered
  BY <1>1, <1>2, <1>3 DEF ChannelInv, Unanswered, Registered
<1>6. \A k \in DOMAIN submitCh : Unanswered(k)' => Unanswered(k) /\ submitCh[k] # c
  <2>1. i \in Nat
    BY <1>3, ExecutedNat DEF RsmInv
  <2>2. \A k : Unanswered(k)' => k > Executed
    BY <1>1, OperationNames DEF Unanswered
  <2>3. \A k \in DOMAIN submitCh : Unanswered(k)' => Unanswered(k) /\ k # i
    BY <1>3, <2>1, <2>2 DEF Unanswered
  <2> QED
    BY <1>1, <1>3, <2>3 DEF ChannelInv
<1>7. /\ reply'[c] = <<c>>
      /\ \A d \in Call : d # c => reply'[d] = reply[d]
  BY <1>1, <1>2, <1>4, <1>5
<1> HIDE DEF c, i
<1>8. Registered' = Registered /\ Registered \subseteq Call
  BY <1>1, <1>2 DEF Registered
<1>9. \A d \in Call : reply'[d] \in {<< >>, <<None>>, <<d>>}
  BY <1>1, <1>7 DEF ChannelInv
<1>10. \A d \in Call : pc[d] \in {"idle", "starting"} =>
           reply'[d] = << >> /\ d \notin Registered /\ d \notin canceled
  BY <1>1, <1>5, <1>7 DEF ChannelInv
<1>11. \A d \in Registered \cup canceled : reply'[d] # << >> => pc[d] = "waiting"
  BY <1>1, <1>2, <1>5, <1>7, <1>8 DEF ChannelInv
<1>12. \A k \in DOMAIN submitCh : Unanswered(k)' =>
           pc[submitCh[k]] = "waiting" /\ reply'[submitCh[k]] = << >>
  BY <1>1, <1>2, <1>6, <1>7 DEF ChannelInv
<1> QED
  BY <1>1, <1>8, <1>9, <1>10, <1>11, <1>12 DEF ChannelInv

LEMMA CancelChannels ==
    ASSUME RsmInv, NEW c \in Call, Cancel(c)
    PROVE  ChannelInv'
<1>1. /\ ChannelInv /\ c \in canceled /\ reply[c] = << >>
      /\ reply' = [reply EXCEPT ![c] = <<None>>]
      /\ canceled' = canceled \ {c}
      /\ UNCHANGED <<submitCh, Executed, mu, commit, pc, result>>
  BY ExecutedKept DEF Cancel, RsmInv
<1>2. /\ reply \in [Call -> Seq(Operation \cup {None})]
      /\ canceled \subseteq Call
      /\ \A k \in DOMAIN submitCh : submitCh[k] \in Call
  BY DEF RsmInv, TypesInv
<1>3. c \notin Registered /\ pc[c] \notin {"idle", "starting"}
  BY <1>1 DEF ChannelInv
<1>4. /\ reply'[c] = <<None>>
      /\ \A d \in Call : d # c => reply'[d] = reply[d]
  BY <1>1, <1>2
<1>5. Registered' = Registered /\ Registered \subseteq Call
  BY <1>1, <1>2 DEF Registered
<1>6. \A k \in DOMAIN submitCh : submitCh[k] # c
  BY <1>3 DEF Registered
<1>7. \A k : Unanswered(k)' => Unanswered(k)
  BY <1>1 DEF Unanswered
<1>8. \A d \in Call : reply'[d] \in {<< >>, <<None>>, <<d>>}
  BY <1>1, <1>4 DEF ChannelInv
<1>9. \A d \in Call : pc[d] \in {"idle", "starting"} =>
          reply'[d] = << >> /\ d \notin Registered /\ d \notin canceled'
  BY <1>1, <1>3, <1>4 DEF ChannelInv
<1>10. \A d \in Registered \cup canceled' : reply'[d] # << >> => pc[d] = "waiting"
  BY <1>1, <1>2, <1>3, <1>4, <1>5 DEF ChannelInv
<1>11. \A k \in DOMAIN submitCh : Unanswered(k)' =>
           pc[submitCh[k]] = "waiting" /\ reply'[submitCh[k]] = << >>
  BY <1>1, <1>2, <1>4, <1>6, <1>7 DEF ChannelInv
<1> QED
  BY <1>1, <1>5, <1>8, <1>9, <1>10, <1>11 DEF ChannelInv

LEMMA CollectChannelsEmpties ==
    ASSUME RsmInv, CollectChannels
    PROVE  ChannelInv'
<1>1. /\ ChannelInv /\ submitCh' = << >> /\ canceled' = Registered
      /\ UNCHANGED <<pc, reply, result>>
  BY DEF CollectChannels, RsmInv, callVars
<1>2. DOMAIN submitCh' = {} /\ Registered' = {}
  BY <1>1 DEF Registered
<1> QED
  BY <1>1, <1>2 DEF ChannelInv

LEMMA NextChannels ==
    ASSUME RsmInv, TypesInv', [Next]_vars
    PROVE  ChannelInv'
<1>1. ChannelInv
  BY DEF RsmInv
<1>2. CASE UNCHANGED <<submitCh, canceled, pc, reply, result, mu, commit, machine>>
  BY <1>1, <1>2, QuietChannels, ExecutedKept DEF Unanswered
<1>3. CASE UNCHANGED vars
  BY <1>2, <1>3 DEF vars, rsmVars, callVars
<1>4. CASE Elected \/ Deposed \/ SendApplyMsg
  BY <1>2, <1>4 DEF Elected, Deposed, SendApplyMsg, rsmVars, callVars
<1>5. ASSUME NEW n, NEW op, \/ Overwritten(n, op) \/ ApplyCommits(n)
                            \/ InstallSnapshot(n, op)
      PROVE  ChannelInv'
  BY <1>2, <1>5 DEF Overwritten, ApplyCommits, InstallSnapshot, rsmVars, callVars
<1>6. ASSUME NEW c \in Call, SubmitLock(c) PROVE ChannelInv'
  <2>1. /\ pc[c] = "idle" /\ mu = None /\ mu' = c
        /\ pc' = [pc EXCEPT ![c] = "starting"]
        /\ UNCHANGED <<submitCh, canceled, reply, result, commit, Executed>>
    BY <1>6, ExecutedKept DEF SubmitLock
  <2>2. \A k : Unanswered(k)' => Unanswered(k)
    BY <2>1, OperationNames DEF Unanswered
  <2>3. \A d \in Call : pc'[d] = IF d = c THEN "starting" ELSE pc[d]
    BY <2>1 DEF RsmInv, TypesInv
  <2>4. /\ Registered' = Registered /\ Registered \subseteq Call
        /\ canceled \subseteq Call
        /\ \A k \in DOMAIN submitCh : submitCh[k] \in Call
    BY <2>1 DEF Registered, RsmInv, TypesInv
  <2>5. \A k \in DOMAIN submitCh : Unanswered(k)' =>
            pc'[submitCh[k]] = "waiting" /\ reply[submitCh[k]] = << >>
    BY <1>1, <2>1, <2>2, <2>3, <2>4 DEF ChannelInv
  <2>6. \A d \in Registered \cup canceled : reply[d] # << >> => pc'[d] = "waiting"
    BY <1>1, <2>1, <2>3, <2>4 DEF ChannelInv
  <2>7. \A d \in Call : /\ pc'[d] \in {"idle", "starting"} =>
                               /\ reply[d] = << >>
                               /\ d \notin Registered /\ d \notin canceled
                        /\ pc'[d] = "OK" => result[d] = d
    BY <1>1, <2>1, <2>3 DEF ChannelInv
  <2> QED
    BY <1>1, <2>1, <2>4, <2>5, <2>6, <2>7 DEF ChannelInv
<1>7. ASSUME NEW c \in Call, SubmitStart(c) \/ SubmitReturn(c) \/ Cancel(c)
      PROVE  ChannelInv'
  BY <1>7, SubmitStartChannels, SubmitReturnChannels, CancelChannels
<1>8. CASE Receive
  <2>1. mu # ReaderThread
    BY <1>8 DEF Receive, RsmInv, MutexInv, HandsOver
  <2>2. \A k : Unanswered(k)' => Unanswered(k)
    BY <1>8, <2>1, ExecutedKept DEF Receive, Unanswered
  <2> QED
    BY <1>1, <1>8, <2>2, QuietChannels DEF Receive, callVars
<1>9. CASE ReadCommand \/ ReadSnapshot
  <2>1. /\ Follows(commit, Executed) /\ commit.index \in Nat
        /\ Executed \in Nat
    BY <1>9, NextMessage, ExecutedNat DEF ReadCommand, ReadSnapshot, RsmInv
  <2>2. Executed' = commit.index
    BY <1>9, ReadDelivers
  <2>3. /\ UNCHANGED <<submitCh, canceled, pc, reply, result>>
        /\ mu' = ReaderThread =>
               commit' = commit /\ commit.index > Executed
    <3>1. CASE ReadCommand
      BY <2>1, <3>1, OperationNames DEF ReadCommand, callVars, Follows
    <3>2. CASE ReadSnapshot
      BY <3>2, OperationNames DEF ReadSnapshot, callVars
    <3> QED
      BY <1>9, <3>1, <3>2
  <2>4. ASSUME NEW k \in DOMAIN submitCh, Unanswered(k)' PROVE Unanswered(k)
    <3>1. k \in Nat
      BY DEF RsmInv, PromiseInv
    <3>2. commit.index >= Executed
      BY <2>1 DEF Follows
    <3>3. k > Executed
      BY <2>1, <2>2, <2>3, <2>4, <3>1, <3>2 DEF Unanswered
    <3> QED
      BY <3>3 DEF Unanswered
  <2> QED
    BY <1>1, <2>3, <2>4, QuietChannels
<1>10. CASE Answer
  BY <1>10, AnswerChannels
<1>11. CASE SeeNoLeader
  BY <1>2, <1>11 DEF SeeNoLeader, callVars
<1>12. CASE CollectChannels
  BY <1>12, CollectChannelsEmpties
<1>13. CASE PersistLock \/ PersistMeasure \/ PersistSnapshot
  <2>1. /\ UNCHANGED <<submitCh, canceled, pc, reply, result, commit, Executed>>
        /\ mu' \in {mu, None, PersistThread}
    BY <1>13, ExecutedKept DEF PersistLock, PersistMeasure, PersistSnapshot, callVars
  <2>2. \A k : Unanswered(k)' => Unanswered(k)
    BY <2>1, OperationNames DEF Unanswered
  <2> QED
    BY <1>1, <2>1, <2>2, QuietChannels
<1> QED
  BY <1>3, <1>4, <1>5, <1>6, <1>7, <1>8, <1>9, <1>10, <1>11, <1>12, <1>13 DEF Next

----------------------------------------------------------------------------
(* The theorems.                                                           *)

LEMMA InitRsmInv == Init => RsmInv
<1> SUFFICES ASSUME Init PROVE RsmInv
  OBVIOUS
<1> USE DEF Init, Boot
<1>1. BootEntries \in Nat
  BY RsmBoundsAssumption
<1>2. log \in Seq(Operation) /\ Len(log) = BootEntries
  <2>1. log = [k \in 1 .. BootEntries |-> Foreign]
    OBVIOUS
  <2>2. Foreign \in Operation
    BY DEF Operation
  <2> QED
    BY <1>1, <2>1, <2>2, IsASeq
<1>3. DOMAIN << >> = {} /\ Len(<< >>) = 0
  OBVIOUS
<1>4. /\ base \in Nat /\ base <= Len(log) /\ lastApplied = base
      /\ machine \in Seq(Operation) /\ Executed = base
      /\ \A k \in 1 .. base : machine[k] = log[k]
  <2>1. base \in Nat /\ base <= Len(log)
    BY <1>1, <1>2
  <2>2. machine = SubSeq(log, 1, base) /\ lastApplied = base
    OBVIOUS
  <2> QED
    BY ONLY <1>2, <2>1, <2>2 DEF Executed
<1>5. TypesInv
  <2>1. << >> \in Seq(ApplyMsg) /\ << >> \in Seq(Operation \cup {None})
    BY EmptySeq
  <2>2. submitCh \in [DOMAIN submitCh -> Call] /\ given \in [DOMAIN given -> Call]
    BY <1>3
  <2>3. /\ pc \in [Call -> {"idle", "starting", "waiting", "OK", "ErrWrongLeader"}]
        /\ reply \in [Call -> Seq(Operation \cup {None})]
        /\ result \in [Call -> Operation \cup {None}]
    BY <2>1
  <2>4. /\ sending = << >> /\ applyCh = << >> /\ commitIndex = 0
        /\ isLeader \in BOOLEAN /\ panicked \in BOOLEAN /\ commit = None
        /\ mu = None /\ checker = "asleep" /\ canceled = {}
        /\ persister = "asleep"
    OBVIOUS
  <2> QED
    BY ONLY <1>2, <1>4, <2>1, <2>2, <2>3, <2>4 DEF TypesInv
<1>6. DeliveryInv
  <2>1. Queue = << >>
    BY DEF Queue, Unread
  <2> QED
    BY ONLY <1>3, <1>4, <2>1 DEF DeliveryInv, Chain
<1>7. CountInv
  BY DEF CountInv
<1>8. MutexInv
  BY OperationNames DEF MutexInv, HandsOver
<1>9. PromiseInv
  <2>1. \A k \in DOMAIN log : log[k] = Foreign
    OBVIOUS
  <2> QED
    BY <1>3, <2>1 DEF PromiseInv
<1>10. ChannelInv
  BY <1>3 DEF ChannelInv, Registered
<1> QED
  BY <1>5, <1>6, <1>7, <1>8, <1>9, <1>10 DEF RsmInv

(***************************************************************************)
(* The inductive invariant of Submit, reader, leaderCheck and              *)
(* persistCheck: the messages under way lead from what the reader has      *)
(* executed to what the peer has applied, one goroutine has rsm.mu, an     *)
(* index is promised to one call, and the channel of a call still to be    *)
(* answered is empty.                                                      *)
(***************************************************************************)
THEOREM RsmInvariance == Spec => []RsmInv
<1>1. RsmInv /\ [Next]_vars => RsmInv'
  <2> SUFFICES ASSUME RsmInv, [Next]_vars PROVE RsmInv'
    OBVIOUS
  <2>1. TypesInv'
    BY NextTypes
  <2> QED
    BY <2>1, NextDelivery, NextCount, NextMutex, NextPromises, NextChannels
       DEF RsmInv
<1> QED
  BY <1>1, InitRsmInv, PTL DEF Spec

(***************************************************************************)
(* Every variable keeps its type, for any number of calls and any capacity *)
(* of the channel of Make; persistCheck never moves the snapshot past what *)
(* has been applied.                                                       *)
(***************************************************************************)
THEOREM RsmTypeCorrect == Spec => []TypeOK
<1>1. RsmInv => TypeOK
  <2> SUFFICES ASSUME RsmInv PROVE TypeOK
    OBVIOUS
  <2>1. base \in 0 .. Len(log) /\ lastApplied \in base .. Len(log)
    <3>1. Len(log) \in Nat
      BY LenProperties DEF RsmInv, TypesInv
    <3> QED
      BY <3>1 DEF RsmInv, TypesInv
  <2>2. \A m \in ToSet(sending) \cup ToSet(applyCh) \cup ({commit} \ {None}) :
            m \in ApplyMsg
    <3>1. ASSUME NEW s \in Seq(ApplyMsg), NEW m \in ToSet(s) PROVE m \in ApplyMsg
      BY <3>1 DEF ToSet
    <3> QED
      BY <3>1 DEF RsmInv, TypesInv
  <2>3. reply \in [Call -> UNION {[1 .. n -> Operation \cup {None}] : n \in 0 .. 1}]
    <3> DEFINE R == UNION {[1 .. n -> Operation \cup {None}] : n \in 0 .. 1}
    <3>1. ASSUME NEW c \in Call PROVE reply[c] \in R
      <4>1. reply[c] \in Seq(Operation \cup {None}) /\ Len(reply[c]) \in 0 .. 1
        BY DEF RsmInv, TypesInv, ChannelInv
      <4>2. reply[c] \in [1 .. Len(reply[c]) -> Operation \cup {None}]
        BY <4>1, LenProperties
      <4> QED
        BY <4>1, <4>2
    <3> HIDE DEF R
    <3>2. reply \in [Call -> R]
      BY <3>1 DEF RsmInv, TypesInv
    <3> QED
      BY <3>2 DEF R
  <2> QED
    BY <2>1, <2>2, <2>3 DEF RsmInv, TypesInv, TypeOK
<1> QED
  BY <1>1, RsmInvariance, PTL

(***************************************************************************)
(* The state machine has executed a beginning of what the peer has         *)
(* applied, each operation once and in order, and all of it when nothing   *)
(* is on its way, from whatever snapshot MakeRSM restores at boot and      *)
(* however commands and snapshots interleave on applyCh; rsm.commitIndex   *)
(* is right from the first message on, and whenever a snapshot is taken.   *)
(***************************************************************************)
THEOREM OperationsRunInOrder == Spec => []ExecutedInOrder
<1>1. RsmInv => ExecutedInOrder
  <2> SUFFICES ASSUME RsmInv PROVE ExecutedInOrder
    OBVIOUS
  <2>1. /\ log \in Seq(Operation) /\ machine \in Seq(Operation)
        /\ Len(machine) = Executed /\ Executed \in Nat
        /\ Executed <= lastApplied /\ lastApplied \in Nat
        /\ lastApplied <= Len(log) /\ Len(log) \in Nat
        /\ \A k \in 1 .. Executed : machine[k] = log[k]
    BY ExecutedNat DEF RsmInv, TypesInv, DeliveryInv, Executed
  <2> DEFINE applied == SubSeq(log, 1, lastApplied)
  <2>2. /\ applied \in Seq(Operation) /\ Len(applied) = lastApplied
        /\ \A k \in 1 .. lastApplied : applied[k] = log[k]
    BY <2>1
  <2> HIDE DEF applied
  <2>3. \A k \in 1 .. Executed : machine[k] = applied[k]
    BY <2>1, <2>2
  <2>4. SubSeq(machine, 1, Executed) = SubSeq(applied, 1, Executed)
    BY <2>1, <2>2, <2>3, PrefixKept
  <2>5. IsPrefix(machine, applied)
    BY <2>1, <2>2, <2>4 DEF IsPrefix
  <2>6. Queue = << >> => Executed = lastApplied
    BY DEF RsmInv, DeliveryInv, Chain
  <2>7. CountInv
    BY DEF RsmInv
  <2> QED
    BY <2>1, <2>5, <2>6, <2>7 DEF ExecutedInOrder, CountInv, applied
<1> QED
  BY <1>1, RsmInvariance, PTL

(***************************************************************************)
(* A call that returns OK returns the result of its own operation, though  *)
(* channels are registered by index, never unregistered one by one, and    *)
(* the entry of an index may be overwritten by another leader's.           *)
(***************************************************************************)
THEOREM CallsGetTheirOwnResult == Spec => []OwnResult
<1>1. RsmInv => OwnResult
  BY DEF RsmInv, ChannelInv, OwnResult
<1> QED
  BY <1>1, RsmInvariance, PTL

(***************************************************************************)
(* Neither the reader, which holds rsm.mu, nor leaderCheck ever waits for  *)
(* room in the channel of a call that will not read it.                    *)
(***************************************************************************)
THEOREM SendersNeverStuck == Spec => []NoSenderStuck
<1>1. RsmInv => NoSenderStuck
  BY DEF RsmInv, ChannelInv, MutexInv, HandsOver, Unanswered, NoSenderStuck
<1> QED
  BY <1>1, RsmInvariance, PTL
==============================================================================
