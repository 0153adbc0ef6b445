------------------------ MODULE CommandPipelineProofs ------------------------
(***************************************************************************)
(* The properties of a run from submission to delivered result, for any    *)
(* commands, capacities and limits and any number of faults and stops.     *)
(***************************************************************************)
EXTENDS CommandPipeline, SequenceTheorems, FiniteSetTheorems, TLAPS

-----------------------------------------------------------------------------
(* What a step of a pipeline does to the sequence that its queues and      *)
(* slots form, read from the oldest command to the newest.                 *)

\* The first element of a queue moves into the empty slot before it.
LEMMA HeadMoves ==
  ASSUME NEW S, NEW q \in Seq(S), q # <<>>
  PROVE  /\ Head(q) \in S /\ <<Head(q)>> \in Seq(S) /\ Tail(q) \in Seq(S)
         /\ <<Head(q)>> \o Tail(q) = q
         /\ \A a \in Seq(S) : (a \o <<Head(q)>>) \o Tail(q) = (a \o <<>>) \o q
  <1>1. Head(q) \in S /\ <<Head(q)>> \in Seq(S) /\ Tail(q) \in Seq(S)
    BY HeadTailProperties
  <1>2. <<Head(q)>> \o Tail(q) = q
    <2>1. /\ Len(<<Head(q)>> \o Tail(q)) = Len(q) /\ <<Head(q)>> \o Tail(q) \in Seq(S)
          /\ \A i \in 1..Len(q) : (<<Head(q)>> \o Tail(q))[i] = q[i]
      BY <1>1, HeadTailProperties, ConcatProperties
    <2>. QED  BY <2>1, SeqEqual
  <1>3. ASSUME NEW a \in Seq(S)
        PROVE  (a \o <<Head(q)>>) \o Tail(q) = (a \o <<>>) \o q
    BY <1>1, <1>2, ConcatAssociative, ConcatEmptySeq
  <1>. QED  BY <1>1, <1>2, <1>3

\* The contents of a slot move to the end of the queue before it.
LEMMA SlotMoves ==
  ASSUME NEW S, NEW a \in Seq(S), NEW q \in Seq(S), NEW slot \in Seq(S)
  PROVE  /\ (a \o q) \o slot = (a \o (q \o slot)) \o <<>>
         /\ q \o slot = (q \o slot) \o <<>>
         /\ (a \o <<>>) \o slot = (a \o slot) \o <<>>
         /\ q \o slot \in Seq(S)
  <1>1. q \o slot \in Seq(S) /\ a \o (q \o slot) \in Seq(S) /\ a \o slot \in Seq(S)
    BY ConcatProperties
  <1>2. (a \o q) \o slot = a \o (q \o slot) /\ a \o <<>> = a
    BY ConcatAssociative, ConcatEmptySeq
  <1>. QED  BY <1>1, <1>2, ConcatEmptySeq

\* A slot that is not empty holds one command.
LEMMA SlotHoldsOne ==
  ASSUME NEW S, NEW slot \in Seq(S), slot # <<>>, Len(slot) <= 1
  PROVE  Len(slot) = 1 /\ slot[1] \in S
  <1>1. Len(slot) \in Nat /\ Len(slot) # 0
    BY EmptySeq
  <1>2. \A n \in Nat : n # 0 /\ n <= 1 => n = 1
    OBVIOUS
  <1>3. Len(slot) = 1
    BY <1>1, <1>2
  <1>. QED  BY <1>3, ElementOfSeq

\* The first element of the front queue leaves.
LEMMA FirstLeaves ==
  ASSUME NEW S, NEW q \in Seq(S), NEW b \in Seq(S), q # <<>>
  PROVE  /\ Tail(q) \in Seq(S) /\ Tail(q) \o b \in Seq(S) /\ q \o b \in Seq(S)
         /\ Len(Tail(q) \o b) \in Nat /\ Len(q \o b) = Len(Tail(q) \o b) + 1
         /\ (q \o b)[1] = Head(q)
         /\ \A i \in 1..Len(Tail(q) \o b) : (Tail(q) \o b)[i] = (q \o b)[i + 1]
  <1>. DEFINE t == Tail(q)
  <1>1. t \in Seq(S) /\ Len(q) = Len(t) + 1 /\ Len(t) \in Nat /\ Head(q) = q[1] /\ \A i \in 1..Len(t) : t[i] = q[i + 1]
    BY HeadTailProperties
  <1>. HIDE DEF t
  <1>2. /\ t \o b \in Seq(S) /\ Len(t \o b) = Len(t) + Len(b) /\ Len(b) \in Nat
        /\ \A i \in 1..(Len(t) + Len(b)) : (t \o b)[i] = IF i <= Len(t) THEN t[i] ELSE b[i - Len(t)]
    BY <1>1, ConcatProperties
  <1>3. /\ q \o b \in Seq(S) /\ Len(q \o b) = Len(q) + Len(b)
        /\ \A i \in 1..(Len(q) + Len(b)) : (q \o b)[i] = IF i <= Len(q) THEN q[i] ELSE b[i - Len(q)]
    BY <1>1, ConcatProperties
  <1>4. (q \o b)[1] = Head(q)
    BY <1>1, <1>2, <1>3
  <1>5. ASSUME NEW i \in 1..Len(t \o b) PROVE (t \o b)[i] = (q \o b)[i + 1]
    <2>1. i \in 1..(Len(t) + Len(b)) /\ i + 1 \in 1..(Len(q) + Len(b)) /\ (i <= Len(t) <=> i + 1 <= Len(q))
          /\ i - Len(t) = i + 1 - Len(q)
      BY <1>1, <1>2
    <2>. QED  BY <1>1, <1>2, <1>3, <2>1
  <1>6. Len(t \o b) \in Nat /\ Len(q \o b) = Len(t \o b) + 1
    BY <1>1, <1>2, <1>3
  <1>. QED  BY <1>1, <1>2, <1>3, <1>4, <1>5, <1>6 DEF t

\* An element appended to the last queue is appended to the whole.
LEMMA LastArrives ==
  ASSUME NEW S, NEW a \in Seq(S), NEW q \in Seq(S), NEW e \in S
  PROVE  /\ a \o Append(q, e) = Append(a \o q, e)
         /\ (a \o q) \o <<e>> = Append(a \o q, e)
         /\ Append(q, e) = q \o <<e>>
         /\ a \o q \in Seq(S)
  <1>1. a \o q \in Seq(S) /\ <<e>> \in Seq(S)
    BY ConcatProperties
  <1>2. Append(q, e) = q \o <<e>> /\ Append(a \o q, e) = (a \o q) \o <<e>>
    BY <1>1, AppendIsConcat
  <1>3. (a \o q) \o <<e>> = a \o (q \o <<e>>)
    BY <1>1, ConcatAssociative
  <1>. QED  BY <1>1, <1>2, <1>3

-----------------------------------------------------------------------------
(* The inductive invariant.                                                *)

\* The command whose frame is on its way to the disk, and all that are staged.
Held == IF pending = <<>> \/ pendingReady THEN <<>> ELSE <<CommandOf(pending[1])>>
Staged == Held \o ingress

\* What is between the journal and completion: results, then commands.
Ready == IF pendingReady THEN pending ELSE <<>>
PathResults == results \o pendingResult
PathCommands == (inProgress \o matching) \o Ready
Matched == committed - Len(PathCommands)
Done == Matched - Len(PathResults)

\* What is between completion and the consumers.
Private == privateResults \o pendingPrivate
Public == publicTrades \o pendingPublic

\* What the n-th frame of the journal stands for.
Replay(n) == SubSeq(journal, 1, n)
MessageOf(n) == [key |-> journal[n].key, body |-> journal[n].body, sequence |-> n]
ResultOf(n) == [key |-> journal[n].key, sequence |-> n, applied |-> Replay(n)]

Stopped == state \in {"FAIL_STOPPED", "UNAVAILABLE"}

\* The kinds of the variables, group by group.
FileTypes == journal \in Seq(Commands) /\ synced \in Nat /\ torn \in BOOLEAN
LifecycleTypes ==
  /\ catalog \in {"OPEN", "PAUSED", "CAPACITY_REACHED", "FAIL_STOPPED", "RECOVERY_FAILED"}
  /\ run \in {"NONE", "OWNED", "INSTALLED"}
  /\ state \in {"UNAVAILABLE", "READY", "PAUSED", "CAPACITY_REACHED", "FAIL_STOPPED", "RECOVERY_FAILED"}
  /\ failure \in {"NONE", "MATCHING_THREW"}
OwnerTypes ==
  /\ DOMAIN records \subseteq Keys /\ records \in [DOMAIN records -> Records]
  /\ admissionOpen \in BOOLEAN /\ committed \in Nat /\ recovered \in Nat /\ applied \in Seq(Commands)
Bounds == synced <= Len(journal) /\ committed <= Len(journal) /\ recovered <= committed
SequencerTypes ==
  /\ ingress \in Seq(Commands) /\ Len(ingress) <= IngressCapacity
  /\ pending \in Seq(Messages) /\ Len(pending) <= 1 /\ pendingReady \in BOOLEAN
  /\ appendFailure \in {"NONE", "INVALID_COMMAND", "CAPACITY_REACHED", "IO_FAILURE", "RECOVERY_REQUIRED"}
MatcherTypes ==
  /\ matching \in Seq(Messages) /\ Len(matching) <= MatchingCapacity
  /\ inProgress \in Seq(Messages) /\ Len(inProgress) <= 1
  /\ pendingResult \in Seq(Results) /\ Len(pendingResult) <= 1
  /\ results \in Seq(Results) /\ Len(results) <= ResultCapacity
HandoffTypes ==
  /\ pendingPrivate \in Seq(Results) /\ Len(pendingPrivate) <= 1
  /\ pendingPublic \in Seq(Results) /\ Len(pendingPublic) <= 1
  /\ privateResults \in Seq(Results) /\ Len(privateResults) <= PrivateCapacity
  /\ publicTrades \in Seq(Results) /\ Len(publicTrades) <= PublicCapacity
CapacityTypes == acceptedCommands \in Nat /\ acceptedBytes \in Nat /\ capacityTransitionPending \in BOOLEAN
DriverTypes ==
  /\ pc \in {"idle", "sequencing", "syncing", "failing", "matching", "dispatching", "returning", "draining"}
  /\ pausing \in BOOLEAN /\ progressed \in BOOLEAN /\ beforeCommands \in Nat
DeliveredTypes == deliveredPrivate \in Seq(Results) /\ deliveredPublic \in Seq(Results)
FaultTypes == faults \in 0..MaxFaults
Types ==
  /\ FileTypes /\ LifecycleTypes /\ OwnerTypes /\ Bounds /\ SequencerTypes /\ MatcherTypes /\ HandoffTypes
  /\ CapacityTypes /\ DriverTypes /\ DeliveredTypes /\ FaultTypes

\* Where the controller can be, and what it then owns.
Control ==
  /\ run = "NONE" => /\ state \in {"UNAVAILABLE", "RECOVERY_FAILED"}
                     /\ records = NoRecords /\ committed = 0 /\ applied = <<>> /\ recovered = 0
  /\ run = "OWNED" => state \in {"READY", "PAUSED"}
  /\ run = "INSTALLED" => state # "RECOVERY_FAILED"
  /\ pc # "idle" => run = "INSTALLED" /\ state = "READY"
  /\ pc = "idle" => ~pausing
  /\ pc = "draining" => pausing
  /\ pausing => ~capacityTransitionPending
  /\ state = "PAUSED" => ~capacityTransitionPending
  /\ admissionOpen => state = "READY" /\ ~pausing /\ ~capacityTransitionPending
  /\ state = "READY" => catalog = "OPEN"

\* What is in the queues and slots at each point of the cycle.
Slots ==
  /\ run # "INSTALLED" =>
       /\ ProcessingDrained /\ ~pendingReady /\ appendFailure = "NONE" /\ ~HandoffQueued
       /\ acceptedCommands = 0 /\ acceptedBytes = 0 /\ ~capacityTransitionPending
  /\ state \in {"PAUSED", "CAPACITY_REACHED"} => ProcessingDrained
  /\ state = "PAUSED" => ResultHandoffsDrained
  /\ pendingReady => pending # <<>> /\ appendFailure = "NONE"
  /\ pending # <<>> /\ ~pendingReady => pc = "syncing" \/ appendFailure # "NONE"
  /\ pc = "syncing" => pending # <<>> /\ ~pendingReady /\ appendFailure = "NONE"
  /\ appendFailure # "NONE" => pending # <<>> /\ (pc \in {"sequencing", "failing"} \/ Stopped)
  /\ inProgress # <<>> => pendingResult = <<>> /\ (pc = "failing" \/ Stopped)

\* The file holds the committed frames, and at most the one being written.
File ==
  /\ DistinctKeys(journal) /\ Len(journal) <= MaxRunCommands
  /\ \A i \in 1..Len(journal) : journal[i].body \notin PoisonBodies
  /\ CommittedBytes(Len(journal)) <= MaxRunJournalBytes
  /\ run # "NONE" => \/ Len(journal) = committed /\ pc # "syncing"
                     \/ /\ Len(journal) = committed + 1
                        /\ Held = <<journal[committed + 1]>>
                        /\ pc = "syncing" \/ appendFailure = "RECOVERY_REQUIRED"
  /\ Held # <<>> => pending[1].sequence = committed + 1
  /\ run # "NONE" /\ torn => appendFailure = "RECOVERY_REQUIRED"
  /\ run # "NONE" /\ committed > recovered => synced >= committed

\* The index holds the staged and the committed commands, each once.
Index ==
  /\ IsFiniteSet(DOMAIN records) /\ Cardinality(DOMAIN records) = committed + Len(Staged)
  /\ Cardinality(DOMAIN records) <= MaxRunCommands
  /\ \A i \in 1..Len(Staged) : /\ Staged[i].key \in DOMAIN records
                               /\ records[Staged[i].key].body = Staged[i].body
                               /\ records[Staged[i].key].state = "RESERVED"
  /\ \A i, j \in 1..Len(Staged) : Staged[i].key = Staged[j].key => i = j
  /\ \A i \in 1..committed : /\ journal[i].key \in DOMAIN records
                             /\ records[journal[i].key].body = journal[i].body
                             /\ records[journal[i].key].sequence = i
                             /\ records[journal[i].key].state = IF i <= Done THEN "COMPLETED" ELSE "SEQUENCED"
                             /\ i <= Done => records[journal[i].key].result = Replay(i)
  /\ \A k \in DOMAIN records : \/ \E i \in 1..Len(Staged) : k = Staged[i].key
                               \/ \E i \in 1..committed : k = journal[i].key
  /\ CompletedCount = Done

\* The path holds the committed commands that are not completed, in order.
Path ==
  /\ Done \in Nat
  /\ \A i \in 1..Len(PathResults) : PathResults[i] = ResultOf(Done + i)
  /\ \A i \in 1..Len(PathCommands) : PathCommands[i] = MessageOf(Matched + i)
  /\ applied = Replay(Matched)

\* A consumer was told of a prefix of what is synchronised, ...
ToldFrom(channel) ==
  channel # <<>> => LET m == Last(channel).sequence
                    IN  m \in 1..synced /\ Last(channel).applied = Replay(m)

\* ... which ends before everything that will be delivered to it.
ToldUpTo(channel, n) == channel # <<>> => Last(channel).sequence <= n

PrivateDelivery ==
  /\ ToldFrom(deliveredPrivate)
  /\ recovered <= Done - Len(Private)
  /\ \A i \in 1..Len(Private) : Private[i] = ResultOf(Done - Len(Private) + i)
  /\ run # "NONE" => ToldUpTo(deliveredPrivate, Done - Len(Private))
  /\ \A n \in (recovered + 1)..(Done - Len(Private)) :
       \E i \in 1..Len(deliveredPrivate) : deliveredPrivate[i].sequence = n

PublicDelivery ==
  /\ ToldFrom(deliveredPublic)
  /\ \A i \in 1..Len(Public) : /\ Public[i].sequence \in (recovered + 1)..Done
                               /\ Public[i] = ResultOf(Public[i].sequence)
  /\ \A i, j \in 1..Len(Public) : i < j => Public[i].sequence < Public[j].sequence
  /\ run # "NONE" => ToldUpTo(deliveredPublic, Done)
  /\ \A i \in 1..Len(Public) : ToldUpTo(deliveredPublic, Public[i].sequence - 1)
  /\ \A n \in (recovered + 1)..Done : journal[n].body \in TradingBodies =>
       \/ \E i \in 1..Len(deliveredPublic) : deliveredPublic[i].sequence = n
       \/ \E i \in 1..Len(Public) : Public[i].sequence = n

\* What was appended in this cycle is not accounted for until the sequencer returns.
InCycle == pc \notin {"idle", "draining"}
Sequencing == pc \in {"sequencing", "syncing"}
Since == IF Sequencing THEN beforeCommands ELSE committed

\* Capacity is reserved for everything staged.
Capacity ==
  /\ appendFailure # "CAPACITY_REACHED"
  /\ InCycle => beforeCommands <= committed
  /\ run # "NONE" => CommittedBytes(committed) + Bytes(Staged, Len(Staged)) <= MaxRunJournalBytes
  /\ run = "INSTALLED" /\ state \in {"READY", "PAUSED"} /\ pc # "failing" =>
       /\ acceptedCommands = (committed - Since) + Len(Staged)
       /\ acceptedBytes = (CommittedBytes(committed) - CommittedBytes(Since)) + Bytes(Staged, Len(Staged))

\* A cycle of a pause that has made no progress so far is blocked from the right.
Blocked ==
  /\ pausing /\ ~progressed /\ pc \in {"sequencing", "syncing", "matching", "dispatching", "returning"} =>
       ~ProcessingDrained
  /\ ~progressed /\ pc \in {"matching", "dispatching", "returning"} =>
       IF pending = <<>> THEN ingress = <<>> ELSE matching # <<>>
  /\ ~progressed /\ pc \in {"dispatching", "returning"} =>
       IF pendingResult = <<>> THEN matching = <<>> ELSE results # <<>>
  /\ ~progressed /\ pc = "returning" => results = <<>> \/ HandoffPending

IInv ==
  /\ Types /\ Control /\ Slots /\ File /\ Index /\ Path
  /\ PrivateDelivery /\ PublicDelivery /\ Capacity /\ Blocked

-----------------------------------------------------------------------------
(* Bytes of frames.                                                        *)

\* FrameBytes is a function into the positive numbers.
LEMMA FrameSizeType ==
  ASSUME NEW body \in Bodies
  PROVE  FrameSize(body) \in Nat
  <1>1. FrameBytes \in [Bodies -> Nat \ {0}]
    BY PipelineAssumption
  <1>. QED  BY <1>1 DEF FrameSize

\* The bytes of one frame.
LEMMA FrameCellsOne ==
  ASSUME NEW s \in Seq(Commands), NEW i \in 1..Len(s)
  PROVE  /\ FrameSize(s[i].body) \in Nat
         /\ IsFiniteSet({i} \X (1..FrameSize(s[i].body)))
         /\ Cardinality({i} \X (1..FrameSize(s[i].body))) = FrameSize(s[i].body)
  <1>. DEFINE size == FrameSize(s[i].body)
  <1>1. s[i] \in Commands
    BY ElementOfSeq
  <1>2. s[i].body \in Bodies
    BY <1>1 DEF Commands
  <1>3. size \in Nat
    BY <1>2, FrameSizeType
  <1>. HIDE DEF size
  <1>4. IsFiniteSet(1..size) /\ Cardinality(1..size) = size
    BY <1>3, FS_Interval
  <1>5. IsFiniteSet({i}) /\ Cardinality({i}) = 1
    BY FS_Singleton
  <1>6. IsFiniteSet({i} \X (1..size)) /\ Cardinality({i} \X (1..size)) = 1 * size
    BY <1>4, <1>5, FS_Product, ZenonT(30)
  <1>. QED  BY <1>3, <1>6 DEF size

\* The frames of a prefix take finitely many cells.
LEMMA CellsFinite ==
  ASSUME NEW s \in Seq(Commands), NEW n \in 0..Len(s)
  PROVE  IsFiniteSet(FrameCells(s, n)) /\ Bytes(s, n) \in Nat
  <1>. DEFINE f == [i \in 1..n |-> {i} \X (1..FrameSize(s[i].body))]
              T == {{i} \X (1..FrameSize(s[i].body)) : i \in 1..n}
  <1>1. f \in Surjection(1..n, T)
    BY DEF Surjection
  <1>2. IsFiniteSet(1..n)
    BY FS_Interval
  <1>3. IsFiniteSet(T)
    <2>. HIDE DEF f, T
    <2>. QED  BY <1>1, <1>2, FS_Surjection
  <1>4. \A t \in T : IsFiniteSet(t)
    <2>1. ASSUME NEW i \in 1..n PROVE IsFiniteSet({i} \X (1..FrameSize(s[i].body)))
      <3>1. i \in 1..Len(s)
        OBVIOUS
      <3>. QED  BY <3>1, FrameCellsOne
    <2>. QED  BY <2>1
  <1>5. IsFiniteSet(UNION T)
    <2>. HIDE DEF T
    <2>. QED  BY <1>3, <1>4, FS_UNION
  <1>6. IsFiniteSet(FrameCells(s, n))
    BY <1>5 DEF FrameCells
  <1>. QED  BY <1>6, FS_CardinalityType DEF Bytes

\* No frame, no byte.
LEMMA BytesNone ==
  ASSUME NEW s
  PROVE  Bytes(s, 0) = 0
  <1>1. FrameCells(s, 0) = {}
    BY DEF FrameCells
  <1>. QED  BY <1>1, FS_EmptySet DEF Bytes

\* A frame adds its size.
LEMMA BytesStep ==
  ASSUME NEW s \in Seq(Commands), NEW n \in Nat, n + 1 <= Len(s)
  PROVE  Bytes(s, n + 1) = Bytes(s, n) + FrameSize(s[n + 1].body)
  <1>. DEFINE cell == {n + 1} \X (1..FrameSize(s[n + 1].body))
  <1>1. n \in 0..Len(s) /\ n + 1 \in 1..Len(s)
    OBVIOUS
  <1>2. IsFiniteSet(FrameCells(s, n)) /\ Bytes(s, n) \in Nat
    BY <1>1, CellsFinite
  <1>3. /\ FrameSize(s[n + 1].body) \in Nat /\ IsFiniteSet(cell)
        /\ Cardinality(cell) = FrameSize(s[n + 1].body)
    BY <1>1, FrameCellsOne
  <1>4. FrameCells(s, n + 1) = FrameCells(s, n) \cup cell
    <2>1. 1..(n + 1) = (1..n) \cup {n + 1}
      OBVIOUS
    <2>. QED  BY <2>1 DEF FrameCells
  <1>5. FrameCells(s, n) \cap cell = {}
    <2>1. ASSUME NEW p \in FrameCells(s, n), p \in cell PROVE FALSE
      <3>1. PICK i \in 1..n : p \in {i} \X (1..FrameSize(s[i].body))
        BY DEF FrameCells
      <3>2. p[1] = i /\ p[1] = n + 1
        BY <2>1, <3>1
      <3>. QED  BY <3>2
    <2>. QED  BY <2>1
  <1>. HIDE DEF cell
  <1>6. Cardinality(FrameCells(s, n) \cup cell) = Cardinality(FrameCells(s, n)) + Cardinality(cell) - 0
    BY <1>2, <1>3, <1>5, FS_Union, FS_EmptySet
  <1>7. Bytes(s, n + 1) = Cardinality(FrameCells(s, n) \cup cell) /\ Bytes(s, n) = Cardinality(FrameCells(s, n))
    BY <1>4 DEF Bytes
  <1>. QED  BY <1>2, <1>3, <1>6, <1>7

\* The bytes of the first commands depend on those only.
LEMMA BytesSame ==
  ASSUME NEW s, NEW t, NEW n \in Nat, \A i \in 1..n : s[i] = t[i]
  PROVE  Bytes(s, n) = Bytes(t, n)
  <1>1. FrameCells(s, n) = FrameCells(t, n)
    BY DEF FrameCells
  <1>. QED  BY <1>1 DEF Bytes

\* A longer prefix takes no fewer bytes.
LEMMA BytesMonotone ==
  ASSUME NEW s \in Seq(Commands), NEW n \in 0..Len(s), NEW m \in 0..n
  PROVE  Bytes(s, m) <= Bytes(s, n) /\ Bytes(s, m) \in Nat /\ Bytes(s, n) \in Nat
  <1>1. FrameCells(s, m) \in SUBSET FrameCells(s, n)
    BY DEF FrameCells
  <1>2. m \in 0..Len(s)
    OBVIOUS
  <1>3. IsFiniteSet(FrameCells(s, n)) /\ Bytes(s, m) \in Nat /\ Bytes(s, n) \in Nat
    BY <1>2, CellsFinite
  <1>. QED  BY <1>1, <1>3, FS_Subset DEF Bytes

\* The first of several frames is as long as the others are not.
LEMMA BytesHead ==
  ASSUME NEW c \in Commands, NEW t \in Seq(Commands)
  PROVE  Bytes(<<c>> \o t, 1 + Len(t)) = FrameSize(c.body) + Bytes(t, Len(t))
  <1>. DEFINE s == <<c>> \o t
              n == Len(t)
              first == {1} \X (1..FrameSize(c.body))
              others == UNION {{i + 1} \X (1..FrameSize(t[i].body)) : i \in 1..n}
              f == [p \in FrameCells(t, n) |-> <<p[1] + 1, p[2]>>]
  <1>1. /\ s \in Seq(Commands) /\ Len(s) = n + 1 /\ n \in Nat /\ s[1] = c
        /\ \A i \in 1..n : s[i + 1] = t[i]
    <2>1. <<c>> \in Seq(Commands) /\ Len(<<c>>) = 1 /\ <<c>>[1] = c /\ n \in Nat
      OBVIOUS
    <2>. QED  BY <2>1, ConcatProperties
  <1>. HIDE DEF s
  <1>2. /\ FrameSize(c.body) \in Nat /\ IsFiniteSet(first) /\ Cardinality(first) = FrameSize(c.body)
    <2>1. 1 \in 1..Len(s)
      BY <1>1
    <2>. QED  BY <1>1, <2>1, FrameCellsOne
  <1>3. IsFiniteSet(FrameCells(t, n)) /\ Bytes(t, n) \in Nat
    BY <1>1, CellsFinite
  <1>4. FrameCells(s, n + 1) = first \cup others
    <2>1. 1..(n + 1) = {1} \cup {i + 1 : i \in 1..n}
      <3>1. ASSUME NEW j \in 1..(n + 1), j # 1 PROVE j \in {i + 1 : i \in 1..n}
        <4>1. j - 1 \in 1..n /\ j = (j - 1) + 1
          BY <1>1, <3>1
        <4>. QED  BY <4>1
      <3>. QED  BY <1>1, <3>1
    <2>2. FrameCells(s, n + 1) = UNION {{j} \X (1..FrameSize(s[j].body)) : j \in {1} \cup {i + 1 : i \in 1..n}}
      BY <2>1, Zenon DEF FrameCells
    <2>3. \A i \in 1..n : {i + 1} \X (1..FrameSize(s[i + 1].body)) = {i + 1} \X (1..FrameSize(t[i].body))
      BY <1>1
    <2>4. {1} \X (1..FrameSize(s[1].body)) = first
      BY <1>1
    <2>5. ASSUME NEW p \in FrameCells(s, n + 1) PROVE p \in first \cup others
      <3>1. PICK j \in {1} \cup {i + 1 : i \in 1..n} : p \in {j} \X (1..FrameSize(s[j].body))
        BY <2>2, <2>5
      <3>. QED  BY <2>3, <2>4, <3>1, SMTT(30)
    <2>6. ASSUME NEW p \in first \cup others PROVE p \in FrameCells(s, n + 1)
      <3>1. CASE p \in first
        BY <2>2, <2>4, <3>1
      <3>2. CASE p \in others
        <4>1. PICK i \in 1..n : p \in {i + 1} \X (1..FrameSize(t[i].body))
          BY <3>2
        <4>. QED  BY <2>2, <2>3, <4>1
      <3>. QED  BY <3>1, <3>2
    <2>. QED  BY <2>5, <2>6
  <1>5. first \cap others = {}
    <2>1. ASSUME NEW p \in first, p \in others PROVE FALSE
      <3>1. PICK i \in 1..n : p \in {i + 1} \X (1..FrameSize(t[i].body))
        BY <2>1
      <3>2. p[1] = 1 /\ p[1] = i + 1
        BY <2>1, <3>1
      <3>. QED  BY <3>2
    <2>. QED  BY <2>1
  <1>6. f \in Bijection(FrameCells(t, n), others)
    <2>1. \A p : p \in FrameCells(t, n) <=> \E i \in 1..n : \E b \in 1..FrameSize(t[i].body) : p = <<i, b>>
      BY DEF FrameCells
    <2>2. \A p : p \in others <=> \E i \in 1..n : \E b \in 1..FrameSize(t[i].body) : p = <<i + 1, b>>
      OBVIOUS
    <2>. HIDE DEF others
    <2>3. f \in [FrameCells(t, n) -> others]
      BY <2>1, <2>2
    <2>4. \A p, q \in FrameCells(t, n) : f[p] = f[q] => p = q
      <3>1. ASSUME NEW p \in FrameCells(t, n), NEW q \in FrameCells(t, n), f[p] = f[q] PROVE p = q
        <4>1a. PICK i \in 1..n : \E b \in 1..FrameSize(t[i].body) : p = <<i, b>>
          BY <2>1
        <4>1. PICK b \in 1..FrameSize(t[i].body) : p = <<i, b>>
          BY <4>1a
        <4>2a. PICK j \in 1..n : \E d \in 1..FrameSize(t[j].body) : q = <<j, d>>
          BY <2>1
        <4>2. PICK d \in 1..FrameSize(t[j].body) : q = <<j, d>>
          BY <4>2a
        <4>3. f[p] = <<i + 1, b>> /\ f[q] = <<j + 1, d>>
          BY <4>1, <4>2
        <4>4. i + 1 = j + 1 /\ b = d
          BY <3>1, <4>3
        <4>. QED  BY <4>1, <4>2, <4>4
      <3>. QED  BY <3>1
    <2>5. \A q \in others : \E p \in FrameCells(t, n) : f[p] = q
      <3>1. ASSUME NEW q \in others PROVE \E p \in FrameCells(t, n) : f[p] = q
        <4>1a. PICK i \in 1..n : \E b \in 1..FrameSize(t[i].body) : q = <<i + 1, b>>
          BY <2>2
        <4>1. PICK b \in 1..FrameSize(t[i].body) : q = <<i + 1, b>>
          BY <4>1a
        <4>2. <<i, b>> \in FrameCells(t, n)
          BY <2>1
        <4>3. f[<<i, b>>] = q
          BY <4>1, <4>2
        <4>. QED  BY <4>2, <4>3
      <3>. QED  BY <3>1
    <2>. HIDE DEF f
    <2>. QED  BY <2>3, <2>4, <2>5 DEF Bijection, Injection, Surjection, IsInjective
  <1>7. IsFiniteSet(others) /\ Cardinality(others) = Bytes(t, n)
    <2>. HIDE DEF f, others
    <2>1. ExistsBijection(FrameCells(t, n), others)
      BY <1>6 DEF ExistsBijection
    <2>. QED  BY <1>3, <2>1, FS_Bijection DEF Bytes
  <1>. HIDE DEF first, others
  <1>8. Cardinality(first \cup others) = Cardinality(first) + Cardinality(others) - 0
    BY <1>2, <1>5, <1>7, FS_Union, FS_EmptySet
  <1>9. Bytes(s, n + 1) = Cardinality(first \cup others)
    BY <1>4 DEF Bytes
  <1>10. Bytes(s, n + 1) = FrameSize(c.body) + Bytes(t, n)
    BY <1>2, <1>3, <1>7, <1>8, <1>9
  <1>11. n + 1 = 1 + Len(t)
    BY <1>1
  <1>. QED  BY <1>10, <1>11 DEF s

-----------------------------------------------------------------------------
(* Kinds.                                                                  *)

\* The groups are the type invariant of the specification.
LEMMA TypesAreTypeOK ==
  ASSUME Types
  PROVE  TypeOK
  <1>1. journal \in Seq(Commands) /\ synced \in 0..Len(journal) /\ torn \in BOOLEAN
    <2>1. Len(journal) \in Nat
      BY LenProperties DEF Types, FileTypes
    <2>. QED  BY <2>1 DEF Types, FileTypes, Bounds
  <1>2. committed \in 0..Len(journal) /\ recovered \in 0..committed
    <2>1. Len(journal) \in Nat
      BY LenProperties DEF Types, FileTypes
    <2>. QED  BY <2>1 DEF Types, OwnerTypes, Bounds
  <1>3. failure \in {"NONE", "MATCHING_THREW", "ACCOUNTING", "ADMISSION_BINDING", "COMPLETION", "DRAIN_STALLED"}
    BY DEF Types, LifecycleTypes
  <1>4. \A slot \in {pending, inProgress} : slot \in Seq(Messages) /\ Len(slot) <= 1
    BY DEF Types, SequencerTypes, MatcherTypes
  <1>5. \A slot \in {pendingResult, pendingPrivate, pendingPublic} : slot \in Seq(Results) /\ Len(slot) <= 1
    BY DEF Types, HandoffTypes, MatcherTypes
  <1>6. /\ FileTypes /\ LifecycleTypes /\ OwnerTypes /\ SequencerTypes /\ MatcherTypes /\ HandoffTypes
        /\ CapacityTypes /\ DriverTypes /\ DeliveredTypes /\ FaultTypes
    BY DEF Types
  <1>. QED  BY <1>1, <1>2, <1>3, <1>4, <1>5, <1>6, Zenon DEF TypeOK, LifecycleTypes, OwnerTypes, SequencerTypes,
              MatcherTypes, HandoffTypes, CapacityTypes, DriverTypes, DeliveredTypes, FaultTypes

\* What the queues and slots form together.
LEMMA PathTypes ==
  ASSUME Types
  PROVE  /\ Held \in Seq(Commands) /\ Staged \in Seq(Commands) /\ Ready \in Seq(Messages)
         /\ PathResults \in Seq(Results) /\ PathCommands \in Seq(Messages)
         /\ Private \in Seq(Results) /\ Public \in Seq(Results)
         /\ Len(Staged) \in Nat /\ Len(PathResults) \in Nat /\ Len(PathCommands) \in Nat
         /\ Len(Private) \in Nat /\ Len(Public) \in Nat /\ Len(journal) \in Nat
         /\ Matched \in Int /\ Done \in Int
  <1>1. Held \in Seq(Commands)
    <2>1. CASE pending = <<>> \/ pendingReady
      BY <2>1, EmptySeq DEF Held
    <2>2. CASE ~(pending = <<>> \/ pendingReady)
      <3>1. pending[1] \in Messages
        BY <2>2, SlotHoldsOne DEF Types, SequencerTypes
      <3>2. CommandOf(pending[1]) \in Commands
        BY <3>1 DEF Messages, Commands, CommandOf
      <3>. QED  BY <2>2, <3>2 DEF Held
    <2>. QED  BY <2>1, <2>2
  <1>2. Staged \in Seq(Commands)
    BY <1>1, ConcatProperties DEF Staged, Types, SequencerTypes
  <1>3. Ready \in Seq(Messages)
    BY EmptySeq DEF Ready, Types, SequencerTypes
  <1>4. PathResults \in Seq(Results)
    BY ConcatProperties DEF PathResults, Types, MatcherTypes
  <1>5. PathCommands \in Seq(Messages)
    BY <1>3, ConcatProperties DEF PathCommands, Types, MatcherTypes
  <1>6. Private \in Seq(Results) /\ Public \in Seq(Results)
    BY ConcatProperties DEF Private, Public, Types, HandoffTypes
  <1>7. committed \in Nat /\ Len(PathResults) \in Nat /\ Len(PathCommands) \in Nat
    BY <1>4, <1>5, LenProperties DEF Types, OwnerTypes
  <1>8. Matched \in Int /\ Done \in Int
    BY <1>7 DEF Matched, Done
  <1>9. Len(journal) \in Nat
    BY LenProperties DEF Types, FileTypes
  <1>. QED  BY <1>1, <1>2, <1>3, <1>4, <1>5, <1>6, <1>7, <1>8, <1>9, LenProperties

\* Where completion, matching and the journal stand.
LEMMA Positions ==
  ASSUME Types, Path
  PROVE  /\ Done \in Nat /\ Matched \in Nat /\ committed \in Nat /\ recovered \in Nat /\ synced \in Nat
         /\ Matched = Done + Len(PathResults) /\ committed = Matched + Len(PathCommands)
         /\ committed <= Len(journal) /\ synced <= Len(journal) /\ recovered <= committed
  <1>1. Len(PathResults) \in Nat /\ Len(PathCommands) \in Nat /\ Matched \in Int /\ Len(journal) \in Nat
    BY PathTypes
  <1>2. committed \in Nat /\ recovered \in Nat /\ synced \in Nat
    BY DEF Types, OwnerTypes, FileTypes
  <1>3. committed <= Len(journal) /\ synced <= Len(journal) /\ recovered <= committed
    BY DEF Types, Bounds
  <1>4. Done \in Nat
    BY DEF Path
  <1>5. Done = Matched - Len(PathResults) /\ Matched = committed - Len(PathCommands)
    BY DEF Done, Matched
  <1>. QED  BY <1>1, <1>2, <1>3, <1>4, <1>5

-----------------------------------------------------------------------------
(* Steps that keep the contents of the path.                               *)

\* The journal still begins with the first n of its frames.
Kept(n) ==
  /\ n <= Len(journal')
  /\ \A m \in 0..n : SubSeq(journal', 1, m) = SubSeq(journal, 1, m)
  /\ \A m \in 1..n : journal'[m] = journal[m]

\* A step that leaves the journal alone keeps all of it.
LEMMA KeptUnchanged ==
  ASSUME Types, UNCHANGED journal
  PROVE  Kept(Len(journal))
  <1>1. Len(journal) <= Len(journal)
    BY PathTypes
  <1>. QED  BY <1>1 DEF Kept

\* What the kept frames stand for stays the same.
LEMMA KeptFrames ==
  ASSUME NEW n \in Nat, Kept(n)
  PROVE  /\ \A m \in 0..n : Replay(m)' = Replay(m)
         /\ \A m \in 1..n : ResultOf(m)' = ResultOf(m) /\ MessageOf(m)' = MessageOf(m)
         /\ \A m \in 0..n : Bytes(journal', m) = Bytes(journal, m)
  <1>1. \A m \in 0..n : Replay(m)' = Replay(m)
    BY DEF Kept, Replay
  <1>2. \A m \in 1..n : ResultOf(m)' = ResultOf(m)
    <2>1. ASSUME NEW m \in 1..n PROVE ResultOf(m)' = ResultOf(m)
      <3>1. m \in 0..n /\ journal'[m] = journal[m]
        BY DEF Kept
      <3>2. Replay(m)' = Replay(m)
        BY <1>1, <3>1
      <3>. QED  BY <3>1, <3>2 DEF ResultOf
    <2>. QED  BY <2>1
  <1>3. \A m \in 1..n : MessageOf(m)' = MessageOf(m)
    BY DEF Kept, MessageOf
  <1>4. ASSUME NEW m \in 0..n PROVE Bytes(journal', m) = Bytes(journal, m)
    <2>1. m \in Nat /\ \A i \in 1..m : journal'[i] = journal[i]
      BY DEF Kept
    <2>. QED  BY <2>1, BytesSame
  <1>. QED  BY <1>1, <1>2, <1>3, <1>4

\* A step that moves no command and keeps the journal keeps what is said of
\* index, path and consumers, whatever it does to counters and states.
LEMMA DataKeeps ==
  ASSUME IInv, Kept(Len(journal)), synced' \in Nat, synced' >= synced, (run' = "NONE") = (run = "NONE"),
         UNCHANGED <<records, committed, applied, recovered, Staged, PathResults, PathCommands, Private, Public,
                     deliveredPrivate, deliveredPublic>>
  PROVE  Index' /\ Path' /\ PrivateDelivery' /\ PublicDelivery' /\ Done' = Done
  <1>1. /\ Types /\ Index /\ Path /\ PrivateDelivery /\ PublicDelivery
    BY DEF IInv
  <1>2. /\ Done \in Nat /\ Matched \in Nat /\ committed \in Nat /\ recovered \in Nat /\ synced \in Nat
        /\ Matched = Done + Len(PathResults) /\ committed = Matched + Len(PathCommands)
        /\ committed <= Len(journal) /\ synced <= Len(journal) /\ recovered <= committed
    BY <1>1, Positions
  <1>3. /\ Len(Staged) \in Nat /\ Len(PathResults) \in Nat /\ Len(PathCommands) \in Nat
        /\ Len(Private) \in Nat /\ Len(Public) \in Nat /\ Len(journal) \in Nat
    BY <1>1, PathTypes
  <1>4. Done' = Done /\ Matched' = Matched
    BY DEF Done, Matched
  <1>5. /\ \A m \in 0..Len(journal) : Replay(m)' = Replay(m)
        /\ \A m \in 1..Len(journal) : ResultOf(m)' = ResultOf(m) /\ MessageOf(m)' = MessageOf(m)
    BY <1>3, KeptFrames
  <1>6. \A m \in 1..Len(journal) : journal'[m] = journal[m]
    BY DEF Kept
  <1>7. Index'
    <2>1. \A i \in 1..committed : i \in 1..Len(journal) /\ i \in 0..Len(journal)
      BY <1>2, <1>3
    <2>2. CompletedCount' = CompletedCount
      BY DEF CompletedCount
    <2>. QED  BY <1>1, <1>4, <1>5, <1>6, <2>1, <2>2 DEF Index
  <1>8. Path'
    <2>1. \A i \in 1..Len(PathResults) : Done + i \in 1..Len(journal)
      BY <1>2, <1>3
    <2>2. \A i \in 1..Len(PathCommands) : Matched + i \in 1..Len(journal)
      BY <1>2, <1>3
    <2>3. Matched \in 0..Len(journal)
      BY <1>2, <1>3
    <2>4. applied' = Replay(Matched)'
      BY <1>1, <1>4, <1>5, <2>3 DEF Path
    <2>5. ASSUME NEW i \in 1..Len(PathResults) PROVE PathResults[i] = ResultOf(Done + i)'
      BY <1>1, <1>4, <1>5, <2>1 DEF Path
    <2>6. ASSUME NEW i \in 1..Len(PathCommands) PROVE PathCommands[i] = MessageOf(Matched + i)'
      BY <1>1, <1>4, <1>5, <2>2 DEF Path
    <2>. QED  BY <1>2, <1>4, <2>4, <2>5, <2>6 DEF Path
  <1>9. ASSUME NEW channel, ToldFrom(channel)
        PROVE  channel # <<>> => /\ Last(channel).sequence \in 1..synced'
                                 /\ Last(channel).applied = SubSeq(journal', 1, Last(channel).sequence)
    <2>1. SUFFICES ASSUME channel # <<>>
                   PROVE  /\ Last(channel).sequence \in 1..synced'
                          /\ Last(channel).applied = SubSeq(journal', 1, Last(channel).sequence)
      OBVIOUS
    <2>2. Last(channel).sequence \in 1..synced /\ Last(channel).applied = Replay(Last(channel).sequence)
      BY <1>9, <2>1 DEF ToldFrom
    <2>3. Last(channel).sequence \in 1..synced' /\ Last(channel).sequence \in 0..Len(journal)
      BY <1>2, <1>3, <2>2
    <2>. QED  BY <2>2, <2>3 DEF Kept, Replay
  <1>10. PrivateDelivery'
    <2>1. ToldFrom(deliveredPrivate)'
      BY <1>1, <1>9 DEF PrivateDelivery, ToldFrom, Replay
    <2>2. recovered <= Done - Len(Private)
      BY <1>1 DEF PrivateDelivery
    <2>3. \A i \in 1..Len(Private) : (Done - Len(Private)) + i \in 1..Len(journal)
      BY <1>2, <1>3, <2>2, SMTT(30)
    <2>4. \A i \in 1..Len(Private) : Private[i] = ResultOf(Done - Len(Private) + i)'
      BY <1>1, <1>4, <1>5, <2>3, SMTT(30) DEF PrivateDelivery
    <2>. QED  BY <1>1, <1>4, <2>1, <2>4 DEF PrivateDelivery, ToldUpTo
  <1>11. PublicDelivery'
    <2>1. ToldFrom(deliveredPublic)'
      BY <1>1, <1>9 DEF PublicDelivery, ToldFrom, Replay
    <2>2. \A n \in (recovered + 1)..Done : n \in 1..Len(journal)
      BY <1>2, <1>3
    <2>3. \A i \in 1..Len(Public) : /\ Public[i].sequence \in (recovered + 1)..Done
                                    /\ Public[i] = ResultOf(Public[i].sequence)'
      BY <1>1, <1>5, <2>2 DEF PublicDelivery
    <2>. QED  BY <1>1, <1>4, <1>6, <2>1, <2>2, <2>3 DEF PublicDelivery, ToldUpTo
  <1>. QED  BY <1>4, <1>7, <1>8, <1>10, <1>11

\* Capacity is a matter of what is staged and what is accounted for.
LEMMA CapacityKeeps ==
  ASSUME IInv, Kept(Len(journal)), (run' = "NONE") = (run = "NONE"), appendFailure' # "CAPACITY_REACHED",
         UNCHANGED <<committed, Staged, acceptedCommands, acceptedBytes, Since>>,
         InCycle' => beforeCommands' <= committed,
         run' = "INSTALLED" /\ state' \in {"READY", "PAUSED"} /\ pc' # "failing" =>
           run = "INSTALLED" /\ state \in {"READY", "PAUSED"} /\ pc # "failing"
  PROVE  Capacity'
  <1>1. Types /\ Capacity /\ Path
    BY DEF IInv
  <1>2. committed \in Nat /\ Len(journal) \in Nat /\ committed <= Len(journal)
    BY <1>1, Positions, PathTypes
  <1>3. Since \in 0..committed
    <2>1. beforeCommands \in Nat
      BY <1>1 DEF Types, DriverTypes
    <2>. QED  BY <1>1, <1>2, <2>1 DEF Since, Sequencing, InCycle, Capacity
  <1>4. committed \in 0..Len(journal) /\ Since \in 0..Len(journal)
    BY <1>2, <1>3
  <1>5. /\ CommittedBytes(committed)' = CommittedBytes(committed)
        /\ CommittedBytes(Since)' = CommittedBytes(Since)
    <2>1. \A m \in 0..Len(journal) : Bytes(journal', m) = Bytes(journal, m)
      BY <1>2, KeptFrames
    <2>. QED  BY <1>4, <2>1 DEF CommittedBytes
  <1>. QED  BY <1>1, <1>5 DEF Capacity

\* Nothing moves: at most the driver, the lifecycle and the accounting change.
LEMMA QuietKeeps ==
  ASSUME IInv, (run' = "NONE") = (run = "NONE"), (pc' = "syncing") = (pc = "syncing"),
         UNCHANGED <<fileVars, records, committed, applied, recovered, sequencerVars, matcherVars, handoffVars, deliveredVars>>
  PROVE  /\ FileTypes' /\ Bounds' /\ SequencerTypes' /\ MatcherTypes' /\ HandoffTypes' /\ DeliveredTypes'
         /\ admissionOpen' \in BOOLEAN => OwnerTypes'
         /\ File' /\ Index' /\ Path' /\ PrivateDelivery' /\ PublicDelivery' /\ Kept(Len(journal))
         /\ UNCHANGED <<Held, Staged, Ready, PathResults, PathCommands, Private, Public, Done,
                        ProcessingDrained, HandoffPending, HandoffQueued, ResultHandoffsDrained>>
  <1>1. /\ FileTypes' /\ Bounds' /\ SequencerTypes' /\ MatcherTypes' /\ HandoffTypes' /\ DeliveredTypes'
    BY DEF IInv, Types, FileTypes, Bounds, SequencerTypes, MatcherTypes, HandoffTypes, DeliveredTypes,
           fileVars, sequencerVars, matcherVars, handoffVars, deliveredVars
  <1>2. admissionOpen' \in BOOLEAN => OwnerTypes'
    BY DEF IInv, Types, OwnerTypes
  <1>3. UNCHANGED <<Held, Staged, Ready, PathResults, PathCommands, Private, Public,
                    ProcessingDrained, HandoffPending, HandoffQueued, ResultHandoffsDrained>>
    BY DEF Held, Staged, Ready, PathResults, PathCommands, Private, Public, ProcessingDrained, HandoffPending,
           HandoffQueued, ResultHandoffsDrained, sequencerVars, matcherVars, handoffVars
  <1>4. Kept(Len(journal)) /\ synced' = synced /\ synced \in Nat
    BY KeptUnchanged DEF IInv, Types, FileTypes, fileVars
  <1>5. Index' /\ Path' /\ PrivateDelivery' /\ PublicDelivery' /\ Done' = Done
    <2>1. synced' \in Nat /\ synced' >= synced
      BY <1>4
    <2>. QED  BY <1>3, <1>4, <2>1, DataKeeps DEF deliveredVars
  <1>6. File'
    BY <1>3 DEF IInv, File, DistinctKeys, CommittedBytes, Bytes, FrameCells, FrameSize, fileVars, sequencerVars
  <1>. QED  BY <1>1, <1>2, <1>3, <1>4, <1>5, <1>6

\* advanceCommandProcessingV1 begins: only its locals are set.
LEMMA BeginAdvancePreserves ==
  ASSUME IInv, BeginAdvance
  PROVE  IInv'
  <1>1. /\ run = "INSTALLED" /\ state = "READY" /\ pc \in {"idle", "draining"}
        /\ pc = "idle" => ~pausing
        /\ pc = "draining" => ~ProcessingDrained
        /\ pc' = "sequencing" /\ progressed' = FALSE /\ beforeCommands' = committed
        /\ UNCHANGED <<fileVars, lifecycleVars, ownerVars, sequencerVars, matcherVars, handoffVars,
                       capacityVars, pausing, deliveredVars, faults>>
    BY DEF BeginAdvance, MayAdvance
  <1>2. /\ FileTypes' /\ Bounds' /\ SequencerTypes' /\ MatcherTypes' /\ HandoffTypes' /\ DeliveredTypes'
        /\ admissionOpen' \in BOOLEAN => OwnerTypes'
        /\ File' /\ Index' /\ Path' /\ PrivateDelivery' /\ PublicDelivery' /\ Kept(Len(journal))
        /\ UNCHANGED <<Held, Staged, ProcessingDrained, HandoffPending, HandoffQueued, ResultHandoffsDrained>>
    BY <1>1, QuietKeeps DEF ownerVars, lifecycleVars
  <1>3. Types'
    <2>1. LifecycleTypes' /\ CapacityTypes' /\ FaultTypes' /\ admissionOpen' \in BOOLEAN
      BY <1>1 DEF IInv, Types, LifecycleTypes, CapacityTypes, FaultTypes, OwnerTypes, lifecycleVars, capacityVars, ownerVars
    <2>2. DriverTypes'
      BY <1>1 DEF IInv, Types, DriverTypes, OwnerTypes
    <2>. QED  BY <1>2, <2>1, <2>2 DEF Types
  <1>4. Control'
    BY <1>1 DEF IInv, Control, lifecycleVars, ownerVars, capacityVars
  <1>5. Slots'
    BY <1>1, <1>2 DEF IInv, Slots, Stopped, lifecycleVars, sequencerVars, matcherVars, capacityVars
  <1>6. Capacity'
    <2>1. Since' = Since
      BY <1>1 DEF Since, Sequencing, ownerVars
    <2>2. beforeCommands' <= committed
      BY <1>1 DEF IInv, Types, OwnerTypes
    <2>3. appendFailure' # "CAPACITY_REACHED"
      BY <1>1 DEF IInv, Capacity, sequencerVars
    <2>. QED  BY <1>1, <1>2, <2>1, <2>2, <2>3, CapacityKeeps DEF lifecycleVars, ownerVars, capacityVars
  <1>7. Blocked'
    BY <1>1, <1>2 DEF IInv, Control, Blocked
  <1>. QED  BY <1>2, <1>3, <1>4, <1>5, <1>6, <1>7 DEF IInv

\* The numbers that the accounting of capacity compares.
LEMMA ByteTypes ==
  ASSUME IInv
  PROVE  /\ CommittedBytes(committed) \in Nat /\ Bytes(Staged, Len(Staged)) \in Nat
         /\ InCycle => CommittedBytes(beforeCommands) \in Nat /\ CommittedBytes(beforeCommands) <= CommittedBytes(committed)
         /\ committed \in Nat /\ beforeCommands \in Nat /\ Len(Staged) \in Nat
         /\ acceptedCommands \in Nat /\ acceptedBytes \in Nat
  <1>1. Types /\ Capacity /\ Path
    BY DEF IInv
  <1>2. journal \in Seq(Commands) /\ committed \in Nat /\ beforeCommands \in Nat /\ committed \in 0..Len(journal)
        /\ acceptedCommands \in Nat /\ acceptedBytes \in Nat
    <2>1. committed \in Nat /\ Len(journal) \in Nat /\ committed <= Len(journal)
      BY <1>1, Positions, PathTypes
    <2>. QED  BY <1>1, <2>1 DEF Types, FileTypes, DriverTypes, CapacityTypes
  <1>3. CommittedBytes(committed) \in Nat
    BY <1>2, CellsFinite DEF CommittedBytes
  <1>4. Staged \in Seq(Commands) /\ Len(Staged) \in Nat
    BY <1>1, PathTypes
  <1>5. Bytes(Staged, Len(Staged)) \in Nat
    <2>1. Len(Staged) \in 0..Len(Staged)
      BY <1>4
    <2>. QED  BY <1>4, <2>1, CellsFinite
  <1>6. ASSUME InCycle
        PROVE  CommittedBytes(beforeCommands) \in Nat /\ CommittedBytes(beforeCommands) <= CommittedBytes(committed)
    <2>1. beforeCommands \in 0..committed
      BY <1>1, <1>2, <1>6 DEF Capacity
    <2>. QED  BY <1>2, <2>1, BytesMonotone DEF CommittedBytes
  <1>. QED  BY <1>2, <1>3, <1>4, <1>5, <1>6

\* The accounting fits whatever was accepted, and leaves what is still staged.
LEMMA SequencerReturnsPreserves ==
  ASSUME IInv, SequencerReturns
  PROVE  IInv'
  <1>1. /\ pc = "sequencing" /\ AccountJournalProgress
        /\ IF pending = <<>> THEN ingress = <<>> ELSE ~pendingReady \/ ~Room(matching, MatchingCapacity)
        /\ failure' = (IF AccountingFits THEN failure ELSE "ACCOUNTING")
        /\ pc' = (IF AccountingFits /\ appendFailure = "NONE" THEN "matching" ELSE "failing")
        /\ UNCHANGED <<fileVars, run, state, catalog, ownerVars, sequencerVars, matcherVars, handoffVars,
                       capacityTransitionPending, pausing, progressed, beforeCommands, deliveredVars, faults>>
    BY DEF SequencerReturns
  <1>2. /\ FileTypes' /\ Bounds' /\ SequencerTypes' /\ MatcherTypes' /\ HandoffTypes' /\ DeliveredTypes'
        /\ admissionOpen' \in BOOLEAN => OwnerTypes'
        /\ File' /\ Index' /\ Path' /\ PrivateDelivery' /\ PublicDelivery' /\ Kept(Len(journal))
        /\ UNCHANGED <<Held, Staged, ProcessingDrained, HandoffPending, HandoffQueued, ResultHandoffsDrained>>
    BY <1>1, QuietKeeps DEF ownerVars
  <1>3. run = "INSTALLED" /\ state = "READY"
    BY <1>1 DEF IInv, Control
  <1>4. /\ CommittedBytes(committed) \in Nat /\ Bytes(Staged, Len(Staged)) \in Nat
        /\ CommittedBytes(beforeCommands) \in Nat /\ CommittedBytes(beforeCommands) <= CommittedBytes(committed)
        /\ committed \in Nat /\ beforeCommands \in Nat /\ Len(Staged) \in Nat /\ beforeCommands <= committed
    BY <1>1, ByteTypes DEF IInv, Capacity, InCycle
  <1>5. /\ acceptedCommands = (committed - beforeCommands) + Len(Staged)
        /\ acceptedBytes = (CommittedBytes(committed) - CommittedBytes(beforeCommands)) + Bytes(Staged, Len(Staged))
    BY <1>1, <1>3 DEF IInv, Capacity, Since, Sequencing
  <1>6. AccountingFits
    BY <1>4, <1>5 DEF AccountingFits, AppendedCommands, AppendedBytes
  <1>7. acceptedCommands' = Len(Staged) /\ acceptedBytes' = Bytes(Staged, Len(Staged))
    BY <1>1, <1>4, <1>5, <1>6 DEF AccountJournalProgress, AppendedCommands, AppendedBytes
  <1>8. failure' = failure /\ pc' = IF appendFailure = "NONE" THEN "matching" ELSE "failing"
    BY <1>1, <1>6
  <1>9. Types'
    <2>1. LifecycleTypes' /\ FaultTypes' /\ admissionOpen' \in BOOLEAN
      BY <1>1, <1>8 DEF IInv, Types, LifecycleTypes, FaultTypes, OwnerTypes, ownerVars
    <2>2. DriverTypes'
      BY <1>1, <1>8 DEF IInv, Types, DriverTypes
    <2>3. CapacityTypes'
      BY <1>1, <1>4, <1>7 DEF IInv, Types, CapacityTypes
    <2>. QED  BY <1>2, <2>1, <2>2, <2>3 DEF Types
  <1>10. Control'
    BY <1>1, <1>3, <1>8 DEF IInv, Control, ownerVars
  <1>11. Slots'
    BY <1>1, <1>2, <1>3, <1>8 DEF IInv, Slots, Stopped, sequencerVars, matcherVars
  <1>12. Capacity'
    <2>1. CommittedBytes(committed)' = CommittedBytes(committed) /\ committed' = committed
      BY <1>1 DEF CommittedBytes, Bytes, FrameCells, FrameSize, fileVars, ownerVars
    <2>2. Since' = committed'
      BY <1>8 DEF Since, Sequencing
    <2>3. CommittedBytes(Since)' = CommittedBytes(committed)
      BY <2>1, <2>2 DEF CommittedBytes
    <2>4. /\ acceptedCommands' = (committed' - Since') + Len(Staged')
          /\ acceptedBytes' = (CommittedBytes(committed)' - CommittedBytes(Since)') + Bytes(Staged', Len(Staged'))
      BY <1>2, <1>4, <1>7, <2>1, <2>2, <2>3
    <2>5. /\ appendFailure' # "CAPACITY_REACHED" /\ beforeCommands' <= committed'
          /\ CommittedBytes(committed)' + Bytes(Staged', Len(Staged')) <= MaxRunJournalBytes
      BY <1>1, <1>2, <1>3, <1>4, <2>1 DEF IInv, Capacity, sequencerVars
    <2>. QED  BY <2>4, <2>5 DEF Capacity
  <1>13. Blocked'
    <2>1. pc' = "matching" /\ pending # <<>> => matching # <<>>
      <3>1. SUFFICES ASSUME pc' = "matching", pending # <<>> PROVE matching # <<>>
        OBVIOUS
      <3>2. pendingReady
        BY <1>1, <1>8, <3>1 DEF IInv, Slots
      <3>3. Len(matching) >= MatchingCapacity /\ MatchingCapacity \in Nat \ {0}
        <4>1. ~Room(matching, MatchingCapacity)
          BY <1>1, <3>1, <3>2
        <4>2. matching \in Seq(Messages)
          BY DEF IInv, Types, MatcherTypes
        <4>3. Len(matching) \in Nat /\ MatchingCapacity \in Nat \ {0}
          BY <4>2, LenProperties, PipelineAssumption
        <4>. QED  BY <4>1, <4>3 DEF Room
      <3>. QED  BY <3>3, EmptySeq
    <2>. QED  BY <1>1, <1>2, <1>8, <2>1 DEF IInv, Blocked, sequencerVars, matcherVars
  <1>. QED  BY <1>2, <1>9, <1>10, <1>11, <1>12, <1>13 DEF IInv

\* The matcher's turn ends with nothing moved.
LEMMA MatcherReturnsPreserves ==
  ASSUME IInv, MatcherReturns
  PROVE  IInv'
  <1>1. /\ pc = "matching" /\ pc' = "dispatching"
        /\ IF pendingResult = <<>> THEN matching = <<>> ELSE ~Room(results, ResultCapacity)
        /\ UNCHANGED <<fileVars, lifecycleVars, ownerVars, sequencerVars, matcherVars, handoffVars, capacityVars,
                       pausing, progressed, beforeCommands, deliveredVars, faults>>
    BY DEF MatcherReturns
  <1>2. /\ FileTypes' /\ Bounds' /\ SequencerTypes' /\ MatcherTypes' /\ HandoffTypes' /\ DeliveredTypes'
        /\ admissionOpen' \in BOOLEAN => OwnerTypes'
        /\ File' /\ Index' /\ Path' /\ PrivateDelivery' /\ PublicDelivery' /\ Kept(Len(journal))
        /\ UNCHANGED <<Held, Staged, ProcessingDrained, HandoffPending, HandoffQueued, ResultHandoffsDrained>>
    BY <1>1, QuietKeeps DEF ownerVars, lifecycleVars
  <1>3. Types'
    <2>1. LifecycleTypes' /\ CapacityTypes' /\ FaultTypes' /\ admissionOpen' \in BOOLEAN
      BY <1>1 DEF IInv, Types, LifecycleTypes, CapacityTypes, FaultTypes, OwnerTypes, lifecycleVars, capacityVars, ownerVars
    <2>2. DriverTypes'
      BY <1>1 DEF IInv, Types, DriverTypes
    <2>. QED  BY <1>2, <2>1, <2>2 DEF Types
  <1>4. Control'
    BY <1>1 DEF IInv, Control, lifecycleVars, ownerVars, capacityVars
  <1>5. Slots'
    BY <1>1, <1>2 DEF IInv, Slots, Stopped, lifecycleVars, sequencerVars, matcherVars, capacityVars
  <1>6. Capacity'
    <2>1. Since' = Since /\ InCycle
      BY <1>1 DEF Since, Sequencing, InCycle, ownerVars
    <2>2. beforeCommands' <= committed /\ appendFailure' # "CAPACITY_REACHED"
      BY <1>1, <2>1 DEF IInv, Capacity, sequencerVars
    <2>. QED  BY <1>1, <1>2, <2>1, <2>2, CapacityKeeps DEF lifecycleVars, ownerVars, capacityVars
  <1>7. Blocked'
    <2>1. pendingResult # <<>> => results # <<>>
      <3>1. SUFFICES ASSUME pendingResult # <<>> PROVE results # <<>>
        OBVIOUS
      <3>2. Len(results) >= ResultCapacity /\ ResultCapacity \in Nat \ {0}
        <4>1. ~Room(results, ResultCapacity)
          BY <1>1, <3>1
        <4>2. results \in Seq(Results)
          BY DEF IInv, Types, MatcherTypes
        <4>3. Len(results) \in Nat /\ ResultCapacity \in Nat \ {0}
          BY <4>2, LenProperties, PipelineAssumption
        <4>. QED  BY <4>1, <4>3 DEF Room
      <3>. QED  BY <3>2, EmptySeq
    <2>. QED  BY <1>1, <1>2, <2>1 DEF IInv, Blocked, sequencerVars, matcherVars
  <1>. QED  BY <1>2, <1>3, <1>4, <1>5, <1>6, <1>7 DEF IInv

\* A failed path closes the gate and leaves READY.
LEMMA FailStopPreserves ==
  ASSUME IInv, FailStop
  PROVE  IInv'
  <1>1. /\ pc = "failing" /\ pc' = "idle" /\ pausing' = FALSE /\ admissionOpen' = FALSE
        /\ UNCHANGED <<acceptedCommands, acceptedBytes>> \/ AccountJournalProgress
        /\ UNCHANGED <<fileVars, run, failure, records, committed, applied, recovered, sequencerVars, matcherVars,
                       handoffVars, capacityTransitionPending, progressed, beforeCommands, deliveredVars>>
    BY DEF FailStop, CloseAdmission
  <1>2. run = "INSTALLED" /\ state = "READY" /\ catalog = "OPEN"
    BY <1>1 DEF IInv, Control
  <1>3. Publish("FAIL_STOPPED", "FAIL_STOPPED", "UNAVAILABLE")
    BY <1>2 DEF FailStop
  <1>4. state' \in {"FAIL_STOPPED", "UNAVAILABLE"} /\ catalog' \in {"OPEN", "FAIL_STOPPED"} /\ faults' \in 0..MaxFaults
    <2>1. faults \in 0..MaxFaults /\ MaxFaults \in Nat
      BY PipelineAssumption DEF IInv, Types, FaultTypes
    <2>. QED  BY <1>2, <1>3, <2>1 DEF Publish, Fault
  <1>5. /\ FileTypes' /\ Bounds' /\ SequencerTypes' /\ MatcherTypes' /\ HandoffTypes' /\ DeliveredTypes'
        /\ admissionOpen' \in BOOLEAN => OwnerTypes'
        /\ File' /\ Index' /\ Path' /\ PrivateDelivery' /\ PublicDelivery' /\ Kept(Len(journal))
        /\ UNCHANGED <<Held, Staged, ProcessingDrained, HandoffPending, HandoffQueued, ResultHandoffsDrained>>
    BY <1>1, QuietKeeps
  <1>6. Types'
    <2>1. LifecycleTypes' /\ FaultTypes' /\ admissionOpen' \in BOOLEAN
      BY <1>1, <1>4 DEF IInv, Types, LifecycleTypes, FaultTypes
    <2>2. DriverTypes'
      BY <1>1 DEF IInv, Types, DriverTypes
    <2>3. acceptedCommands' \in Nat /\ acceptedBytes' \in Nat
      <3>1. /\ CommittedBytes(committed) \in Nat /\ CommittedBytes(beforeCommands) \in Nat
            /\ committed \in Nat /\ beforeCommands \in Nat /\ acceptedCommands \in Nat /\ acceptedBytes \in Nat
        BY <1>1, ByteTypes DEF InCycle
      <3>2. CASE UNCHANGED <<acceptedCommands, acceptedBytes>>
        BY <3>1, <3>2
      <3>3. CASE AccountJournalProgress
        BY <3>1, <3>3 DEF AccountJournalProgress, AccountingFits, AppendedCommands, AppendedBytes
      <3>. QED  BY <1>1, <3>2, <3>3
    <2>4. CapacityTypes'
      BY <1>1, <2>3 DEF IInv, Types, CapacityTypes
    <2>. QED  BY <1>5, <2>1, <2>2, <2>4 DEF Types
  <1>7. Control'
    BY <1>1, <1>2, <1>4 DEF IInv, Control
  <1>8. Slots'
    BY <1>1, <1>2, <1>4, <1>5 DEF IInv, Slots, Stopped, sequencerVars, matcherVars
  <1>9. Capacity'
    <2>1. CommittedBytes(committed)' = CommittedBytes(committed)
      BY <1>1 DEF CommittedBytes, Bytes, FrameCells, FrameSize, fileVars
    <2>2. CommittedBytes(committed) + Bytes(Staged, Len(Staged)) <= MaxRunJournalBytes /\ appendFailure' # "CAPACITY_REACHED"
      BY <1>1, <1>2 DEF IInv, Capacity, sequencerVars
    <2>. QED  BY <1>1, <1>4, <1>5, <2>1, <2>2 DEF Capacity, InCycle
  <1>10. Blocked'
    BY <1>1 DEF Blocked
  <1>. QED  BY <1>5, <1>6, <1>7, <1>8, <1>9, <1>10 DEF IInv

\* Capacity is kept when nothing is staged, committed or accounted for.
LEMMA QuietCapacity ==
  ASSUME IInv, Kept(Len(journal)), UNCHANGED <<run, appendFailure, committed, Staged, acceptedCommands, acceptedBytes>>,
         ~Sequencing, ~Sequencing', pc # "failing", state \in {"READY", "PAUSED"},
         InCycle' => InCycle /\ beforeCommands' = beforeCommands
  PROVE  Capacity'
  <1>1. Since' = Since
    BY DEF Since
  <1>2. InCycle' => beforeCommands' <= committed
    BY DEF IInv, Capacity
  <1>3. appendFailure' # "CAPACITY_REACHED"
    BY DEF IInv, Capacity
  <1>. QED  BY <1>1, <1>2, <1>3, CapacityKeeps

\* CAPACITY_REACHED is published only when the path is empty, which Capacity demands
\* of that state.
LEMMA PublishCapacityReachedPreserves ==
  ASSUME IInv, PublishCapacityReached
  PROVE  IInv'
  <1>1. /\ pc = "returning" /\ pc' = "idle" /\ capacityTransitionPending /\ ProcessingDrained
        /\ UNCHANGED <<fileVars, run, failure, ownerVars, sequencerVars, matcherVars, handoffVars, capacityVars,
                       pausing, progressed, beforeCommands, deliveredVars>>
    BY DEF PublishCapacityReached
  <1>2. run = "INSTALLED" /\ state = "READY" /\ catalog = "OPEN" /\ ~pausing /\ ~admissionOpen
    BY <1>1 DEF IInv, Control
  <1>3. Publish("CAPACITY_REACHED", "CAPACITY_REACHED", "UNAVAILABLE")
    BY <1>2 DEF PublishCapacityReached
  <1>4. state' \in {"CAPACITY_REACHED", "UNAVAILABLE"} /\ catalog' \in {"OPEN", "CAPACITY_REACHED"} /\ faults' \in 0..MaxFaults
    <2>1. faults \in 0..MaxFaults /\ MaxFaults \in Nat
      BY PipelineAssumption DEF IInv, Types, FaultTypes
    <2>. QED  BY <1>2, <1>3, <2>1 DEF Publish, Fault
  <1>5. /\ FileTypes' /\ Bounds' /\ SequencerTypes' /\ MatcherTypes' /\ HandoffTypes' /\ DeliveredTypes'
        /\ admissionOpen' \in BOOLEAN => OwnerTypes'
        /\ File' /\ Index' /\ Path' /\ PrivateDelivery' /\ PublicDelivery' /\ Kept(Len(journal))
        /\ UNCHANGED <<Held, Staged, ProcessingDrained, HandoffPending, HandoffQueued, ResultHandoffsDrained>>
    BY <1>1, QuietKeeps DEF ownerVars
  <1>6. Types'
    <2>1. LifecycleTypes' /\ CapacityTypes' /\ FaultTypes' /\ admissionOpen' \in BOOLEAN
      BY <1>1, <1>4 DEF IInv, Types, LifecycleTypes, CapacityTypes, FaultTypes, OwnerTypes, capacityVars, ownerVars
    <2>2. DriverTypes'
      BY <1>1 DEF IInv, Types, DriverTypes
    <2>. QED  BY <1>5, <2>1, <2>2 DEF Types
  <1>7. Control'
    BY <1>1, <1>2, <1>4 DEF IInv, Control, ownerVars, capacityVars
  <1>8. Slots'
    BY <1>1, <1>2, <1>4, <1>5 DEF IInv, Slots, Stopped, sequencerVars, matcherVars, capacityVars
  <1>9. Capacity'
    BY <1>1, <1>2, <1>5, QuietCapacity DEF Sequencing, InCycle, ownerVars, capacityVars, sequencerVars
  <1>10. Blocked'
    BY <1>1 DEF Blocked
  <1>. QED  BY <1>5, <1>6, <1>7, <1>8, <1>9, <1>10 DEF IInv

\* A pause that has made no progress finds a consumer that is behind.
LEMMA AdvanceReturnsPreserves ==
  ASSUME IInv, AdvanceReturns
  PROVE  IInv'
  <1>1. /\ pc = "returning" /\ pc' = IF pausing /\ progressed THEN "draining" ELSE "idle"
        /\ pausing' = (pausing /\ progressed)
        /\ UNCHANGED <<fileVars, run, catalog, ownerVars, sequencerVars, matcherVars, handoffVars, capacityVars,
                       progressed, beforeCommands, deliveredVars, faults>>
    BY DEF AdvanceReturns
  <1>2. run = "INSTALLED" /\ state = "READY" /\ inProgress = <<>>
    BY <1>1 DEF IInv, Control, Slots, Stopped
  <1>3. pausing /\ ~progressed => HandoffPending
    BY <1>1, <1>2 DEF IInv, Blocked, ProcessingDrained, HandoffPending
  <1>4. state' = state /\ failure' = failure
    BY <1>3 DEF AdvanceReturns
  <1>5. /\ FileTypes' /\ Bounds' /\ SequencerTypes' /\ MatcherTypes' /\ HandoffTypes' /\ DeliveredTypes'
        /\ admissionOpen' \in BOOLEAN => OwnerTypes'
        /\ File' /\ Index' /\ Path' /\ PrivateDelivery' /\ PublicDelivery' /\ Kept(Len(journal))
        /\ UNCHANGED <<Held, Staged, ProcessingDrained, HandoffPending, HandoffQueued, ResultHandoffsDrained>>
    BY <1>1, QuietKeeps DEF ownerVars
  <1>6. Types'
    <2>1. LifecycleTypes' /\ CapacityTypes' /\ FaultTypes' /\ admissionOpen' \in BOOLEAN
      BY <1>1, <1>4 DEF IInv, Types, LifecycleTypes, CapacityTypes, FaultTypes, OwnerTypes, capacityVars, ownerVars
    <2>2. DriverTypes'
      BY <1>1 DEF IInv, Types, DriverTypes
    <2>. QED  BY <1>5, <2>1, <2>2 DEF Types
  <1>7. Control'
    BY <1>1, <1>2, <1>4 DEF IInv, Control, ownerVars, capacityVars
  <1>8. Slots'
    BY <1>1, <1>2, <1>4, <1>5 DEF IInv, Slots, Stopped, sequencerVars, matcherVars, capacityVars
  <1>9. Capacity'
    BY <1>1, <1>2, <1>5, QuietCapacity DEF Sequencing, InCycle, ownerVars, capacityVars, sequencerVars
  <1>10. Blocked'
    BY <1>1 DEF Blocked
  <1>. QED  BY <1>5, <1>6, <1>7, <1>8, <1>9, <1>10 DEF IInv

\* The gate closes and draining begins; no work is touched.
LEMMA PausePreserves ==
  ASSUME IInv, Pause
  PROVE  IInv'
  <1>1. /\ pc = "idle" /\ run = "INSTALLED" /\ state = "READY" /\ ~capacityTransitionPending
        /\ admissionOpen' = FALSE /\ pausing' = TRUE /\ pc' = "draining"
        /\ UNCHANGED <<fileVars, lifecycleVars, records, committed, applied, recovered, sequencerVars, matcherVars,
                       handoffVars, capacityVars, progressed, beforeCommands, deliveredVars, faults>>
    BY DEF Pause, CloseAdmission
  <1>2. /\ FileTypes' /\ Bounds' /\ SequencerTypes' /\ MatcherTypes' /\ HandoffTypes' /\ DeliveredTypes'
        /\ admissionOpen' \in BOOLEAN => OwnerTypes'
        /\ File' /\ Index' /\ Path' /\ PrivateDelivery' /\ PublicDelivery' /\ Kept(Len(journal))
        /\ UNCHANGED <<Held, Staged, ProcessingDrained, HandoffPending, HandoffQueued, ResultHandoffsDrained>>
    BY <1>1, QuietKeeps DEF lifecycleVars
  <1>3. Types'
    <2>1. LifecycleTypes' /\ CapacityTypes' /\ FaultTypes' /\ admissionOpen' \in BOOLEAN
      BY <1>1 DEF IInv, Types, LifecycleTypes, CapacityTypes, FaultTypes, capacityVars, lifecycleVars
    <2>2. DriverTypes'
      BY <1>1 DEF IInv, Types, DriverTypes
    <2>. QED  BY <1>2, <2>1, <2>2 DEF Types
  <1>4. Control'
    BY <1>1 DEF IInv, Control, lifecycleVars, capacityVars
  <1>5. Slots'
    BY <1>1, <1>2 DEF IInv, Slots, Stopped, lifecycleVars, sequencerVars, matcherVars, capacityVars
  <1>6. Capacity'
    BY <1>1, <1>2, QuietCapacity DEF Sequencing, InCycle, lifecycleVars, capacityVars, sequencerVars
  <1>7. Blocked'
    BY <1>1 DEF Blocked
  <1>. QED  BY <1>2, <1>3, <1>4, <1>5, <1>6, <1>7 DEF IInv

\* A pause ends PAUSED only with everything delivered.
LEMMA PauseReturnsPreserves ==
  ASSUME IInv, PauseReturns
  PROVE  IInv'
  <1>1. /\ pc = "draining" /\ pc' = "idle" /\ pausing' = FALSE /\ ProcessingDrained
        /\ UNCHANGED <<fileVars, run, failure, ownerVars, sequencerVars, matcherVars, handoffVars, capacityVars,
                       progressed, beforeCommands, deliveredVars>>
    BY DEF PauseReturns
  <1>2. run = "INSTALLED" /\ state = "READY" /\ catalog = "OPEN" /\ pausing /\ ~admissionOpen /\ ~capacityTransitionPending
    BY <1>1 DEF IInv, Control
  <1>3. \/ ~ResultHandoffsDrained /\ UNCHANGED <<state, catalog, faults>>
        \/ ResultHandoffsDrained /\ Publish("PAUSED", "PAUSED", "UNAVAILABLE")
    BY <1>2 DEF PauseReturns
  <1>4. /\ state' \in {"READY", "PAUSED", "UNAVAILABLE"} /\ catalog' \in {"OPEN", "PAUSED"} /\ faults' \in 0..MaxFaults
        /\ state' = "READY" => catalog' = "OPEN"
        /\ state' = "PAUSED" => ResultHandoffsDrained
    <2>1. faults \in 0..MaxFaults /\ MaxFaults \in Nat
      BY PipelineAssumption DEF IInv, Types, FaultTypes
    <2>. QED  BY <1>2, <1>3, <2>1 DEF Publish, Fault
  <1>5. /\ FileTypes' /\ Bounds' /\ SequencerTypes' /\ MatcherTypes' /\ HandoffTypes' /\ DeliveredTypes'
        /\ admissionOpen' \in BOOLEAN => OwnerTypes'
        /\ File' /\ Index' /\ Path' /\ PrivateDelivery' /\ PublicDelivery' /\ Kept(Len(journal))
        /\ UNCHANGED <<Held, Staged, ProcessingDrained, HandoffPending, HandoffQueued, ResultHandoffsDrained>>
    BY <1>1, QuietKeeps DEF ownerVars
  <1>6. Types'
    <2>1. LifecycleTypes' /\ CapacityTypes' /\ FaultTypes' /\ admissionOpen' \in BOOLEAN
      BY <1>1, <1>4 DEF IInv, Types, LifecycleTypes, CapacityTypes, FaultTypes, OwnerTypes, capacityVars, ownerVars
    <2>2. DriverTypes'
      BY <1>1 DEF IInv, Types, DriverTypes
    <2>. QED  BY <1>5, <2>1, <2>2 DEF Types
  <1>7. Control'
    BY <1>1, <1>2, <1>4 DEF IInv, Control, ownerVars, capacityVars
  <1>8. Slots'
    <2>1. pending = <<>> /\ inProgress = <<>>
      BY <1>1 DEF ProcessingDrained
    <2>. QED  BY <1>1, <1>2, <1>4, <1>5, <2>1 DEF IInv, Slots, Stopped, sequencerVars, matcherVars, capacityVars
  <1>9. Capacity'
    BY <1>1, <1>2, <1>5, QuietCapacity DEF Sequencing, InCycle, ownerVars, capacityVars, sequencerVars
  <1>10. Blocked'
    BY <1>1 DEF Blocked
  <1>. QED  BY <1>5, <1>6, <1>7, <1>8, <1>9, <1>10 DEF IInv

\* The gate opens again exactly if the disposition was published.
LEMMA ResumePreserves ==
  ASSUME IInv, Resume
  PROVE  IInv'
  <1>1. /\ pc = "idle" /\ run # "NONE" /\ state = "PAUSED" /\ catalog = "PAUSED"
        /\ Publish("OPEN", "READY", "PAUSED") /\ admissionOpen' = (state' = "READY")
        /\ UNCHANGED <<fileVars, run, failure, records, committed, applied, recovered, sequencerVars, matcherVars,
                       handoffVars, capacityVars, driverVars, deliveredVars>>
    BY DEF Resume
  <1>2. ~pausing /\ ~capacityTransitionPending
    BY <1>1 DEF IInv, Control
  <1>3. /\ state' \in {"READY", "PAUSED"} /\ catalog' \in {"OPEN", "PAUSED"} /\ faults' \in 0..MaxFaults
        /\ state' = "READY" => catalog' = "OPEN"
    <2>1. faults \in 0..MaxFaults /\ MaxFaults \in Nat
      BY PipelineAssumption DEF IInv, Types, FaultTypes
    <2>. QED  BY <1>1, <2>1 DEF Publish, Fault
  <1>4. /\ FileTypes' /\ Bounds' /\ SequencerTypes' /\ MatcherTypes' /\ HandoffTypes' /\ DeliveredTypes'
        /\ admissionOpen' \in BOOLEAN => OwnerTypes'
        /\ File' /\ Index' /\ Path' /\ PrivateDelivery' /\ PublicDelivery' /\ Kept(Len(journal))
        /\ UNCHANGED <<Held, Staged, ProcessingDrained, HandoffPending, HandoffQueued, ResultHandoffsDrained>>
    BY <1>1, QuietKeeps DEF driverVars
  <1>5. Types'
    <2>1. admissionOpen' \in BOOLEAN
      BY <1>1
    <2>2. LifecycleTypes' /\ CapacityTypes' /\ FaultTypes'
      BY <1>1, <1>3 DEF IInv, Types, LifecycleTypes, CapacityTypes, FaultTypes, capacityVars
    <2>3. DriverTypes'
      BY <1>1 DEF IInv, Types, DriverTypes, driverVars
    <2>. QED  BY <1>4, <2>1, <2>2, <2>3 DEF Types
  <1>6. Control'
    BY <1>1, <1>2, <1>3 DEF IInv, Control, driverVars, capacityVars
  <1>7. Slots'
    <2>1. ProcessingDrained /\ ResultHandoffsDrained /\ pending = <<>> /\ inProgress = <<>>
      BY <1>1 DEF IInv, Slots, ProcessingDrained
    <2>. QED  BY <1>1, <1>3, <1>4, <2>1 DEF IInv, Slots, Stopped, sequencerVars, matcherVars, capacityVars, driverVars
  <1>8. Capacity'
    BY <1>1, <1>2, <1>4, QuietCapacity DEF Sequencing, InCycle, driverVars, capacityVars, sequencerVars
  <1>9. Blocked'
    BY <1>1 DEF Blocked, driverVars
  <1>. QED  BY <1>4, <1>5, <1>6, <1>7, <1>8, <1>9 DEF IInv

\* installCommandProcessingV1 finds the path as it makes it.
LEMMA InstallPreserves ==
  ASSUME IInv, Install
  PROVE  IInv'
  <1>1. /\ pc = "idle" /\ run = "OWNED" /\ state \in {"READY", "PAUSED"} /\ run' = "INSTALLED" /\ EmptyPath
        /\ UNCHANGED <<fileVars, state, catalog, failure, ownerVars, driverVars, deliveredVars, faults>>
    BY DEF Install
  <1>2. /\ ProcessingDrained /\ ~pendingReady /\ appendFailure = "NONE" /\ ~HandoffQueued
        /\ acceptedCommands = 0 /\ acceptedBytes = 0 /\ ~capacityTransitionPending
        /\ pendingReady = FALSE /\ capacityTransitionPending = FALSE
    <2>1. pendingReady \in BOOLEAN /\ capacityTransitionPending \in BOOLEAN
      BY DEF IInv, Types, SequencerTypes, CapacityTypes
    <2>. QED  BY <1>1, <2>1 DEF IInv, Slots
  <1>3. UNCHANGED <<sequencerVars, matcherVars, handoffVars, capacityVars>>
    BY <1>1, <1>2 DEF EmptyPath, ProcessingDrained, HandoffQueued, sequencerVars, matcherVars, handoffVars, capacityVars
  <1>4. /\ FileTypes' /\ Bounds' /\ SequencerTypes' /\ MatcherTypes' /\ HandoffTypes' /\ DeliveredTypes'
        /\ admissionOpen' \in BOOLEAN => OwnerTypes'
        /\ File' /\ Index' /\ Path' /\ PrivateDelivery' /\ PublicDelivery' /\ Kept(Len(journal))
        /\ UNCHANGED <<Held, Staged, ProcessingDrained, HandoffPending, HandoffQueued, ResultHandoffsDrained>>
    BY <1>1, <1>3, QuietKeeps DEF ownerVars, driverVars
  <1>5. Types'
    <2>1. LifecycleTypes' /\ CapacityTypes' /\ FaultTypes' /\ admissionOpen' \in BOOLEAN
      BY <1>1, <1>3 DEF IInv, Types, LifecycleTypes, CapacityTypes, FaultTypes, OwnerTypes, capacityVars, ownerVars
    <2>2. DriverTypes'
      BY <1>1 DEF IInv, Types, DriverTypes, driverVars
    <2>. QED  BY <1>4, <2>1, <2>2 DEF Types
  <1>6. Control'
    BY <1>1, <1>2, <1>3 DEF IInv, Control, ownerVars, driverVars, capacityVars
  <1>7. Slots'
    <2>1. pending = <<>> /\ inProgress = <<>>
      BY <1>2 DEF ProcessingDrained
    <2>. QED  BY <1>1, <1>2, <1>3, <1>4, <2>1
              DEF IInv, Slots, Stopped, sequencerVars, matcherVars, capacityVars, driverVars
  <1>8. Capacity'
    <2>1. Staged = <<>> /\ Len(Staged) = 0
      BY <1>2 DEF Staged, Held, ProcessingDrained
    <2>2. Bytes(Staged, Len(Staged)) = 0 /\ Bytes(Staged', Len(Staged')) = 0 /\ Len(Staged') = 0
      BY <1>4, <2>1, BytesNone
    <2>3. CommittedBytes(committed)' = CommittedBytes(committed) /\ committed' = committed
      BY <1>1 DEF CommittedBytes, Bytes, FrameCells, FrameSize, fileVars, ownerVars
    <2>4. CommittedBytes(committed) \in Nat /\ committed \in Nat
      BY ByteTypes
    <2>5. CommittedBytes(committed) + Bytes(Staged, Len(Staged)) <= MaxRunJournalBytes
      BY <1>1 DEF IInv, Capacity
    <2>6. Since' = committed' /\ ~InCycle'
      BY <1>1 DEF Since, Sequencing, InCycle, driverVars
    <2>7. CommittedBytes(Since)' = CommittedBytes(committed)
      BY <2>3, <2>6 DEF CommittedBytes
    <2>8. acceptedCommands' = 0 /\ acceptedBytes' = 0 /\ appendFailure' = "NONE"
      BY <1>1 DEF EmptyPath
    <2>9. /\ acceptedCommands' = (committed' - Since') + Len(Staged')
          /\ acceptedBytes' = (CommittedBytes(committed)' - CommittedBytes(Since)') + Bytes(Staged', Len(Staged'))
          /\ CommittedBytes(committed)' + Bytes(Staged', Len(Staged')) <= MaxRunJournalBytes
      BY <2>2, <2>3, <2>4, <2>5, <2>6, <2>7, <2>8
    <2>. QED  BY <2>6, <2>8, <2>9 DEF Capacity
  <1>9. Blocked'
    BY <1>1 DEF Blocked, driverVars
  <1>. QED  BY <1>4, <1>5, <1>6, <1>7, <1>8, <1>9 DEF IInv

\* The file's side of a step that neither writes nor synchronises.
LEMMA FileKeeps ==
  ASSUME IInv, (pc' = "syncing") = (pc = "syncing"), Held # <<>> => pending' = pending,
         UNCHANGED <<journal, synced, torn, run, committed, recovered, appendFailure, Held>>
  PROVE  File'
  BY DEF IInv, File, DistinctKeys, CommittedBytes, Bytes, FrameCells, FrameSize

\* A bound command goes from its slot to the end of the matching queue: the path
\* is the same sequence.
LEMMA HandoffPendingCommandPreserves ==
  ASSUME IInv, HandoffPendingCommand
  PROVE  IInv'
  <1>1. /\ pc = "sequencing" /\ pending # <<>> /\ pendingReady /\ Room(matching, MatchingCapacity)
        /\ matching' = matching \o pending /\ pending' = <<>> /\ pendingReady' = FALSE /\ progressed' = TRUE
        /\ UNCHANGED <<fileVars, lifecycleVars, ownerVars, ingress, appendFailure, inProgress, pendingResult,
                       results, handoffVars, capacityVars, pc, pausing, beforeCommands, deliveredVars, faults>>
    BY DEF HandoffPendingCommand, ReadyForMatching
  <1>2. /\ run = "INSTALLED" /\ state = "READY" /\ appendFailure = "NONE"
    BY <1>1 DEF IInv, Control, Slots
  <1>3. /\ matching \in Seq(Messages) /\ pending \in Seq(Messages) /\ inProgress \in Seq(Messages) /\ Len(pending) = 1
        /\ matching \o pending \in Seq(Messages) /\ Len(matching \o pending) <= MatchingCapacity
    <2>1. matching \in Seq(Messages) /\ pending \in Seq(Messages) /\ inProgress \in Seq(Messages) /\ Len(pending) <= 1
      BY DEF IInv, Types, SequencerTypes, MatcherTypes
    <2>2. Len(pending) = 1
      BY <1>1, <2>1, SlotHoldsOne
    <2>3. Len(matching) \in Nat /\ Len(matching) < MatchingCapacity /\ MatchingCapacity \in Nat
      BY <1>1, <2>1, LenProperties, PipelineAssumption DEF Room
    <2>4. matching \o pending \in Seq(Messages) /\ Len(matching \o pending) = Len(matching) + Len(pending)
      BY <2>1, ConcatProperties
    <2>. QED  BY <2>1, <2>2, <2>3, <2>4
  <1>4. UNCHANGED <<Held, Staged, PathResults, PathCommands, Private, Public>>
    <2>1. Held = <<>> /\ Held' = <<>> /\ Ready = pending /\ Ready' = <<>>
      BY <1>1 DEF Held, Ready
    <2>2. (inProgress \o matching) \o pending = (inProgress \o (matching \o pending)) \o <<>>
      BY <1>3, SlotMoves
    <2>3. PathCommands' = PathCommands
      BY <1>1, <2>1, <2>2 DEF PathCommands
    <2>. QED  BY <1>1, <2>1, <2>3 DEF Staged, PathResults, Private, Public, handoffVars
  <1>5. Kept(Len(journal)) /\ synced' = synced /\ synced \in Nat
    BY <1>1, KeptUnchanged DEF IInv, Types, FileTypes, fileVars
  <1>6. Index' /\ Path' /\ PrivateDelivery' /\ PublicDelivery'
    <2>1. synced' \in Nat /\ synced' >= synced
      BY <1>5
    <2>. QED  BY <1>1, <1>4, <1>5, <2>1, DataKeeps DEF deliveredVars, ownerVars, lifecycleVars
  <1>7. File'
    <2>1. Held = <<>>
      BY <1>1 DEF Held
    <2>. QED  BY <1>1, <1>4, <2>1, FileKeeps DEF fileVars, ownerVars, lifecycleVars
  <1>8. Types'
    <2>1. FileTypes' /\ Bounds' /\ LifecycleTypes' /\ OwnerTypes' /\ HandoffTypes' /\ CapacityTypes' /\ DeliveredTypes' /\ FaultTypes'
      BY <1>1 DEF IInv, Types, FileTypes, Bounds, LifecycleTypes, OwnerTypes, HandoffTypes, CapacityTypes, DeliveredTypes,
                  FaultTypes, fileVars, lifecycleVars, ownerVars, handoffVars, capacityVars, deliveredVars
    <2>2. MatcherTypes'
      BY <1>1, <1>3 DEF IInv, Types, MatcherTypes
    <2>3. SequencerTypes'
      <3>1. pending' \in Seq(Messages) /\ Len(pending') <= 1
        <4>1. <<>> \in Seq(Messages) /\ Len(<<>>) = 0
          BY EmptySeq
        <4>. QED  BY <1>1, <4>1
      <3>2. pendingReady' \in BOOLEAN
        BY <1>1
      <3>. QED  BY <1>1, <3>1, <3>2 DEF IInv, Types, SequencerTypes
    <2>4. DriverTypes'
      BY <1>1 DEF IInv, Types, DriverTypes
    <2>. QED  BY <2>1, <2>2, <2>3, <2>4 DEF Types
  <1>9. Control'
    BY <1>1 DEF IInv, Control, lifecycleVars, ownerVars, capacityVars
  <1>10. Slots'
    BY <1>1, <1>2 DEF IInv, Slots, Stopped, lifecycleVars
  <1>11. Capacity'
    <2>1. Since' = Since /\ InCycle /\ beforeCommands' <= committed /\ appendFailure' # "CAPACITY_REACHED"
      BY <1>1 DEF IInv, Capacity, Since, Sequencing, InCycle, ownerVars
    <2>. QED  BY <1>1, <1>4, <1>5, <2>1, CapacityKeeps DEF lifecycleVars, ownerVars, capacityVars
  <1>12. Blocked'
    BY <1>1 DEF Blocked
  <1>. QED  BY <1>6, <1>7, <1>8, <1>9, <1>10, <1>11, <1>12 DEF IInv

\* A result goes from its slot to the end of the result queue.
LEMMA HandoffPendingResultPreserves ==
  ASSUME IInv, HandoffPendingResult
  PROVE  IInv'
  <1>1. /\ pc = "matching" /\ pendingResult # <<>> /\ Room(results, ResultCapacity)
        /\ results' = results \o pendingResult /\ pendingResult' = <<>> /\ progressed' = TRUE
        /\ UNCHANGED <<fileVars, lifecycleVars, ownerVars, sequencerVars, matching, inProgress, handoffVars,
                       capacityVars, pc, pausing, beforeCommands, deliveredVars, faults>>
    BY DEF HandoffPendingResult
  <1>2. run = "INSTALLED" /\ state = "READY"
    BY <1>1 DEF IInv, Control
  <1>3. /\ results \in Seq(Results) /\ pendingResult \in Seq(Results)
        /\ results \o pendingResult \in Seq(Results) /\ Len(results \o pendingResult) <= ResultCapacity
    <2>1. results \in Seq(Results) /\ pendingResult \in Seq(Results) /\ Len(pendingResult) <= 1
      BY DEF IInv, Types, MatcherTypes
    <2>2. Len(pendingResult) = 1
      BY <1>1, <2>1, SlotHoldsOne
    <2>3. Len(results) \in Nat /\ Len(results) < ResultCapacity /\ ResultCapacity \in Nat
      BY <1>1, <2>1, LenProperties, PipelineAssumption DEF Room
    <2>. QED  BY <2>1, <2>2, <2>3, ConcatProperties
  <1>4. UNCHANGED <<Held, Staged, PathResults, PathCommands, Private, Public>>
    <2>1. results \o pendingResult = (results \o pendingResult) \o <<>>
      BY <1>3, SlotMoves
    <2>2. PathResults' = PathResults
      BY <1>1, <2>1 DEF PathResults
    <2>. QED  BY <1>1, <2>2 DEF Held, Staged, PathCommands, Ready, Private, Public, handoffVars, sequencerVars
  <1>5. Kept(Len(journal)) /\ synced' = synced /\ synced \in Nat
    BY <1>1, KeptUnchanged DEF IInv, Types, FileTypes, fileVars
  <1>6. Index' /\ Path' /\ PrivateDelivery' /\ PublicDelivery'
    <2>1. synced' \in Nat /\ synced' >= synced
      BY <1>5
    <2>. QED  BY <1>1, <1>4, <1>5, <2>1, DataKeeps DEF deliveredVars, ownerVars, lifecycleVars
  <1>7. File'
    BY <1>1, <1>4, FileKeeps DEF fileVars, ownerVars, lifecycleVars, sequencerVars
  <1>8. Types'
    <2>1. FileTypes' /\ Bounds' /\ LifecycleTypes' /\ OwnerTypes' /\ HandoffTypes' /\ CapacityTypes' /\ DeliveredTypes' /\ FaultTypes'
      BY <1>1 DEF IInv, Types, FileTypes, Bounds, LifecycleTypes, OwnerTypes, HandoffTypes, CapacityTypes, DeliveredTypes,
                  FaultTypes, fileVars, lifecycleVars, ownerVars, handoffVars, capacityVars, deliveredVars
    <2>2. MatcherTypes'
      BY <1>1, <1>3, EmptySeq DEF IInv, Types, MatcherTypes
    <2>3. SequencerTypes' /\ DriverTypes'
      BY <1>1 DEF IInv, Types, SequencerTypes, DriverTypes, sequencerVars
    <2>. QED  BY <2>1, <2>2, <2>3 DEF Types
  <1>9. Control'
    BY <1>1 DEF IInv, Control, lifecycleVars, ownerVars, capacityVars
  <1>10. Slots'
    BY <1>1, <1>2 DEF IInv, Slots, Stopped, lifecycleVars, sequencerVars
  <1>11. Capacity'
    <2>1. Since' = Since /\ InCycle /\ beforeCommands' <= committed /\ appendFailure' # "CAPACITY_REACHED"
      BY <1>1 DEF IInv, Capacity, Since, Sequencing, InCycle, ownerVars, sequencerVars
    <2>. QED  BY <1>1, <1>4, <1>5, <2>1, CapacityKeeps DEF lifecycleVars, ownerVars, capacityVars
  <1>12. Blocked'
    BY <1>1 DEF Blocked
  <1>. QED  BY <1>6, <1>7, <1>8, <1>9, <1>10, <1>11, <1>12 DEF IInv

\* What is on its way to a consumer has a synchronised frame.
LEMMA HandoffIsDurable ==
  ASSUME IInv, privateResults # <<>> \/ publicTrades # <<>>, NEW n \in Nat, recovered < n, n <= Done
  PROVE  run = "INSTALLED" /\ n \in 1..synced /\ n <= Len(journal)
  <1>1. run = "INSTALLED"
    BY DEF IInv, Slots, HandoffQueued
  <1>2. Types /\ Path
    BY DEF IInv
  <1>3. /\ Done \in Nat /\ Matched \in Nat /\ committed \in Nat /\ recovered \in Nat /\ synced \in Nat
        /\ Matched = Done + Len(PathResults) /\ committed = Matched + Len(PathCommands)
        /\ committed <= Len(journal) /\ synced <= Len(journal)
        /\ Len(PathResults) \in Nat /\ Len(PathCommands) \in Nat /\ Len(journal) \in Nat
    BY <1>2, Positions, PathTypes
  <1>4. committed > recovered /\ n <= committed
    BY <1>3
  <1>5. synced >= committed
    BY <1>1, <1>4 DEF IInv, File
  <1>. QED  BY <1>1, <1>3, <1>4, <1>5

\* A consumer is told of the next prefix.
LEMMA PopPrivatePreserves ==
  ASSUME IInv, PopPrivate
  PROVE  IInv'
  <1>1. /\ privateResults # <<>> /\ deliveredPrivate' = Append(deliveredPrivate, Head(privateResults))
        /\ privateResults' = Tail(privateResults)
        /\ UNCHANGED <<fileVars, lifecycleVars, ownerVars, sequencerVars, matcherVars, pendingPrivate,
                       pendingPublic, publicTrades, capacityVars, driverVars, deliveredPublic, faults>>
    BY DEF PopPrivate
  <1>2. /\ privateResults \in Seq(Results) /\ pendingPrivate \in Seq(Results) /\ deliveredPrivate \in Seq(Results)
        /\ Len(privateResults) <= PrivateCapacity /\ PrivateCapacity \in Nat
    BY PipelineAssumption DEF IInv, Types, HandoffTypes, DeliveredTypes
  <1>3. /\ Tail(privateResults) \in Seq(Results) /\ Head(privateResults) \in Results
        /\ Len(Tail(privateResults)) <= PrivateCapacity
    <2>1. Len(privateResults) \in Nat
      BY <1>2, LenProperties
    <2>. QED  BY <1>1, <1>2, <2>1, HeadTailProperties
  <1>4. /\ Len(Private') \in Nat /\ Len(Private) = Len(Private') + 1 /\ Private[1] = Head(privateResults)
        /\ \A i \in 1..Len(Private') : Private'[i] = Private[i + 1]
    BY <1>1, <1>2, FirstLeaves DEF Private
  <1>5. UNCHANGED <<Held, Staged, Ready, PathResults, PathCommands, Matched, Done, Public, CompletedCount, ProcessingDrained, HandoffPending>>
    BY <1>1 DEF Held, Staged, Ready, PathResults, PathCommands, Matched, Done, Public, CompletedCount, ProcessingDrained, HandoffPending,
                ownerVars, sequencerVars, matcherVars
  <1>6. Types /\ Path /\ PrivateDelivery /\ PublicDelivery /\ Index
    BY DEF IInv
  <1>7. Done \in Nat /\ recovered \in Nat /\ synced \in Nat
    BY <1>6, Positions
  <1>. DEFINE n == Done - Len(Private) + 1
  <1>8. n \in Nat /\ recovered < n /\ n <= Done /\ Done' - Len(Private') = n
    <2>1. recovered <= Done - Len(Private)
      BY <1>6 DEF PrivateDelivery
    <2>. QED  BY <1>4, <1>5, <1>7, <2>1
  <1>9. run = "INSTALLED" /\ n \in 1..synced /\ n <= Len(journal)
    BY <1>1, <1>8, HandoffIsDurable
  <1>10. Head(privateResults) = ResultOf(n)
    BY <1>4, <1>6 DEF PrivateDelivery
  <1>11. UNCHANGED <<journal, synced, torn, run, state, committed, recovered, records, applied, appendFailure, pc, pending>>
    BY <1>1 DEF fileVars, lifecycleVars, ownerVars, sequencerVars, driverVars
  <1>12. Index' /\ Path' /\ PublicDelivery'
    <2>1. Index'
      BY <1>5, <1>6, <1>11 DEF Index, Replay
    <2>2. Path'
      BY <1>5, <1>6, <1>11 DEF Path, Replay, ResultOf, MessageOf
    <2>3. PublicDelivery'
      BY <1>1, <1>5, <1>6, <1>11 DEF PublicDelivery, Replay, ResultOf, ToldFrom, ToldUpTo
    <2>. QED  BY <2>1, <2>2, <2>3
  <1>13. PrivateDelivery'
    <2>1. /\ deliveredPrivate' \in Seq(Results) /\ Len(deliveredPrivate') = Len(deliveredPrivate) + 1
          /\ Len(deliveredPrivate) \in Nat
          /\ deliveredPrivate'[Len(deliveredPrivate) + 1] = ResultOf(n)
          /\ \A i \in 1..Len(deliveredPrivate) : deliveredPrivate'[i] = deliveredPrivate[i]
      BY <1>1, <1>2, <1>3, <1>10, AppendProperties, LenProperties
    <2>2. deliveredPrivate' # <<>> /\ Last(deliveredPrivate') = ResultOf(n)
      BY <2>1, EmptySeq DEF Last
    <2>3. ResultOf(n).sequence = n /\ ResultOf(n).applied = Replay(n)
      BY DEF ResultOf
    <2>. HIDE DEF n
    <2>4. ToldFrom(deliveredPrivate)'
      BY <1>9, <1>11, <2>2, <2>3 DEF ToldFrom, Replay
    <2>5. ToldUpTo(deliveredPrivate, Done - Len(Private))'
      BY <1>8, <2>2, <2>3 DEF ToldUpTo
    <2>6. recovered' <= Done' - Len(Private')
      BY <1>7, <1>8, <1>11
    <2>7. ASSUME NEW i \in 1..Len(Private') PROVE Private'[i] = ResultOf(Done - Len(Private) + i)'
      <3>1. i + 1 \in 1..Len(Private) /\ Done' - Len(Private') + i = Done - Len(Private) + (i + 1)
        BY <1>4, <1>5, <1>7
      <3>2. Private[i + 1] = ResultOf(Done - Len(Private) + (i + 1))
        BY <1>6, <3>1 DEF PrivateDelivery
      <3>. QED  BY <1>4, <1>11, <3>1, <3>2 DEF ResultOf, Replay
    <2>8. ASSUME NEW k \in (recovered' + 1)..(Done' - Len(Private'))
          PROVE  \E i \in 1..Len(deliveredPrivate') : deliveredPrivate'[i].sequence = k
      <3>1. CASE k = n
        <4>1. Len(deliveredPrivate) + 1 \in 1..Len(deliveredPrivate') /\ deliveredPrivate'[Len(deliveredPrivate) + 1].sequence = k
          BY <2>1, <2>3, <3>1
        <4>. QED  BY <4>1
      <3>2. CASE k # n
        <4>1. k \in (recovered + 1)..(Done - Len(Private))
          BY <1>4, <1>5, <1>7, <1>8, <1>11, <3>2 DEF n
        <4>2. PICK i \in 1..Len(deliveredPrivate) : deliveredPrivate[i].sequence = k
          BY <1>6, <4>1 DEF PrivateDelivery
        <4>3. i \in 1..Len(deliveredPrivate') /\ deliveredPrivate'[i].sequence = k
          BY <2>1, <4>2
        <4>. QED  BY <4>3
      <3>. QED  BY <3>1, <3>2
    <2>. QED  BY <2>4, <2>5, <2>6, <2>7, <2>8 DEF PrivateDelivery
  <1>14. File'
    BY <1>5, <1>11, FileKeeps
  <1>15. Types'
    <2>1. FileTypes' /\ Bounds' /\ LifecycleTypes' /\ OwnerTypes' /\ CapacityTypes' /\ FaultTypes'
      BY <1>1 DEF IInv, Types, FileTypes, Bounds, LifecycleTypes, OwnerTypes, CapacityTypes,
                  FaultTypes, fileVars, lifecycleVars, ownerVars, capacityVars
    <2>2. MatcherTypes' /\ SequencerTypes' /\ DriverTypes'
      BY <1>1 DEF IInv, Types, MatcherTypes, SequencerTypes, DriverTypes, matcherVars, sequencerVars, driverVars
    <2>3. HandoffTypes'
      BY <1>1, <1>3 DEF IInv, Types, HandoffTypes
    <2>4. DeliveredTypes'
      BY <1>1, <1>2, <1>3, AppendProperties DEF IInv, Types, DeliveredTypes
    <2>. QED  BY <2>1, <2>2, <2>3, <2>4 DEF Types
  <1>16. Control'
    BY <1>1 DEF IInv, Control, lifecycleVars, ownerVars, capacityVars, driverVars
  <1>17. Slots'
    <2>1. state # "PAUSED"
      BY <1>1 DEF IInv, Slots, ResultHandoffsDrained, HandoffQueued
    <2>. QED  BY <1>1, <1>5, <1>9, <2>1 DEF IInv, Slots, Stopped, lifecycleVars, sequencerVars, matcherVars, driverVars
  <1>18. Capacity'
    <2>1. Since' = Since /\ InCycle' = InCycle
      BY <1>1 DEF Since, Sequencing, InCycle, ownerVars, driverVars
    <2>2. InCycle' => beforeCommands' <= committed
      BY <1>1, <2>1 DEF IInv, Capacity, driverVars
    <2>3. Kept(Len(journal)) /\ appendFailure' # "CAPACITY_REACHED"
      BY <1>6, <1>11, KeptUnchanged DEF IInv, Capacity
    <2>. QED  BY <1>1, <1>5, <2>1, <2>2, <2>3, CapacityKeeps DEF lifecycleVars, ownerVars, capacityVars, driverVars
  <1>19. Blocked'
    BY <1>1, <1>5 DEF IInv, Blocked, driverVars, sequencerVars, matcherVars
  <1>. QED  BY <1>12, <1>13, <1>14, <1>15, <1>16, <1>17, <1>18, <1>19 DEF IInv

\* The public consumer takes the oldest batch, the next it has to be told.
LEMMA PopPublicPreserves ==
  ASSUME IInv, PopPublic
  PROVE  IInv'
  <1>1. /\ publicTrades # <<>> /\ deliveredPublic' = Append(deliveredPublic, Head(publicTrades))
        /\ publicTrades' = Tail(publicTrades)
        /\ UNCHANGED <<fileVars, lifecycleVars, ownerVars, sequencerVars, matcherVars, pendingPrivate,
                       pendingPublic, privateResults, capacityVars, driverVars, deliveredPrivate, faults>>
    BY DEF PopPublic
  <1>2. /\ publicTrades \in Seq(Results) /\ pendingPublic \in Seq(Results) /\ deliveredPublic \in Seq(Results)
        /\ Len(publicTrades) <= PublicCapacity /\ PublicCapacity \in Nat
    BY PipelineAssumption DEF IInv, Types, HandoffTypes, DeliveredTypes
  <1>3. /\ Tail(publicTrades) \in Seq(Results) /\ Head(publicTrades) \in Results
        /\ Len(Tail(publicTrades)) <= PublicCapacity
    <2>1. Len(publicTrades) \in Nat
      BY <1>2, LenProperties
    <2>. QED  BY <1>1, <1>2, <2>1, HeadTailProperties
  <1>4. /\ Len(Public') \in Nat /\ Len(Public) = Len(Public') + 1 /\ Public[1] = Head(publicTrades)
        /\ \A i \in 1..Len(Public') : Public'[i] = Public[i + 1]
    BY <1>1, <1>2, FirstLeaves DEF Public
  <1>5. UNCHANGED <<Held, Staged, Ready, PathResults, PathCommands, Matched, Done, Private, CompletedCount, ProcessingDrained, HandoffPending>>
    BY <1>1 DEF Held, Staged, Ready, PathResults, PathCommands, Matched, Done, Private, CompletedCount, ProcessingDrained, HandoffPending,
                ownerVars, sequencerVars, matcherVars
  <1>6. Types /\ Path /\ PrivateDelivery /\ PublicDelivery /\ Index
    BY DEF IInv
  <1>7. Done \in Nat /\ recovered \in Nat /\ synced \in Nat
    BY <1>6, Positions
  <1>. DEFINE n == Public[1].sequence
  <1>8. n \in Nat /\ recovered < n /\ n <= Done /\ Public[1] = ResultOf(n)
    <2>1. 1 \in 1..Len(Public)
      BY <1>4
    <2>2. n \in (recovered + 1)..Done /\ Public[1] = ResultOf(n)
      BY <1>6, <2>1 DEF PublicDelivery
    <2>. QED  BY <1>7, <2>2
  <1>9. run = "INSTALLED" /\ n \in 1..synced /\ n <= Len(journal)
    BY <1>1, <1>8, HandoffIsDurable
  <1>10. Head(publicTrades) = ResultOf(n)
    BY <1>4, <1>8
  <1>11. UNCHANGED <<journal, synced, torn, run, state, committed, recovered, records, applied, appendFailure, pc, pending>>
    BY <1>1 DEF fileVars, lifecycleVars, ownerVars, sequencerVars, driverVars
  <1>12. Index' /\ Path' /\ PrivateDelivery'
    <2>1. Index'
      BY <1>5, <1>6, <1>11 DEF Index, Replay
    <2>2. Path'
      BY <1>5, <1>6, <1>11 DEF Path, Replay, ResultOf, MessageOf
    <2>3. PrivateDelivery'
      BY <1>1, <1>5, <1>6, <1>11 DEF PrivateDelivery, Replay, ResultOf, ToldFrom, ToldUpTo
    <2>. QED  BY <2>1, <2>2, <2>3
  <1>13. PublicDelivery'
    <2>1. /\ deliveredPublic' \in Seq(Results) /\ Len(deliveredPublic') = Len(deliveredPublic) + 1
          /\ Len(deliveredPublic) \in Nat
          /\ deliveredPublic'[Len(deliveredPublic) + 1] = ResultOf(n)
          /\ \A i \in 1..Len(deliveredPublic) : deliveredPublic'[i] = deliveredPublic[i]
      BY <1>1, <1>2, <1>3, <1>10, AppendProperties, LenProperties
    <2>2. deliveredPublic' # <<>> /\ Last(deliveredPublic') = ResultOf(n)
      BY <2>1, EmptySeq DEF Last
    <2>3. ResultOf(n).sequence = n /\ ResultOf(n).applied = Replay(n)
      BY DEF ResultOf
    <2>4. ToldFrom(deliveredPublic)'
      <3>. HIDE DEF n
      <3>. QED  BY <1>9, <1>11, <2>2, <2>3 DEF ToldFrom, Replay
    <2>5. ToldUpTo(deliveredPublic, Done)'
      <3>. HIDE DEF n
      <3>. QED  BY <1>5, <1>8, <2>2, <2>3 DEF ToldUpTo
    <2>6. ASSUME NEW i \in 1..Len(Public')
          PROVE  /\ Public'[i].sequence \in (recovered' + 1)..Done' /\ Public'[i] = ResultOf(Public[i].sequence)'
                 /\ n <= Public'[i].sequence - 1
      <3>1. i + 1 \in 1..Len(Public) /\ 1 \in 1..Len(Public) /\ 1 < i + 1
        BY <1>4
      <3>2. /\ Public[i + 1].sequence \in (recovered + 1)..Done /\ Public[i + 1] = ResultOf(Public[i + 1].sequence)
            /\ n < Public[i + 1].sequence
        BY <1>6, <3>1 DEF PublicDelivery
      <3>3. Public'[i] = Public[i + 1]
        BY <1>4
      <3>4. n <= Public[i + 1].sequence - 1
        <4>. HIDE DEF n
        <4>. QED  BY <1>7, <1>8, <3>2
      <3>. QED  BY <1>5, <1>11, <3>2, <3>3, <3>4 DEF ResultOf, Replay
    <2>7. ASSUME NEW i \in 1..Len(Public'), NEW j \in 1..Len(Public'), i < j
          PROVE  Public'[i].sequence < Public'[j].sequence
      <3>1. i + 1 \in 1..Len(Public) /\ j + 1 \in 1..Len(Public) /\ i + 1 < j + 1
        BY <1>4, <2>7
      <3>2. Public[i + 1].sequence < Public[j + 1].sequence
        BY <1>6, <3>1 DEF PublicDelivery
      <3>. QED  BY <1>4, <3>2
    <2>8. ASSUME NEW i \in 1..Len(Public') PROVE ToldUpTo(deliveredPublic, Public[i].sequence - 1)'
      <3>1. n <= Public'[i].sequence - 1
        BY <2>6
      <3>. HIDE DEF n
      <3>. QED  BY <2>2, <2>3, <3>1 DEF ToldUpTo
    <2>9. ASSUME NEW k \in (recovered' + 1)..Done', journal'[k].body \in TradingBodies
          PROVE  \/ \E i \in 1..Len(deliveredPublic') : deliveredPublic'[i].sequence = k
                 \/ \E i \in 1..Len(Public') : Public'[i].sequence = k
      <3>1. CASE k = n
        <4>1. Len(deliveredPublic) + 1 \in 1..Len(deliveredPublic') /\ deliveredPublic'[Len(deliveredPublic) + 1].sequence = k
          BY <2>1, <2>3, <3>1
        <4>. QED  BY <4>1
      <3>2. CASE k # n
        <4>1. \/ \E i \in 1..Len(deliveredPublic) : deliveredPublic[i].sequence = k
              \/ \E i \in 1..Len(Public) : Public[i].sequence = k
          BY <1>5, <1>6, <1>11, <2>9 DEF PublicDelivery
        <4>2. ASSUME NEW i \in 1..Len(deliveredPublic), deliveredPublic[i].sequence = k
              PROVE  i \in 1..Len(deliveredPublic') /\ deliveredPublic'[i].sequence = k
          BY <2>1, <4>2
        <4>3. ASSUME NEW i \in 1..Len(Public), Public[i].sequence = k
              PROVE  i - 1 \in 1..Len(Public') /\ Public'[i - 1].sequence = k
          <5>1. i # 1
            BY <3>2, <4>3
          <5>2. i - 1 \in 1..Len(Public') /\ (i - 1) + 1 = i
            BY <1>4, <5>1
          <5>. QED  BY <1>4, <4>3, <5>2
        <4>. QED  BY <4>1, <4>2, <4>3
      <3>. QED  BY <3>1, <3>2
    <2>. QED  BY <2>4, <2>5, <2>6, <2>7, <2>8, <2>9 DEF PublicDelivery
  <1>14. File'
    BY <1>5, <1>11, FileKeeps
  <1>15. Types'
    <2>1. FileTypes' /\ Bounds' /\ LifecycleTypes' /\ OwnerTypes' /\ CapacityTypes' /\ FaultTypes'
      BY <1>1 DEF IInv, Types, FileTypes, Bounds, LifecycleTypes, OwnerTypes, CapacityTypes,
                  FaultTypes, fileVars, lifecycleVars, ownerVars, capacityVars
    <2>2. MatcherTypes' /\ SequencerTypes' /\ DriverTypes'
      BY <1>1 DEF IInv, Types, MatcherTypes, SequencerTypes, DriverTypes, matcherVars, sequencerVars, driverVars
    <2>3. HandoffTypes'
      BY <1>1, <1>3 DEF IInv, Types, HandoffTypes
    <2>4. DeliveredTypes'
      BY <1>1, <1>2, <1>3, AppendProperties DEF IInv, Types, DeliveredTypes
    <2>. QED  BY <2>1, <2>2, <2>3, <2>4 DEF Types
  <1>16. Control'
    BY <1>1 DEF IInv, Control, lifecycleVars, ownerVars, capacityVars, driverVars
  <1>17. Slots'
    <2>1. state # "PAUSED"
      BY <1>1 DEF IInv, Slots, ResultHandoffsDrained, HandoffQueued
    <2>. QED  BY <1>1, <1>5, <1>9, <2>1 DEF IInv, Slots, Stopped, lifecycleVars, sequencerVars, matcherVars, driverVars
  <1>18. Capacity'
    <2>1. Since' = Since /\ InCycle' = InCycle
      BY <1>1 DEF Since, Sequencing, InCycle, ownerVars, driverVars
    <2>2. InCycle' => beforeCommands' <= committed
      BY <1>1, <2>1 DEF IInv, Capacity, driverVars
    <2>3. Kept(Len(journal)) /\ appendFailure' # "CAPACITY_REACHED"
      BY <1>6, <1>11, KeptUnchanged DEF IInv, Capacity
    <2>. QED  BY <1>1, <1>5, <2>1, <2>2, <2>3, CapacityKeeps DEF lifecycleVars, ownerVars, capacityVars, driverVars
  <1>19. Blocked'
    BY <1>1, <1>5 DEF IInv, Blocked, driverVars, sequencerVars, matcherVars
  <1>. QED  BY <1>12, <1>13, <1>14, <1>15, <1>16, <1>17, <1>18, <1>19 DEF IInv

\* The book's next state is the replay of one more frame.
LEMMA ReplayGrows ==
  ASSUME Types, NEW n \in Nat, n + 1 <= Len(journal)
  PROVE  /\ Replay(n) \in Seq(Commands) /\ Append(Replay(n), journal[n + 1]) = Replay(n + 1)
         /\ journal[n + 1] \in Commands /\ CommandOf(MessageOf(n + 1)) = journal[n + 1]
         /\ Last(Replay(n + 1)) = journal[n + 1]
         /\ ResultOf(n + 1) \in Results
  <1>1. journal \in Seq(Commands) /\ Len(journal) \in Nat
    BY PathTypes DEF Types, FileTypes
  <1>2. n + 1 \in 1..Len(journal) /\ (n + 1) - 1 = n /\ 1 \in 1..Len(journal) /\ n + 1 \in 1..Len(journal)
    BY <1>1
  <1>3. \A i \in 1..n : journal[i] \in Commands
    BY <1>1, <1>2, ElementOfSeq
  <1>4. Replay(n) \in Seq(Commands) /\ Len(Replay(n)) = n
    <2>1. Replay(n) \in Seq(Commands) /\ Len(Replay(n)) = IF 1 <= n THEN n - 1 + 1 ELSE 0
      BY <1>3, SubSeqProperties DEF Replay
    <2>. QED  BY <2>1
  <1>5. journal[n + 1] \in Commands
    BY <1>1, <1>2, ElementOfSeq
  <1>6. SubSeq(journal, 1, n + 1) = SubSeq(journal, 1, (n + 1) - 1) \o <<journal[n + 1]>>
    BY <1>1, <1>2, SubSeqRecursiveSecond
  <1>7. Append(Replay(n), journal[n + 1]) = Replay(n) \o <<journal[n + 1]>>
    BY <1>4, <1>5, AppendIsConcat
  <1>8. Replay(n) = SubSeq(journal, 1, (n + 1) - 1)
    BY <1>2 DEF Replay
  <1>9. Append(Replay(n), journal[n + 1]) = Replay(n + 1)
    BY <1>6, <1>7, <1>8 DEF Replay
  <1>10. CommandOf(MessageOf(n + 1)) = journal[n + 1]
    BY <1>5 DEF CommandOf, MessageOf, Commands
  <1>11. Last(Append(Replay(n), journal[n + 1])) = journal[n + 1]
    BY <1>4, <1>5, AppendProperties DEF Last
  <1>12. Replay(n + 1) \in Seq(Commands) /\ journal[n + 1].key \in Keys
    BY <1>4, <1>5, <1>9, AppendProperties DEF Commands
  <1>13. ResultOf(n + 1) \in Results
    BY <1>12 DEF ResultOf, Results
  <1>. QED  BY <1>4, <1>5, <1>9, <1>10, <1>11, <1>13

\* The commands between the journal and the matcher before and after one is taken.
LEMMA NextCommand ==
  ASSUME IInv, matching # <<>>, inProgress = <<>>
  PROVE  /\ Matched + 1 <= committed /\ Matched + 1 <= Len(journal) /\ Head(matching) = MessageOf(Matched + 1)
         /\ Tail(matching) \in Seq(Messages) /\ Len(Tail(matching)) <= MatchingCapacity
         /\ Head(matching) \in Messages /\ Len(PathCommands) \in Nat
         /\ Len((<<>> \o Tail(matching)) \o Ready) = Len(PathCommands) - 1
         /\ \A i \in 1..(Len(PathCommands) - 1) :
              ((<<>> \o Tail(matching)) \o Ready)[i] = MessageOf((Matched + 1) + i)
         /\ (<<Head(matching)>> \o Tail(matching)) \o Ready = PathCommands
  <1>1. Types /\ Path
    BY DEF IInv
  <1>2. /\ matching \in Seq(Messages) /\ Ready \in Seq(Messages) /\ Len(matching) <= MatchingCapacity
        /\ MatchingCapacity \in Nat /\ Len(matching) \in Nat
    BY <1>1, PathTypes, PipelineAssumption, LenProperties DEF Types, MatcherTypes
  <1>3. /\ Tail(matching) \in Seq(Messages) /\ Head(matching) \in Messages /\ Len(Tail(matching)) = Len(matching) - 1
    BY <1>2, HeadTailProperties
  <1>4. <<>> \o matching = matching /\ <<>> \o Tail(matching) = Tail(matching)
    BY <1>2, <1>3, ConcatEmptySeq
  <1>5. PathCommands = matching \o Ready
    BY <1>4 DEF PathCommands
  <1>6. /\ Len(Tail(matching) \o Ready) \in Nat /\ Len(matching \o Ready) = Len(Tail(matching) \o Ready) + 1
        /\ (matching \o Ready)[1] = Head(matching)
        /\ \A i \in 1..Len(Tail(matching) \o Ready) : (Tail(matching) \o Ready)[i] = (matching \o Ready)[i + 1]
    BY <1>2, FirstLeaves
  <1>7. /\ Matched \in Nat /\ committed = Matched + Len(PathCommands) /\ committed <= Len(journal) /\ Len(journal) \in Nat
        /\ committed \in Nat
    BY <1>1, Positions, PathTypes
  <1>8. \A i \in 1..Len(PathCommands) : PathCommands[i] = MessageOf(Matched + i)
    BY <1>1 DEF Path
  <1>9. Len(PathCommands) \in Nat /\ Len(PathCommands) = Len(Tail(matching) \o Ready) + 1
    BY <1>5, <1>6
  <1>10. Head(matching) = MessageOf(Matched + 1)
    <2>1. 1 \in 1..Len(PathCommands)
      BY <1>6, <1>9
    <2>. QED  BY <1>5, <1>6, <1>8, <2>1
  <1>11. ASSUME NEW i \in 1..(Len(PathCommands) - 1)
         PROVE  (Tail(matching) \o Ready)[i] = MessageOf((Matched + 1) + i)
    <2>1. i + 1 \in 1..Len(PathCommands) /\ i \in 1..Len(Tail(matching) \o Ready) /\ Matched + (i + 1) = (Matched + 1) + i
      BY <1>6, <1>7, <1>9
    <2>2. PathCommands[i + 1] = MessageOf((Matched + 1) + i)
      BY <1>8, <2>1
    <2>. QED  BY <1>5, <1>6, <2>1, <2>2
  <1>12. <<Head(matching)>> \o Tail(matching) = matching
    BY <1>2, HeadMoves
  <1>13. Matched + 1 <= committed /\ Matched + 1 <= Len(journal) /\ Len(Tail(matching)) <= MatchingCapacity
    BY <1>2, <1>3, <1>6, <1>7, <1>9
  <1>14. Len(Tail(matching) \o Ready) = Len(PathCommands) - 1
    BY <1>6, <1>9
  <1>. QED  BY <1>3, <1>4, <1>5, <1>9, <1>10, <1>11, <1>12, <1>13, <1>14

\* A command that makes the matcher throw stays at the head of the path.
LEMMA MatchThrowsPreserves ==
  ASSUME IInv, MatchCommand, failure' = "MATCHING_THREW", pc' = "failing", Fault, inProgress' = <<Head(matching)>>,
         UNCHANGED <<applied, results, pendingResult, progressed>>
  PROVE  IInv'
  <1>1. /\ pc = "matching" /\ pendingResult = <<>> /\ matching # <<>> /\ matching' = Tail(matching)
        /\ UNCHANGED <<fileVars, run, state, catalog, records, admissionOpen, committed, recovered, sequencerVars,
                       handoffVars, capacityVars, pausing, beforeCommands, deliveredVars>>
    BY DEF MatchCommand, MayTakeCommand
  <1>2. run = "INSTALLED" /\ state = "READY" /\ inProgress = <<>>
    BY <1>1 DEF IInv, Control, Slots, Stopped
  <1>3. /\ Tail(matching) \in Seq(Messages) /\ Len(Tail(matching)) <= MatchingCapacity
        /\ Head(matching) \in Messages /\ (<<Head(matching)>> \o Tail(matching)) \o Ready = PathCommands
    BY <1>1, <1>2, NextCommand
  <1>4. UNCHANGED <<Held, Staged, PathResults, PathCommands, Private, Public>>
    <2>1. Ready' = Ready
      BY <1>1 DEF Ready, sequencerVars
    <2>2. PathCommands' = PathCommands
      BY <1>1, <1>3, <2>1 DEF PathCommands
    <2>. QED  BY <1>1, <2>2 DEF Held, Staged, PathResults, Private, Public, handoffVars, sequencerVars
  <1>5. Kept(Len(journal)) /\ synced' = synced /\ synced \in Nat
    BY <1>1, KeptUnchanged DEF IInv, Types, FileTypes, fileVars
  <1>6. Index' /\ Path' /\ PrivateDelivery' /\ PublicDelivery'
    <2>1. synced' \in Nat /\ synced' >= synced
      BY <1>5
    <2>. QED  BY <1>1, <1>4, <1>5, <2>1, DataKeeps DEF deliveredVars
  <1>7. File'
    BY <1>1, <1>4, FileKeeps DEF fileVars, sequencerVars
  <1>8. Types'
    <2>1. FileTypes' /\ Bounds' /\ OwnerTypes' /\ HandoffTypes' /\ CapacityTypes' /\ DeliveredTypes'
      BY <1>1 DEF IInv, Types, FileTypes, Bounds, OwnerTypes, HandoffTypes, CapacityTypes, DeliveredTypes,
                  fileVars, handoffVars, capacityVars, deliveredVars
    <2>2. MatcherTypes'
      <3>1. inProgress' \in Seq(Messages) /\ Len(inProgress') = 1
        BY <1>3
      <3>. QED  BY <1>1, <1>3, <3>1 DEF IInv, Types, MatcherTypes
    <2>3. SequencerTypes' /\ DriverTypes' /\ LifecycleTypes'
      BY <1>1 DEF IInv, Types, SequencerTypes, DriverTypes, LifecycleTypes, sequencerVars
    <2>4. FaultTypes'
      BY PipelineAssumption DEF IInv, Types, FaultTypes, Fault
    <2>. QED  BY <2>1, <2>2, <2>3, <2>4 DEF Types
  <1>9. Control'
    BY <1>1, <1>2 DEF IInv, Control, capacityVars
  <1>10. Slots'
    BY <1>1, <1>2 DEF IInv, Slots, Stopped, sequencerVars, capacityVars
  <1>11. Capacity'
    <2>1. Since' = Since /\ InCycle /\ beforeCommands' <= committed /\ appendFailure' # "CAPACITY_REACHED"
      BY <1>1 DEF IInv, Capacity, Since, Sequencing, InCycle, sequencerVars
    <2>. QED  BY <1>1, <1>4, <1>5, <2>1, CapacityKeeps DEF capacityVars
  <1>12. Blocked'
    BY DEF Blocked
  <1>. QED  BY <1>6, <1>7, <1>8, <1>9, <1>10, <1>11, <1>12 DEF IInv

\* One command is applied: it leaves the commands of the path and its result joins
\* the results, at the same position.
LEMMA MatchCommandPreserves ==
  ASSUME IInv, MatchCommand
  PROVE  IInv'
  <1>. DEFINE m == Head(matching)
              result == [key |-> m.key, sequence |-> m.sequence, applied |-> Append(applied, CommandOf(m))]
  <1>1. /\ pc = "matching" /\ pendingResult = <<>> /\ matching # <<>> /\ matching' = Tail(matching)
        /\ UNCHANGED <<fileVars, run, state, catalog, records, admissionOpen, committed, recovered, sequencerVars,
                       handoffVars, capacityVars, pausing, beforeCommands, deliveredVars>>
    BY DEF MatchCommand, MayTakeCommand
  <1>2. run = "INSTALLED" /\ state = "READY" /\ inProgress = <<>>
    BY <1>1 DEF IInv, Control, Slots, Stopped
  <1>3. SUFFICES ASSUME /\ applied' = result.applied
                        /\ IF Room(results, ResultCapacity)
                           THEN results' = Append(results, result) /\ UNCHANGED pendingResult
                           ELSE pendingResult' = <<result>> /\ UNCHANGED results
                        /\ progressed' = TRUE
                        /\ UNCHANGED <<inProgress, failure, pc, faults>>
                 PROVE  IInv'
    BY MatchThrowsPreserves DEF MatchCommand
  <1>4. /\ Matched + 1 <= committed /\ Matched + 1 <= Len(journal) /\ m = MessageOf(Matched + 1)
        /\ Tail(matching) \in Seq(Messages) /\ Len(Tail(matching)) <= MatchingCapacity
        /\ Len(PathCommands) \in Nat
        /\ Len((<<>> \o Tail(matching)) \o Ready) = Len(PathCommands) - 1
        /\ \A i \in 1..(Len(PathCommands) - 1) :
              ((<<>> \o Tail(matching)) \o Ready)[i] = MessageOf((Matched + 1) + i)
    BY <1>1, <1>2, NextCommand
  <1>5. Types /\ Path /\ Index /\ PrivateDelivery /\ PublicDelivery
    BY DEF IInv
  <1>6. /\ Matched \in Nat /\ Done \in Nat /\ committed \in Nat /\ Matched = Done + Len(PathResults)
        /\ committed = Matched + Len(PathCommands) /\ Len(PathResults) \in Nat
    BY <1>5, Positions, PathTypes
  <1>7. result = ResultOf(Matched + 1) /\ result \in Results /\ applied' = Replay(Matched + 1)
    <2>1. applied = Replay(Matched)
      BY <1>5 DEF Path
    <2>2. /\ Append(Replay(Matched), journal[Matched + 1]) = Replay(Matched + 1)
          /\ journal[Matched + 1] \in Commands /\ CommandOf(MessageOf(Matched + 1)) = journal[Matched + 1]
          /\ Replay(Matched) \in Seq(Commands) /\ ResultOf(Matched + 1) \in Results
      BY <1>4, <1>5, <1>6, ReplayGrows
    <2>3. Append(applied, CommandOf(m)) = Replay(Matched + 1)
      BY <1>4, <2>1, <2>2
    <2>4. m.key = journal[Matched + 1].key /\ m.sequence = Matched + 1
      BY <1>4 DEF MessageOf
    <2>5. result = ResultOf(Matched + 1)
      BY <2>3, <2>4 DEF ResultOf
    <2>. QED  BY <1>3, <2>2, <2>3, <2>5
  <1>. HIDE DEF m, result
  <1>8. /\ PathResults' = Append(PathResults, result) /\ PathResults \in Seq(Results)
        /\ MatcherTypes'
    <2>1. /\ results \in Seq(Results) /\ Len(results) \in Nat /\ ResultCapacity \in Nat /\ Len(results) <= ResultCapacity
          /\ inProgress \in Seq(Messages) /\ Len(inProgress) <= 1
      BY <1>5, LenProperties, PipelineAssumption DEF Types, MatcherTypes
    <2>2. /\ results \o <<>> = results /\ Append(results, result) = results \o <<result>>
      BY <1>7, <2>1, ConcatEmptySeq, AppendIsConcat
    <2>3. PathResults = results
      BY <1>1, <2>2 DEF PathResults
    <2>4. /\ Append(results, result) \in Seq(Results) /\ Len(Append(results, result)) = Len(results) + 1
      BY <1>7, <2>1, AppendProperties
    <2>5. CASE Room(results, ResultCapacity)
      <3>1. results' = Append(results, result) /\ pendingResult' = <<>>
        BY <1>1, <1>3, <2>5
      <3>2. Append(results, result) \o <<>> = Append(results, result)
        BY <2>4, ConcatEmptySeq
      <3>3. Len(results) + 1 <= ResultCapacity
        BY <2>1, <2>5 DEF Room
      <3>4. pendingResult' \in Seq(Results) /\ Len(pendingResult') <= 1
        BY <1>5, <3>1, EmptySeq DEF Types, MatcherTypes
      <3>5. results' \in Seq(Results) /\ Len(results') <= ResultCapacity
        BY <2>4, <3>1, <3>3
      <3>. QED  BY <1>1, <1>3, <1>4, <2>1, <2>3, <3>1, <3>2, <3>4, <3>5 DEF PathResults, MatcherTypes
    <2>6. CASE ~Room(results, ResultCapacity)
      <3>1. results' = results /\ pendingResult' = <<result>>
        BY <1>3, <2>6
      <3>2. pendingResult' \in Seq(Results) /\ Len(pendingResult') = 1
        BY <1>7, <3>1
      <3>. QED  BY <1>1, <1>3, <1>4, <2>1, <2>2, <2>3, <3>1, <3>2 DEF PathResults, MatcherTypes
    <2>. QED  BY <2>5, <2>6
  <1>9. UNCHANGED <<Held, Staged, Ready, Private, Public, CompletedCount, journal>>
    BY <1>1 DEF Held, Staged, Ready, Private, Public, CompletedCount, fileVars, handoffVars, sequencerVars
  <1>10. /\ Len(PathResults') = Len(PathResults) + 1
         /\ \A i \in 1..Len(PathResults) : PathResults'[i] = PathResults[i]
         /\ PathResults'[Len(PathResults) + 1] = result
    BY <1>7, <1>8, AppendProperties
  <1>11. PathCommands' = (<<>> \o Tail(matching)) \o Ready
    BY <1>1, <1>2, <1>3, <1>9 DEF PathCommands
  <1>12. Matched' = Matched + 1 /\ Done' = Done
    <2>1. Matched' = committed' - Len(PathCommands') /\ committed' = committed
      BY <1>1 DEF Matched
    <2>2. Matched' = Matched + 1
      <3>1. Len(PathCommands') = Len(PathCommands) - 1
        BY <1>4, <1>11
      <3>. QED  BY <1>4, <1>6, <2>1, <3>1
    <2>3. Done' = Matched' - Len(PathResults')
      BY DEF Done
    <2>. QED  BY <1>6, <1>10, <2>2, <2>3
  <1>13. Path'
    <2>1. ASSUME NEW i \in 1..Len(PathResults') PROVE PathResults'[i] = ResultOf(Done + i)
      <3>1. CASE i \in 1..Len(PathResults)
        BY <1>5, <1>10, <3>1 DEF Path
      <3>2. CASE i = Len(PathResults) + 1
        <4>1. Done + i = Matched + 1
          BY <1>6, <3>2
        <4>. QED  BY <1>7, <1>10, <3>2, <4>1
      <3>. QED  BY <1>6, <1>10, <3>1, <3>2
    <2>2. ASSUME NEW i \in 1..Len(PathCommands') PROVE PathCommands'[i] = MessageOf(Matched' + i)
      BY <1>4, <1>11, <1>12
    <2>3. applied' = Replay(Matched')
      BY <1>7, <1>12
    <2>. QED  BY <1>6, <1>9, <1>12, <2>1, <2>2, <2>3 DEF Path, Replay, ResultOf, MessageOf
  <1>14. Index' /\ PrivateDelivery' /\ PublicDelivery'
    <2>1. Index'
      BY <1>1, <1>5, <1>9, <1>12 DEF Index, Replay
    <2>2. PrivateDelivery'
      BY <1>1, <1>5, <1>9, <1>12 DEF PrivateDelivery, Replay, ResultOf, ToldFrom, ToldUpTo, fileVars, deliveredVars
    <2>3. PublicDelivery'
      BY <1>1, <1>5, <1>9, <1>12 DEF PublicDelivery, Replay, ResultOf, ToldFrom, ToldUpTo, fileVars, deliveredVars
    <2>. QED  BY <2>1, <2>2, <2>3
  <1>15. File'
    BY <1>1, <1>3, <1>9, FileKeeps DEF fileVars, sequencerVars
  <1>16. Types'
    <2>1. FileTypes' /\ Bounds' /\ HandoffTypes' /\ CapacityTypes' /\ DeliveredTypes' /\ FaultTypes'
      BY <1>1, <1>3 DEF IInv, Types, FileTypes, Bounds, HandoffTypes, CapacityTypes, DeliveredTypes, FaultTypes,
                  fileVars, handoffVars, capacityVars, deliveredVars
    <2>2. OwnerTypes'
      <3>1. applied' \in Seq(Commands)
        <4>1. result.applied \in Seq(Commands)
          BY <1>7 DEF Results
        <4>. QED  BY <1>3, <4>1
      <3>. QED  BY <1>1, <3>1 DEF IInv, Types, OwnerTypes
    <2>3. SequencerTypes' /\ LifecycleTypes'
      BY <1>1, <1>3 DEF IInv, Types, SequencerTypes, LifecycleTypes, sequencerVars
    <2>4. DriverTypes'
      BY <1>1, <1>3 DEF IInv, Types, DriverTypes
    <2>. QED  BY <1>8, <2>1, <2>2, <2>3, <2>4 DEF Types
  <1>17. Control'
    BY <1>1, <1>2, <1>3 DEF IInv, Control, capacityVars
  <1>18. Slots'
    BY <1>1, <1>2, <1>3 DEF IInv, Slots, Stopped, sequencerVars, capacityVars
  <1>19. Capacity'
    <2>1. Since' = Since /\ InCycle /\ beforeCommands' <= committed /\ appendFailure' # "CAPACITY_REACHED"
      BY <1>1, <1>3 DEF IInv, Capacity, Since, Sequencing, InCycle, sequencerVars
    <2>2. Kept(Len(journal))
      BY <1>5, <1>9, KeptUnchanged
    <2>. QED  BY <1>1, <1>3, <1>9, <2>1, <2>2, CapacityKeeps DEF capacityVars
  <1>20. Blocked'
    BY <1>3 DEF Blocked
  <1>. QED  BY <1>13, <1>14, <1>15, <1>16, <1>17, <1>18, <1>19, <1>20 DEF IInv

\* What is offered to a handoff queue is in the queue or still in the slot.
Offered(capacity, q, slot, q2, slot2) ==
  \/ q2 = q /\ slot2 = slot
  \/ slot # <<>> /\ Room(q, capacity) /\ q2 = q \o slot /\ slot2 = <<>>

\* Offering a slot to a queue that may refuse it keeps the sequence both form.
LEMMA Offer ==
  ASSUME NEW S, NEW capacity \in Nat, NEW q \in Seq(S), Len(q) <= capacity, NEW slot \in Seq(S), Len(slot) <= 1,
         NEW q2, NEW slot2, Offered(capacity, q, slot, q2, slot2)
  PROVE  /\ q2 \in Seq(S) /\ Len(q2) <= capacity
         /\ slot2 \in Seq(S) /\ Len(slot2) <= 1
         /\ q2 \o slot2 = q \o slot
  <1>1. CASE q2 = q /\ slot2 = slot
    BY <1>1
  <1>2. CASE slot # <<>> /\ Room(q, capacity) /\ q2 = q \o slot /\ slot2 = <<>>
    <2>1. Len(slot) = 1
      BY <1>2, SlotHoldsOne
    <2>2. Len(q) \in Nat /\ Len(q) < capacity
      BY <1>2, LenProperties DEF Room
    <2>3. q \o slot \in Seq(S) /\ Len(q \o slot) = Len(q) + Len(slot)
      BY ConcatProperties
    <2>4. (q \o slot) \o <<>> = q \o slot /\ <<>> \in Seq(S) /\ Len(<<>>) = 0
      BY <2>3, ConcatEmptySeq, EmptySeq
    <2>5. Len(q \o slot) <= capacity
      BY <2>1, <2>2, <2>3
    <2>. QED  BY <1>2, <2>3, <2>4, <2>5
  <1>. QED  BY <1>1, <1>2 DEF Offered

\* A cycle that completes nothing offers what is held once more.
LEMMA DispatchOffersPreserves ==
  ASSUME IInv, DispatchResult, HandoffPending \/ results = <<>>
  PROVE  IInv'
  <1>. DEFINE pushesPrivate == pendingPrivate # <<>> /\ Room(privateResults, PrivateCapacity)
              pushesPublic == pendingPublic # <<>> /\ Room(publicTrades, PublicCapacity)
  <1>1. /\ pc = "dispatching" /\ pc' = "returning"
        /\ privateResults' = IF pushesPrivate THEN privateResults \o pendingPrivate ELSE privateResults
        /\ pendingPrivate' = IF pushesPrivate THEN <<>> ELSE pendingPrivate
        /\ publicTrades' = IF pushesPublic THEN publicTrades \o pendingPublic ELSE publicTrades
        /\ pendingPublic' = IF pushesPublic THEN <<>> ELSE pendingPublic
        /\ UNCHANGED <<records, results, failure>>
        /\ UNCHANGED <<fileVars, run, state, catalog, admissionOpen, committed, applied, recovered, sequencerVars,
                       matching, inProgress, pendingResult, capacityVars, pausing, beforeCommands, deliveredVars, faults>>
    BY DEF DispatchResult
  <1>2. progressed' = (progressed \/ pushesPrivate \/ pushesPublic)
    BY DEF DispatchResult
  <1>3. run = "INSTALLED" /\ state = "READY"
    BY <1>1 DEF IInv, Control
  <1>4. HandoffTypes' /\ UNCHANGED <<Private, Public>>
    <2>1. /\ pendingPrivate \in Seq(Results) /\ Len(pendingPrivate) <= 1
          /\ privateResults \in Seq(Results) /\ Len(privateResults) <= PrivateCapacity /\ PrivateCapacity \in Nat
      BY PipelineAssumption DEF IInv, Types, HandoffTypes
    <2>2. /\ pendingPublic \in Seq(Results) /\ Len(pendingPublic) <= 1
          /\ publicTrades \in Seq(Results) /\ Len(publicTrades) <= PublicCapacity /\ PublicCapacity \in Nat
      BY PipelineAssumption DEF IInv, Types, HandoffTypes
    <2>3. /\ privateResults' \in Seq(Results) /\ Len(privateResults') <= PrivateCapacity
          /\ pendingPrivate' \in Seq(Results) /\ Len(pendingPrivate') <= 1
          /\ privateResults' \o pendingPrivate' = privateResults \o pendingPrivate
      <3>1. Offered(PrivateCapacity, privateResults, pendingPrivate, privateResults', pendingPrivate')
        BY <1>1 DEF Offered
      <3>. QED  BY <2>1, <3>1, Offer, SMTT(30)
    <2>4. /\ publicTrades' \in Seq(Results) /\ Len(publicTrades') <= PublicCapacity
          /\ pendingPublic' \in Seq(Results) /\ Len(pendingPublic') <= 1
          /\ publicTrades' \o pendingPublic' = publicTrades \o pendingPublic
      <3>1. Offered(PublicCapacity, publicTrades, pendingPublic, publicTrades', pendingPublic')
        BY <1>1 DEF Offered
      <3>. QED  BY <2>2, <3>1, Offer, SMTT(30)
    <2>. QED  BY <2>3, <2>4 DEF HandoffTypes, Private, Public
  <1>5. UNCHANGED <<Held, Staged, Ready, PathResults, PathCommands>>
    BY <1>1 DEF Held, Staged, Ready, PathResults, PathCommands, sequencerVars
  <1>6. Kept(Len(journal)) /\ synced' = synced /\ synced \in Nat
    BY <1>1, KeptUnchanged DEF IInv, Types, FileTypes, fileVars
  <1>7. Index' /\ Path' /\ PrivateDelivery' /\ PublicDelivery'
    <2>1. synced' \in Nat /\ synced' >= synced
      BY <1>6
    <2>. QED  BY <1>1, <1>4, <1>5, <1>6, <2>1, DataKeeps DEF deliveredVars
  <1>8. File'
    BY <1>1, <1>5, FileKeeps DEF fileVars, sequencerVars
  <1>9. Types'
    <2>1. FileTypes' /\ Bounds' /\ OwnerTypes' /\ LifecycleTypes' /\ CapacityTypes' /\ DeliveredTypes' /\ FaultTypes'
      BY <1>1 DEF IInv, Types, FileTypes, Bounds, OwnerTypes, LifecycleTypes, CapacityTypes, DeliveredTypes, FaultTypes,
                  fileVars, capacityVars, deliveredVars
    <2>2. SequencerTypes' /\ MatcherTypes'
      BY <1>1 DEF IInv, Types, SequencerTypes, MatcherTypes, sequencerVars
    <2>3. progressed' \in BOOLEAN
      BY <1>2 DEF IInv, Types, DriverTypes
    <2>4. DriverTypes'
      BY <1>1, <2>3 DEF IInv, Types, DriverTypes
    <2>. QED  BY <1>4, <2>1, <2>2, <2>4 DEF Types
  <1>10. Control'
    BY <1>1, <1>3 DEF IInv, Control, capacityVars
  <1>11. Slots'
    BY <1>1, <1>3 DEF IInv, Slots, Stopped, sequencerVars, capacityVars
  <1>12. Capacity'
    BY <1>1, <1>3, <1>5, <1>6, QuietCapacity DEF Sequencing, InCycle, capacityVars, sequencerVars
  <1>13. Blocked'
    <2>1. ASSUME ~progressed'
          PROVE  /\ ~progressed /\ UNCHANGED <<pendingPrivate, pendingPublic, pending, ingress, matching, pendingResult, results>>
                 /\ ProcessingDrained' = ProcessingDrained /\ HandoffPending' = HandoffPending
      <3>1. ~progressed /\ ~pushesPrivate /\ ~pushesPublic
        BY <1>2, <2>1
      <3>2. UNCHANGED <<pendingPrivate, pendingPublic, pending, ingress, matching, inProgress, pendingResult, results>>
        BY <1>1, <3>1 DEF sequencerVars
      <3>. QED  BY <3>1, <3>2 DEF ProcessingDrained, HandoffPending
    <2>2. CASE progressed'
      BY <2>2 DEF Blocked
    <2>3. CASE ~progressed'
      BY <1>1, <2>1, <2>3 DEF IInv, Blocked
    <2>. QED  BY <2>2, <2>3
  <1>. QED  BY <1>7, <1>8, <1>9, <1>10, <1>11, <1>12, <1>13 DEF IInv

\* The record of a completed command.
Finish(k, value) == [records EXCEPT ![k].state = "COMPLETED", ![k].result = value]

\* Completion changes one record, to COMPLETED with its result.
LEMMA FinishRecord ==
  ASSUME OwnerTypes, NEW k \in DOMAIN records, NEW value \in Seq(Commands)
  PROVE  /\ DOMAIN Finish(k, value) = DOMAIN records
         /\ Finish(k, value) \in [DOMAIN records -> Records]
         /\ Finish(k, value)[k].state = "COMPLETED" /\ Finish(k, value)[k].result = value
         /\ Finish(k, value)[k].body = records[k].body /\ Finish(k, value)[k].sequence = records[k].sequence
         /\ \A j \in DOMAIN records : j # k => Finish(k, value)[j] = records[j]
  BY DEF Finish, OwnerTypes, Records

\* The next result is the one of the next committed command, which completes.
LEMMA NextResult ==
  ASSUME IInv, results # <<>>
  PROVE  LET k == journal[Done + 1].key
             rest == Tail(results) \o pendingResult
         IN  /\ Head(results) = ResultOf(Done + 1) /\ ResultOf(Done + 1) \in Results
             /\ Done + 1 <= committed /\ Done + 1 <= Len(journal)
             /\ k \in DOMAIN records /\ records[k].state = "SEQUENCED" /\ records[k].sequence = Done + 1
             /\ records[k].body = journal[Done + 1].body
             /\ Last(Replay(Done + 1)) = journal[Done + 1]
             /\ Tail(results) \in Seq(Results) /\ Len(Tail(results)) <= ResultCapacity
             /\ Len(rest) \in Nat /\ Len(PathResults) = Len(rest) + 1
             /\ \A i \in 1..Len(rest) : rest[i] = ResultOf((Done + 1) + i)
  <1>. DEFINE k == journal[Done + 1].key
              rest == Tail(results) \o pendingResult
  <1>1. Types /\ Path /\ Index
    BY DEF IInv
  <1>2. results \in Seq(Results) /\ pendingResult \in Seq(Results) /\ Len(results) <= ResultCapacity
        /\ ResultCapacity \in Nat /\ Len(results) \in Nat
    BY <1>1, PipelineAssumption, LenProperties DEF Types, MatcherTypes
  <1>3. /\ Len(rest) \in Nat /\ Len(PathResults) = Len(rest) + 1 /\ PathResults[1] = Head(results)
        /\ \A i \in 1..Len(rest) : rest[i] = PathResults[i + 1]
    BY <1>2, FirstLeaves DEF PathResults
  <1>. HIDE DEF rest
  <1>4. /\ Done \in Nat /\ committed \in Nat /\ Matched = Done + Len(PathResults) /\ committed = Matched + Len(PathCommands)
        /\ committed <= Len(journal) /\ Len(PathCommands) \in Nat /\ Len(journal) \in Nat
    BY <1>1, Positions, PathTypes
  <1>5. Done + 1 <= committed /\ Done + 1 <= Len(journal) /\ Done + 1 \in 1..committed /\ ~(Done + 1 <= Done)
    BY <1>3, <1>4
  <1>6. \A i \in 1..Len(PathResults) : PathResults[i] = ResultOf(Done + i)
    BY <1>1 DEF Path
  <1>7. Head(results) = ResultOf(Done + 1)
    <2>1. 1 \in 1..Len(PathResults)
      BY <1>3
    <2>. QED  BY <1>3, <1>6, <2>1
  <1>8. /\ k \in DOMAIN records /\ records[k].state = "SEQUENCED" /\ records[k].sequence = Done + 1
        /\ records[k].body = journal[Done + 1].body
    BY <1>1, <1>5 DEF Index
  <1>9. Last(Replay(Done + 1)) = journal[Done + 1] /\ ResultOf(Done + 1) \in Results
    BY <1>1, <1>4, <1>5, ReplayGrows
  <1>10. Tail(results) \in Seq(Results) /\ Len(Tail(results)) <= ResultCapacity
    BY <1>2, HeadTailProperties
  <1>11. ASSUME NEW i \in 1..Len(rest) PROVE rest[i] = ResultOf((Done + 1) + i)
    <2>1. i + 1 \in 1..Len(PathResults) /\ Done + (i + 1) = (Done + 1) + i
      BY <1>3, <1>4
    <2>2. PathResults[i + 1] = ResultOf((Done + 1) + i)
      BY <1>6, <2>1
    <2>. QED  BY <1>3, <2>2
  <1>. QED  BY <1>3, <1>5, <1>7, <1>8, <1>9, <1>10, <1>11 DEF rest

\* The command of a taken result is completed; its result is held or queued.
LEMMA DispatchTakesPreserves ==
  ASSUME IInv, DispatchResult, ~HandoffPending, results # <<>>
  PROVE  IInv'
  <1>. DEFINE n == Done + 1
              k == journal[n].key
              r == ResultOf(n)
              trades == journal[n].body \in TradingBodies
              public == IF trades THEN <<r>> ELSE <<>>
  <1>1. /\ Head(results) = r /\ r \in Results /\ n <= committed /\ n <= Len(journal)
        /\ k \in DOMAIN records /\ records[k].state = "SEQUENCED" /\ records[k].sequence = n
        /\ records[k].body = journal[n].body /\ Last(Replay(n)) = journal[n]
        /\ Tail(results) \in Seq(Results) /\ Len(Tail(results)) <= ResultCapacity
        /\ Len(Tail(results) \o pendingResult) \in Nat
        /\ Len(PathResults) = Len(Tail(results) \o pendingResult) + 1
        /\ \A i \in 1..Len(Tail(results) \o pendingResult) : (Tail(results) \o pendingResult)[i] = ResultOf((Done + 1) + i)
    BY NextResult
  <1>2. r.key = k /\ r.sequence = n /\ r.applied = Replay(n) /\ HasTrades(r) = trades /\ CanComplete(r)
    <2>1. r.key = k /\ r.sequence = n /\ r.applied = Replay(n)
      BY DEF ResultOf
    <2>. QED  BY <1>1, <2>1 DEF HasTrades, CanComplete
  <1>3. /\ pc = "dispatching" /\ pc' = "returning" /\ progressed' = TRUE
        /\ records' = Finish(k, Replay(n)) /\ results' = Tail(results)
        /\ Offered(PrivateCapacity, privateResults, <<r>>, privateResults', pendingPrivate')
        /\ Offered(PublicCapacity, publicTrades, public, publicTrades', pendingPublic')
        /\ UNCHANGED <<fileVars, run, state, catalog, failure, admissionOpen, committed, applied, recovered, sequencerVars,
                       matching, inProgress, pendingResult, capacityVars, pausing, beforeCommands, deliveredVars, faults>>
    <2>. DEFINE private == <<Head(results)>>
                offered == IF HasTrades(Head(results)) THEN <<Head(results)>> ELSE <<>>
                pushesPrivate == private # <<>> /\ Room(privateResults, PrivateCapacity)
                pushesPublic == offered # <<>> /\ Room(publicTrades, PublicCapacity)
    <2>1. /\ pc = "dispatching"
          /\ UNCHANGED <<fileVars, run, state, catalog, admissionOpen, committed, applied, recovered, sequencerVars,
                         matching, inProgress, pendingResult, capacityVars, pausing, beforeCommands, deliveredVars, faults>>
      BY DEF DispatchResult
    <2>2. CanComplete(Head(results))
      BY <1>1, <1>2
    <2>3. /\ records' = [records EXCEPT ![Head(results).key].state = "COMPLETED",
                                        ![Head(results).key].result = Head(results).applied]
          /\ results' = Tail(results) /\ pc' = "returning" /\ UNCHANGED failure
          /\ privateResults' = IF pushesPrivate THEN privateResults \o private ELSE privateResults
          /\ pendingPrivate' = IF pushesPrivate THEN <<>> ELSE private
          /\ publicTrades' = IF pushesPublic THEN publicTrades \o offered ELSE publicTrades
          /\ pendingPublic' = IF pushesPublic THEN <<>> ELSE offered
      BY <2>2 DEF DispatchResult
    <2>4. progressed' = TRUE
      BY <2>2 DEF DispatchResult
    <2>5. private = <<r>> /\ offered = public
      BY <1>1, <1>2
    <2>6. records' = Finish(k, Replay(n))
      BY <1>1, <1>2, <2>3 DEF Finish
    <2>. HIDE DEF private, offered, r, public
    <2>7. /\ Offered(PrivateCapacity, privateResults, <<r>>, privateResults', pendingPrivate')
          /\ Offered(PublicCapacity, publicTrades, public, publicTrades', pendingPublic')
      BY <2>3, <2>5 DEF Offered
    <2>. QED  BY <2>1, <2>3, <2>4, <2>6, <2>7
  <1>4. run = "INSTALLED" /\ state = "READY"
    BY <1>3 DEF IInv, Control
  <1>5. Types /\ Path /\ Index /\ PrivateDelivery /\ PublicDelivery
    BY DEF IInv
  <1>6. /\ Done \in Nat /\ n \in Nat /\ committed \in Nat /\ recovered \in Nat /\ recovered <= committed /\ Len(PathResults) \in Nat
        /\ committed <= Len(journal) /\ Len(journal) \in Nat
    BY <1>5, Positions, PathTypes, SMTT(30)
  <1>7. Replay(n) \in Seq(Commands)
    BY <1>1, <1>2 DEF Results
  <1>8. UNCHANGED <<Held, Staged, Ready, PathCommands, Matched, journal>>
    BY <1>3 DEF Held, Staged, Ready, PathCommands, Matched, fileVars, sequencerVars
  <1>9. PathResults' = Tail(results) \o pendingResult /\ Done' = n
    <2>1. PathResults' = Tail(results) \o pendingResult
      BY <1>3 DEF PathResults
    <2>2. Done' = Matched - Len(PathResults') /\ Done = Matched - Len(PathResults) /\ Matched \in Int
      BY <1>5, <1>8, PathTypes DEF Done
    <2>. QED  BY <1>1, <1>6, <2>1, <2>2
  <1>. HIDE DEF n, k, r, trades
  <1>10. /\ HandoffTypes' /\ Private' = Append(Private, r) /\ Private \in Seq(Results) /\ Public \in Seq(Results)
         /\ Public' = IF trades THEN Append(Public, r) ELSE Public
    <2>1. pendingPrivate = <<>> /\ pendingPublic = <<>>
      BY DEF HandoffPending
    <2>2. privateResults \in Seq(Results) /\ Len(privateResults) <= PrivateCapacity /\ PrivateCapacity \in Nat
      BY <1>5, PipelineAssumption DEF Types, HandoffTypes
    <2>3. publicTrades \in Seq(Results) /\ Len(publicTrades) <= PublicCapacity /\ PublicCapacity \in Nat
      BY <1>5, PipelineAssumption DEF Types, HandoffTypes
    <2>4. Private = privateResults /\ Public = publicTrades
      BY <2>1, <2>2, <2>3, ConcatEmptySeq DEF Private, Public
    <2>5. <<r>> \in Seq(Results) /\ Len(<<r>>) <= 1 /\ <<>> \in Seq(Results) /\ Len(<<>>) <= 1
      BY <1>1, EmptySeq
    <2>6. public \in Seq(Results) /\ Len(public) <= 1
      BY <2>5
    <2>7. /\ privateResults' \in Seq(Results) /\ Len(privateResults') <= PrivateCapacity
          /\ pendingPrivate' \in Seq(Results) /\ Len(pendingPrivate') <= 1
          /\ privateResults' \o pendingPrivate' = privateResults \o <<r>>
      <3>. DEFINE slot == <<r>>
      <3>1. Offered(PrivateCapacity, privateResults, slot, privateResults', pendingPrivate')
        BY <1>3
      <3>2. slot \in Seq(Results) /\ Len(slot) <= 1
        BY <2>5
      <3>. HIDE DEF slot
      <3>3. /\ privateResults' \in Seq(Results) /\ Len(privateResults') <= PrivateCapacity
            /\ pendingPrivate' \in Seq(Results) /\ Len(pendingPrivate') <= 1
            /\ privateResults' \o pendingPrivate' = privateResults \o slot
        BY <2>2, <3>1, <3>2, Offer, SMTT(30)
      <3>. QED  BY <3>3 DEF slot
    <2>8. /\ publicTrades' \in Seq(Results) /\ Len(publicTrades') <= PublicCapacity
          /\ pendingPublic' \in Seq(Results) /\ Len(pendingPublic') <= 1
          /\ publicTrades' \o pendingPublic' = publicTrades \o public
      <3>. HIDE DEF public
      <3>. QED  BY <1>3, <2>3, <2>6, Offer
    <2>9. privateResults \o <<r>> = Append(privateResults, r) /\ publicTrades \o <<r>> = Append(publicTrades, r)
      BY <1>1, <2>2, <2>3, AppendIsConcat
    <2>10. publicTrades \o public = IF trades THEN Append(publicTrades, r) ELSE publicTrades
      BY <2>3, <2>9, ConcatEmptySeq
    <2>. QED  BY <2>2, <2>3, <2>4, <2>7, <2>8, <2>9, <2>10 DEF HandoffTypes, Private, Public
  <1>. HIDE DEF public
  <1>11. /\ DOMAIN records' = DOMAIN records /\ records' \in [DOMAIN records -> Records]
         /\ records'[k].state = "COMPLETED" /\ records'[k].result = Replay(n)
         /\ records'[k].body = records[k].body /\ records'[k].sequence = n
         /\ \A j \in DOMAIN records : j # k => records'[j] = records[j]
    <2>1. OwnerTypes
      BY <1>5 DEF Types
    <2>. QED  BY <1>1, <1>3, <1>7, <2>1, FinishRecord
  <1>12. CompletedCount' = CompletedCount + 1
    <2>. DEFINE before == {j \in DOMAIN records : records[j].state = "COMPLETED"}
    <2>1. IsFiniteSet(before)
      <3>1. IsFiniteSet(DOMAIN records) /\ before \in SUBSET DOMAIN records
        BY <1>5 DEF Index
      <3>. QED  BY <3>1, FS_Subset
    <2>2. k \notin before
      BY <1>1
    <2>3. {j \in DOMAIN records' : records'[j].state = "COMPLETED"} = before \cup {k}
      BY <1>1, <1>11
    <2>. HIDE DEF before
    <2>4. Cardinality(before \cup {k}) = Cardinality(before) + 1
      BY <2>1, <2>2, FS_AddElement
    <2>5. CompletedCount' = Cardinality(before \cup {k})
      BY <2>3 DEF CompletedCount
    <2>6. CompletedCount = Cardinality(before)
      BY DEF CompletedCount, before
    <2>. QED  BY <2>4, <2>5, <2>6
  <1>13. Index'
    <2>1. ASSUME NEW i \in 1..Len(Staged)
          PROVE  Staged[i].key # k /\ records'[Staged[i].key] = records[Staged[i].key]
      BY <1>1, <1>5, <1>11 DEF Index
    <2>2. ASSUME NEW i \in 1..committed
          PROVE  /\ journal[i].key \in DOMAIN records' /\ records'[journal[i].key].body = journal[i].body
                 /\ records'[journal[i].key].sequence = i
                 /\ records'[journal[i].key].state = IF i <= n THEN "COMPLETED" ELSE "SEQUENCED"
                 /\ i <= n => records'[journal[i].key].result = Replay(i)
      <3>1. /\ journal[i].key \in DOMAIN records /\ records[journal[i].key].body = journal[i].body
            /\ records[journal[i].key].sequence = i
            /\ records[journal[i].key].state = IF i <= Done THEN "COMPLETED" ELSE "SEQUENCED"
            /\ i <= Done => records[journal[i].key].result = Replay(i)
        BY <1>5 DEF Index
      <3>2. CASE i = n
        <4>1. journal[i].key = k /\ i <= n
          BY <1>6, <3>2 DEF k
        <4>. QED  BY <1>1, <1>11, <3>1, <3>2, <4>1
      <3>3. CASE i # n
        <4>1. journal[i].key # k
          BY <1>1, <3>1, <3>3
        <4>2. i <= n <=> i <= Done
          BY <1>6, <3>3 DEF n
        <4>3. records'[journal[i].key] = records[journal[i].key]
          BY <1>11, <3>1, <4>1
        <4>. QED  BY <1>11, <3>1, <4>2, <4>3
      <3>. QED  BY <3>2, <3>3
    <2>3. CompletedCount' = Done'
      BY <1>5, <1>9, <1>12 DEF Index, n
    <2>4. committed' = committed
      BY <1>3
    <2>5. \A i \in 1..committed : Replay(i)' = Replay(i)
      BY <1>8 DEF Replay
    <2>6. \A i \in 1..Len(Staged) : /\ Staged[i].key \in DOMAIN records'
                                    /\ records'[Staged[i].key].body = Staged[i].body
                                    /\ records'[Staged[i].key].state = "RESERVED"
      BY <1>5, <1>11, <2>1 DEF Index
    <2>7. /\ IsFiniteSet(DOMAIN records') /\ Cardinality(DOMAIN records') = committed + Len(Staged)
          /\ Cardinality(DOMAIN records') <= MaxRunCommands
          /\ \A i, j \in 1..Len(Staged) : Staged[i].key = Staged[j].key => i = j
          /\ \A j \in DOMAIN records' : \/ \E i \in 1..Len(Staged) : j = Staged[i].key
                                        \/ \E i \in 1..committed : j = journal[i].key
      BY <1>5, <1>11 DEF Index
    <2>. QED  BY <1>8, <1>9, <2>2, <2>3, <2>4, <2>5, <2>6, <2>7, SMTT(30) DEF Index
  <1>14. Path'
    <2>1. \A i \in 1..Len(PathResults') : PathResults'[i] = ResultOf(Done' + i)
      BY <1>1, <1>9 DEF n
    <2>. QED  BY <1>3, <1>5, <1>6, <1>8, <1>9, <2>1 DEF Path, Replay, ResultOf, MessageOf
  <1>15. /\ Len(Private) \in Nat /\ Len(Private') = Len(Private) + 1 /\ Private'[Len(Private) + 1] = r
         /\ \A i \in 1..Len(Private) : Private'[i] = Private[i]
    BY <1>1, <1>10, AppendProperties, LenProperties
  <1>16. PrivateDelivery'
    <2>1. Done' - Len(Private') = Done - Len(Private) /\ recovered' = recovered /\ deliveredPrivate' = deliveredPrivate
          /\ synced' = synced
      BY <1>3, <1>6, <1>9, <1>15 DEF n, deliveredVars, fileVars
    <2>2. ASSUME NEW i \in 1..Len(Private') PROVE Private'[i] = ResultOf(Done - Len(Private) + i)
      <3>1. CASE i \in 1..Len(Private)
        BY <1>5, <1>15, <3>1 DEF PrivateDelivery
      <3>2. CASE i = Len(Private) + 1
        <4>1. Done - Len(Private) + i = n
          BY <1>6, <1>15, <3>2 DEF n
        <4>. QED  BY <1>15, <3>2, <4>1 DEF r
      <3>. QED  BY <1>15, <3>1, <3>2
    <2>. QED  BY <1>3, <1>5, <1>8, <2>1, <2>2 DEF PrivateDelivery, ResultOf, Replay, ToldFrom, ToldUpTo
  <1>17. PublicDelivery'
    <2>1. recovered' = recovered /\ deliveredPublic' = deliveredPublic /\ synced' = synced /\ run' = run
      BY <1>3 DEF deliveredVars, fileVars
    <2>2. recovered < n
      <3>1. recovered <= Done - Len(Private)
        BY <1>5 DEF PrivateDelivery
      <3>. QED  BY <1>6, <1>15, <3>1 DEF n
    <2>3. ToldFrom(deliveredPublic) /\ ToldUpTo(deliveredPublic, Done)
      BY <1>4, <1>5 DEF PublicDelivery
    <2>4. ToldUpTo(deliveredPublic, n) /\ ToldUpTo(deliveredPublic, n - 1)
      <3>1. n - 1 = Done
        BY <1>6 DEF n
      <3>2. deliveredPublic # <<>> => Last(deliveredPublic).sequence \in Int
        BY <2>3 DEF ToldFrom
      <3>. QED  BY <1>6, <2>3, <3>1, <3>2 DEF ToldUpTo
    <2>5. /\ \A i \in 1..Len(Public) : /\ Public[i].sequence \in (recovered + 1)..n /\ Public[i].sequence < n
                                       /\ Public[i] = ResultOf(Public[i].sequence)
                                       /\ ToldUpTo(deliveredPublic, Public[i].sequence - 1)
          /\ \A i, j \in 1..Len(Public) : i < j => Public[i].sequence < Public[j].sequence
      <3>1. \A i \in 1..Len(Public) : Public[i].sequence \in (recovered + 1)..Done
        BY <1>5 DEF PublicDelivery
      <3>2. \A x \in (recovered + 1)..Done : x \in (recovered + 1)..n /\ x < n
        BY <1>6 DEF n
      <3>. QED  BY <1>5, <3>1, <3>2 DEF PublicDelivery
    <2>6. ASSUME NEW x \in (recovered + 1)..n, x # n, journal[x].body \in TradingBodies
          PROVE  \/ \E i \in 1..Len(deliveredPublic) : deliveredPublic[i].sequence = x
                 \/ \E i \in 1..Len(Public) : Public[i].sequence = x
      <3>1. x \in (recovered + 1)..Done
        BY <1>6, <2>6 DEF n
      <3>. QED  BY <1>5, <2>6, <3>1 DEF PublicDelivery
    <2>7. CASE ~trades
      <3>1. Public' = Public
        BY <1>10, <2>7
      <3>2. \A x \in (recovered + 1)..n : journal[x].body \in TradingBodies =>
              \/ \E i \in 1..Len(deliveredPublic) : deliveredPublic[i].sequence = x
              \/ \E i \in 1..Len(Public) : Public[i].sequence = x
        BY <2>6, <2>7 DEF trades
      <3>. QED  BY <1>8, <1>9, <2>1, <2>3, <2>4, <2>5, <3>1, <3>2 DEF PublicDelivery, ResultOf, Replay, ToldFrom, ToldUpTo
    <2>8. CASE trades
      <3>1. /\ Len(Public) \in Nat /\ Len(Public') = Len(Public) + 1 /\ Public'[Len(Public) + 1] = r
            /\ \A i \in 1..Len(Public) : Public'[i] = Public[i]
        BY <1>1, <1>10, <2>8, AppendProperties, LenProperties
      <3>2. ASSUME NEW i \in 1..Len(Public')
            PROVE  /\ Public'[i].sequence \in (recovered + 1)..n /\ Public'[i] = ResultOf(Public'[i].sequence)
                   /\ ToldUpTo(deliveredPublic, Public'[i].sequence - 1)
        <4>1. CASE i \in 1..Len(Public)
          BY <2>5, <3>1, <4>1
        <4>2. CASE i = Len(Public) + 1
          <5>1. Public'[i] = r /\ r.sequence = n /\ r = ResultOf(n)
            BY <1>2, <3>1, <4>2 DEF r
          <5>2. n \in (recovered + 1)..n
            BY <1>6, <2>2
          <5>. QED  BY <2>4, <5>1, <5>2
        <4>. QED  BY <3>1, <4>1, <4>2
      <3>3. ASSUME NEW i \in 1..Len(Public'), NEW j \in 1..Len(Public'), i < j
            PROVE  Public'[i].sequence < Public'[j].sequence
        <4>1. i \in 1..Len(Public) /\ (j \in 1..Len(Public) \/ j = Len(Public) + 1)
          BY <3>1, <3>3
        <4>2. CASE j \in 1..Len(Public)
          BY <2>5, <3>1, <3>3, <4>1, <4>2
        <4>3. CASE j = Len(Public) + 1
          BY <1>2, <2>5, <3>1, <4>1, <4>3
        <4>. QED  BY <4>1, <4>2, <4>3
      <3>4. ASSUME NEW x \in (recovered + 1)..n, journal[x].body \in TradingBodies
            PROVE  \/ \E i \in 1..Len(deliveredPublic) : deliveredPublic[i].sequence = x
                   \/ \E i \in 1..Len(Public') : Public'[i].sequence = x
        <4>1. CASE x = n
          <5>1. Len(Public) + 1 \in 1..Len(Public') /\ Public'[Len(Public) + 1].sequence = x
            BY <1>2, <3>1, <4>1
          <5>. QED  BY <5>1
        <4>2. CASE x # n
          <5>1. \/ \E i \in 1..Len(deliveredPublic) : deliveredPublic[i].sequence = x
                \/ \E i \in 1..Len(Public) : Public[i].sequence = x
            BY <2>6, <3>4, <4>2
          <5>2. ASSUME NEW i \in 1..Len(Public), Public[i].sequence = x
                PROVE  i \in 1..Len(Public') /\ Public'[i].sequence = x
            BY <3>1, <5>2
          <5>. QED  BY <5>1, <5>2
        <4>. QED  BY <4>1, <4>2
      <3>. QED  BY <1>8, <1>9, <2>1, <2>3, <2>4, <3>2, <3>3, <3>4 DEF PublicDelivery, ResultOf, Replay, ToldFrom, ToldUpTo
    <2>. QED  BY <2>7, <2>8
  <1>18. File'
    BY <1>3, <1>8, FileKeeps DEF fileVars, sequencerVars
  <1>19. Types'
    <2>1. FileTypes' /\ Bounds' /\ LifecycleTypes' /\ CapacityTypes' /\ DeliveredTypes' /\ FaultTypes'
      BY <1>3 DEF IInv, Types, FileTypes, Bounds, LifecycleTypes, CapacityTypes, DeliveredTypes, FaultTypes,
                  fileVars, capacityVars, deliveredVars
    <2>2. OwnerTypes'
      BY <1>3, <1>5, <1>11 DEF Types, OwnerTypes
    <2>3. MatcherTypes'
      BY <1>1, <1>3, <1>5 DEF Types, MatcherTypes
    <2>4. SequencerTypes'
      BY <1>3, <1>5 DEF Types, SequencerTypes, sequencerVars
    <2>5. DriverTypes'
      BY <1>3, <1>5 DEF Types, DriverTypes
    <2>. QED  BY <1>10, <2>1, <2>2, <2>3, <2>4, <2>5 DEF Types
  <1>20. Control'
    BY <1>3, <1>4 DEF IInv, Control, capacityVars
  <1>21. Slots'
    BY <1>3, <1>4 DEF IInv, Slots, Stopped, sequencerVars, capacityVars
  <1>22. Capacity'
    <2>1. Kept(Len(journal))
      BY <1>5, <1>8, KeptUnchanged
    <2>. QED  BY <1>3, <1>4, <1>8, <2>1, QuietCapacity DEF Sequencing, InCycle, capacityVars, sequencerVars
  <1>23. Blocked'
    BY <1>3 DEF Blocked
  <1>. QED  BY <1>13, <1>14, <1>16, <1>17, <1>18, <1>19, <1>20, <1>21, <1>22, <1>23 DEF IInv

\* The dispatcher's two turns: offering what waits, or taking a new result.
LEMMA DispatchResultPreserves ==
  ASSUME IInv, DispatchResult
  PROVE  IInv'
  BY DispatchOffersPreserves, DispatchTakesPreserves

\* The record of a sequenced command.
Bind(k, n) == [records EXCEPT ![k].state = "SEQUENCED", ![k].sequence = n]

\* markSequenced changes one record, to SEQUENCED with its sequence.
LEMMA BindRecord ==
  ASSUME OwnerTypes, NEW k \in DOMAIN records, NEW n \in Nat
  PROVE  /\ DOMAIN Bind(k, n) = DOMAIN records
         /\ Bind(k, n) \in [DOMAIN records -> Records]
         /\ Bind(k, n)[k].state = "SEQUENCED" /\ Bind(k, n)[k].sequence = n
         /\ Bind(k, n)[k].body = records[k].body /\ Bind(k, n)[k].result = records[k].result
         /\ \A j \in DOMAIN records : j # k => Bind(k, n)[j] = records[j]
  BY DEF Bind, OwnerTypes, Records

\* The frame on its way to the disk is the one of the command that is held.
LEMMA HeldFrame ==
  ASSUME IInv, pc = "syncing"
  PROVE  LET c == journal[committed + 1]
         IN  /\ run = "INSTALLED" /\ state = "READY" /\ pending # <<>> /\ ~pendingReady /\ appendFailure = "NONE" /\ ~torn
             /\ Len(journal) = committed + 1 /\ c \in Commands
             /\ pending[1] = MessageOf(committed + 1) /\ pending = <<MessageOf(committed + 1)>>
             /\ MessageOf(committed + 1) \in Messages
             /\ Held = <<c>> /\ Staged = <<c>> \o ingress /\ ingress \in Seq(Commands)
             /\ Len(Staged) = Len(ingress) + 1 /\ Staged[1] = c /\ \A i \in 1..Len(ingress) : Staged[i + 1] = ingress[i]
             /\ c.key \in DOMAIN records /\ records[c.key].body = c.body /\ records[c.key].state = "RESERVED"
  <1>. DEFINE c == journal[committed + 1]
  <1>1. Types /\ File /\ Index
    BY DEF IInv
  <1>2. run = "INSTALLED" /\ state = "READY" /\ pending # <<>> /\ ~pendingReady /\ appendFailure = "NONE"
    BY DEF IInv, Control, Slots
  <1>3. ~torn /\ Len(journal) = committed + 1 /\ Held = <<c>>
    BY <1>1, <1>2 DEF File
  <1>4. journal \in Seq(Commands) /\ committed \in Nat /\ pending \in Seq(Messages) /\ Len(pending) <= 1 /\ ingress \in Seq(Commands)
    BY <1>1 DEF Types, FileTypes, OwnerTypes, SequencerTypes
  <1>5. c \in Commands
    <2>1. committed + 1 \in 1..Len(journal)
      BY <1>3, <1>4
    <2>. QED  BY <1>4, <2>1, ElementOfSeq
  <1>6. Len(pending) = 1 /\ pending[1] \in Messages
    BY <1>2, <1>4, SlotHoldsOne
  <1>7. pending[1].sequence = committed + 1 /\ CommandOf(pending[1]) = c
    <2>1. Held # <<>>
      BY <1>3
    <2>2. pending[1].sequence = committed + 1
      BY <1>1, <2>1 DEF File
    <2>3. <<CommandOf(pending[1])>> = <<c>>
      BY <1>2, <1>3 DEF Held
    <2>. QED  BY <2>2, <2>3
  <1>8. pending[1] = MessageOf(committed + 1)
    <2>1. pending[1].key = c.key /\ pending[1].body = c.body
      <3>1. CommandOf(pending[1]).key = pending[1].key /\ CommandOf(pending[1]).body = pending[1].body
        BY DEF CommandOf
      <3>. QED  BY <1>7, <3>1
    <2>2. pending[1] = [key |-> pending[1].key, body |-> pending[1].body, sequence |-> pending[1].sequence]
      BY <1>6 DEF Messages
    <2>. QED  BY <1>7, <2>1, <2>2 DEF MessageOf
  <1>9. pending = <<pending[1]>>
    <2>1. <<pending[1]>> \in Seq(Messages) /\ Len(<<pending[1]>>) = 1
      BY <1>6
    <2>. QED  BY <1>4, <1>6, <2>1, SeqEqual
  <1>10. /\ Staged = <<c>> \o ingress
         /\ Len(Staged) = Len(ingress) + 1 /\ Staged[1] = c /\ \A i \in 1..Len(ingress) : Staged[i + 1] = ingress[i]
    <2>1. Staged = <<c>> \o ingress
      BY <1>3 DEF Staged
    <2>2. <<c>> \in Seq(Commands) /\ Len(<<c>>) = 1 /\ <<c>>[1] = c /\ Len(ingress) \in Nat
      BY <1>4, <1>5, LenProperties
    <2>. HIDE DEF c
    <2>. QED  BY <1>4, <2>1, <2>2, ConcatProperties
  <1>11. c.key \in DOMAIN records /\ records[c.key].body = c.body /\ records[c.key].state = "RESERVED"
    <2>1. 1 \in 1..Len(Staged)
      BY <1>4, <1>10, LenProperties
    <2>. QED  BY <1>1, <1>10, <2>1 DEF Index
  <1>12. MessageOf(committed + 1) \in Messages
    BY <1>6, <1>8
  <1>. QED  BY <1>2, <1>3, <1>4, <1>5, <1>8, <1>9, <1>10, <1>11, <1>12

\* A synchronisation that fails leaves the frame behind an uncertain append.
LEMMA SyncFailsPreserves ==
  ASSUME IInv, SyncFrame, Fault, appendFailure' = "RECOVERY_REQUIRED", pc' = "sequencing",
         UNCHANGED <<synced, committed, records, pendingReady, failure>>
  PROVE  IInv'
  <1>1. /\ pc = "syncing"
        /\ UNCHANGED <<journal, torn, run, state, catalog, admissionOpen, applied, recovered, ingress, pending,
                       matcherVars, handoffVars, capacityVars, pausing, progressed, beforeCommands, deliveredVars>>
    BY DEF SyncFrame
  <1>2. /\ run = "INSTALLED" /\ state = "READY" /\ pending # <<>> /\ ~pendingReady /\ appendFailure = "NONE" /\ ~torn
        /\ Len(journal) = committed + 1 /\ Held = <<journal[committed + 1]>>
    BY <1>1, HeldFrame
  <1>3. UNCHANGED <<Held, Staged, PathResults, PathCommands, Private, Public>>
    BY <1>1 DEF Held, Staged, Ready, PathResults, PathCommands, Private, Public, matcherVars, handoffVars
  <1>4. Kept(Len(journal)) /\ synced' = synced /\ synced \in Nat
    BY <1>1, KeptUnchanged DEF IInv, Types, FileTypes
  <1>5. Index' /\ Path' /\ PrivateDelivery' /\ PublicDelivery'
    <2>1. synced' \in Nat /\ synced' >= synced
      BY <1>4
    <2>. QED  BY <1>1, <1>3, <1>4, <2>1, DataKeeps DEF deliveredVars
  <1>6. File'
    BY <1>1, <1>2, <1>3 DEF IInv, File, DistinctKeys, CommittedBytes, Bytes, FrameCells, FrameSize
  <1>7. Types'
    <2>1. FileTypes' /\ Bounds' /\ OwnerTypes' /\ LifecycleTypes' /\ CapacityTypes' /\ DeliveredTypes'
      BY <1>1 DEF IInv, Types, FileTypes, Bounds, OwnerTypes, LifecycleTypes, CapacityTypes, DeliveredTypes,
                  capacityVars, deliveredVars
    <2>2. SequencerTypes' /\ MatcherTypes' /\ HandoffTypes'
      BY <1>1 DEF IInv, Types, SequencerTypes, MatcherTypes, HandoffTypes, matcherVars, handoffVars
    <2>3. DriverTypes'
      BY <1>1 DEF IInv, Types, DriverTypes
    <2>4. FaultTypes'
      BY PipelineAssumption DEF IInv, Types, FaultTypes, Fault
    <2>. QED  BY <2>1, <2>2, <2>3, <2>4 DEF Types
  <1>8. Control'
    BY <1>1, <1>2 DEF IInv, Control, capacityVars
  <1>9. Slots'
    BY <1>1, <1>2 DEF IInv, Slots, Stopped, matcherVars
  <1>10. Capacity'
    <2>1. Since' = Since /\ InCycle /\ beforeCommands' <= committed
      BY <1>1 DEF IInv, Capacity, Since, Sequencing, InCycle
    <2>. QED  BY <1>1, <1>3, <1>4, <2>1, CapacityKeeps DEF capacityVars
  <1>11. Blocked'
    BY <1>1, <1>2 DEF Blocked, ProcessingDrained
  <1>. QED  BY <1>5, <1>6, <1>7, <1>8, <1>9, <1>10, <1>11 DEF IInv

\* A synchronised frame is committed and its command leaves the staged ones.
LEMMA SyncFramePreserves ==
  ASSUME IInv, SyncFrame
  PROVE  IInv'
  <1>. DEFINE n == committed + 1
              c == journal[n]
              k == c.key
  <1>1. /\ pc = "syncing"
        /\ UNCHANGED <<journal, torn, run, state, catalog, admissionOpen, applied, recovered, ingress, pending,
                       matcherVars, handoffVars, capacityVars, pausing, progressed, beforeCommands, deliveredVars>>
    BY DEF SyncFrame
  <1>2. /\ run = "INSTALLED" /\ state = "READY" /\ pending # <<>> /\ ~pendingReady /\ appendFailure = "NONE" /\ ~torn
        /\ Len(journal) = n /\ c \in Commands
        /\ pending[1] = MessageOf(n) /\ pending = <<MessageOf(n)>> /\ MessageOf(n) \in Messages
        /\ Held = <<c>> /\ Staged = <<c>> \o ingress /\ ingress \in Seq(Commands)
        /\ Len(Staged) = Len(ingress) + 1 /\ Staged[1] = c /\ \A i \in 1..Len(ingress) : Staged[i + 1] = ingress[i]
        /\ k \in DOMAIN records /\ records[k].body = c.body /\ records[k].state = "RESERVED"
    BY <1>1, HeldFrame
  <1>3. CanMarkSequenced(pending[1])
    BY <1>2 DEF CanMarkSequenced, MessageOf
  <1>4. SUFFICES ASSUME /\ synced' = Len(journal) /\ committed' = n /\ records' = Bind(k, n)
                        /\ pendingReady' = TRUE /\ pc' = "sequencing"
                        /\ UNCHANGED <<failure, appendFailure, faults>>
                 PROVE  IInv'
    <2>1. pending[1].key = k /\ pending[1].sequence = n
      BY <1>2 DEF MessageOf
    <2>. QED  BY <1>3, <2>1, SyncFailsPreserves DEF SyncFrame, Bind
  <1>5. Types /\ Path /\ Index /\ File /\ PrivateDelivery /\ PublicDelivery /\ Capacity
    BY DEF IInv
  <1>6. /\ Done \in Nat /\ n \in Nat /\ committed \in Nat /\ recovered \in Nat /\ recovered <= committed /\ synced \in Nat
        /\ Len(PathResults) \in Nat /\ Len(PathCommands) \in Nat /\ synced <= Len(journal)
        /\ committed = Matched + Len(PathCommands) /\ Matched = Done + Len(PathResults) /\ Matched \in Nat /\ Len(ingress) \in Nat
    BY <1>2, <1>5, Positions, PathTypes, LenProperties
  <1>7. Held' = <<>> /\ Staged' = ingress
    <2>1. Held' = <<>>
      BY <1>4 DEF Held
    <2>. QED  BY <1>1, <1>2, <2>1, ConcatEmptySeq DEF Staged
  <1>8. PathCommands' = Append(PathCommands, MessageOf(n)) /\ UNCHANGED <<PathResults, Private, Public>>
    <2>1. Ready = <<>> /\ Ready' = <<MessageOf(n)>>
      BY <1>1, <1>2, <1>4 DEF Ready
    <2>2. inProgress \o matching \in Seq(Messages)
      BY <1>5, ConcatProperties DEF Types, MatcherTypes
    <2>3. /\ (inProgress \o matching) \o <<>> = inProgress \o matching
          /\ (inProgress \o matching) \o <<MessageOf(n)>> = Append(inProgress \o matching, MessageOf(n))
      BY <1>2, <2>2, ConcatEmptySeq, AppendIsConcat
    <2>. QED  BY <1>1, <2>1, <2>3 DEF PathCommands, PathResults, Private, Public, matcherVars, handoffVars
  <1>9. /\ Len(PathCommands') = Len(PathCommands) + 1 /\ PathCommands'[Len(PathCommands) + 1] = MessageOf(n)
        /\ \A i \in 1..Len(PathCommands) : PathCommands'[i] = PathCommands[i]
    BY <1>2, <1>5, <1>8, PathTypes, AppendProperties
  <1>10. Matched' = Matched /\ Done' = Done
    <2>1. Matched' = committed' - Len(PathCommands') /\ Done' = Matched' - Len(PathResults')
      BY DEF Matched, Done
    <2>2. Matched' = Matched
      BY <1>4, <1>6, <1>9, <2>1
    <2>. QED  BY <1>6, <1>8, <2>1, <2>2
  <1>. HIDE DEF n, c, k
  <1>11. Path'
    <2>1. ASSUME NEW i \in 1..Len(PathCommands') PROVE PathCommands'[i] = MessageOf(Matched + i)
      <3>1. CASE i \in 1..Len(PathCommands)
        BY <1>5, <1>9, <3>1 DEF Path
      <3>2. CASE i = Len(PathCommands) + 1
        <4>1. Matched + i = n
          BY <1>6, <3>2 DEF n
        <4>. QED  BY <1>9, <3>2, <4>1
      <3>. QED  BY <1>6, <1>9, <3>1, <3>2
    <2>. QED  BY <1>1, <1>5, <1>8, <1>10, <2>1 DEF Path, ResultOf, MessageOf, Replay
  <1>12. /\ DOMAIN records' = DOMAIN records /\ records' \in [DOMAIN records -> Records]
         /\ records'[k].state = "SEQUENCED" /\ records'[k].sequence = n /\ records'[k].body = records[k].body
         /\ \A j \in DOMAIN records : j # k => records'[j] = records[j]
    <2>1. OwnerTypes
      BY <1>5 DEF Types
    <2>. QED  BY <1>2, <1>4, <1>6, <2>1, BindRecord
  <1>13. Index'
    <2>1. CompletedCount' = CompletedCount
      <3>1. {j \in DOMAIN records' : records'[j].state = "COMPLETED"} = {j \in DOMAIN records : records[j].state = "COMPLETED"}
        BY <1>2, <1>12
      <3>. QED  BY <3>1 DEF CompletedCount
    <2>2. ASSUME NEW i \in 1..Len(ingress)
          PROVE  /\ ingress[i].key \in DOMAIN records' /\ records'[ingress[i].key].body = ingress[i].body
                 /\ records'[ingress[i].key].state = "RESERVED"
      <3>1. i + 1 \in 1..Len(Staged) /\ 1 \in 1..Len(Staged) /\ i + 1 # 1
        BY <1>2, <1>6
      <3>2. Staged[i + 1].key # Staged[1].key
        BY <1>5, <3>1 DEF Index
      <3>3. ingress[i].key # k
        BY <1>2, <3>2 DEF k
      <3>. QED  BY <1>2, <1>5, <1>12, <3>1, <3>3 DEF Index
    <2>3. ASSUME NEW i \in 1..Len(ingress), NEW j \in 1..Len(ingress), ingress[i].key = ingress[j].key PROVE i = j
      <3>1. i + 1 \in 1..Len(Staged) /\ j + 1 \in 1..Len(Staged)
        BY <1>2, <1>6
      <3>2. \A a, b \in 1..Len(Staged) : Staged[a].key = Staged[b].key => a = b
        BY <1>5 DEF Index
      <3>3. Staged[i + 1] = ingress[i] /\ Staged[j + 1] = ingress[j]
        BY <1>2
      <3>4. i + 1 = j + 1
        BY <2>3, <3>1, <3>2, <3>3
      <3>. QED  BY <3>4
    <2>4. ASSUME NEW i \in 1..n
          PROVE  /\ journal[i].key \in DOMAIN records' /\ records'[journal[i].key].body = journal[i].body
                 /\ records'[journal[i].key].sequence = i
                 /\ records'[journal[i].key].state = IF i <= Done THEN "COMPLETED" ELSE "SEQUENCED"
                 /\ i <= Done => records'[journal[i].key].result = Replay(i)
      <3>1. CASE i = n
        <4>1. ~(i <= Done)
          BY <1>6, <3>1 DEF n
        <4>2. journal[i].key = k /\ journal[i] = c
          BY <3>1 DEF k, c
        <4>. QED  BY <1>2, <1>12, <3>1, <4>1, <4>2
      <3>2. CASE i # n
        <4>1. i \in 1..committed
          BY <1>6, <3>2 DEF n
        <4>2. /\ journal[i].key \in DOMAIN records /\ records[journal[i].key].body = journal[i].body
              /\ records[journal[i].key].sequence = i
              /\ records[journal[i].key].state = IF i <= Done THEN "COMPLETED" ELSE "SEQUENCED"
              /\ i <= Done => records[journal[i].key].result = Replay(i)
          BY <1>5, <4>1 DEF Index
        <4>3. journal[i].key # k
          BY <1>2, <4>2
        <4>. QED  BY <1>12, <4>2, <4>3
      <3>. QED  BY <3>1, <3>2
    <2>5. ASSUME NEW j \in DOMAIN records'
          PROVE  \/ \E i \in 1..Len(ingress) : j = ingress[i].key
                 \/ \E i \in 1..n : j = journal[i].key
      <3>1. \/ \E i \in 1..Len(Staged) : j = Staged[i].key
            \/ \E i \in 1..committed : j = journal[i].key
        BY <1>5, <1>12 DEF Index
      <3>2. ASSUME NEW i \in 1..committed, j = journal[i].key PROVE i \in 1..n /\ j = journal[i].key
        BY <1>6, <3>2 DEF n
      <3>3. ASSUME NEW i \in 1..Len(Staged), j = Staged[i].key, i = 1 PROVE n \in 1..n /\ j = journal[n].key
        BY <1>2, <1>6, <3>3 DEF n, c
      <3>4. ASSUME NEW i \in 1..Len(Staged), j = Staged[i].key, i # 1
            PROVE  i - 1 \in 1..Len(ingress) /\ j = ingress[i - 1].key
        <4>1. i - 1 \in 1..Len(ingress) /\ (i - 1) + 1 = i
          BY <1>2, <1>6, <3>4
        <4>. QED  BY <1>2, <3>4, <4>1
      <3>. QED  BY <3>1, <3>2, <3>3, <3>4
    <2>6. /\ IsFiniteSet(DOMAIN records') /\ Cardinality(DOMAIN records') = n + Len(ingress)
          /\ Cardinality(DOMAIN records') <= MaxRunCommands
      <3>1. Cardinality(DOMAIN records) = committed + Len(Staged) /\ IsFiniteSet(DOMAIN records)
            /\ Cardinality(DOMAIN records) <= MaxRunCommands
        BY <1>5 DEF Index
      <3>2. committed + Len(Staged) = n + Len(ingress)
        BY <1>2, <1>6 DEF n
      <3>. QED  BY <1>12, <3>1, <3>2
    <2>7. CompletedCount' = Done'
      BY <1>5, <1>10, <2>1 DEF Index
    <2>8. journal' = journal /\ \A i \in 1..n : Replay(i)' = Replay(i)
      BY <1>1 DEF Replay
    <2>. QED  BY <1>4, <1>7, <1>10, <2>2, <2>3, <2>4, <2>5, <2>6, <2>7, <2>8 DEF Index
  <1>14. ASSUME NEW channel, ToldFrom(channel)
         PROVE  channel # <<>> => /\ Last(channel).sequence \in 1..synced'
                                  /\ Last(channel).applied = SubSeq(journal', 1, Last(channel).sequence)
    <2>1. 1..synced \subseteq 1..synced'
      BY <1>2, <1>4, <1>6
    <2>. QED  BY <1>1, <1>14, <2>1 DEF ToldFrom, Replay
  <1>15. PrivateDelivery'
    <2>1. ToldFrom(deliveredPrivate)'
      BY <1>1, <1>5, <1>14 DEF PrivateDelivery, ToldFrom, Replay, deliveredVars
    <2>. QED  BY <1>1, <1>5, <1>8, <1>10, <2>1 DEF PrivateDelivery, ToldUpTo, ResultOf, Replay, deliveredVars
  <1>16. PublicDelivery'
    <2>1. ToldFrom(deliveredPublic)'
      BY <1>1, <1>5, <1>14 DEF PublicDelivery, ToldFrom, Replay, deliveredVars
    <2>. QED  BY <1>1, <1>5, <1>8, <1>10, <2>1 DEF PublicDelivery, ToldUpTo, ResultOf, Replay, deliveredVars
  <1>17. File'
    <2>1. /\ DistinctKeys(journal)' /\ Len(journal') <= MaxRunCommands
          /\ \A i \in 1..Len(journal') : journal'[i].body \notin PoisonBodies
          /\ CommittedBytes(Len(journal))' <= MaxRunJournalBytes
      BY <1>1, <1>5 DEF File, DistinctKeys, CommittedBytes, Bytes, FrameCells, FrameSize
    <2>2. Len(journal') = committed' /\ synced' >= committed'
      BY <1>1, <1>2, <1>4, <1>6
    <2>. QED  BY <1>1, <1>2, <1>4, <1>7, <2>1, <2>2 DEF File
  <1>18. Types'
    <2>1. FileTypes' /\ LifecycleTypes' /\ CapacityTypes' /\ DeliveredTypes' /\ FaultTypes'
      <3>1. synced' \in Nat
        BY <1>2, <1>4, <1>6
      <3>. QED  BY <1>1, <1>4, <1>5, <3>1 DEF Types, FileTypes, LifecycleTypes, CapacityTypes, DeliveredTypes, FaultTypes,
                  capacityVars, deliveredVars
    <2>2. OwnerTypes'
      BY <1>1, <1>4, <1>5, <1>6, <1>12 DEF Types, OwnerTypes
    <2>3. Bounds'
      <3>1. synced' = n /\ committed' = n /\ Len(journal') = n /\ recovered' = recovered
        BY <1>1, <1>2, <1>4
      <3>2. recovered <= n /\ n <= n
        BY <1>6 DEF n
      <3>. QED  BY <3>1, <3>2 DEF Bounds
    <2>4. MatcherTypes' /\ HandoffTypes'
      BY <1>1, <1>5 DEF Types, MatcherTypes, HandoffTypes, matcherVars, handoffVars
    <2>5. SequencerTypes'
      <3>1. pendingReady' \in BOOLEAN
        BY <1>4
      <3>. QED  BY <1>1, <1>4, <1>5, <3>1 DEF Types, SequencerTypes
    <2>6. DriverTypes'
      BY <1>1, <1>4, <1>5 DEF Types, DriverTypes
    <2>. QED  BY <2>1, <2>2, <2>3, <2>4, <2>5, <2>6 DEF Types
  <1>19. Control'
    BY <1>1, <1>2, <1>4 DEF IInv, Control, capacityVars
  <1>20. Slots'
    BY <1>1, <1>2, <1>4 DEF IInv, Slots, Stopped, matcherVars
  <1>21. Capacity'
    <2>1. /\ CommittedBytes(committed) \in Nat /\ Bytes(Staged, Len(Staged)) \in Nat
          /\ CommittedBytes(beforeCommands) \in Nat /\ beforeCommands \in Nat /\ beforeCommands <= committed
      BY <1>1, <1>5, ByteTypes DEF InCycle, Capacity
    <2>2. Bytes(journal, committed + 1) = Bytes(journal, committed) + FrameSize(c.body)
      <3>1. committed + 1 <= Len(journal) /\ journal \in Seq(Commands)
        BY <1>2, <1>5, <1>6 DEF n, Types, FileTypes
      <3>. QED  BY <1>6, <3>1, BytesStep DEF c, n
    <2>3. Bytes(Staged, Len(Staged)) = FrameSize(c.body) + Bytes(ingress, Len(ingress))
      <3>1. Bytes(<<c>> \o ingress, 1 + Len(ingress)) = FrameSize(c.body) + Bytes(ingress, Len(ingress))
        BY <1>2, BytesHead
      <3>2. 1 + Len(ingress) = Len(Staged)
        BY <1>2, <1>6
      <3>. QED  BY <1>2, <3>1, <3>2
    <2>4. FrameSize(c.body) \in Nat /\ Bytes(ingress, Len(ingress)) \in Nat
      <3>1. c.body \in Bodies
        BY <1>2 DEF Commands
      <3>2. Len(ingress) \in 0..Len(ingress)
        BY <1>6
      <3>. QED  BY <1>2, <3>1, <3>2, FrameSizeType, CellsFinite
    <2>5. CommittedBytes(committed)' = CommittedBytes(committed) + FrameSize(c.body)
      BY <1>1, <1>4, <2>2 DEF CommittedBytes, n
    <2>6. Since = beforeCommands /\ Since' = beforeCommands
      BY <1>1, <1>4 DEF Since, Sequencing
    <2>7. CommittedBytes(Since)' = CommittedBytes(beforeCommands)
      BY <1>1, <2>6 DEF CommittedBytes
    <2>8. /\ acceptedCommands = (committed - beforeCommands) + Len(Staged)
          /\ acceptedBytes = (CommittedBytes(committed) - CommittedBytes(beforeCommands)) + Bytes(Staged, Len(Staged))
          /\ CommittedBytes(committed) + Bytes(Staged, Len(Staged)) <= MaxRunJournalBytes
      BY <1>1, <1>2, <1>5, <2>6 DEF Capacity
    <2>9. /\ acceptedCommands = (n - beforeCommands) + Len(ingress)
          /\ acceptedBytes = (CommittedBytes(committed)' - CommittedBytes(beforeCommands)) + Bytes(ingress, Len(ingress))
          /\ CommittedBytes(committed)' + Bytes(ingress, Len(ingress)) <= MaxRunJournalBytes
          /\ beforeCommands <= n
      <3>1. acceptedCommands = (n - beforeCommands) + Len(ingress) /\ beforeCommands <= n
        BY <1>2, <1>6, <2>1, <2>8, SMTT(30) DEF n
      <3>2. /\ acceptedBytes = (CommittedBytes(committed)' - CommittedBytes(beforeCommands)) + Bytes(ingress, Len(ingress))
            /\ CommittedBytes(committed)' + Bytes(ingress, Len(ingress)) <= MaxRunJournalBytes
        BY <2>1, <2>3, <2>4, <2>5, <2>8, SMTT(30)
      <3>. QED  BY <3>1, <3>2
    <2>10. appendFailure' # "CAPACITY_REACHED" /\ acceptedCommands' = acceptedCommands /\ acceptedBytes' = acceptedBytes
           /\ beforeCommands' = beforeCommands
      BY <1>1, <1>2, <1>4 DEF capacityVars
    <2>. QED  BY <1>4, <1>7, <2>6, <2>7, <2>9, <2>10 DEF Capacity
  <1>22. Blocked'
    BY <1>1, <1>2, <1>4 DEF Blocked, ProcessingDrained
  <1>. QED  BY <1>11, <1>13, <1>15, <1>16, <1>17, <1>18, <1>19, <1>20, <1>21, <1>22 DEF IInv

\* The command the sequencer takes next fits the journal and is not in it.
LEMMA TakenCommand ==
  ASSUME IInv, pc = "sequencing", pending = <<>>, ingress # <<>>
  PROVE  LET c == Head(ingress)
         IN  /\ run = "INSTALLED" /\ state = "READY" /\ ~pendingReady /\ appendFailure = "NONE" /\ ~torn
             /\ Len(journal) = committed /\ committed \in Nat /\ journal \in Seq(Commands)
             /\ Held = <<>> /\ Staged = ingress /\ c \in Commands /\ Tail(ingress) \in Seq(Commands)
             /\ Len(Tail(ingress)) <= IngressCapacity /\ <<c>> \o Tail(ingress) = ingress
             /\ committed + 1 <= MaxRunCommands
             /\ CommittedBytes(committed) + FrameSize(c.body) <= MaxRunJournalBytes
             /\ CommittedBytes(committed) \in Nat /\ FrameSize(c.body) \in Nat /\ MaxRunJournalBytes \in Nat
             /\ \A i \in 1..committed : journal[i].key # c.key
  <1>. DEFINE c == Head(ingress)
  <1>1. Types /\ File /\ Index /\ Capacity
    BY DEF IInv
  <1>2. run = "INSTALLED" /\ state = "READY" /\ ~pendingReady /\ appendFailure = "NONE"
    BY DEF IInv, Control, Slots
  <1>3. /\ ingress \in Seq(Commands) /\ Len(ingress) <= IngressCapacity /\ journal \in Seq(Commands) /\ committed \in Nat
        /\ IngressCapacity \in Nat /\ MaxRunCommands \in Nat /\ MaxRunJournalBytes \in Nat
    BY <1>1, PipelineAssumption DEF Types, SequencerTypes, FileTypes, OwnerTypes
  <1>4. Held = <<>> /\ Staged = ingress
    <2>1. Held = <<>>
      BY DEF Held
    <2>. QED  BY <1>3, <2>1, ConcatEmptySeq DEF Staged
  <1>5. ~torn /\ Len(journal) = committed
    BY <1>1, <1>2, <1>4 DEF File
  <1>6. /\ c \in Commands /\ Tail(ingress) \in Seq(Commands) /\ Len(Tail(ingress)) = Len(ingress) - 1
        /\ <<c>> \o Tail(ingress) = ingress /\ Len(ingress) \in Nat \ {0} /\ c = ingress[1]
    BY <1>3, HeadTailProperties, HeadMoves, EmptySeq
  <1>7. committed + 1 <= MaxRunCommands
    <2>1. committed + Len(ingress) <= MaxRunCommands
      BY <1>1, <1>4 DEF Index
    <2>. QED  BY <1>3, <1>6, <2>1
  <1>8. FrameSize(c.body) \in Nat
    <2>1. c.body \in Bodies
      BY <1>6 DEF Commands
    <2>. QED  BY <2>1, FrameSizeType
  <1>9. CommittedBytes(committed) \in Nat /\ CommittedBytes(committed) + FrameSize(c.body) <= MaxRunJournalBytes
    <2>1. CommittedBytes(committed) \in Nat
      BY ByteTypes
    <2>2. CommittedBytes(committed) + Bytes(ingress, Len(ingress)) <= MaxRunJournalBytes
      BY <1>1, <1>2, <1>4 DEF Capacity
    <2>3. Bytes(<<c>> \o Tail(ingress), 1 + Len(Tail(ingress))) = FrameSize(c.body) + Bytes(Tail(ingress), Len(Tail(ingress)))
      BY <1>6, BytesHead
    <2>4. 1 + Len(Tail(ingress)) = Len(ingress) /\ Len(Tail(ingress)) \in 0..Len(Tail(ingress))
      BY <1>6
    <2>5. Bytes(Tail(ingress), Len(Tail(ingress))) \in Nat
      BY <1>6, <2>4, CellsFinite
    <2>6. Bytes(ingress, Len(ingress)) = FrameSize(c.body) + Bytes(Tail(ingress), Len(Tail(ingress)))
      BY <1>6, <2>3, <2>4
    <2>. HIDE DEF c
    <2>. QED  BY <1>3, <1>8, <2>1, <2>2, <2>5, <2>6
  <1>10. ASSUME NEW i \in 1..committed PROVE journal[i].key # c.key
    <2>1. 1 \in 1..Len(Staged) /\ Staged[1] = c
      BY <1>4, <1>6
    <2>2. records[c.key].state = "RESERVED"
      BY <1>1, <2>1 DEF Index
    <2>3. records[journal[i].key].state \in {"COMPLETED", "SEQUENCED"}
      BY <1>1 DEF Index
    <2>. QED  BY <2>2, <2>3
  <1>11. Len(Tail(ingress)) <= IngressCapacity
    BY <1>3, <1>6
  <1>. QED  BY <1>2, <1>3, <1>4, <1>5, <1>6, <1>7, <1>8, <1>9, <1>10, <1>11

\* The journal is kept when a frame is added to it.
LEMMA KeptByAppend ==
  ASSUME Types, NEW c \in Commands, journal' = Append(journal, c)
  PROVE  Kept(Len(journal))
  <1>1. /\ journal \in Seq(Commands) /\ Len(journal) \in Nat
    BY PathTypes DEF Types, FileTypes
  <1>2. /\ Len(journal') = Len(journal) + 1 /\ \A m \in 1..Len(journal) : journal'[m] = journal[m]
    BY <1>1, AppendProperties
  <1>3. ASSUME NEW m \in 0..Len(journal) PROVE SubSeq(journal', 1, m) = SubSeq(journal, 1, m)
    <2>1. \A i \in 1..m : journal[i] \in Commands /\ journal'[i] \in Commands
      <3>1. ASSUME NEW i \in 1..m PROVE journal[i] \in Commands /\ journal'[i] \in Commands
        <4>1. i \in 1..Len(journal)
          BY <1>1
        <4>. QED  BY <1>1, <1>2, <4>1, ElementOfSeq
      <3>. QED  BY <3>1
    <2>2. /\ SubSeq(journal, 1, m) \in Seq(Commands) /\ SubSeq(journal', 1, m) \in Seq(Commands)
          /\ Len(SubSeq(journal, 1, m)) = Len(SubSeq(journal', 1, m)) /\ Len(SubSeq(journal, 1, m)) = m
          /\ \A i \in 1..m : SubSeq(journal, 1, m)[i] = journal[i] /\ SubSeq(journal', 1, m)[i] = journal'[i]
      <3>1. /\ SubSeq(journal, 1, m) \in Seq(Commands) /\ Len(SubSeq(journal, 1, m)) = IF 1 <= m THEN m - 1 + 1 ELSE 0
            /\ \A i \in 1..(m - 1 + 1) : SubSeq(journal, 1, m)[i] = journal[1 + i - 1]
        BY <2>1, SubSeqProperties
      <3>2. /\ SubSeq(journal', 1, m) \in Seq(Commands) /\ Len(SubSeq(journal', 1, m)) = IF 1 <= m THEN m - 1 + 1 ELSE 0
            /\ \A i \in 1..(m - 1 + 1) : SubSeq(journal', 1, m)[i] = journal'[1 + i - 1]
        BY <2>1, SubSeqProperties
      <3>3. m \in Nat /\ m - 1 + 1 = m /\ \A i \in 1..m : 1 + i - 1 = i
        BY <1>1
      <3>. QED  BY <3>1, <3>2, <3>3
    <2>3. \A i \in 1..m : journal'[i] = journal[i]
      BY <1>1, <1>2
    <2>. QED  BY <2>2, <2>3, SeqEqual
  <1>4. Len(journal) <= Len(journal')
    BY <1>1, <1>2
  <1>. QED  BY <1>2, <1>3, <1>4 DEF Kept

\* The command leaves the queue for the slot; its frame is written or is not.
LEMMA AppendCommandPreserves ==
  ASSUME IInv, AppendCommand
  PROVE  IInv'
  <1>. DEFINE c == Head(ingress)
  <1>1. /\ pc = "sequencing" /\ pending = <<>> /\ ingress # <<>>
        /\ ingress' = Tail(ingress) /\ pending' = <<Message(c, committed + 1)>>
        /\ UNCHANGED <<synced, lifecycleVars, ownerVars, pendingReady, matcherVars, handoffVars,
                       capacityVars, pausing, progressed, beforeCommands, deliveredVars>>
    BY DEF AppendCommand
  <1>2. /\ run = "INSTALLED" /\ state = "READY" /\ ~pendingReady /\ appendFailure = "NONE" /\ ~torn
        /\ Len(journal) = committed /\ committed \in Nat /\ journal \in Seq(Commands)
        /\ Held = <<>> /\ Staged = ingress /\ c \in Commands /\ Tail(ingress) \in Seq(Commands)
        /\ Len(Tail(ingress)) <= IngressCapacity /\ <<c>> \o Tail(ingress) = ingress
        /\ committed + 1 <= MaxRunCommands
        /\ CommittedBytes(committed) + FrameSize(c.body) <= MaxRunJournalBytes
        /\ CommittedBytes(committed) \in Nat /\ FrameSize(c.body) \in Nat /\ MaxRunJournalBytes \in Nat
        /\ \A i \in 1..committed : journal[i].key # c.key
    BY <1>1, TakenCommand
  <1>3. /\ \/ appendFailure' \in {"INVALID_COMMAND", "IO_FAILURE"} /\ UNCHANGED <<journal, pc, torn>>
           \/ appendFailure' = "RECOVERY_REQUIRED" /\ UNCHANGED <<journal, pc>> /\ torn' = TRUE
           \/ /\ c.body \notin PoisonBodies /\ journal' = Append(journal, c) /\ pc' = "syncing"
              /\ UNCHANGED <<torn, appendFailure>>
        /\ UNCHANGED faults \/ Fault
    <2>1. ASSUME c.body \notin PoisonBodies
          PROVE  ~(committed >= MaxRunCommands) /\ ~(FrameBytes[c.body] > MaxRunJournalBytes - CommittedBytes(committed))
      <3>1. FrameBytes[c.body] = FrameSize(c.body) /\ MaxRunCommands \in Nat
        BY <2>1, PipelineAssumption DEF FrameSize
      <3>. HIDE DEF c
      <3>. QED  BY <1>2, <3>1
    <2>. QED  BY <2>1 DEF AppendCommand
  <1>. HIDE DEF c
  <1>4. Types
    BY DEF IInv
  <1>5. /\ Message(c, committed + 1) \in Messages /\ pending' \in Seq(Messages) /\ Len(pending') = 1 /\ pending' # <<>>
        /\ pending'[1] = Message(c, committed + 1) /\ pending'[1].sequence = committed + 1 /\ CommandOf(pending'[1]) = c
    <2>1. Message(c, committed + 1) \in Messages
      BY <1>2 DEF Message, Messages, Commands
    <2>2. Message(c, committed + 1).sequence = committed + 1 /\ CommandOf(Message(c, committed + 1)) = c
      BY <1>2 DEF Message, CommandOf, Commands
    <2>. QED  BY <1>1, <2>1, <2>2
  <1>6. Held' = <<c>> /\ UNCHANGED <<Staged, PathResults, PathCommands, Private, Public>>
    <2>1. Held' = <<c>>
      BY <1>1, <1>2, <1>5 DEF Held
    <2>2. Staged' = Staged
      BY <1>1, <1>2, <2>1 DEF Staged
    <2>3. Ready' = <<>> /\ Ready = <<>>
      BY <1>1, <1>2 DEF Ready
    <2>. QED  BY <1>1, <2>1, <2>2, <2>3 DEF PathResults, PathCommands, Private, Public, matcherVars, handoffVars
  <1>7. Kept(Len(journal)) /\ synced' = synced /\ synced \in Nat
    <2>1. Kept(Len(journal))
      BY <1>2, <1>3, <1>4, KeptUnchanged, KeptByAppend
    <2>. QED  BY <1>1, <1>4, <2>1 DEF Types, FileTypes
  <1>8. Index' /\ Path' /\ PrivateDelivery' /\ PublicDelivery'
    <2>1. synced' \in Nat /\ synced' >= synced
      BY <1>7
    <2>. QED  BY <1>1, <1>6, <1>7, <2>1, DataKeeps DEF ownerVars, deliveredVars, lifecycleVars
  <1>9. pc' \in {"sequencing", "syncing"} /\ appendFailure' # "CAPACITY_REACHED"
    BY <1>1, <1>2, <1>3
  <1>10. /\ journal' \in Seq(Commands) /\ Len(journal') \in Nat /\ Len(journal') >= Len(journal) /\ torn' \in BOOLEAN
    <2>1. journal' \in Seq(Commands) /\ Len(journal') >= Len(journal)
      <3>1. CASE UNCHANGED journal
        BY <1>2, <3>1
      <3>2. CASE journal' = Append(journal, c)
        BY <1>2, <3>2, AppendProperties
      <3>. QED  BY <1>3, <3>1, <3>2
    <2>2. torn' \in BOOLEAN
      BY <1>3, <1>4 DEF Types, FileTypes
    <2>. QED  BY <2>1, <2>2, LenProperties
  <1>11. Types'
    <2>1. FileTypes' /\ LifecycleTypes' /\ OwnerTypes' /\ HandoffTypes' /\ CapacityTypes' /\ DeliveredTypes' /\ MatcherTypes'
      BY <1>1, <1>4, <1>10, ZenonT(30) DEF Types, FileTypes, LifecycleTypes, OwnerTypes, HandoffTypes, CapacityTypes, DeliveredTypes,
                  MatcherTypes, lifecycleVars, ownerVars, handoffVars, capacityVars, deliveredVars, matcherVars
    <2>2. Bounds'
      <3>1. synced \in Nat /\ synced <= Len(journal) /\ recovered <= committed
        BY <1>4 DEF Types, FileTypes, Bounds
      <3>2. UNCHANGED <<synced, committed, recovered>>
        BY <1>1 DEF ownerVars
      <3>3. synced <= Len(journal') /\ committed <= Len(journal')
        BY <1>2, <1>10, <3>1
      <3>. QED  BY <3>1, <3>2, <3>3 DEF Bounds
    <2>3. SequencerTypes'
      <3>1. appendFailure' \in {"NONE", "INVALID_COMMAND", "CAPACITY_REACHED", "IO_FAILURE", "RECOVERY_REQUIRED"}
        BY <1>2, <1>3
      <3>2. pending' \in Seq(Messages) /\ Len(pending') <= 1
        BY <1>5
      <3>. QED  BY <1>1, <1>2, <1>4, <3>1, <3>2 DEF Types, SequencerTypes
    <2>4. DriverTypes'
      BY <1>1, <1>4, <1>9 DEF Types, DriverTypes
    <2>5. FaultTypes'
      BY <1>3, <1>4, PipelineAssumption DEF Types, FaultTypes, Fault
    <2>. QED  BY <2>1, <2>2, <2>3, <2>4, <2>5 DEF Types
  <1>12. File'
    <2>1. File
      BY DEF IInv
    <2>2. UNCHANGED <<run, committed, recovered, synced>>
      BY <1>1 DEF lifecycleVars, ownerVars
    <2>3. CASE UNCHANGED <<journal, pc>> /\ (torn' => appendFailure' = "RECOVERY_REQUIRED")
      BY <1>1, <1>2, <1>5, <2>1, <2>2, <2>3 DEF File, DistinctKeys, CommittedBytes, Bytes, FrameCells, FrameSize
    <2>4. CASE c.body \notin PoisonBodies /\ journal' = Append(journal, c) /\ pc' = "syncing" /\ UNCHANGED torn
      <3>1. /\ Len(journal') = committed + 1 /\ journal'[committed + 1] = c
            /\ \A i \in 1..committed : journal'[i] = journal[i]
        BY <1>2, <2>4, AppendProperties
      <3>2. DOMAIN journal' = 1..(committed + 1) /\ DOMAIN journal = 1..committed
        BY <1>2, <1>10, <3>1, LenProperties
      <3>3. DistinctKeys(journal')
        <4>1. ASSUME NEW i \in 1..(committed + 1), NEW j \in 1..(committed + 1), i # j
              PROVE  journal'[i].key # journal'[j].key
          <5>1. CASE i \in 1..committed /\ j \in 1..committed
            BY <2>1, <3>1, <3>2, <4>1, <5>1 DEF File, DistinctKeys
          <5>2. CASE i = committed + 1
            <6>1. j \in 1..committed
              BY <1>2, <4>1, <5>2
            <6>. QED  BY <1>2, <3>1, <5>2, <6>1
          <5>3. CASE j = committed + 1
            <6>1. i \in 1..committed
              BY <1>2, <4>1, <5>3
            <6>. QED  BY <1>2, <3>1, <5>3, <6>1
          <5>4. (i \in 1..committed \/ i = committed + 1) /\ (j \in 1..committed \/ j = committed + 1)
            BY <1>2
          <5>. QED  BY <5>1, <5>2, <5>3, <5>4
        <4>. QED  BY <3>2, <4>1 DEF DistinctKeys
      <3>4. \A i \in 1..Len(journal') : journal'[i].body \notin PoisonBodies
        <4>1. \A i \in 1..(committed + 1) : i \in 1..committed \/ i = committed + 1
          BY <1>2
        <4>2. \A i \in 1..committed : journal[i].body \notin PoisonBodies
          BY <1>2, <2>1 DEF File
        <4>. QED  BY <2>4, <3>1, <4>1, <4>2
      <3>5. Bytes(journal', committed + 1) <= MaxRunJournalBytes
        <4>1. Bytes(journal', committed + 1) = Bytes(journal', committed) + FrameSize(journal'[committed + 1].body)
          <5>1. committed + 1 <= Len(journal')
            BY <1>2, <3>1
          <5>. QED  BY <1>2, <1>10, <5>1, BytesStep
        <4>2. Bytes(journal', committed) = Bytes(journal, committed)
          BY <1>2, <3>1, BytesSame
        <4>. QED  BY <1>2, <3>1, <4>1, <4>2 DEF CommittedBytes
      <3>6. CommittedBytes(Len(journal))' <= MaxRunJournalBytes
        BY <3>1, <3>5 DEF CommittedBytes
      <3>7. Held' = <<journal'[committed' + 1]>> /\ Len(journal') = committed' + 1
        BY <1>6, <2>2, <3>1
      <3>8. Len(journal') <= MaxRunCommands
        BY <1>2, <3>1
      <3>9. run # "NONE" /\ committed > recovered => synced >= committed
        BY <2>1 DEF File
      <3>. QED  BY <1>2, <1>5, <2>2, <2>4, <3>3, <3>4, <3>6, <3>7, <3>8, <3>9 DEF File
    <2>. QED  BY <1>2, <1>3, <2>3, <2>4
  <1>13. Control'
    BY <1>1, <1>2, <1>9 DEF IInv, Control, lifecycleVars, ownerVars, capacityVars
  <1>14. Slots'
    <2>1. pendingReady' = pendingReady /\ run' = run /\ state' = state /\ inProgress' = inProgress /\ pendingResult' = pendingResult
      BY <1>1 DEF lifecycleVars, matcherVars
    <2>2. /\ pc' = "syncing" => appendFailure' = "NONE"
          /\ pc' = "syncing" \/ appendFailure' # "NONE"
          /\ appendFailure' # "NONE" => pc' = "sequencing"
      BY <1>1, <1>2, <1>3
    <2>3. inProgress = <<>>
      BY <1>1, <1>2 DEF IInv, Slots, Stopped
    <2>. QED  BY <1>2, <1>5, <2>1, <2>2, <2>3 DEF Slots
  <1>15. Capacity'
    <2>1. Since' = Since /\ InCycle /\ beforeCommands' <= committed
      BY <1>1, <1>9 DEF IInv, Capacity, Since, Sequencing, InCycle, ownerVars
    <2>. QED  BY <1>1, <1>6, <1>7, <1>9, <2>1, CapacityKeeps DEF lifecycleVars, ownerVars, capacityVars
  <1>16. Blocked'
    BY <1>5, <1>9 DEF Blocked, ProcessingDrained
  <1>. QED  BY <1>8, <1>11, <1>12, <1>13, <1>14, <1>15, <1>16 DEF IInv

\* A submission beyond the capacity only closes the gate.
LEMMA RefusedPreserves ==
  ASSUME IInv, pc = "idle", run = "INSTALLED", state = "READY", capacityTransitionPending' = TRUE, admissionOpen' = FALSE,
         UNCHANGED <<records, ingress, acceptedCommands, acceptedBytes>>,
         UNCHANGED <<fileVars, lifecycleVars, committed, applied, recovered, pending, pendingReady,
                     appendFailure, matcherVars, handoffVars, driverVars, deliveredVars, faults>>
  PROVE  IInv'
  <1>1. /\ FileTypes' /\ Bounds' /\ SequencerTypes' /\ MatcherTypes' /\ HandoffTypes' /\ DeliveredTypes'
        /\ admissionOpen' \in BOOLEAN => OwnerTypes'
        /\ File' /\ Index' /\ Path' /\ PrivateDelivery' /\ PublicDelivery' /\ Kept(Len(journal))
        /\ UNCHANGED <<Held, Staged, ProcessingDrained, HandoffPending, HandoffQueued, ResultHandoffsDrained>>
    BY QuietKeeps DEF sequencerVars, lifecycleVars, driverVars
  <1>2. Types'
    <2>1. LifecycleTypes' /\ CapacityTypes' /\ FaultTypes' /\ admissionOpen' \in BOOLEAN
      BY DEF IInv, Types, LifecycleTypes, CapacityTypes, FaultTypes, lifecycleVars
    <2>2. DriverTypes'
      BY DEF IInv, Types, DriverTypes, driverVars
    <2>. QED  BY <1>1, <2>1, <2>2 DEF Types
  <1>3. Control'
    BY DEF IInv, Control, lifecycleVars, driverVars
  <1>4. Slots'
    BY <1>1 DEF IInv, Slots, Stopped, lifecycleVars, driverVars, matcherVars
  <1>5. Capacity'
    BY <1>1, QuietCapacity DEF Sequencing, InCycle, lifecycleVars, driverVars
  <1>6. Blocked'
    BY DEF Blocked, driverVars
  <1>. QED  BY <1>1, <1>2, <1>3, <1>4, <1>5, <1>6 DEF IInv

\* A first submission adds one record and one staged command.
LEMMA SubmitPreserves ==
  ASSUME IInv, NEW c \in Commands, Submit(c)
  PROVE  IInv'
  <1>. DEFINE measured == state = "READY" /\ ~capacityTransitionPending
              closed == state = "CAPACITY_REACHED" \/ (state = "READY" /\ capacityTransitionPending)
              decision == ReserveDecision(c, IF measured THEN CapacityAvailable(c) ELSE ~closed)
              record == [body |-> c.body, state |-> "RESERVED", sequence |-> 0, result |-> <<>>]
  <1>1. /\ pc = "idle" /\ run = "INSTALLED"
        /\ UNCHANGED <<fileVars, lifecycleVars, committed, applied, recovered, pending, pendingReady,
                       appendFailure, matcherVars, handoffVars, driverVars, deliveredVars, faults>>
    BY DEF Submit
  <1>2. CASE decision = "RUN_CAPACITY_REACHED"
    BY <1>1, <1>2, RefusedPreserves DEF Submit
  <1>3. SUFFICES ASSUME decision = "FIRST_SUBMISSION" PROVE IInv'
    BY <1>2 DEF Submit
  <1>4. /\ c.key \notin DOMAIN records /\ (IF measured THEN CapacityAvailable(c) ELSE ~closed)
        /\ admissionOpen /\ ~(Cardinality(DOMAIN records) >= MaxRunCommands) /\ Room(ingress, IngressCapacity)
    BY <1>3 DEF ReserveDecision
  <1>5. state = "READY" /\ ~pausing /\ ~capacityTransitionPending /\ catalog = "OPEN"
    BY <1>4 DEF IInv, Control
  <1>6. /\ CapacityAvailable(c)
        /\ records' = Update(records, c.key, record) /\ ingress' = Append(ingress, c)
        /\ acceptedCommands' = acceptedCommands + 1
        /\ acceptedBytes' = IF c.body \notin PoisonBodies THEN acceptedBytes + FrameBytes[c.body] ELSE acceptedBytes
        /\ capacityTransitionPending' = (capacityTransitionPending \/ ExhaustsCapacity(c))
        /\ admissionOpen' = (admissionOpen /\ ~ExhaustsCapacity(c))
    <2>1. CapacityAvailable(c)
      BY <1>4, <1>5
    <2>2. /\ records' = Update(records, c.key, record) /\ ingress' = Append(ingress, c)
      BY <1>3 DEF Submit, Reserve
    <2>3. /\ acceptedCommands' = acceptedCommands + 1
          /\ acceptedBytes' = IF c.body \notin PoisonBodies THEN acceptedBytes + FrameBytes[c.body] ELSE acceptedBytes
      BY <1>3, <1>5 DEF Submit
    <2>4. /\ capacityTransitionPending' = (capacityTransitionPending \/ ExhaustsCapacity(c))
          /\ admissionOpen' = (admissionOpen /\ ~ExhaustsCapacity(c))
      BY <1>3, <1>5 DEF Submit
    <2>. QED  BY <2>1, <2>2, <2>3, <2>4
  <1>. HIDE DEF decision, measured, closed
  <1>7. Types /\ Index /\ Path /\ File /\ Capacity /\ PrivateDelivery /\ PublicDelivery
    BY DEF IInv
  <1>8. /\ Held \in Seq(Commands) /\ ingress \in Seq(Commands) /\ Staged \in Seq(Commands) /\ Len(Staged) \in Nat
        /\ Len(ingress) \in Nat /\ IngressCapacity \in Nat /\ Len(ingress) < IngressCapacity
    BY <1>4, <1>7, PathTypes, LenProperties, PipelineAssumption DEF Types, SequencerTypes, Room
  <1>9. Held' = Held /\ Staged' = Append(Staged, c)
    <2>1. Held' = Held
      BY <1>1 DEF Held
    <2>2. Held \o Append(ingress, c) = Append(Held \o ingress, c)
      BY <1>8, LastArrives
    <2>. QED  BY <1>6, <2>1, <2>2 DEF Staged
  <1>10. /\ Len(Staged') = Len(Staged) + 1 /\ Staged'[Len(Staged) + 1] = c /\ Staged' \in Seq(Commands)
         /\ \A i \in 1..Len(Staged) : Staged'[i] = Staged[i]
    BY <1>8, <1>9, AppendProperties
  <1>11. UNCHANGED <<Ready, PathResults, PathCommands, Matched, Done, Private, Public>>
    BY <1>1 DEF Ready, PathResults, PathCommands, Matched, Done, Private, Public, matcherVars, handoffVars
  <1>12. /\ DOMAIN records' = DOMAIN records \cup {c.key} /\ records'[c.key] = record
         /\ \A k \in DOMAIN records : k # c.key /\ records'[k] = records[k]
    BY <1>4, <1>6 DEF Update
  <1>13. record \in Records /\ record.body = c.body /\ record.state = "RESERVED"
    <2>1. <<>> \in Seq(Commands)
      BY EmptySeq
    <2>. QED  BY <2>1 DEF Records, Commands
  <1>14. records' \in [DOMAIN records' -> Records] /\ DOMAIN records' \subseteq Keys
    <2>1. /\ DOMAIN records \subseteq Keys /\ records \in [DOMAIN records -> Records] /\ c.key \in Keys
      BY <1>7 DEF Types, OwnerTypes, Commands
    <2>. HIDE DEF record
    <2>. QED  BY <1>6, <1>13, <2>1 DEF Update
  <1>. HIDE DEF record
  <1>15. /\ IsFiniteSet(DOMAIN records') /\ Cardinality(DOMAIN records') = Cardinality(DOMAIN records) + 1
         /\ Cardinality(DOMAIN records') <= MaxRunCommands
    <2>1. IsFiniteSet(DOMAIN records)
      BY <1>7 DEF Index
    <2>2. /\ IsFiniteSet(DOMAIN records \cup {c.key})
          /\ Cardinality(DOMAIN records \cup {c.key}) = Cardinality(DOMAIN records) + 1
      BY <1>4, <2>1, FS_AddElement
    <2>3. Cardinality(DOMAIN records) \in Nat /\ MaxRunCommands \in Nat
      BY <2>1, FS_CardinalityType, PipelineAssumption
    <2>. QED  BY <1>4, <1>12, <2>2, <2>3
  <1>16. committed \in Nat /\ committed' = committed /\ journal' = journal /\ synced' = synced /\ recovered' = recovered
         /\ run' = run /\ applied' = applied
    BY <1>1, <1>7 DEF Types, OwnerTypes, fileVars, lifecycleVars
  <1>17. Index'
    <2>1. Cardinality(DOMAIN records') = committed + Len(Staged')
      <3>1. Cardinality(DOMAIN records) = committed + Len(Staged)
        BY <1>7 DEF Index
      <3>. QED  BY <1>8, <1>10, <1>15, <1>16, <3>1
    <2>2. \A i \in 1..Len(Staged') : i \in 1..Len(Staged) \/ i = Len(Staged) + 1
      BY <1>8, <1>10
    <2>3. ASSUME NEW i \in 1..Len(Staged')
          PROVE  /\ Staged'[i].key \in DOMAIN records' /\ records'[Staged'[i].key].body = Staged'[i].body
                 /\ records'[Staged'[i].key].state = "RESERVED"
      <3>1. CASE i \in 1..Len(Staged)
        <4>1. Staged[i].key \in DOMAIN records /\ records[Staged[i].key].body = Staged[i].body
              /\ records[Staged[i].key].state = "RESERVED"
          BY <1>7, <3>1 DEF Index
        <4>. QED  BY <1>10, <1>12, <3>1, <4>1
      <3>2. CASE i = Len(Staged) + 1
        BY <1>10, <1>12, <1>13, <3>2
      <3>. QED  BY <2>2, <3>1, <3>2
    <2>4. ASSUME NEW i \in 1..Len(Staged'), NEW j \in 1..Len(Staged'), Staged'[i].key = Staged'[j].key PROVE i = j
      <3>1. \A x \in 1..Len(Staged) : Staged'[x] = Staged[x] /\ Staged[x].key # c.key
        <4>1. \A x \in 1..Len(Staged) : Staged[x].key \in DOMAIN records
          BY <1>7 DEF Index
        <4>. QED  BY <1>4, <1>10, <4>1
      <3>2. \A x, y \in 1..Len(Staged) : Staged[x].key = Staged[y].key => x = y
        BY <1>7 DEF Index
      <3>. QED  BY <1>10, <2>2, <2>4, <3>1, <3>2
    <2>5. ASSUME NEW i \in 1..committed
          PROVE  /\ journal[i].key \in DOMAIN records' /\ records'[journal[i].key].body = journal[i].body
                 /\ records'[journal[i].key].sequence = i
                 /\ records'[journal[i].key].state = IF i <= Done THEN "COMPLETED" ELSE "SEQUENCED"
                 /\ i <= Done => records'[journal[i].key].result = Replay(i)
      <3>1. /\ journal[i].key \in DOMAIN records /\ records[journal[i].key].body = journal[i].body
            /\ records[journal[i].key].sequence = i
            /\ records[journal[i].key].state = IF i <= Done THEN "COMPLETED" ELSE "SEQUENCED"
            /\ i <= Done => records[journal[i].key].result = Replay(i)
        BY <1>7 DEF Index
      <3>2. records'[journal[i].key] = records[journal[i].key] /\ journal[i].key \in DOMAIN records'
        BY <1>12, <3>1
      <3>. QED  BY <3>1, <3>2
    <2>6. ASSUME NEW k \in DOMAIN records'
          PROVE  \/ \E i \in 1..Len(Staged') : k = Staged'[i].key
                 \/ \E i \in 1..committed : k = journal[i].key
      <3>1. CASE k = c.key
        <4>1. Len(Staged) + 1 \in 1..Len(Staged') /\ k = Staged'[Len(Staged) + 1].key
          BY <1>8, <1>10, <3>1
        <4>. QED  BY <4>1
      <3>2. CASE k \in DOMAIN records
        <4>1. \/ \E i \in 1..Len(Staged) : k = Staged[i].key
              \/ \E i \in 1..committed : k = journal[i].key
          BY <1>7, <3>2 DEF Index
        <4>2. ASSUME NEW i \in 1..Len(Staged), k = Staged[i].key PROVE i \in 1..Len(Staged') /\ k = Staged'[i].key
          BY <1>8, <1>10, <4>2
        <4>. QED  BY <4>1, <4>2
      <3>. QED  BY <1>12, <3>1, <3>2
    <2>7. CompletedCount' = Done'
      <3>1. {k \in DOMAIN records' : records'[k].state = "COMPLETED"} = {k \in DOMAIN records : records[k].state = "COMPLETED"}
        BY <1>12, <1>13
      <3>2. CompletedCount' = CompletedCount
        BY <3>1 DEF CompletedCount
      <3>. QED  BY <1>7, <1>11, <3>2 DEF Index
    <2>8. \A i \in 1..committed : Replay(i)' = Replay(i)
      BY <1>16 DEF Replay
    <2>. QED  BY <1>11, <1>15, <1>16, <2>1, <2>3, <2>4, <2>5, <2>6, <2>7, <2>8 DEF Index
  <1>18. Path' /\ PrivateDelivery' /\ PublicDelivery'
    <2>1. Path'
      BY <1>7, <1>11, <1>16 DEF Path, Replay, ResultOf, MessageOf
    <2>2. PrivateDelivery'
      BY <1>1, <1>7, <1>11, <1>16 DEF PrivateDelivery, Replay, ResultOf, ToldFrom, ToldUpTo, deliveredVars
    <2>3. PublicDelivery'
      BY <1>1, <1>7, <1>11, <1>16 DEF PublicDelivery, Replay, ResultOf, ToldFrom, ToldUpTo, deliveredVars
    <2>. QED  BY <2>1, <2>2, <2>3
  <1>19. File'
    BY <1>1, <1>9, FileKeeps DEF fileVars, lifecycleVars, driverVars
  <1>20. /\ CommittedBytes(committed) \in Nat /\ Bytes(Staged, Len(Staged)) \in Nat
         /\ acceptedCommands \in Nat /\ acceptedBytes \in Nat /\ FrameSize(c.body) \in Nat /\ MaxRunJournalBytes \in Nat
         /\ acceptedCommands = Len(Staged) /\ acceptedBytes = Bytes(Staged, Len(Staged))
    <2>1. /\ CommittedBytes(committed) \in Nat /\ Bytes(Staged, Len(Staged)) \in Nat
          /\ acceptedCommands \in Nat /\ acceptedBytes \in Nat
      BY ByteTypes
    <2>2. FrameSize(c.body) \in Nat /\ MaxRunJournalBytes \in Nat
      BY FrameSizeType, PipelineAssumption DEF Commands
    <2>3. Since = committed
      BY <1>1 DEF Since, Sequencing
    <2>4. /\ acceptedCommands = (committed - committed) + Len(Staged)
          /\ acceptedBytes = (CommittedBytes(committed) - CommittedBytes(committed)) + Bytes(Staged, Len(Staged))
      BY <1>1, <1>5, <1>7, <2>3 DEF Capacity
    <2>. QED  BY <1>8, <1>16, <2>1, <2>2, <2>4
  <1>21. acceptedBytes' = acceptedBytes + FrameSize(c.body)
    BY <1>6, <1>20 DEF FrameSize
  <1>22. Bytes(Staged', Len(Staged')) = Bytes(Staged, Len(Staged)) + FrameSize(c.body)
    <2>1. Bytes(Staged', Len(Staged) + 1) = Bytes(Staged', Len(Staged)) + FrameSize(Staged'[Len(Staged) + 1].body)
      <3>1. Len(Staged) + 1 <= Len(Staged')
        BY <1>8, <1>10
      <3>. QED  BY <1>8, <1>10, <3>1, BytesStep
    <2>2. Bytes(Staged', Len(Staged)) = Bytes(Staged, Len(Staged))
      BY <1>8, <1>10, BytesSame
    <2>. QED  BY <1>10, <2>1, <2>2
  <1>23. CommittedBytes(committed) + Bytes(Staged, Len(Staged)) + FrameSize(c.body) <= MaxRunJournalBytes
    <2>1. CASE c.body \in PoisonBodies
      <3>1. FrameSize(c.body) = 0
        BY <2>1 DEF FrameSize
      <3>2. CommittedBytes(committed) + Bytes(Staged, Len(Staged)) <= MaxRunJournalBytes
        BY <1>1, <1>7 DEF Capacity
      <3>. QED  BY <1>20, <3>1, <3>2
    <2>2. CASE c.body \notin PoisonBodies
      <3>1. FrameSize(c.body) <= MaxRunJournalBytes - CommittedBytes(committed) - acceptedBytes
        BY <1>6, <2>2 DEF CapacityAvailable, FrameSize
      <3>. QED  BY <1>20, <3>1
    <2>. QED  BY <2>1, <2>2
  <1>24. Capacity'
    <2>1. CommittedBytes(committed)' = CommittedBytes(committed)
      BY <1>16 DEF CommittedBytes
    <2>2. pc' = "idle" /\ appendFailure' = appendFailure
      BY <1>1 DEF driverVars
    <2>3. Since' = committed /\ ~InCycle'
      BY <1>16, <2>2 DEF Since, Sequencing, InCycle
    <2>4. CommittedBytes(Since)' = CommittedBytes(committed)
      BY <1>16, <2>3 DEF CommittedBytes
    <2>5. /\ acceptedCommands' = (committed' - Since') + Len(Staged')
      BY <1>6, <1>8, <1>10, <1>16, <1>20, <2>3
    <2>6. /\ acceptedBytes' = (CommittedBytes(committed)' - CommittedBytes(Since)') + Bytes(Staged', Len(Staged'))
          /\ CommittedBytes(committed)' + Bytes(Staged', Len(Staged')) <= MaxRunJournalBytes
      BY <1>20, <1>21, <1>22, <1>23, <2>1, <2>4
    <2>7. appendFailure # "CAPACITY_REACHED"
      BY <1>7 DEF Capacity
    <2>. QED  BY <2>2, <2>3, <2>5, <2>6, <2>7 DEF Capacity
  <1>25. admissionOpen' \in BOOLEAN /\ capacityTransitionPending' \in BOOLEAN
    BY <1>6
  <1>26. Types'
    <2>1. FileTypes' /\ Bounds' /\ LifecycleTypes' /\ HandoffTypes' /\ DeliveredTypes' /\ MatcherTypes' /\ FaultTypes'
      BY <1>1, <1>7 DEF Types, FileTypes, Bounds, LifecycleTypes, HandoffTypes, DeliveredTypes,
                  MatcherTypes, FaultTypes, fileVars, lifecycleVars, handoffVars, deliveredVars, matcherVars
    <2>2. OwnerTypes'
      BY <1>1, <1>7, <1>14, <1>25 DEF Types, OwnerTypes
    <2>3. SequencerTypes'
      <3>1. ingress' \in Seq(Commands) /\ Len(ingress') <= IngressCapacity
        <4>1. ingress' \in Seq(Commands) /\ Len(ingress') = Len(ingress) + 1
          BY <1>6, <1>8, AppendProperties
        <4>. QED  BY <1>8, <4>1
      <3>. QED  BY <1>1, <1>7, <3>1 DEF Types, SequencerTypes
    <2>4. DriverTypes'
      BY <1>1, <1>7 DEF Types, DriverTypes, driverVars
    <2>5. CapacityTypes'
      <3>1. acceptedCommands' \in Nat /\ acceptedBytes' \in Nat
        BY <1>6, <1>20, <1>21
      <3>. QED  BY <1>25, <3>1 DEF CapacityTypes
    <2>. QED  BY <2>1, <2>2, <2>3, <2>4, <2>5 DEF Types
  <1>27. Control'
    <2>1. admissionOpen' => ~capacityTransitionPending'
      BY <1>5, <1>6
    <2>. QED  BY <1>1, <1>5, <2>1 DEF IInv, Control, lifecycleVars, driverVars
  <1>28. Slots'
    BY <1>1, <1>5 DEF IInv, Slots, Stopped, lifecycleVars, driverVars, matcherVars
  <1>29. Blocked'
    BY <1>1 DEF Blocked, driverVars
  <1>. QED  BY <1>17, <1>18, <1>19, <1>24, <1>26, <1>27, <1>28, <1>29 DEF IInv


-----------------------------------------------------------------------------
(* Stops and recoveries.                                                   *)

\* Sequences that agree on their first elements have the same prefix.
LEMMA PrefixesAgree ==
  ASSUME NEW s \in Seq(Commands), NEW t \in Seq(Commands), NEW m \in Nat, m <= Len(s), m <= Len(t),
         \A i \in 1..m : s[i] = t[i]
  PROVE  SubSeq(s, 1, m) = SubSeq(t, 1, m)
  <1>1. \A i \in 1..m : s[i] \in Commands
    <2>1. ASSUME NEW i \in 1..m PROVE s[i] \in Commands
      <3>1. Len(s) \in Nat
        BY LenProperties
      <3>2. i \in 1..Len(s)
        BY <3>1
      <3>. QED  BY <3>2, ElementOfSeq
    <2>. QED  BY <2>1
  <1>2. \A i \in 1..m : t[i] \in Commands
    BY <1>1
  <1>3. /\ SubSeq(s, 1, m) \in Seq(Commands) /\ Len(SubSeq(s, 1, m)) = IF 1 <= m THEN m - 1 + 1 ELSE 0
        /\ \A i \in 1..(m - 1 + 1) : SubSeq(s, 1, m)[i] = s[1 + i - 1]
    BY <1>1, SubSeqProperties
  <1>4. /\ SubSeq(t, 1, m) \in Seq(Commands) /\ Len(SubSeq(t, 1, m)) = IF 1 <= m THEN m - 1 + 1 ELSE 0
        /\ \A i \in 1..(m - 1 + 1) : SubSeq(t, 1, m)[i] = t[1 + i - 1]
    BY <1>2, SubSeqProperties
  <1>5. m - 1 + 1 = m /\ \A i \in 1..m : 1 + i - 1 = i
    OBVIOUS
  <1>6. Len(SubSeq(s, 1, m)) = m /\ Len(SubSeq(t, 1, m)) = m
    BY <1>3, <1>4
  <1>7. \A i \in 1..m : SubSeq(s, 1, m)[i] = SubSeq(t, 1, m)[i]
    BY <1>3, <1>4, <1>5
  <1>. QED  BY <1>3, <1>4, <1>6, <1>7, SeqEqual

\* What the frames of a file satisfy whoever reads it.
Sound(frames) ==
  /\ frames \in Seq(Commands) /\ DistinctKeys(frames) /\ Len(frames) <= MaxRunCommands
  /\ \A i \in 1..Len(frames) : frames[i].body \notin PoisonBodies
  /\ Bytes(frames, Len(frames)) <= MaxRunJournalBytes

\* A file that lost its end is sound, and what is left of it is as it was.
LEMMA JournalCut ==
  ASSUME Types, File, NEW n \in 0..Len(journal), journal' = SubSeq(journal, 1, n)
  PROVE  Sound(journal') /\ Len(journal') = n /\ Kept(n)
  <1>1. journal \in Seq(Commands) /\ Len(journal) \in Nat /\ n \in Nat /\ n <= Len(journal)
    BY PathTypes DEF Types, FileTypes
  <1>2. /\ DistinctKeys(journal) /\ Len(journal) <= MaxRunCommands
        /\ \A i \in 1..Len(journal) : journal[i].body \notin PoisonBodies
        /\ Bytes(journal, Len(journal)) <= MaxRunJournalBytes
    BY DEF File, CommittedBytes
  <1>3. \A i \in 1..n : i \in 1..Len(journal)
    BY <1>1
  <1>4. \A i \in 1..n : journal[i] \in Commands
    BY <1>1, <1>3, ElementOfSeq
  <1>5. /\ journal' \in Seq(Commands) /\ Len(journal') = IF 1 <= n THEN n - 1 + 1 ELSE 0
        /\ \A i \in 1..(n - 1 + 1) : journal'[i] = journal[1 + i - 1]
    BY <1>1, <1>4, SubSeqProperties
  <1>6. n - 1 + 1 = n /\ \A i \in 1..n : 1 + i - 1 = i
    BY <1>1
  <1>7. Len(journal') = n /\ \A i \in 1..n : journal'[i] = journal[i]
    BY <1>1, <1>5, <1>6
  <1>8. Bytes(journal', n) <= MaxRunJournalBytes
    <2>1. Bytes(journal', n) = Bytes(journal, n)
      BY <1>1, <1>7, BytesSame
    <2>2. Len(journal) \in 0..Len(journal) /\ n \in 0..Len(journal)
      BY <1>1
    <2>3. /\ Bytes(journal, n) <= Bytes(journal, Len(journal)) /\ Bytes(journal, n) \in Nat
          /\ Bytes(journal, Len(journal)) \in Nat
      BY <1>1, <2>2, BytesMonotone
    <2>. QED  BY <1>2, <2>1, <2>3, PipelineAssumption
  <1>9. DistinctKeys(journal')
    <2>1. DOMAIN journal' = 1..n /\ DOMAIN journal = 1..Len(journal)
      BY <1>1, <1>5, <1>7, LenProperties
    <2>. QED  BY <1>2, <1>3, <1>7, <2>1 DEF DistinctKeys
  <1>10. n <= MaxRunCommands
    BY <1>1, <1>2, PipelineAssumption
  <1>11. Kept(n)
    <2>1. ASSUME NEW m \in 0..n PROVE SubSeq(journal', 1, m) = SubSeq(journal, 1, m)
      <3>1. m \in Nat /\ m <= Len(journal') /\ m <= Len(journal)
        BY <1>1, <1>7
      <3>2. \A i \in 1..m : journal'[i] = journal[i]
        BY <1>1, <1>7
      <3>. QED  BY <1>1, <1>5, <3>1, <3>2, PrefixesAgree
    <2>2. n <= Len(journal')
      BY <1>1, <1>7
    <2>. QED  BY <1>7, <2>1, <2>2 DEF Kept
  <1>12. \A i \in 1..n : journal'[i].body \notin PoisonBodies
    BY <1>2, <1>3, <1>7
  <1>. QED  BY <1>5, <1>7, <1>8, <1>9, <1>10, <1>11, <1>12 DEF Sound

\* The process starts again or gives its path up: at most the end of the file
\* that was not synchronised is lost.
Restarts ==
  /\ EmptyPath /\ failure' = "NONE" /\ pc' = "idle" /\ pausing' = FALSE
  /\ progressed' \in BOOLEAN /\ beforeCommands' \in Nat /\ UNCHANGED deliveredVars
  /\ \E n \in synced..Len(journal) : journal' = SubSeq(journal, 1, n)
  /\ synced' \in synced..Len(journal') /\ torn' \in BOOLEAN /\ faults' \in 0..MaxFaults
  /\ catalog' \in {"OPEN", "PAUSED", "CAPACITY_REACHED", "FAIL_STOPPED", "RECOVERY_FAILED"}

\* An empty path has nothing staged, nothing under way and nothing to deliver.
LEMMA FreshPath ==
  ASSUME EmptyPath
  PROVE  /\ Held' = <<>> /\ Staged' = <<>> /\ Ready' = <<>> /\ PathResults' = <<>> /\ PathCommands' = <<>>
         /\ Private' = <<>> /\ Public' = <<>>
         /\ Len(Staged') = 0 /\ Len(PathResults') = 0 /\ Len(PathCommands') = 0
         /\ Len(Private') = 0 /\ Len(Public') = 0
         /\ ProcessingDrained' /\ ~HandoffQueued' /\ ResultHandoffsDrained'
         /\ SequencerTypes' /\ MatcherTypes' /\ HandoffTypes' /\ CapacityTypes'
  <1>1. Held' = <<>> /\ Ready' = <<>>
    BY DEF EmptyPath, Held, Ready
  <1>2. Staged' = <<>> /\ PathResults' = <<>> /\ PathCommands' = <<>> /\ Private' = <<>> /\ Public' = <<>>
    BY <1>1 DEF EmptyPath, Staged, PathResults, PathCommands, Private, Public
  <1>3. /\ Len(Staged') = 0 /\ Len(PathResults') = 0 /\ Len(PathCommands') = 0
        /\ Len(Private') = 0 /\ Len(Public') = 0
    BY <1>2
  <1>4. ProcessingDrained' /\ ~HandoffQueued' /\ ResultHandoffsDrained'
    BY DEF EmptyPath, ProcessingDrained, HandoffQueued, ResultHandoffsDrained, HandoffPending
  <1>5. /\ IngressCapacity \in Nat /\ MatchingCapacity \in Nat /\ ResultCapacity \in Nat
        /\ PrivateCapacity \in Nat /\ PublicCapacity \in Nat
    BY PipelineAssumption
  <1>6. SequencerTypes' /\ MatcherTypes' /\ HandoffTypes' /\ CapacityTypes'
    <2>1. /\ Len(<<>>) = 0 /\ 0 <= 1 /\ 0 \in Nat /\ 0 <= IngressCapacity /\ 0 <= MatchingCapacity /\ 0 <= ResultCapacity
          /\ 0 <= PrivateCapacity /\ 0 <= PublicCapacity
      BY <1>5
    <2>2. <<>> \in Seq(Commands) /\ <<>> \in Seq(Messages) /\ <<>> \in Seq(Results)
      OBVIOUS
    <2>. QED  BY <2>1, <2>2, Zenon DEF EmptyPath, SequencerTypes, MatcherTypes, HandoffTypes, CapacityTypes
  <1>. QED  BY <1>1, <1>2, <1>3, <1>4, <1>6

\* What every restart leaves: a sound file and whole channels.
LEMMA RestartKeeps ==
  ASSUME IInv, Restarts
  PROVE  /\ FileTypes' /\ SequencerTypes' /\ MatcherTypes' /\ HandoffTypes' /\ CapacityTypes' /\ DriverTypes'
         /\ DeliveredTypes' /\ FaultTypes' /\ Sound(journal') /\ synced' <= Len(journal')
         /\ ToldFrom(deliveredPrivate)' /\ ToldFrom(deliveredPublic)' /\ Blocked'
         /\ (run' # "INSTALLED" => Slots')
  <1>1. /\ EmptyPath /\ failure' = "NONE" /\ pc' = "idle" /\ pausing' = FALSE
        /\ progressed' \in BOOLEAN /\ beforeCommands' \in Nat /\ UNCHANGED deliveredVars
        /\ synced' \in synced..Len(journal') /\ torn' \in BOOLEAN /\ faults' \in 0..MaxFaults
    BY DEF Restarts
  <1>2. /\ Types /\ File /\ PrivateDelivery /\ PublicDelivery
    BY DEF IInv
  <1>3. synced \in Nat /\ Len(journal) \in Nat
    BY <1>2, PathTypes DEF Types, FileTypes
  <1>4. PICK n \in synced..Len(journal) : journal' = SubSeq(journal, 1, n)
    BY DEF Restarts
  <1>5. n \in 0..Len(journal)
    BY <1>3
  <1>6. Sound(journal') /\ Len(journal') = n /\ Kept(n)
    BY <1>2, <1>4, <1>5, JournalCut
  <1>7. synced' \in Nat /\ synced <= synced' /\ synced' <= Len(journal') /\ synced <= n
    BY <1>1, <1>3, <1>6
  <1>8. FileTypes'
    BY <1>1, <1>6, <1>7 DEF FileTypes, Sound
  <1>9. DriverTypes' /\ DeliveredTypes' /\ FaultTypes'
    <2>1. DriverTypes'
      BY <1>1, Zenon DEF DriverTypes
    <2>. QED  BY <1>1, <1>2, <2>1 DEF Types, DeliveredTypes, FaultTypes, deliveredVars
  <1>10. ASSUME NEW channel, ToldFrom(channel)
         PROVE  channel # <<>> => /\ Last(channel).sequence \in 1..synced'
                                  /\ Last(channel).applied = SubSeq(journal', 1, Last(channel).sequence)
    <2>1. SUFFICES ASSUME channel # <<>>
                   PROVE  /\ Last(channel).sequence \in 1..synced'
                          /\ Last(channel).applied = SubSeq(journal', 1, Last(channel).sequence)
      OBVIOUS
    <2>2. Last(channel).sequence \in 1..synced /\ Last(channel).applied = Replay(Last(channel).sequence)
      BY <1>10, <2>1 DEF ToldFrom
    <2>3. Last(channel).sequence \in 1..synced' /\ Last(channel).sequence \in 0..n
      BY <1>3, <1>7, <2>2
    <2>. QED  BY <1>6, <2>2, <2>3 DEF Kept, Replay
  <1>11. ToldFrom(deliveredPrivate)' /\ ToldFrom(deliveredPublic)'
    <2>1. ToldFrom(deliveredPrivate) /\ ToldFrom(deliveredPublic) /\ UNCHANGED <<deliveredPrivate, deliveredPublic>>
      BY <1>1, <1>2 DEF PrivateDelivery, PublicDelivery, deliveredVars
    <2>. QED  BY <1>10, <2>1 DEF ToldFrom, Replay
  <1>12. Blocked'
    BY <1>1 DEF Blocked
  <1>13. run' # "INSTALLED" => Slots'
    <2>1. /\ ProcessingDrained' /\ ~HandoffQueued' /\ ResultHandoffsDrained'
          /\ pendingReady' = FALSE /\ appendFailure' = "NONE" /\ acceptedCommands' = 0 /\ acceptedBytes' = 0
          /\ capacityTransitionPending' = FALSE /\ pending' = <<>> /\ inProgress' = <<>>
      BY <1>1, FreshPath DEF EmptyPath
    <2>. QED  BY <1>1, <2>1 DEF Slots
  <1>. QED  BY <1>1, <1>6, <1>7, <1>8, <1>9, <1>11, <1>12, <1>13, FreshPath

\* A controller that is left without a run.
LEMMA NoRunPreserves ==
  ASSUME IInv, Restarts, NoOwners, run' = "NONE", state' \in {"UNAVAILABLE", "RECOVERY_FAILED"}
  PROVE  IInv'
  <1>1. /\ FileTypes' /\ SequencerTypes' /\ MatcherTypes' /\ HandoffTypes' /\ CapacityTypes' /\ DriverTypes'
        /\ DeliveredTypes' /\ FaultTypes' /\ Sound(journal') /\ synced' <= Len(journal')
        /\ ToldFrom(deliveredPrivate)' /\ ToldFrom(deliveredPublic)' /\ Blocked' /\ Slots'
    BY RestartKeeps
  <1>2. /\ EmptyPath /\ failure' = "NONE" /\ pc' = "idle" /\ pausing' = FALSE
        /\ catalog' \in {"OPEN", "PAUSED", "CAPACITY_REACHED", "FAIL_STOPPED", "RECOVERY_FAILED"}
    BY DEF Restarts
  <1>3. /\ records' = NoRecords /\ admissionOpen' = FALSE /\ committed' = 0 /\ applied' = <<>> /\ recovered' = 0
    BY DEF NoOwners
  <1>4. /\ Held' = <<>> /\ Staged' = <<>> /\ PathResults' = <<>> /\ PathCommands' = <<>> /\ Private' = <<>> /\ Public' = <<>>
        /\ Len(Staged') = 0 /\ Len(PathResults') = 0 /\ Len(PathCommands') = 0 /\ Len(Private') = 0 /\ Len(Public') = 0
    BY <1>2, FreshPath
  <1>5. Matched' = 0 /\ Done' = 0
    <2>1. Matched' = committed' - Len(PathCommands') /\ Done' = Matched' - Len(PathResults')
      BY DEF Matched, Done
    <2>. QED  BY <1>3, <1>4, <2>1
  <1>6. DOMAIN NoRecords = {} /\ NoRecords \in [DOMAIN NoRecords -> Records] /\ DOMAIN NoRecords \subseteq Keys
    BY DEF NoRecords
  <1>7. Types'
    <2>1. LifecycleTypes'
      BY <1>2 DEF LifecycleTypes
    <2>2. OwnerTypes'
      <3>1. <<>> \in Seq(Commands)
        OBVIOUS
      <3>. QED  BY <1>3, <1>6, <3>1 DEF OwnerTypes
    <2>3. Bounds'
      <3>1. Len(journal') \in Nat
        BY <1>1, LenProperties DEF Sound
      <3>. QED  BY <1>1, <1>3, <3>1 DEF Bounds
    <2>. QED  BY <1>1, <2>1, <2>2, <2>3 DEF Types
  <1>8. Control'
    BY <1>2, <1>3 DEF Control
  <1>9. File'
    BY <1>1, <1>4 DEF File, Sound, CommittedBytes
  <1>10. Index'
    <2>1. IsFiniteSet(DOMAIN records') /\ Cardinality(DOMAIN records') = 0
      BY <1>3, <1>6, FS_EmptySet
    <2>2. CompletedCount' = 0
      <3>1. {k \in DOMAIN records' : records'[k].state = "COMPLETED"} = {}
        BY <1>3, <1>6
      <3>. QED  BY <3>1, FS_EmptySet DEF CompletedCount
    <2>3. Cardinality(DOMAIN records') = committed' + Len(Staged') /\ Cardinality(DOMAIN records') <= MaxRunCommands
      BY <1>3, <1>4, <2>1, PipelineAssumption
    <2>4. 1..Len(Staged') = {} /\ 1..committed' = {}
      BY <1>3, <1>4
    <2>. QED  BY <1>3, <1>5, <1>6, <2>1, <2>2, <2>3, <2>4 DEF Index
  <1>11. Path'
    <2>1. applied' = Replay(Matched)'
      <3>1. SubSeq(journal', 1, 0) = <<>>
        BY SubSeqEmpty
      <3>. QED  BY <1>3, <1>5, <3>1 DEF Replay
    <2>2. 1..Len(PathResults') = {} /\ 1..Len(PathCommands') = {}
      BY <1>4
    <2>. QED  BY <1>5, <2>1, <2>2 DEF Path
  <1>12. PrivateDelivery'
    <2>1. /\ 1..Len(Private') = {} /\ (recovered' + 1)..(Done' - Len(Private')) = {}
          /\ recovered' <= Done' - Len(Private')
      BY <1>3, <1>4, <1>5
    <2>. QED  BY <1>1, <2>1 DEF PrivateDelivery
  <1>13. PublicDelivery'
    <2>1. 1..Len(Public') = {} /\ (recovered' + 1)..Done' = {}
      BY <1>3, <1>4, <1>5
    <2>. QED  BY <1>1, <2>1 DEF PublicDelivery
  <1>14. Capacity'
    BY <1>2 DEF Capacity, InCycle, EmptyPath
  <1>. QED  BY <1>1, <1>7, <1>8, <1>9, <1>10, <1>11, <1>12, <1>13, <1>14 DEF IInv

\* A file that is left alone is cut at its end.
LEMMA NothingLost ==
  ASSUME IInv, UNCHANGED journal
  PROVE  /\ \E n \in synced..Len(journal) : journal' = SubSeq(journal, 1, n)
         /\ synced \in synced..Len(journal') /\ Len(journal) \in synced..Len(journal')
  <1>1. /\ journal \in Seq(Commands) /\ Len(journal) \in Nat /\ synced \in Nat /\ synced <= Len(journal)
    BY PathTypes DEF IInv, Types, FileTypes, Bounds
  <1>2. Len(journal) \in synced..Len(journal) /\ synced \in synced..Len(journal)
    BY <1>1
  <1>3. journal' = SubSeq(journal, 1, Len(journal))
    BY <1>1, SubSeqFull
  <1>. QED  BY <1>2, <1>3

\* The process or the machine stops.
LEMMA CrashPreserves ==
  ASSUME IInv, Crash
  PROVE  IInv'
  <1>1. /\ Fault /\ run' = "NONE" /\ state' = "UNAVAILABLE" /\ failure' = "NONE" /\ NoOwners /\ EmptyPath
        /\ pc' = "idle" /\ pausing' = FALSE /\ progressed' = FALSE /\ beforeCommands' = 0
        /\ UNCHANGED <<catalog, deliveredVars>>
    BY DEF Crash
  <1>2. Types
    BY DEF IInv
  <1>3. synced \in Nat /\ Len(journal) \in Nat
    BY <1>2, PathTypes DEF Types, FileTypes
  <1>4. /\ \E n \in synced..Len(journal) : journal' = SubSeq(journal, 1, n)
        /\ synced' \in synced..Len(journal') /\ torn' \in BOOLEAN
    <2>1. CASE UNCHANGED fileVars
      BY <1>2, <2>1, NothingLost DEF fileVars, Types, FileTypes
    <2>2. CASE /\ \E n \in synced..Len(journal) :
                    /\ journal' = SubSeq(journal, 1, n)
                    /\ torn' \in IF torn \/ n < Len(journal) THEN BOOLEAN ELSE {FALSE}
               /\ UNCHANGED synced
      <3>1. PICK n \in synced..Len(journal) :
              /\ journal' = SubSeq(journal, 1, n)
              /\ torn' \in IF torn \/ n < Len(journal) THEN BOOLEAN ELSE {FALSE}
        BY <2>2
      <3>2. torn' \in BOOLEAN
        BY <3>1
      <3>3. n \in 0..Len(journal)
        BY <1>3
      <3>4. Len(journal') = n
        BY <1>2, <3>1, <3>3, JournalCut DEF IInv
      <3>5. synced' \in synced..Len(journal')
        BY <1>3, <2>2, <3>4
      <3>. QED  BY <3>1, <3>2, <3>5
    <2>. QED  BY <2>1, <2>2 DEF Crash
  <1>5. Restarts
    <2>1. faults' \in 0..MaxFaults
      BY <1>1, <1>2, PipelineAssumption DEF Fault, Types, FaultTypes
    <2>2. catalog' \in {"OPEN", "PAUSED", "CAPACITY_REACHED", "FAIL_STOPPED", "RECOVERY_FAILED"}
      BY <1>1, <1>2 DEF Types, LifecycleTypes
    <2>3. beforeCommands' \in Nat
      BY <1>1
    <2>4. progressed' \in BOOLEAN
      BY <1>1, ZenonT(30)
    <2>. QED  BY <1>1, <1>4, <2>1, <2>2, <2>3, <2>4 DEF Restarts
  <1>. QED  BY <1>1, <1>5, NoRunPreserves

\* The index that a recovery builds has one record for each frame.
LEMMA RecoveredIndex ==
  ASSUME Types, File, RecoverOwners
  PROVE  /\ DOMAIN records' = {journal[i].key : i \in 1..Len(journal)}
         /\ \A i \in 1..Len(journal) : records'[journal[i].key] = RecoveredRecord(i)
         /\ IsFiniteSet(DOMAIN records') /\ Cardinality(DOMAIN records') = Len(journal)
  <1>. DEFINE keys == {journal[i].key : i \in 1..Len(journal)}
              f == [i \in 1..Len(journal) |-> journal[i].key]
  <1>1. DOMAIN journal = 1..Len(journal) /\ Len(journal) \in Nat
    BY PathTypes, LenProperties DEF Types, FileTypes
  <1>2. \A i \in 1..Len(journal) : \A j \in 1..Len(journal) : journal[i].key = journal[j].key => i = j
    BY <1>1 DEF File, DistinctKeys
  <1>3. records' = [k \in keys |-> RecoveredRecord(CHOOSE i \in 1..Len(journal) : journal[i].key = k)]
    BY <1>1 DEF RecoverOwners
  <1>4. ASSUME NEW i \in 1..Len(journal) PROVE records'[journal[i].key] = RecoveredRecord(i)
    <2>. DEFINE p == CHOOSE j \in 1..Len(journal) : journal[j].key = journal[i].key
    <2>1. p \in 1..Len(journal) /\ journal[p].key = journal[i].key
      OBVIOUS
    <2>2. p = i
      <3>. HIDE DEF p
      <3>. QED  BY <1>2, <2>1
    <2>3. journal[i].key \in keys
      OBVIOUS
    <2>4. records'[journal[i].key] = RecoveredRecord(p)
      BY <1>3, <2>3
    <2>. QED  BY <2>2, <2>4
  <1>5. IsFiniteSet(1..Len(journal)) /\ Cardinality(1..Len(journal)) = Len(journal)
    <2>1. \A m \in Nat : IsFiniteSet(1..m) /\ Cardinality(1..m) = m
      <3>1. ASSUME NEW m \in Nat PROVE IsFiniteSet(1..m) /\ Cardinality(1..m) = IF 1 > m THEN 0 ELSE m - 1 + 1
        BY FS_Interval
      <3>2. \A m \in Nat : (IF 1 > m THEN 0 ELSE m - 1 + 1) = m
        OBVIOUS
      <3>. QED  BY <3>1, <3>2
    <2>. QED  BY <1>1, <2>1
  <1>6. f \in Bijection(1..Len(journal), keys)
    BY <1>2 DEF Bijection, Injection, Surjection, IsInjective
  <1>7. DOMAIN records' = keys
    BY <1>3
  <1>. HIDE DEF f, keys
  <1>8. ExistsBijection(1..Len(journal), keys)
    BY <1>6 DEF ExistsBijection
  <1>9. IsFiniteSet(keys) /\ Cardinality(keys) = Len(journal)
    BY <1>5, <1>8, FS_Bijection
  <1>. QED  BY <1>4, <1>7, <1>9, ZenonT(30) DEF keys

\* A run that was recovered from its journal.
LEMMA RecoveredPreserves ==
  ASSUME IInv, Restarts, RecoverOwners, UNCHANGED journal, torn' = FALSE, run' = "OWNED", state' = "PAUSED"
  PROVE  IInv'
  <1>. DEFINE n == Len(journal)
  <1>1. /\ FileTypes' /\ SequencerTypes' /\ MatcherTypes' /\ HandoffTypes' /\ CapacityTypes' /\ DriverTypes'
        /\ DeliveredTypes' /\ FaultTypes' /\ Sound(journal') /\ synced' <= Len(journal')
        /\ ToldFrom(deliveredPrivate)' /\ ToldFrom(deliveredPublic)' /\ Blocked' /\ Slots'
    BY RestartKeeps
  <1>2. /\ EmptyPath /\ failure' = "NONE" /\ pc' = "idle" /\ pausing' = FALSE
        /\ catalog' \in {"OPEN", "PAUSED", "CAPACITY_REACHED", "FAIL_STOPPED", "RECOVERY_FAILED"}
    BY DEF Restarts
  <1>3. committed' = n /\ applied' = journal /\ recovered' = n /\ admissionOpen' = FALSE
    BY DEF RecoverOwners
  <1>4. /\ Held' = <<>> /\ Staged' = <<>> /\ PathResults' = <<>> /\ PathCommands' = <<>> /\ Private' = <<>> /\ Public' = <<>>
        /\ Len(Staged') = 0 /\ Len(PathResults') = 0 /\ Len(PathCommands') = 0 /\ Len(Private') = 0 /\ Len(Public') = 0
    BY <1>2, FreshPath
  <1>5. /\ journal \in Seq(Commands) /\ n \in Nat /\ Types /\ File
    <2>1. journal \in Seq(Commands) /\ Types /\ File
      BY DEF IInv, Types, FileTypes
    <2>. QED  BY <2>1, PathTypes
  <1>6. /\ DOMAIN records' = {journal[i].key : i \in 1..n}
        /\ \A i \in 1..n : records'[journal[i].key] = RecoveredRecord(i)
        /\ IsFiniteSet(DOMAIN records') /\ Cardinality(DOMAIN records') = n
    BY <1>5, RecoveredIndex
  <1>. HIDE DEF n
  <1>7. Matched' = n /\ Done' = n
    <2>1. Matched' = committed' - Len(PathCommands') /\ Done' = Matched' - Len(PathResults')
      BY DEF Matched, Done
    <2>2. Matched' = n
      BY <1>3, <1>4, <1>5, <2>1
    <2>. QED  BY <1>4, <1>5, <2>1, <2>2
  <1>8. ASSUME NEW i \in 1..n
        PROVE  /\ journal[i] \in Commands /\ RecoveredRecord(i) \in Records
               /\ RecoveredRecord(i).body = journal[i].body /\ RecoveredRecord(i).state = "COMPLETED"
               /\ RecoveredRecord(i).sequence = i /\ RecoveredRecord(i).result = Replay(i)
    <2>1. \A j \in 1..n : journal[j] \in Commands
      BY <1>5, ElementOfSeq DEF n
    <2>2. i \in Nat /\ \A j \in 1..i : j \in 1..n
      BY <1>5
    <2>3. SubSeq(journal, 1, i) \in Seq(Commands)
      BY <2>1, <2>2, SubSeqProperties
    <2>4. journal[i].body \in Bodies
      BY <2>1 DEF Commands
    <2>5. RecoveredRecord(i) \in Records
      BY <2>2, <2>3, <2>4 DEF RecoveredRecord, Records
    <2>. QED  BY <2>1, <2>5 DEF RecoveredRecord, Replay
  <1>9. Types'
    <2>1. LifecycleTypes'
      BY <1>2 DEF LifecycleTypes
    <2>2. OwnerTypes'
      <3>1. DOMAIN records' \subseteq Keys
        BY <1>6, <1>8 DEF Commands
      <3>2. \A k \in DOMAIN records' : records'[k] \in Records
        BY <1>6, <1>8
      <3>3. records' = [k \in DOMAIN records' |-> records'[k]]
        BY DEF RecoverOwners
      <3>4. records' \in [DOMAIN records' -> Records]
        BY <3>2, <3>3
      <3>5. admissionOpen' \in BOOLEAN
        BY <1>3
      <3>. QED  BY <1>3, <1>5, <3>1, <3>4, <3>5 DEF OwnerTypes
    <2>3. Bounds'
      BY <1>1, <1>3, <1>5 DEF Bounds, n
    <2>. QED  BY <1>1, <2>1, <2>2, <2>3 DEF Types
  <1>10. Control'
    BY <1>2, <1>3 DEF Control, EmptyPath
  <1>11. File'
    <2>1. Len(journal') = committed' /\ pc' # "syncing" /\ ~(committed' > recovered')
      BY <1>2, <1>3, <1>5 DEF n
    <2>. QED  BY <1>1, <1>4, <2>1 DEF File, Sound, CommittedBytes
  <1>12. Index'
    <2>1. Cardinality(DOMAIN records') = committed' + Len(Staged') /\ Cardinality(DOMAIN records') <= MaxRunCommands
      <3>1. n <= MaxRunCommands
        BY <1>1 DEF Sound, n
      <3>2. n = n + 0
        BY <1>5
      <3>. QED  BY <1>3, <1>4, <1>6, <3>1, <3>2
    <2>2. CompletedCount' = n
      <3>1. {k \in DOMAIN records' : records'[k].state = "COMPLETED"} = DOMAIN records'
        BY <1>6, <1>8
      <3>. QED  BY <1>6, <3>1 DEF CompletedCount
    <2>3. 1..Len(Staged') = {}
      BY <1>4
    <2>4. ASSUME NEW i \in 1..committed'
          PROVE  /\ journal'[i].key \in DOMAIN records'
                 /\ records'[journal'[i].key].body = journal'[i].body
                 /\ records'[journal'[i].key].sequence = i
                 /\ records'[journal'[i].key].state = IF i <= Done' THEN "COMPLETED" ELSE "SEQUENCED"
                 /\ i <= Done' => records'[journal'[i].key].result = Replay(i)'
      <3>1. i \in 1..n /\ i <= Done'
        BY <1>3, <1>5, <1>7
      <3>2. Replay(i)' = Replay(i)
        BY DEF Replay
      <3>. QED  BY <1>6, <1>8, <3>1, <3>2
    <2>5. \A k \in DOMAIN records' : \E i \in 1..committed' : k = journal'[i].key
      BY <1>3, <1>6
    <2>. QED  BY <1>6, <1>7, <2>1, <2>2, <2>3, <2>4, <2>5 DEF Index
  <1>13. Path'
    <2>1. applied' = Replay(Matched)'
      BY <1>3, <1>5, <1>7, SubSeqFull DEF Replay, n
    <2>2. 1..Len(PathResults') = {} /\ 1..Len(PathCommands') = {}
      BY <1>4
    <2>. QED  BY <1>5, <1>7, <2>1, <2>2 DEF Path
  <1>14. ToldUpTo(deliveredPrivate, n)' /\ ToldUpTo(deliveredPublic, n)'
    <2>1. synced' \in Nat /\ synced' <= n
      BY <1>1 DEF FileTypes, n
    <2>2. deliveredPrivate' # <<>> => Last(deliveredPrivate').sequence <= n
      BY <1>1, <1>5, <2>1 DEF ToldFrom
    <2>3. deliveredPublic' # <<>> => Last(deliveredPublic').sequence <= n
      BY <1>1, <1>5, <2>1 DEF ToldFrom
    <2>4. n' = n
      BY DEF n
    <2>. QED  BY <2>2, <2>3, <2>4 DEF ToldUpTo
  <1>15. n' = n
    BY DEF n
  <1>16. PrivateDelivery'
    <2>1. /\ 1..Len(Private') = {} /\ (recovered' + 1)..(Done' - Len(Private')) = {}
          /\ recovered' <= Done' - Len(Private') /\ Done' - Len(Private') = n
      BY <1>3, <1>4, <1>5, <1>7
    <2>. QED  BY <1>1, <1>14, <1>15, <2>1 DEF PrivateDelivery, ToldUpTo
  <1>17. PublicDelivery'
    <2>1. 1..Len(Public') = {} /\ (recovered' + 1)..Done' = {}
      BY <1>3, <1>4, <1>5, <1>7
    <2>. QED  BY <1>1, <1>7, <1>14, <1>15, <2>1 DEF PublicDelivery, ToldUpTo
  <1>18. Capacity'
    <2>1. Bytes(Staged', Len(Staged')) = 0
      BY <1>4, BytesNone
    <2>2. CommittedBytes(committed)' <= MaxRunJournalBytes /\ CommittedBytes(committed)' \in Nat
      <3>1. CommittedBytes(committed)' = Bytes(journal', Len(journal'))
        BY <1>3 DEF CommittedBytes, n
      <3>2. Bytes(journal', Len(journal')) \in Nat
        <4>1. Len(journal') \in 0..Len(journal') /\ journal' \in Seq(Commands)
          BY <1>5 DEF n
        <4>. QED  BY <4>1, CellsFinite
      <3>. QED  BY <1>1, <3>1, <3>2 DEF Sound
    <2>3. CommittedBytes(committed)' + Bytes(Staged', Len(Staged')) <= MaxRunJournalBytes
      BY <2>1, <2>2, PipelineAssumption
    <2>. QED  BY <1>2, <2>3 DEF Capacity, InCycle, EmptyPath
  <1>. QED  BY <1>1, <1>9, <1>10, <1>11, <1>12, <1>13, <1>16, <1>17, <1>18 DEF IInv

\* A recovery of a run keeps the file, or its synchronised part, and answers in
\* one of two ways.
LEMMA RecoveryFile ==
  ASSUME IInv, \/ RepairTail
               \/ UNCHANGED fileVars
               \/ torn' = FALSE /\ UNCHANGED <<journal, synced>>
  PROVE  /\ \E n \in synced..Len(journal) : journal' = SubSeq(journal, 1, n)
         /\ synced' \in synced..Len(journal') /\ torn' \in BOOLEAN /\ UNCHANGED journal
  <1>1. UNCHANGED journal
    BY DEF RepairTail, fileVars
  <1>2. /\ \E n \in synced..Len(journal) : journal' = SubSeq(journal, 1, n)
        /\ synced \in synced..Len(journal') /\ Len(journal) \in synced..Len(journal')
    BY <1>1, NothingLost
  <1>3. synced' = synced \/ synced' = Len(journal)
    BY DEF RepairTail, fileVars
  <1>4. torn' = torn \/ torn' = FALSE
    BY DEF RepairTail, fileVars
  <1>5. torn \in BOOLEAN
    BY DEF IInv, Types, FileTypes
  <1>6. torn' \in BOOLEAN
    BY <1>4, <1>5
  <1>. QED  BY <1>1, <1>2, <1>3, <1>6

\* The parts of a restart that a recovery leaves to the driver and the faults.
LEMMA RecoveryRestarts ==
  ASSUME IInv, pc = "idle", EmptyPath, failure' = "NONE", UNCHANGED <<driverVars, deliveredVars>>,
         UNCHANGED faults \/ Fault,
         catalog' \in {"OPEN", "PAUSED", "CAPACITY_REACHED", "FAIL_STOPPED", "RECOVERY_FAILED"},
         \/ RepairTail
         \/ UNCHANGED fileVars
         \/ torn' = FALSE /\ UNCHANGED <<journal, synced>>
  PROVE  Restarts
  <1>1. /\ \E n \in synced..Len(journal) : journal' = SubSeq(journal, 1, n)
        /\ synced' \in synced..Len(journal') /\ torn' \in BOOLEAN
    BY RecoveryFile
  <1>2. faults' \in 0..MaxFaults
    BY PipelineAssumption DEF Fault, IInv, Types, FaultTypes
  <1>3. pc' = "idle" /\ pausing' = FALSE /\ progressed' \in BOOLEAN /\ beforeCommands' \in Nat
    <2>1. DriverTypes /\ ~pausing /\ UNCHANGED <<pc, pausing, progressed, beforeCommands>>
      BY DEF IInv, Types, Control, driverVars
    <2>. QED  BY <2>1 DEF DriverTypes
  <1>. QED  BY <1>1, <1>2, <1>3 DEF Restarts

\* A recovered run is installed, or its publication failed.
LEMMA PublishRecoveredPreserves ==
  ASSUME IInv, pc = "idle", EmptyPath, failure' = "NONE", UNCHANGED <<driverVars, deliveredVars>>, PublishRecovered
  PROVE  IInv'
  <1>1. /\ Publish("PAUSED", "PAUSED", "UNAVAILABLE") /\ RepairTail
        /\ IF state' = "PAUSED" THEN run' = "OWNED" /\ RecoverOwners ELSE run' = "NONE" /\ NoOwners
    BY DEF PublishRecovered
  <1>2. /\ UNCHANGED faults \/ Fault
        /\ catalog' \in {catalog, "PAUSED"} /\ state' \in {"PAUSED", "UNAVAILABLE"}
    BY <1>1 DEF Publish
  <1>3. catalog' \in {"OPEN", "PAUSED", "CAPACITY_REACHED", "FAIL_STOPPED", "RECOVERY_FAILED"}
    BY <1>2 DEF IInv, Types, LifecycleTypes
  <1>4. Restarts
    BY <1>1, <1>2, <1>3, RecoveryRestarts
  <1>5. CASE state' = "PAUSED"
    <2>1. UNCHANGED journal /\ torn' = FALSE
      BY <1>1 DEF RepairTail
    <2>. QED  BY <1>1, <1>4, <1>5, <2>1, RecoveredPreserves
  <1>6. CASE state' = "UNAVAILABLE"
    BY <1>1, <1>4, <1>6, NoRunPreserves
  <1>. QED  BY <1>2, <1>5, <1>6

\* A journal with distinct keys fails to recover only by a fault.
LEMMA RecoveryFailsPreserves ==
  ASSUME IInv, pc = "idle", EmptyPath, failure' = "NONE", UNCHANGED <<driverVars, deliveredVars>>, RecoveryFails,
         state' \in {"UNAVAILABLE", "RECOVERY_FAILED"},
         catalog' \in {"OPEN", "PAUSED", "CAPACITY_REACHED", "FAIL_STOPPED", "RECOVERY_FAILED"}
  PROVE  IInv'
  <1>1. /\ \/ RepairTail
           \/ UNCHANGED fileVars
           \/ torn' = FALSE /\ UNCHANGED <<journal, synced>>
        /\ UNCHANGED faults \/ Fault
        /\ run' = "NONE" /\ NoOwners
    BY DEF RecoveryFails
  <1>2. Restarts
    BY <1>1, RecoveryRestarts
  <1>. QED  BY <1>1, <1>2, NoRunPreserves

\* Start of an existing run, for every disposition the catalog may hold.
LEMMA StartupExistingPreserves ==
  ASSUME IInv, StartupExisting
  PROVE  IInv'
  <1>1. /\ pc = "idle" /\ run = "NONE" /\ EmptyPath /\ failure' = "NONE" /\ UNCHANGED <<driverVars, deliveredVars>>
    BY DEF StartupExisting
  <1>2. catalog \in {"OPEN", "PAUSED", "CAPACITY_REACHED", "FAIL_STOPPED", "RECOVERY_FAILED"}
    BY DEF IInv, Types, LifecycleTypes
  <1>3. CASE PublishRecovered
    BY <1>1, <1>3, PublishRecoveredPreserves
  <1>4. CASE RecoveryFails /\ state' = "RECOVERY_FAILED" /\ UNCHANGED catalog
    <2>1. /\ state' \in {"UNAVAILABLE", "RECOVERY_FAILED"}
          /\ catalog' \in {"OPEN", "PAUSED", "CAPACITY_REACHED", "FAIL_STOPPED", "RECOVERY_FAILED"}
      BY <1>2, <1>4
    <2>. QED  BY <1>1, <1>4, <2>1, RecoveryFailsPreserves
  <1>5. CASE /\ UNCHANGED faults \/ Fault
             /\ state' = "UNAVAILABLE"
             /\ UNCHANGED <<fileVars, run, catalog, ownerVars>>
    <2>1. catalog' \in {"OPEN", "PAUSED", "CAPACITY_REACHED", "FAIL_STOPPED", "RECOVERY_FAILED"}
      BY <1>2, <1>5
    <2>2. Restarts
      BY <1>1, <1>5, <2>1, RecoveryRestarts
    <2>3. NoOwners
      <3>1. /\ records = NoRecords /\ committed = 0 /\ applied = <<>> /\ recovered = 0 /\ ~admissionOpen
        BY <1>1 DEF IInv, Control
      <3>2. admissionOpen \in BOOLEAN
        BY DEF IInv, Types, OwnerTypes
      <3>3. admissionOpen = FALSE
        BY <3>1, <3>2
      <3>. QED  BY <1>5, <3>1, <3>3 DEF NoOwners, ownerVars
    <2>. QED  BY <1>1, <1>5, <2>2, <2>3, NoRunPreserves
  <1>. QED  BY <1>3, <1>4, <1>5 DEF StartupExisting

\* Recovery of a failed run, published or not.
LEMMA RecoverFailedPreserves ==
  ASSUME IInv, RecoverFailed
  PROVE  IInv'
  <1>1. /\ pc = "idle" /\ EmptyPath /\ failure' = "NONE" /\ UNCHANGED <<driverVars, deliveredVars>>
    BY DEF RecoverFailed
  <1>2. CASE PublishRecovered
    BY <1>1, <1>2, PublishRecoveredPreserves
  <1>3. CASE /\ RecoveryFails
             /\ state' \in {"RECOVERY_FAILED"} \cup (IF catalog = "FAIL_STOPPED" THEN {"UNAVAILABLE"} ELSE {})
             /\ catalog' \in IF state' = "UNAVAILABLE" THEN {"FAIL_STOPPED", "RECOVERY_FAILED"} ELSE {"RECOVERY_FAILED"}
    <2>1. /\ state' \in {"UNAVAILABLE", "RECOVERY_FAILED"}
          /\ catalog' \in {"OPEN", "PAUSED", "CAPACITY_REACHED", "FAIL_STOPPED", "RECOVERY_FAILED"}
      BY <1>3
    <2>. QED  BY <1>1, <1>3, <2>1, RecoveryFailsPreserves
  <1>. QED  BY <1>2, <1>3 DEF RecoverFailed

-----------------------------------------------------------------------------
(* The invariant.                                                          *)

\* A new run with an empty journal satisfies the invariant.
LEMMA InitEstablishes ==
  ASSUME Init
  PROVE  IInv
  <1>1. /\ journal = <<>> /\ synced = 0 /\ torn = FALSE /\ catalog = "OPEN"
        /\ run = "OWNED" /\ state = "READY" /\ failure = "NONE"
        /\ records = NoRecords /\ admissionOpen = TRUE /\ committed = 0 /\ applied = <<>> /\ recovered = 0
        /\ pc = "idle" /\ pausing = FALSE /\ progressed = FALSE /\ beforeCommands = 0
        /\ deliveredPrivate = <<>> /\ deliveredPublic = <<>> /\ faults = 0
    BY DEF Init
  <1>2. /\ ingress = <<>> /\ pending = <<>> /\ pendingReady = FALSE /\ appendFailure = "NONE"
        /\ matching = <<>> /\ inProgress = <<>> /\ pendingResult = <<>> /\ results = <<>>
        /\ pendingPrivate = <<>> /\ pendingPublic = <<>> /\ privateResults = <<>> /\ publicTrades = <<>>
        /\ acceptedCommands = 0 /\ acceptedBytes = 0 /\ capacityTransitionPending = FALSE
    BY DEF Init
  <1>3. Held = <<>> /\ Ready = <<>>
    BY <1>2 DEF Held, Ready
  <1>4. Staged = <<>> /\ PathResults = <<>> /\ PathCommands = <<>> /\ Private = <<>> /\ Public = <<>>
    BY <1>2, <1>3 DEF Staged, PathResults, PathCommands, Private, Public
  <1>5. /\ Len(<<>>) = 0 /\ 1..0 = {} /\ 0 \in Nat
        /\ 0 <= IngressCapacity /\ 0 <= MatchingCapacity /\ 0 <= ResultCapacity
        /\ 0 <= PrivateCapacity /\ 0 <= PublicCapacity /\ 0 <= MaxRunCommands /\ 0 <= MaxRunJournalBytes
        /\ 0 \in 0..MaxFaults
    BY PipelineAssumption
  <1>6. ProcessingDrained /\ ~HandoffQueued /\ ResultHandoffsDrained
    BY <1>2 DEF ProcessingDrained, HandoffQueued, HandoffPending, ResultHandoffsDrained
  <1>7. DOMAIN NoRecords = {} /\ NoRecords \in [DOMAIN NoRecords -> Records] /\ DOMAIN NoRecords \subseteq Keys
    BY DEF NoRecords
  <1>8. Matched = 0 /\ Done = 0
    <2>1. Matched = committed - Len(PathCommands) /\ Done = Matched - Len(PathResults)
      BY DEF Matched, Done
    <2>2. Len(PathCommands) = 0 /\ Len(PathResults) = 0
      BY <1>4, <1>5
    <2>. QED  BY <1>1, <2>1, <2>2
  <1>9. Types
    <2>1. <<>> \in Seq(Commands) /\ <<>> \in Seq(Messages) /\ <<>> \in Seq(Results) /\ 0 <= 1 /\ 0 <= 0
      OBVIOUS
    <2>2. FileTypes /\ LifecycleTypes /\ Bounds /\ DriverTypes /\ DeliveredTypes /\ FaultTypes
      BY <1>1, <1>5, <2>1, Zenon DEF FileTypes, LifecycleTypes, Bounds, DriverTypes, DeliveredTypes, FaultTypes
    <2>3. OwnerTypes
      BY <1>1, <1>5, <1>7, <2>1, Zenon DEF OwnerTypes
    <2>4. SequencerTypes /\ MatcherTypes /\ HandoffTypes /\ CapacityTypes
      BY <1>2, <1>5, <2>1, Zenon DEF SequencerTypes, MatcherTypes, HandoffTypes, CapacityTypes
    <2>. QED  BY <2>2, <2>3, <2>4 DEF Types
  <1>10. Control
    BY <1>1, <1>2 DEF Control
  <1>11. Slots
    BY <1>1, <1>2, <1>6 DEF Slots
  <1>12. CommittedBytes(0) = 0 /\ Bytes(Staged, 0) = 0
    BY BytesNone DEF CommittedBytes
  <1>13. File
    <2>1. DistinctKeys(journal)
      BY <1>1 DEF DistinctKeys
    <2>2. Len(journal) = 0 /\ 1..Len(journal) = {} /\ CommittedBytes(Len(journal)) <= MaxRunJournalBytes
      BY <1>1, <1>5, <1>12
    <2>. QED  BY <1>1, <1>3, <1>5, <2>1, <2>2 DEF File
  <1>14. Index
    <2>1. IsFiniteSet(DOMAIN records) /\ Cardinality(DOMAIN records) = 0
      BY <1>1, <1>7, FS_EmptySet
    <2>2. CompletedCount = 0
      <3>1. {k \in DOMAIN records : records[k].state = "COMPLETED"} = {}
        BY <1>1, <1>7
      <3>. QED  BY <3>1, FS_EmptySet DEF CompletedCount
    <2>3. Cardinality(DOMAIN records) = committed + Len(Staged) /\ Cardinality(DOMAIN records) <= MaxRunCommands
      BY <1>1, <1>4, <1>5, <2>1
    <2>4. 1..Len(Staged) = {} /\ 1..committed = {}
      BY <1>1, <1>4, <1>5
    <2>. QED  BY <1>1, <1>7, <1>8, <2>1, <2>2, <2>3, <2>4 DEF Index
  <1>15. Path
    <2>1. applied = Replay(Matched)
      <3>1. SubSeq(journal, 1, 0) = <<>>
        BY SubSeqEmpty
      <3>. QED  BY <1>1, <1>8, <3>1 DEF Replay
    <2>. QED  BY <1>4, <1>5, <1>8, <2>1 DEF Path
  <1>16. PrivateDelivery /\ PublicDelivery
    <2>1. /\ Len(Private) = 0 /\ Len(Public) = 0 /\ Done - Len(Private) = 0 /\ recovered <= Done - Len(Private)
          /\ 1..Len(Private) = {} /\ 1..Len(Public) = {} /\ (recovered + 1)..(Done - Len(Private)) = {}
          /\ (recovered + 1)..Done = {}
      <3>1. Len(Private) = 0 /\ Len(Public) = 0
        BY <1>4, <1>5
      <3>. QED  BY <1>1, <1>8, <3>1
    <2>. QED  BY <1>1, <2>1 DEF PrivateDelivery, PublicDelivery, ToldFrom, ToldUpTo
  <1>17. Capacity
    <2>1. CommittedBytes(committed) + Bytes(Staged, Len(Staged)) <= MaxRunJournalBytes
      BY <1>1, <1>4, <1>5, <1>12
    <2>. QED  BY <1>1, <1>2, <2>1 DEF Capacity, InCycle
  <1>18. Blocked
    BY <1>1 DEF Blocked
  <1>. QED  BY <1>9, <1>10, <1>11, <1>13, <1>14, <1>15, <1>16, <1>17, <1>18 DEF IInv

\* The invariant depends on the variables only.
LEMMA StutterPreserves ==
  ASSUME IInv, UNCHANGED vars
  PROVE  IInv'
  <1>1. UNCHANGED <<fileVars, lifecycleVars, ownerVars, sequencerVars, matcherVars, handoffVars, capacityVars,
                    driverVars, deliveredVars, faults>>
    BY DEF vars
  <1>2. /\ FileTypes' /\ Bounds' /\ SequencerTypes' /\ MatcherTypes' /\ HandoffTypes' /\ DeliveredTypes'
        /\ admissionOpen' \in BOOLEAN => OwnerTypes'
        /\ File' /\ Index' /\ Path' /\ PrivateDelivery' /\ PublicDelivery' /\ Kept(Len(journal))
        /\ UNCHANGED <<Held, Staged, ProcessingDrained, HandoffPending, HandoffQueued, ResultHandoffsDrained>>
    BY <1>1, QuietKeeps DEF ownerVars, driverVars, lifecycleVars
  <1>3. Types'
    <2>1. LifecycleTypes' /\ CapacityTypes' /\ FaultTypes' /\ admissionOpen' \in BOOLEAN /\ DriverTypes'
      BY <1>1 DEF IInv, Types, LifecycleTypes, CapacityTypes, FaultTypes, OwnerTypes, DriverTypes,
                  capacityVars, ownerVars, driverVars, lifecycleVars
    <2>. QED  BY <1>2, <2>1 DEF Types
  <1>4. Control'
    BY <1>1 DEF IInv, Control, ownerVars, driverVars, capacityVars, lifecycleVars
  <1>5. Slots'
    BY <1>1, <1>2 DEF IInv, Slots, Stopped, sequencerVars, matcherVars, capacityVars, driverVars, lifecycleVars
  <1>6. Capacity'
    BY <1>1, <1>2 DEF IInv, Capacity, CommittedBytes, Bytes, FrameCells, FrameSize, Since, Sequencing, InCycle,
                      fileVars, lifecycleVars, ownerVars, sequencerVars, capacityVars, driverVars
  <1>7. Blocked'
    BY <1>1, <1>2 DEF IInv, Blocked, sequencerVars, matcherVars, driverVars
  <1>. QED  BY <1>2, <1>3, <1>4, <1>5, <1>6, <1>7 DEF IInv

\* Every step of advanceCommandProcessingV1 and of the drain.
LEMMA AdvancePreserves ==
  ASSUME IInv, Advance
  PROVE  IInv'
  BY BeginAdvancePreserves, HandoffPendingCommandPreserves, AppendCommandPreserves, SyncFramePreserves,
     SequencerReturnsPreserves, FailStopPreserves, HandoffPendingResultPreserves, MatchCommandPreserves,
     MatcherReturnsPreserves, DispatchResultPreserves, PublishCapacityReachedPreserves, AdvanceReturnsPreserves,
     PauseReturnsPreserves DEF Advance

\* Every step.
LEMMA NextPreserves ==
  ASSUME IInv, [Next]_vars
  PROVE  IInv'
  <1>1. CASE \E c \in Commands : Submit(c)
    BY <1>1, SubmitPreserves
  <1>2. CASE Advance
    BY <1>2, AdvancePreserves
  <1>3. CASE Install \/ Pause \/ Resume
    BY <1>3, InstallPreserves, PausePreserves, ResumePreserves
  <1>4. CASE StartupExisting \/ RecoverFailed \/ Crash
    BY <1>4, StartupExistingPreserves, RecoverFailedPreserves, CrashPreserves
  <1>5. CASE PopPrivate \/ PopPublic
    BY <1>5, PopPrivatePreserves, PopPublicPreserves
  <1>6. CASE UNCHANGED vars
    BY <1>6, StutterPreserves
  <1>. QED  BY <1>1, <1>2, <1>3, <1>4, <1>5, <1>6 DEF Next

\* The inductive invariant holds in every reachable state, whatever the
\* capacities and limits and however often files fail, matching throws, the
\* process or the machine stops and the run is recovered.
THEOREM Invariance == Spec => []IInv
  <1>1. Init => IInv
    BY InitEstablishes
  <1>2. IInv /\ [Next]_vars => IInv'
    BY NextPreserves
  <1>. QED  BY <1>1, <1>2, PTL DEF Spec

-----------------------------------------------------------------------------
(* What it implies.                                                        *)

\* Admission binding, completion and accounting never disagree with the queues:
\* advanceCommandProcessingV1 throws only what the matcher threw.
THEOREM NothingButMatchingFails == Spec => []NoInvariantException
  <1>1. IInv => NoInvariantException
    BY DEF IInv, Types, LifecycleTypes, NoInvariantException
  <1>. QED  BY <1>1, Invariance, PTL

\* The admission gate is open only in a READY run that is not pausing, and only
\* the catalog's OPEN makes a run READY.
THEOREM GateIsRight == Spec => []GateMatchesState
  <1>1. IInv => GateMatchesState
    BY DEF IInv, Control, GateMatchesState
  <1>. QED  BY <1>1, Invariance, PTL


\* The admission index and the journal tell the same story about every key.
THEOREM IndexIsRight == Spec => []IndexMatchesJournal
  <1>1. ASSUME IInv, run # "NONE" PROVE IndexMatchesJournal
    <2>1. Types /\ File /\ Index /\ Path
      BY <1>1 DEF IInv
    <2>2. committed \in Nat /\ committed <= Len(journal) /\ Len(journal) \in Nat /\ journal \in Seq(Commands)
      BY <2>1, Positions, PathTypes DEF Types, FileTypes
    <2>3. \A i \in 1..committed : journal[i] \in Commands
      <3>1. \A i \in 1..committed : i \in 1..Len(journal)
        BY <2>2
      <3>. QED  BY <2>2, <3>1, ElementOfSeq
    <2>4. ASSUME NEW k \in DOMAIN records
          PROVE  IF records[k].state = "RESERVED"
                 THEN \A i \in 1..committed : journal[i].key # k
                 ELSE /\ records[k].sequence \in 1..committed
                      /\ journal[records[k].sequence] = [key |-> k, body |-> records[k].body]
                      /\ records[k].state = "COMPLETED" =>
                           records[k].result = SubSeq(journal, 1, records[k].sequence)
      <3>1. CASE records[k].state = "RESERVED"
        BY <2>1, <3>1 DEF Index
      <3>2. CASE records[k].state # "RESERVED"
        <4>1. PICK i \in 1..committed : k = journal[i].key
          BY <2>1, <3>2 DEF Index
        <4>2. /\ records[k].body = journal[i].body /\ records[k].sequence = i
              /\ records[k].state = IF i <= Done THEN "COMPLETED" ELSE "SEQUENCED"
              /\ i <= Done => records[k].result = Replay(i)
          BY <2>1, <4>1 DEF Index
        <4>3. journal[i] = [key |-> k, body |-> records[k].body]
          BY <2>3, <4>1, <4>2 DEF Commands
        <4>. QED  BY <3>2, <4>1, <4>2, <4>3 DEF Replay
      <3>. QED  BY <3>1, <3>2
    <2>5. \A i \in 1..committed : journal[i].key \in DOMAIN records
      BY <2>1 DEF Index
    <2>6. torn => appendFailure = "RECOVERY_REQUIRED"
      BY <1>1, <2>1 DEF File
    <2>. QED  BY <2>4, <2>5, <2>6 DEF IndexMatchesJournal
  <1>2. IInv => IndexMatchesJournal
    BY <1>1 DEF IndexMatchesJournal
  <1>. QED  BY <1>2, Invariance, PTL

\* What submitCommandV1 reserved is what is staged, and the journal refuses no
\* accepted command for want of room.
THEOREM CapacityIsReserved == Spec => []CapacityReserved
  <1>1. ASSUME IInv, run = "INSTALLED", state = "READY", pc = "idle"
        PROVE  /\ acceptedCommands = Len(ingress)
               /\ acceptedBytes = Bytes(ingress, Len(ingress))
               /\ Cardinality(DOMAIN records) = committed + acceptedCommands
    <2>1. Types /\ Slots /\ Capacity /\ Index
      BY <1>1 DEF IInv
    <2>2. Held = <<>>
      BY <1>1, <2>1 DEF Held, Slots, Stopped
    <2>3. Staged = ingress
      <3>1. ingress \in Seq(Commands)
        BY <2>1 DEF Types, SequencerTypes
      <3>. QED  BY <2>2, <3>1, ConcatEmptySeq DEF Staged
    <2>4. Since = committed
      BY <1>1 DEF Since, Sequencing
    <2>5. /\ acceptedCommands = (committed - Since) + Len(Staged)
          /\ acceptedBytes = (CommittedBytes(committed) - CommittedBytes(Since)) + Bytes(Staged, Len(Staged))
      BY <1>1, <2>1 DEF Capacity
    <2>6. CommittedBytes(committed) \in Nat /\ committed \in Nat
      BY <1>1, ByteTypes
    <2>7. Len(Staged) \in Nat /\ Bytes(Staged, Len(Staged)) \in Nat
      <3>1. Staged \in Seq(Commands) /\ Len(Staged) \in Nat
        BY <2>1, PathTypes
      <3>2. Len(Staged) \in 0..Len(Staged)
        BY <3>1
      <3>. QED  BY <3>1, <3>2, CellsFinite
    <2>8. acceptedCommands = Len(Staged) /\ acceptedBytes = Bytes(Staged, Len(Staged))
      <3>1. CommittedBytes(Since) = CommittedBytes(committed)
        BY <2>4
      <3>. QED  BY <2>4, <2>5, <2>6, <2>7, <3>1
    <2>9. Cardinality(DOMAIN records) = committed + Len(Staged)
      BY <2>1 DEF Index
    <2>. QED  BY <2>3, <2>8, <2>9
  <1>2. IInv => appendFailure # "CAPACITY_REACHED"
    BY DEF IInv, Capacity
  <1>3. IInv => CapacityReserved
    BY <1>1, <1>2 DEF CapacityReserved
  <1>. QED  BY <1>3, Invariance, PTL

\* A run that reports PAUSED or CAPACITY_REACHED has completed all it accepted,
\* and a PAUSED one has delivered all it completed since the last recovery.
THEOREM PauseIsComplete == Spec => []PauseDeliversAll
  <1>1. ASSUME IInv, state \in {"PAUSED", "CAPACITY_REACHED"}
        PROVE  Done = committed /\ \A k \in DOMAIN records : records[k].state = "COMPLETED"
    <2>1. Types /\ Slots /\ Index /\ Path
      BY <1>1 DEF IInv
    <2>2. ProcessingDrained
      BY <1>1, <2>1 DEF Slots
    <2>3. Held = <<>> /\ Ready = <<>>
      BY <2>2 DEF ProcessingDrained, Held, Ready
    <2>4. Staged = <<>> /\ PathResults = <<>> /\ PathCommands = <<>>
      BY <2>2, <2>3 DEF ProcessingDrained, Staged, PathResults, PathCommands
    <2>5. Len(Staged) = 0 /\ Len(PathResults) = 0 /\ Len(PathCommands) = 0
      BY <2>4
    <2>6. Done = committed
      BY <2>1, <2>5, Positions
    <2>7. 1..Len(Staged) = {}
      BY <2>5
    <2>8. ASSUME NEW k \in DOMAIN records PROVE records[k].state = "COMPLETED"
      <3>1. PICK i \in 1..committed : k = journal[i].key
        BY <2>1, <2>7 DEF Index
      <3>2. i <= Done
        BY <2>1, <2>6, Positions
      <3>. QED  BY <2>1, <3>1, <3>2 DEF Index
    <2>. QED  BY <2>6, <2>8
  <1>2. ASSUME IInv, state = "PAUSED", NEW n \in (recovered + 1)..committed
        PROVE  /\ \E i \in DOMAIN deliveredPrivate : deliveredPrivate[i].sequence = n
               /\ journal[n].body \in TradingBodies =>
                    \E i \in DOMAIN deliveredPublic : deliveredPublic[i].sequence = n
    <2>1. Types /\ Slots /\ PrivateDelivery /\ PublicDelivery
      BY <1>2 DEF IInv
    <2>2. /\ privateResults = <<>> /\ publicTrades = <<>> /\ pendingPrivate = <<>> /\ pendingPublic = <<>>
      BY <1>2, <2>1 DEF Slots, ResultHandoffsDrained, HandoffQueued, HandoffPending
    <2>3. Private = <<>> /\ Public = <<>>
      BY <2>2 DEF Private, Public
    <2>4. Len(Private) = 0 /\ Len(Public) = 0
      BY <2>3
    <2>5. Done = committed /\ committed \in Nat
      BY <1>1, <1>2, <2>1 DEF Types, OwnerTypes
    <2>6. Done - Len(Private) = committed /\ 1..Len(Public) = {}
      BY <2>4, <2>5
    <2>7. DOMAIN deliveredPrivate = 1..Len(deliveredPrivate) /\ DOMAIN deliveredPublic = 1..Len(deliveredPublic)
      BY <2>1, LenProperties DEF Types, DeliveredTypes
    <2>8. \E i \in DOMAIN deliveredPrivate : deliveredPrivate[i].sequence = n
      BY <2>1, <2>6, <2>7 DEF PrivateDelivery
    <2>9. journal[n].body \in TradingBodies => \E i \in DOMAIN deliveredPublic : deliveredPublic[i].sequence = n
      BY <2>1, <2>5, <2>6, <2>7 DEF PublicDelivery
    <2>. QED  BY <2>8, <2>9
  <1>3. IInv => PauseDeliversAll
    BY <1>1, <1>2 DEF PauseDeliversAll
  <1>. QED  BY <1>3, Invariance, PTL

\* The results and commands of the path, read as one sequence.
LEMMA WholePath ==
  ASSUME Types
  PROVE  results \o pendingResult \o inProgress \o matching \o Ready = PathResults \o PathCommands
  <1>. DEFINE S == Results \cup Messages
  <1>1. /\ results \in Seq(Results) /\ pendingResult \in Seq(Results)
        /\ inProgress \in Seq(Messages) /\ matching \in Seq(Messages) /\ Ready \in Seq(Messages)
        /\ PathResults \in Seq(Results)
    BY PathTypes DEF Types, MatcherTypes
  <1>2. \A q : q \in Seq(Results) \/ q \in Seq(Messages) => q \in Seq(S)
    <2>1. ASSUME NEW T, NEW q \in Seq(T), T \subseteq S PROVE q \in Seq(S)
      <3>1. q \in [1..Len(q) -> T] /\ Len(q) \in Nat
        BY LenProperties
      <3>. HIDE DEF S
      <3>2. q \in [1..Len(q) -> S]
        BY <2>1, <3>1
      <3>. QED  BY <3>1, <3>2, SeqDef
    <2>. QED  BY <2>1
  <1>3. PathResults \in Seq(S) /\ inProgress \in Seq(S) /\ matching \in Seq(S) /\ Ready \in Seq(S)
    BY <1>1, <1>2
  <1>. HIDE DEF S
  <1>4. inProgress \o matching \in Seq(S)
    BY <1>3, ConcatProperties
  <1>5. (PathResults \o inProgress) \o matching = PathResults \o (inProgress \o matching)
    BY <1>3, ConcatAssociative, SMTT(30)
  <1>6. (PathResults \o (inProgress \o matching)) \o Ready = PathResults \o ((inProgress \o matching) \o Ready)
    <2>1. ASSUME NEW q \in Seq(S) PROVE (PathResults \o q) \o Ready = PathResults \o (q \o Ready)
      BY <1>3, ConcatAssociative, SMTT(30)
    <2>. QED  BY <1>4, <2>1, Zenon
  <1>7. results \o pendingResult = PathResults /\ PathCommands = (inProgress \o matching) \o Ready
    BY DEF PathResults, PathCommands
  <1>. QED  BY <1>5, <1>6, <1>7, Zenon

\* The queues and slots hold the committed commands that are not completed, in
\* order and without gap or repetition, and never more than they were made for.
THEOREM PathIsFifo == Spec => []PipelineIsFifo
  <1>1. ASSUME IInv
        PROVE  Sequences(results \o pendingResult \o inProgress \o matching \o Ready)
                 = [i \in 1..(committed - CompletedCount) |-> CompletedCount + i]
    <2>. DEFINE path == PathResults \o PathCommands
                a == Len(PathResults)
                b == Len(PathCommands)
    <2>1. Types /\ Path /\ CompletedCount = Done
      BY <1>1 DEF IInv, Index
    <2>2. /\ Done \in Nat /\ Matched = Done + a /\ committed = Matched + b /\ a \in Nat /\ b \in Nat
      BY <2>1, Positions, PathTypes
    <2>3. PathResults \in Seq(Results) /\ PathCommands \in Seq(Messages)
      BY <2>1, PathTypes
    <2>4. /\ DOMAIN path = 1..(a + b)
          /\ \A i \in 1..(a + b) : path[i] = IF i <= a THEN PathResults[i] ELSE PathCommands[i - a]
      BY <2>3
    <2>. HIDE DEF path, a, b
    <2>5. committed - Done = a + b
      BY <2>2
    <2>6. ASSUME NEW i \in 1..(a + b) PROVE path[i].sequence = Done + i
      <3>1. CASE i <= a
        <4>1. i \in 1..a
          BY <2>2, <3>1
        <4>2. PathResults[i] = ResultOf(Done + i)
          BY <2>1, <4>1 DEF Path, a
        <4>. QED  BY <2>4, <3>1, <4>2 DEF ResultOf
      <3>2. CASE ~(i <= a)
        <4>1. i - a \in 1..b /\ Matched + (i - a) = Done + i
          BY <2>2, <3>2
        <4>2. PathCommands[i - a] = MessageOf(Matched + (i - a))
          BY <2>1, <4>1 DEF Path, b
        <4>. QED  BY <2>4, <3>2, <4>1, <4>2 DEF MessageOf
      <3>. QED  BY <3>1, <3>2
    <2>7. Sequences(path) = [i \in 1..(a + b) |-> Done + i]
      BY <2>4, <2>6 DEF Sequences
    <2>8. results \o pendingResult \o inProgress \o matching \o Ready = path
      BY <2>1, WholePath DEF path
    <2>. QED  BY <2>1, <2>5, <2>7, <2>8
  <1>2. IInv => TypeOK
    BY TypesAreTypeOK DEF IInv
  <1>3. IInv => PipelineIsFifo
    BY <1>1, <1>2, Zenon DEF PipelineIsFifo, Ready
  <1>. QED  BY <1>3, Invariance, PTL

-----------------------------------------------------------------------------
(* The run is a command log.                                               *)

\* The initial state is an empty log of which nobody was told.
LEMMA LogInitially ==
  ASSUME Init
  PROVE  Log!LogInit
  <1>1. journal = <<>> /\ deliveredPrivate = <<>> /\ deliveredPublic = <<>>
    BY DEF Init
  <1>2. LongestDelivered(deliveredPrivate) = <<>> /\ LongestDelivered(deliveredPublic) = <<>>
    BY <1>1 DEF LongestDelivered
  <1>. QED  BY <1>1, <1>2 DEF Log!LogInit

\* The length of a prefix of the journal.
LEMMA ReplayLength ==
  ASSUME Types, NEW n \in 0..Len(journal)
  PROVE  Replay(n) \in Seq(Commands) /\ Len(Replay(n)) = n
  <1>1. journal \in Seq(Commands) /\ Len(journal) \in Nat /\ n \in Nat
    BY PathTypes DEF Types, FileTypes
  <1>2. \A i \in 1..n : i \in 1..Len(journal)
    BY <1>1
  <1>3. \A i \in 1..n : journal[i] \in Commands
    BY <1>1, <1>2, ElementOfSeq
  <1>4. Replay(n) \in Seq(Commands) /\ Len(Replay(n)) = IF 1 <= n THEN n - 1 + 1 ELSE 0
    BY <1>1, <1>3, SubSeqProperties DEF Replay
  <1>. QED  BY <1>1, <1>4

\* What the matcher holds or has matched is synchronised and stands in the
\* journal, save what recovery replayed. It needs the order of the whole path: a
\* frame is known to be synchronised because it is committed, and to be committed
\* because of its place between the matcher and the journal.
THEOREM MatchedIsDurable == Spec => []DurableBeforeMatching
  <1>1. ASSUME IInv, run # "NONE" PROVE DurableBeforeMatching
    <2>1. Types /\ File /\ Path /\ PrivateDelivery
      BY <1>1 DEF IInv
    <2>2. /\ Done \in Nat /\ Matched \in Nat /\ committed \in Nat /\ recovered \in Nat /\ synced \in Nat
          /\ Matched = Done + Len(PathResults) /\ committed = Matched + Len(PathCommands)
          /\ committed <= Len(journal) /\ Len(PathResults) \in Nat /\ Len(PathCommands) \in Nat
          /\ Len(Private) \in Nat /\ Len(journal) \in Nat
      BY <2>1, Positions, PathTypes
    <2>3. recovered <= Matched /\ Matched <= committed
      <3>1. recovered <= Done - Len(Private)
        BY <2>1 DEF PrivateDelivery
      <3>. QED  BY <2>2, <3>1
    <2>4. committed > recovered => synced >= committed
      BY <1>1, <2>1 DEF File
    <2>5. applied = Replay(Matched) /\ Len(applied) = Matched
      <3>1. Matched \in 0..Len(journal)
        BY <2>2, <2>3
      <3>2. applied = Replay(Matched)
        BY <2>1 DEF Path
      <3>. QED  BY <2>1, <3>1, <3>2, ReplayLength
    <2>6. /\ applied = SubSeq(journal, 1, Len(applied))
          /\ Len(applied) >= recovered
          /\ Len(applied) > recovered => Len(applied) <= synced
      <3>1. applied = SubSeq(journal, 1, Len(applied))
        BY <2>5 DEF Replay
      <3>2. Matched >= recovered /\ (Matched > recovered => Matched <= synced)
        BY <2>2, <2>3, <2>4
      <3>. QED  BY <2>5, <3>1, <3>2
    <2>7. /\ inProgress \o matching \in Seq(Messages) /\ Ready \in Seq(Messages)
          /\ Len(inProgress \o matching) \in Nat /\ Len(Ready) \in Nat
      BY <2>1, PathTypes, ConcatProperties, LenProperties DEF Types, MatcherTypes
    <2>8. /\ Len(PathCommands) = Len(inProgress \o matching) + Len(Ready)
          /\ \A i \in 1..Len(inProgress \o matching) : PathCommands[i] = (inProgress \o matching)[i]
      BY <2>7, ConcatProperties DEF PathCommands
    <2>9. ASSUME NEW i \in 1..Len(inProgress \o matching)
          PROVE  /\ (inProgress \o matching)[i].sequence \in 1..synced
                 /\ journal[(inProgress \o matching)[i].sequence] = CommandOf((inProgress \o matching)[i])
      <3>1. i \in Nat /\ i >= 1 /\ i \in 1..Len(PathCommands)
        BY <2>7, <2>8
      <3>2. (inProgress \o matching)[i] = MessageOf(Matched + i)
        <4>1. PathCommands[i] = MessageOf(Matched + i)
          BY <2>1, <3>1 DEF Path
        <4>. QED  BY <2>8, <4>1
      <3>3. Matched + i \in 1..synced /\ Matched + i <= Len(journal)
        BY <2>2, <2>3, <2>4, <3>1
      <3>4. PICK n \in Nat : n + 1 = Matched + i
        <4>1. Matched + i - 1 \in Nat /\ (Matched + i - 1) + 1 = Matched + i
          BY <2>2, <3>1
        <4>. QED  BY <4>1
      <3>5. CommandOf(MessageOf(n + 1)) = journal[n + 1]
        BY <2>1, <3>3, <3>4, ReplayGrows
      <3>6. MessageOf(n + 1).sequence = n + 1
        BY DEF MessageOf
      <3>. QED  BY <3>2, <3>3, <3>4, <3>5, <3>6
    <2>. QED  BY <2>6, <2>9 DEF DurableBeforeMatching
  <1>2. IInv => DurableBeforeMatching
    BY <1>1 DEF DurableBeforeMatching
  <1>. QED  BY <1>2, Invariance, PTL

\* What a channel was told last is a prefix of what is synchronised.
LEMMA ToldPrefix ==
  ASSUME Types, NEW channel, ToldFrom(channel)
  PROVE  \E m \in 0..synced : /\ LongestDelivered(channel) = Replay(m)
                              /\ channel # <<>> => m = Last(channel).sequence
                              /\ channel = <<>> => m = 0
  <1>1. synced \in Nat
    BY DEF Types, FileTypes
  <1>2. CASE channel = <<>>
    <2>1. LongestDelivered(channel) = Replay(0)
      BY <1>2, SubSeqEmpty DEF LongestDelivered, Replay
    <2>2. 0 \in 0..synced
      BY <1>1
    <2>. QED  BY <1>2, <2>1, <2>2
  <1>3. CASE channel # <<>>
    <2>1. Last(channel).sequence \in 1..synced /\ Last(channel).applied = Replay(Last(channel).sequence)
      BY <1>3 DEF ToldFrom
    <2>2. LongestDelivered(channel) = Replay(Last(channel).sequence)
      BY <1>3, <2>1 DEF LongestDelivered
    <2>3. Last(channel).sequence \in 0..synced
      BY <1>1, <2>1
    <2>. QED  BY <1>3, <2>2, <2>3
  <1>. QED  BY <1>2, <1>3

\* A channel is told more than before.
LEMMA ToldMore ==
  ASSUME Types, NEW channel \in Seq(Results), ToldFrom(channel), NEW n \in 1..Len(journal), ToldUpTo(channel, n - 1),
         ResultOf(n) \in Results
  PROVE  /\ n > Len(LongestDelivered(channel))
         /\ LongestDelivered(Append(channel, ResultOf(n))) = SubSeq(journal, 1, n)
  <1>1. synced \in Nat /\ Len(journal) \in Nat /\ synced <= Len(journal) /\ n \in Nat /\ n >= 1
    BY PathTypes DEF Types, FileTypes, Bounds
  <1>2. PICK m \in 0..synced : /\ LongestDelivered(channel) = Replay(m)
                               /\ channel # <<>> => m = Last(channel).sequence
                               /\ channel = <<>> => m = 0
    BY ToldPrefix
  <1>3. m \in 0..Len(journal)
    BY <1>1
  <1>4. Len(LongestDelivered(channel)) = m
    BY <1>2, <1>3, ReplayLength
  <1>5. m <= n - 1
    <2>1. CASE channel = <<>>
      BY <1>1, <1>2, <2>1
    <2>2. CASE channel # <<>>
      BY <1>2, <2>2 DEF ToldUpTo
    <2>. QED  BY <2>1, <2>2
  <1>6. n > m
    BY <1>1, <1>3, <1>5
  <1>7. Append(channel, ResultOf(n)) # <<>> /\ Last(Append(channel, ResultOf(n))) = ResultOf(n)
    <2>1. Append(channel, ResultOf(n)) # <<>> /\ Append(channel, ResultOf(n))[Len(Append(channel, ResultOf(n)))] = ResultOf(n)
      BY AppendProperties
    <2>. QED  BY <2>1 DEF Last
  <1>8. LongestDelivered(Append(channel, ResultOf(n))) = ResultOf(n).applied
    BY <1>7 DEF LongestDelivered
  <1>9. ResultOf(n).applied = SubSeq(journal, 1, n)
    BY DEF ResultOf, Replay
  <1>. QED  BY <1>4, <1>6, <1>8, <1>9

\* A pop of the private queue tells its consumer of the next prefix.
LEMMA PopPrivateTells ==
  ASSUME IInv, PopPrivate
  PROVE  Log!Tell
  <1>1. /\ privateResults # <<>> /\ deliveredPrivate' = Append(deliveredPrivate, Head(privateResults))
        /\ UNCHANGED <<journal, deliveredPublic>>
    BY DEF PopPrivate, fileVars
  <1>2. Types /\ Path /\ PrivateDelivery
    BY DEF IInv
  <1>3. /\ privateResults \in Seq(Results) /\ pendingPrivate \in Seq(Results) /\ deliveredPrivate \in Seq(Results)
        /\ Head(privateResults) \in Results
    BY <1>1, <1>2, HeadTailProperties DEF Types, HandoffTypes, DeliveredTypes
  <1>4. Len(Private) \in Nat /\ Len(Private) >= 1 /\ Private[1] = Head(privateResults)
    BY <1>1, <1>3, FirstLeaves DEF Private
  <1>. DEFINE n == Done - Len(Private) + 1
  <1>5. n \in Nat /\ recovered < n /\ n <= Done /\ n - 1 = Done - Len(Private) /\ Len(journal) \in Nat
    <2>1. recovered <= Done - Len(Private) /\ Done \in Nat /\ recovered \in Nat
      BY <1>2, Positions DEF PrivateDelivery
    <2>. QED  BY <1>2, <1>4, <2>1, PathTypes
  <1>6. run = "INSTALLED" /\ n \in 1..synced /\ n <= Len(journal)
    BY <1>1, <1>5, HandoffIsDurable
  <1>7. Head(privateResults) = ResultOf(n)
    BY <1>2, <1>4 DEF PrivateDelivery
  <1>8. ToldFrom(deliveredPrivate) /\ ToldUpTo(deliveredPrivate, n - 1)
    BY <1>2, <1>5, <1>6 DEF PrivateDelivery
  <1>9. n \in 1..Len(journal)
    BY <1>5, <1>6
  <1>. HIDE DEF n
  <1>10. /\ n > Len(LongestDelivered(deliveredPrivate))
         /\ LongestDelivered(deliveredPrivate)' = SubSeq(journal, 1, n)
    <2>1. LongestDelivered(deliveredPrivate)' = LongestDelivered(Append(deliveredPrivate, ResultOf(n)))
      BY <1>1, <1>7 DEF LongestDelivered
    <2>. QED  BY <1>2, <1>3, <1>7, <1>8, <1>9, <2>1, ToldMore
  <1>11. LongestDelivered(deliveredPublic)' = LongestDelivered(deliveredPublic)
    BY <1>1 DEF LongestDelivered
  <1>. QED  BY <1>1, <1>9, <1>10, <1>11 DEF Log!Tell

\* A pop of the public queue tells its consumer of a longer prefix.
LEMMA PopPublicTells ==
  ASSUME IInv, PopPublic
  PROVE  Log!Tell
  <1>1. /\ publicTrades # <<>> /\ deliveredPublic' = Append(deliveredPublic, Head(publicTrades))
        /\ UNCHANGED <<journal, deliveredPrivate>>
    BY DEF PopPublic, fileVars
  <1>2. Types /\ Path /\ PublicDelivery
    BY DEF IInv
  <1>3. /\ publicTrades \in Seq(Results) /\ pendingPublic \in Seq(Results) /\ deliveredPublic \in Seq(Results)
        /\ Head(publicTrades) \in Results
    BY <1>1, <1>2, HeadTailProperties DEF Types, HandoffTypes, DeliveredTypes
  <1>4. Len(Public) \in Nat /\ 1 \in 1..Len(Public) /\ Public[1] = Head(publicTrades)
    BY <1>1, <1>3, FirstLeaves DEF Public
  <1>. DEFINE n == Public[1].sequence
  <1>5. n \in Nat /\ recovered < n /\ n <= Done /\ Public[1] = ResultOf(n) /\ Len(journal) \in Nat
    <2>1. n \in (recovered + 1)..Done /\ Public[1] = ResultOf(n)
      BY <1>2, <1>4 DEF PublicDelivery
    <2>2. Done \in Nat /\ recovered \in Nat /\ Len(journal) \in Nat
      BY <1>2, Positions, PathTypes
    <2>. QED  BY <2>1, <2>2
  <1>6. run = "INSTALLED" /\ n \in 1..synced /\ n <= Len(journal)
    BY <1>1, <1>5, HandoffIsDurable
  <1>7. Head(publicTrades) = ResultOf(n)
    BY <1>4, <1>5
  <1>8. ToldFrom(deliveredPublic) /\ ToldUpTo(deliveredPublic, n - 1)
    BY <1>2, <1>4, <1>6 DEF PublicDelivery
  <1>9. n \in 1..Len(journal)
    BY <1>5, <1>6
  <1>. HIDE DEF n
  <1>10. /\ n > Len(LongestDelivered(deliveredPublic))
         /\ LongestDelivered(deliveredPublic)' = SubSeq(journal, 1, n)
    <2>1. LongestDelivered(deliveredPublic)' = LongestDelivered(Append(deliveredPublic, ResultOf(n)))
      BY <1>1, <1>7 DEF LongestDelivered
    <2>. QED  BY <1>2, <1>3, <1>7, <1>8, <1>9, <2>1, ToldMore
  <1>11. LongestDelivered(deliveredPrivate)' = LongestDelivered(deliveredPrivate)
    BY <1>1 DEF LongestDelivered
  <1>12. [private |-> LongestDelivered(deliveredPrivate), public |-> LongestDelivered(deliveredPublic)]'
           = [[private |-> LongestDelivered(deliveredPrivate), public |-> LongestDelivered(deliveredPublic)]
                EXCEPT !["public"] = SubSeq(journal, 1, n)]
    <2>1. \A a, b, c : [[private |-> a, public |-> b] EXCEPT !["public"] = c] = [private |-> a, public |-> c]
      OBVIOUS
    <2>2. [private |-> LongestDelivered(deliveredPrivate)', public |-> LongestDelivered(deliveredPublic)']
            = [private |-> LongestDelivered(deliveredPrivate), public |-> SubSeq(journal, 1, n)]
      BY <1>10, <1>11
    <2>. QED  BY <2>1, <2>2, Zenon
  <1>. QED  BY <1>1, <1>9, <1>10, <1>12 DEF Log!Tell

\* A frame that is written extends the log by a command with a new key.
LEMMA AppendExtends ==
  ASSUME IInv, AppendCommand
  PROVE  Log!Extend \/ UNCHANGED <<journal, deliveredVars>>
  <1>. DEFINE c == Head(ingress)
  <1>1. /\ pc = "sequencing" /\ pending = <<>> /\ ingress # <<>> /\ UNCHANGED deliveredVars
        /\ UNCHANGED journal \/ journal' = Append(journal, c)
    BY DEF AppendCommand
  <1>2. /\ Len(journal) = committed /\ committed \in Nat /\ journal \in Seq(Commands) /\ c \in Commands
        /\ \A i \in 1..committed : journal[i].key # c.key
    BY <1>1, TakenCommand
  <1>. HIDE DEF c
  <1>3. ASSUME journal' = Append(journal, c) PROVE Log!Extend
    <2>1. /\ Len(journal') = Len(journal) + 1 /\ journal'[Len(journal) + 1] = c
      BY <1>2, <1>3, AppendProperties
    <2>2. Log!Last(journal') = c
      BY <2>1 DEF Log!Last
    <2>3. Log!IsPrefix(journal, journal')
      <3>1. Kept(Len(journal))
        BY <1>2, <1>3, KeptByAppend DEF IInv
      <3>2. Len(journal) \in 0..Len(journal)
        BY <1>2
      <3>3. Len(journal) <= Len(journal') /\ SubSeq(journal, 1, Len(journal)) = SubSeq(journal', 1, Len(journal))
        BY <3>1, <3>2 DEF Kept
      <3>. QED  BY <3>3 DEF Log!IsPrefix
    <2>4. DOMAIN journal = 1..committed
      BY <1>2, LenProperties
    <2>5. /\ LongestDelivered(deliveredPrivate)' = LongestDelivered(deliveredPrivate)
          /\ LongestDelivered(deliveredPublic)' = LongestDelivered(deliveredPublic)
      BY <1>1 DEF LongestDelivered, deliveredVars
    <2>. QED  BY <1>2, <2>1, <2>2, <2>3, <2>4, <2>5 DEF Log!Extend
  <1>. QED  BY <1>1, <1>3

\* What a channel was told is in the file that a stop leaves.
LEMMA ToldStays ==
  ASSUME Types, NEW channel, ToldFrom(channel), Kept(synced), Len(journal') \in Nat
  PROVE  Log!IsPrefix(LongestDelivered(channel), journal')
  <1>1. synced \in Nat /\ Len(journal) \in Nat /\ synced <= Len(journal)
    BY PathTypes DEF Types, FileTypes, Bounds
  <1>2. PICK m \in 0..synced : LongestDelivered(channel) = Replay(m)
    BY ToldPrefix
  <1>3. m \in 0..Len(journal) /\ m <= synced
    BY <1>1
  <1>4. Replay(m) \in Seq(Commands) /\ Len(Replay(m)) = m
    BY <1>3, ReplayLength
  <1>5. SubSeq(Replay(m), 1, m) = Replay(m)
    BY <1>4, SubSeqFull
  <1>6. Replay(m) = SubSeq(journal', 1, m) /\ synced <= Len(journal')
    BY DEF Kept, Replay
  <1>7. m <= Len(journal')
    BY <1>1, <1>3, <1>6
  <1>. QED  BY <1>2, <1>4, <1>5, <1>6, <1>7 DEF Log!IsPrefix

\* A stop loses at most the end of the log that nobody was told.
LEMMA CrashLoses ==
  ASSUME IInv, Crash
  PROVE  Log!Lose \/ UNCHANGED <<journal, deliveredVars>>
  <1>1. /\ UNCHANGED deliveredVars
        /\ UNCHANGED journal \/ \E n \in synced..Len(journal) : journal' = SubSeq(journal, 1, n)
    BY DEF Crash, fileVars
  <1>2. /\ Types /\ File /\ ToldFrom(deliveredPrivate) /\ ToldFrom(deliveredPublic)
    BY DEF IInv, PrivateDelivery, PublicDelivery
  <1>3. /\ synced \in Nat /\ Len(journal) \in Nat /\ journal \in Seq(Commands)
    BY <1>2, PathTypes DEF Types, FileTypes
  <1>4. ASSUME NEW n \in synced..Len(journal), journal' = SubSeq(journal, 1, n) PROVE Log!Lose
    <2>1. n \in 0..Len(journal) /\ n \in Nat /\ synced <= n /\ n <= Len(journal)
      BY <1>3
    <2>2. Len(journal') = n /\ Kept(n) /\ journal' \in Seq(Commands)
      BY <1>2, <1>4, <2>1, JournalCut DEF Sound
    <2>3. Kept(synced)
      <3>1. synced <= Len(journal')
        BY <2>1, <2>2
      <3>2. \A m \in 0..synced : m \in 0..n
        BY <1>3, <2>1
      <3>3. \A m \in 1..synced : m \in 1..n
        BY <1>3, <2>1
      <3>. QED  BY <2>2, <3>1, <3>2, <3>3 DEF Kept
    <2>4. Log!IsPrefix(journal', journal)
      <3>1. SubSeq(journal', 1, Len(journal')) = journal'
        BY <2>2, SubSeqFull
      <3>. QED  BY <1>4, <2>1, <2>2, <3>1 DEF Log!IsPrefix
    <2>5. /\ Log!IsPrefix(LongestDelivered(deliveredPrivate), journal')
          /\ Log!IsPrefix(LongestDelivered(deliveredPublic), journal')
      <3>1. Len(journal') \in Nat
        BY <2>1, <2>2
      <3>. QED  BY <1>2, <2>3, <3>1, ToldStays
    <2>6. /\ LongestDelivered(deliveredPrivate)' = LongestDelivered(deliveredPrivate)
          /\ LongestDelivered(deliveredPublic)' = LongestDelivered(deliveredPublic)
      BY <1>1 DEF LongestDelivered, deliveredVars
    <2>7. \A channel \in {"private", "public"} :
            Log!IsPrefix([private |-> LongestDelivered(deliveredPrivate),
                          public |-> LongestDelivered(deliveredPublic)][channel], journal')
      BY <2>5
    <2>. QED  BY <2>4, <2>6, <2>7 DEF Log!Lose
  <1>. QED  BY <1>1, <1>4

\* Every other step leaves the log and what was told alone.
LEMMA OthersStutter ==
  ASSUME [Next]_vars, ~AppendCommand, ~PopPrivate, ~PopPublic, ~Crash
  PROVE  UNCHANGED <<journal, deliveredVars>>
  <1>1. CASE \E c \in Commands : Submit(c)
    BY <1>1 DEF Submit, fileVars
  <1>2. CASE Install \/ Pause \/ Resume
    BY <1>2 DEF Install, Pause, Resume, fileVars
  <1>3. CASE StartupExisting
    BY <1>3 DEF StartupExisting, PublishRecovered, RecoveryFails, RepairTail, fileVars
  <1>4. CASE RecoverFailed
    BY <1>4 DEF RecoverFailed, PublishRecovered, RecoveryFails, RepairTail, fileVars
  <1>5. CASE Advance
    <2>1. CASE BeginAdvance \/ HandoffPendingCommand \/ SyncFrame \/ SequencerReturns
      BY <2>1 DEF BeginAdvance, HandoffPendingCommand, SyncFrame, SequencerReturns, fileVars
    <2>2. CASE FailStop \/ HandoffPendingResult \/ MatchCommand \/ MatcherReturns
      BY <2>2 DEF FailStop, HandoffPendingResult, MatchCommand, MatcherReturns, fileVars
    <2>3. CASE DispatchResult \/ PublishCapacityReached \/ AdvanceReturns \/ PauseReturns
      BY <2>3 DEF DispatchResult, PublishCapacityReached, AdvanceReturns, PauseReturns, fileVars
    <2>. QED  BY <1>5, <2>1, <2>2, <2>3 DEF Advance
  <1>6. CASE UNCHANGED vars
    BY <1>6 DEF vars, fileVars
  <1>. QED  BY <1>1, <1>2, <1>3, <1>4, <1>5, <1>6 DEF Next

\* The run implements the command log: a command is journaled at most once per
\* key, and every batch a consumer pops is the replay of a longer prefix of the
\* journal than the one before, which no failure, stop or recovery takes back.
THEOREM RunIsCommandLog == Spec => ImplementsCommandLog
  <1>1. Init => Log!LogInit
    BY LogInitially
  <1>2. ASSUME IInv, [Next]_vars PROVE [Log!LogNext]_(Log!logVars)
    <2>1. ASSUME UNCHANGED <<journal, deliveredVars>> PROVE UNCHANGED Log!logVars
      BY <2>1 DEF Log!logVars, LongestDelivered, deliveredVars
    <2>2. CASE AppendCommand
      BY <1>2, <2>1, <2>2, AppendExtends DEF Log!LogNext
    <2>3. CASE PopPrivate \/ PopPublic
      BY <1>2, <2>3, PopPrivateTells, PopPublicTells DEF Log!LogNext
    <2>4. CASE Crash
      BY <1>2, <2>1, <2>4, CrashLoses DEF Log!LogNext
    <2>5. CASE ~AppendCommand /\ ~PopPrivate /\ ~PopPublic /\ ~Crash
      BY <1>2, <2>1, <2>5, OthersStutter
    <2>. QED  BY <2>2, <2>3, <2>4, <2>5
  <1>3. IInv /\ [Next]_vars => [Log!LogNext]_(Log!logVars)
    BY <1>2
  <1>. QED  BY <1>1, <1>3, Invariance, PTL DEF Spec, ImplementsCommandLog, Log!LogSpec
=============================================================================
