-------------------------- MODULE FixPipelineProofs --------------------------
(***************************************************************************)
(* No thread of the executable throws, every first submission is on its    *)
(* way exactly once and in its place, for any sessions, messages and       *)
(* capacities, and every field converts to the number it denotes, for any  *)
(* width, configuration and length of the text.                            *)
(***************************************************************************)
EXTENDS FixPipeline, SequenceTheorems, FiniteSetTheorems, TLAPS

-----------------------------------------------------------------------------
(* What a step of a pipeline does to the sequence that its queues and      *)
(* slots form, read from the oldest command to the newest.                 *)

\* The first element of a queue moves into the empty slot before it.
LEMMA HeadMoves ==
  ASSUME NEW S, NEW q \in Seq(S), q # <<>>
  PROVE  /\ Head(q) \in S /\ <<Head(q)>> \in Seq(S) /\ Tail(q) \in Seq(S)
         /\ <<Head(q)>> \o Tail(q) = q
         /\ \A a \in Seq(S) : (a \o <<Head(q)>>) \o Tail(q) = (a \o <<>>) \o q
  <1>1. Head(q) \in S /\ <<Head(q)>> \in Seq(S) /\ Tail(q) \in Seq(S)
    BY HeadTailProperties
  <1>2. <<Head(q)>> \o Tail(q) = q
    <2>1. /\ Len(<<Head(q)>> \o Tail(q)) = Len(q) /\ <<Head(q)>> \o Tail(q) \in Seq(S)
          /\ \A i \in 1..Len(q) : (<<Head(q)>> \o Tail(q))[i] = q[i]
      BY <1>1, HeadTailProperties, ConcatProperties
    <2>. QED  BY <2>1, SeqEqual
  <1>3. ASSUME NEW a \in Seq(S)
        PROVE  (a \o <<Head(q)>>) \o Tail(q) = (a \o <<>>) \o q
    BY <1>1, <1>2, ConcatAssociative, ConcatEmptySeq
  <1>. QED  BY <1>1, <1>2, <1>3

\* The contents of a slot move to the end of the queue before it.
LEMMA SlotMoves ==
  ASSUME NEW S, NEW a \in Seq(S), NEW q \in Seq(S), NEW slot \in Seq(S)
  PROVE  /\ (a \o q) \o slot = (a \o (q \o slot)) \o <<>>
         /\ q \o slot = (q \o slot) \o <<>>
         /\ (a \o <<>>) \o slot = (a \o slot) \o <<>>
         /\ q \o slot \in Seq(S)
  <1>1. q \o slot \in Seq(S) /\ a \o (q \o slot) \in Seq(S) /\ a \o slot \in Seq(S)
    BY ConcatProperties
  <1>2. (a \o q) \o slot = a \o (q \o slot) /\ a \o <<>> = a
    BY ConcatAssociative, ConcatEmptySeq
  <1>. QED  BY <1>1, <1>2, ConcatEmptySeq

\* A slot that is not empty holds one command.
LEMMA SlotHoldsOne ==
  ASSUME NEW S, NEW slot \in Seq(S), slot # <<>>, Len(slot) <= 1
  PROVE  Len(slot) = 1 /\ slot[1] \in S
  <1>1. Len(slot) \in Nat /\ Len(slot) # 0
    BY EmptySeq
  <1>2. \A n \in Nat : n # 0 /\ n <= 1 => n = 1
    OBVIOUS
  <1>3. Len(slot) = 1
    BY <1>1, <1>2
  <1>. QED  BY <1>3, ElementOfSeq

\* A queue at the end of the path takes one more.
LEMMA EndOfPath ==
  ASSUME NEW S, NEW a \in Seq(S), NEW q \in Seq(S), NEW e \in S
  PROVE  /\ Append(q, e) \in Seq(S) /\ a \o q \in Seq(S)
         /\ Len(a \o Append(q, e)) = Len(a \o q) + 1
         /\ \A i \in 1..Len(a \o q) : (a \o Append(q, e))[i] = (a \o q)[i]
         /\ (a \o Append(q, e))[Len(a \o q) + 1] = e
  <1>. DEFINE q2 == Append(q, e)
  <1>1. /\ q2 \in Seq(S) /\ Len(q2) = Len(q) + 1 /\ q2[Len(q) + 1] = e
        /\ \A i \in 1..Len(q) : q2[i] = q[i]
    BY AppendProperties
  <1>. HIDE DEF q2
  <1>2. Len(a) \in Nat /\ Len(q) \in Nat
    OBVIOUS
  <1>3. /\ a \o q \in Seq(S) /\ Len(a \o q) = Len(a) + Len(q)
        /\ \A i \in 1..(Len(a) + Len(q)) : (a \o q)[i] = IF i <= Len(a) THEN a[i] ELSE q[i - Len(a)]
    BY ConcatProperties
  <1>4. /\ Len(a \o q2) = Len(a) + Len(q2)
        /\ \A i \in 1..(Len(a) + Len(q2)) : (a \o q2)[i] = IF i <= Len(a) THEN a[i] ELSE q2[i - Len(a)]
    BY <1>1, ConcatProperties
  <1>5. Len(a \o q2) = Len(a \o q) + 1
    BY <1>1, <1>2, <1>3, <1>4
  <1>6. ASSUME NEW i \in 1..Len(a \o q) PROVE (a \o q2)[i] = (a \o q)[i]
    <2>1. CASE i <= Len(a)
      BY <1>1, <1>2, <1>3, <1>4, <2>1
    <2>2. CASE ~(i <= Len(a))
      <3>1. i - Len(a) \in 1..Len(q) /\ i \in 1..(Len(a) + Len(q2))
        BY <1>1, <1>2, <1>3, <2>2
      <3>. QED  BY <1>1, <1>3, <1>4, <2>2, <3>1
    <2>. QED  BY <2>1, <2>2
  <1>7. (a \o q2)[Len(a \o q) + 1] = e
    <2>1. /\ Len(a \o q) + 1 \in 1..(Len(a) + Len(q2)) /\ ~(Len(a \o q) + 1 <= Len(a))
          /\ Len(a \o q) + 1 - Len(a) = Len(q) + 1
      BY <1>1, <1>2, <1>3
    <2>. QED  BY <1>1, <1>4, <2>1
  <1>. QED  BY <1>1, <1>3, <1>5, <1>6, <1>7 DEF q2

-----------------------------------------------------------------------------
(* Induction and recursion over an initial segment of the natural numbers, *)
(* stated of sets and functions.                                           *)

\* A set that holds 0 and with each number below l the next one holds all up to
\* l: the numbers up to which it has no gap are as many as the last of them.
LEMMA CountingUp ==
  ASSUME NEW l \in Nat, NEW S, 0 \in S, \A n \in 0..(l - 1) : n \in S => n + 1 \in S
  PROVE  \A n \in 0..l : n \in S
<1> DEFINE T == {n \in 1..l : \A j \in 0..n : j \in S}
           c == Cardinality(T)
<1>1. IsFiniteSet(1..l) /\ Cardinality(1..l) = l
  BY FS_Interval
<1>2. T \in SUBSET (1..l)
  OBVIOUS
<1>3. IsFiniteSet(T) /\ c \in Nat /\ c <= l
  <2> HIDE DEF T
  <2> QED BY <1>1, <1>2, FS_Subset, FS_CardinalityType
<1>4. ASSUME NEW i \in T PROVE i \in 1..c
  <2>1. i \in Nat /\ i >= 1 /\ i \in 1..l
    OBVIOUS
  <2>2. 1..i \in SUBSET T
    OBVIOUS
  <2> HIDE DEF T
  <2>3. Cardinality(1..i) = i
    BY <2>1, FS_Interval
  <2>4. Cardinality(1..i) <= c
    BY <1>3, <2>2, FS_Subset
  <2> HIDE DEF c
  <2> QED BY <2>1, <2>3, <2>4, <1>3
<1>5. T = 1..c
  <2>1. T \in SUBSET (1..c)
    BY <1>4
  <2> HIDE DEF T
  <2>2. IsFiniteSet(1..c) /\ Cardinality(1..c) = c
    BY <1>3, FS_Interval
  <2> QED BY <2>1, <2>2, FS_Subset
<1> HIDE DEF c
<1>6. \A j \in 0..c : j \in S
  <2>1. CASE c = 0
    BY <2>1
  <2>2. CASE c # 0
    <3>1. c \in T
      BY <2>2, <1>3, <1>5
    <3> QED BY <3>1
  <2> QED BY <2>1, <2>2
<1>7. c = l
  <2> SUFFICES ASSUME c < l PROVE FALSE
    BY <1>3
  <2>1. c + 1 \in S
    BY <1>3, <1>6
  <2>2. \A j \in 0..(c + 1) : j \in S
    <3> SUFFICES ASSUME NEW j \in 0..(c + 1) PROVE j \in S
      OBVIOUS
    <3>1. j = c + 1 \/ j \in 0..c
      BY <1>3
    <3> QED BY <3>1, <2>1, <1>6
  <2>3. c + 1 \in T
    BY <2>2, <1>3
  <2>4. c + 1 \notin 1..c
    BY <1>3
  <2> HIDE DEF T
  <2> QED BY <2>3, <2>4, <1>5
<1> QED BY <1>6, <1>7

\* f solves a recursion over 0..l.
Solution(f, l, V, start, step) ==
  f \in [0..l -> V] /\ f[0] = start /\ \A n \in 1..l : f[n] = step[<<f[n - 1], n>>]

\* A recursion over 0..l has a solution.
LEMMA RecursionExists ==
  ASSUME NEW l \in Nat, NEW V, NEW start \in V, NEW step \in [V \X (1..l) -> V]
  PROVE  \E f : Solution(f, l, V, start, step)
<1> DEFINE Solves(f, m) == f[0] = start /\ \A n \in 1..m : f[n] = step[<<f[n - 1], n>>]
           S == {m \in 0..l : \E f \in [0..l -> V] : Solves(f, m)}
<1>1. 0 \in S
  <2> DEFINE f == [n \in 0..l |-> start]
  <2>1. f \in [0..l -> V] /\ f[0] = start
    OBVIOUS
  <2>2. Solves(f, 0)
    BY <2>1
  <2> HIDE DEF Solves, f
  <2> QED BY <2>1, <2>2
<1>2. ASSUME NEW m \in 0..(l - 1), m \in S PROVE m + 1 \in S
  <2>1. PICK f \in [0..l -> V] : Solves(f, m)
    BY <1>2
  <2>2. m \in 0..l /\ m + 1 \in 1..l /\ m + 1 \in 0..l
    OBVIOUS
  <2> DEFINE v == step[<<f[m], m + 1>>]
             g == [n \in 0..l |-> IF n = m + 1 THEN v ELSE f[n]]
  <2>3. v \in V
    BY <2>2
  <2>4. g \in [0..l -> V]
    <3> HIDE DEF v
    <3> QED BY <2>3
  <2>5. g[0] = start
    <3>1. 0 \in 0..l /\ 0 # m + 1
      OBVIOUS
    <3> QED BY <3>1, <2>1
  <2>6. ASSUME NEW n \in 1..(m + 1) PROVE g[n] = step[<<g[n - 1], n>>]
    <3>1. n \in 0..l /\ n - 1 \in 0..l /\ n - 1 # m + 1
      BY <2>2
    <3>2. g[n - 1] = f[n - 1]
      BY <3>1
    <3>3. CASE n = m + 1
      BY <3>1, <3>2, <3>3, <2>2
    <3>4. CASE n # m + 1
      <4>1. n \in 1..m
        BY <3>4
      <4>2. g[n] = f[n]
        BY <3>1, <3>4
      <4> QED BY <4>1, <4>2, <3>2, <2>1
    <3> QED BY <3>3, <3>4
  <2>7. Solves(g, m + 1)
    BY <2>5, <2>6
  <2> HIDE DEF Solves, g
  <2> QED BY <2>2, <2>4, <2>7
<1>3. l \in S
  <2> HIDE DEF S
  <2>1. \A n \in 0..l : n \in S
    BY <1>1, <1>2, CountingUp
  <2> QED BY <2>1
<1> QED BY <1>3 DEF Solution

\* A nonempty set of natural numbers with an upper bound has a least element.
LEMMA LeastExists ==
  ASSUME NEW l \in Nat, NEW P \in SUBSET (0..l), P # {}
  PROVE  \E x \in P : \A y \in P : x <= y
<1> SUFFICES ASSUME \A x \in P : \E y \in P : y < x PROVE FALSE
  OBVIOUS
<1> DEFINE S == {n \in 0..l : \A m \in 0..n : m \notin P}
<1>1. 0 \in S
  OBVIOUS
<1>2. ASSUME NEW n \in 0..(l - 1), n \in S PROVE n + 1 \in S
  <2>1. \A m \in 0..(n + 1) : m \in 0..n \/ m = n + 1
    OBVIOUS
  <2>2. n + 1 \notin P
    BY <1>2
  <2> QED BY <2>1, <2>2, <1>2
<1>3. l \in S
  <2> HIDE DEF S
  <2>1. \A n \in 0..l : n \in S
    BY <1>1, <1>2, CountingUp
  <2> QED BY <2>1
<1> QED BY <1>3

\* Induction upwards from zero, without a bound.
LEMMA AllNumbers ==
  ASSUME NEW S, 0 \in S, \A n \in Nat : n \in S => n + 1 \in S
  PROVE  \A n \in Nat : n \in S
<1> SUFFICES ASSUME NEW n \in Nat PROVE n \in S
  OBVIOUS
<1>1. \A k \in 0..n : k \in S
  <2>1. \A k \in 0..(n - 1) : k \in S => k + 1 \in S
    OBVIOUS
  <2> QED BY <2>1, CountingUp
<1> QED BY <1>1

-----------------------------------------------------------------------------
(* The inductive invariant.                                                *)

\* The commands the parser makes, as they are staged and as they are sequenced.
Parse(session, message, configuration) == Parsed[session, message, configuration]
Commands == {c \in {Parse(session, message, configuration) :
                      session \in Sessions, message \in Messages, configuration \in Configurations} : c.failure = 0}
Keys == {c.key : c \in Commands}
Bodies == {c.body : c \in Commands}
StagedCommands == [key : Keys, body : Bodies]
SequencedCommands == [key : Keys, body : Bodies, sequence : Nat]
Records == [body : Bodies, state : {"RESERVED", "SEQUENCED", "COMPLETED"}, sequence : Nat]

\* A slot holds a command or nothing; a binding is of the command in the slot;
\* the matching engine has a command or a result.
Types ==
  /\ instrument \in Configurations
  /\ DOMAIN records \subseteq Keys /\ IsFiniteSet(DOMAIN records) /\ records \in [DOMAIN records -> Records]
  /\ staging \in Seq(StagedCommands) /\ ingress \in Seq(StagedCommands) /\ pendingStaged \in Seq(StagedCommands)
  /\ pendingCommand \in Seq(SequencedCommands) /\ matching \in Seq(SequencedCommands)
  /\ inProgress \in Seq(SequencedCommands) /\ pendingResult \in Seq(SequencedCommands)
  /\ results \in Seq(SequencedCommands) /\ pendingBatch \in Seq(SequencedCommands)
  /\ Len(pendingCommand) <= 1 /\ Len(pendingBatch) <= 1
  /\ pendingReady \in BOOLEAN /\ (pendingReady => pendingCommand # <<>>)
  /\ inProgress # <<>> => pendingResult = <<>>
  /\ lastAssignedSequence \in Nat
  /\ admitted \in Seq(Keys)

\* The index holds the admitted keys, each once.
IndexIsAdmitted ==
  /\ \A key : key \in DOMAIN records <=> \E n \in 1..Len(admitted) : key = admitted[n]
  /\ \A m, n \in 1..Len(admitted) : admitted[m] = admitted[n] => m = n
  /\ Cardinality(DOMAIN records) = Len(admitted)
  /\ Len(admitted) <= AdmissionCapacity

\* How many commands left the path, and up to which the index is bound.
Done == lastAssignedSequence - Len(Sequenced)
BoundUpTo == IF pendingCommand # <<>> /\ ~pendingReady THEN lastAssignedSequence - 1 ELSE lastAssignedSequence

\* The record of the n-th admitted command says where on the path it is.
RecordsFollowPath ==
  /\ Done \in Nat
  /\ Len(admitted) = lastAssignedSequence + Len(Unsequenced)
  /\ IsFiniteSet(Completed) /\ Cardinality(Completed) = Done
  /\ \A n \in 1..Len(admitted) :
       /\ n <= Done => records[admitted[n]].state = "COMPLETED"
       /\ Done < n /\ n <= BoundUpTo => records[admitted[n]].state = "SEQUENCED"
       /\ n <= BoundUpTo => records[admitted[n]].sequence = n
       /\ BoundUpTo < n => records[admitted[n]].state = "RESERVED"

\* The path holds the admitted commands that are not completed, in order.
PathFollowsIndex ==
  /\ \A i \in 1..Len(Sequenced) :
       /\ Sequenced[i].key = admitted[Done + i]
       /\ Sequenced[i].body = records[admitted[Done + i]].body
       /\ Sequenced[i].sequence = Done + i
  /\ \A i \in 1..Len(Unsequenced) :
       /\ Unsequenced[i].key = admitted[lastAssignedSequence + i]
       /\ Unsequenced[i].body = records[admitted[lastAssignedSequence + i]].body

IInv ==
  /\ Types /\ IndexIsAdmitted /\ RecordsFollowPath /\ PathFollowsIndex
  /\ ~terminated

\* What all the threads between completion and admission hold.
LEMMA PathTypes ==
  ASSUME Types
  PROVE  /\ Sequenced \in Seq(SequencedCommands) /\ Len(Sequenced) \in Nat
         /\ Unsequenced \in Seq(StagedCommands) /\ Len(Unsequenced) \in Nat
         /\ Len(admitted) \in Nat /\ lastAssignedSequence \in Nat
  BY ConcatProperties, LenProperties DEF Types, Sequenced, Unsequenced

-----------------------------------------------------------------------------
(* Steps that move a command along the path.                               *)

\* Such a step keeps the invariant.
LEMMA MoveKeeps ==
  ASSUME IInv, Types', Sequenced' = Sequenced, Unsequenced' = Unsequenced, BoundUpTo' = BoundUpTo,
         UNCHANGED <<records, lastAssignedSequence, terminated, admitted>>
  PROVE  IInv'
  <1>1. Done' = Done /\ Completed' = Completed
    BY DEF Done, Completed
  <1>2. IndexIsAdmitted'
    BY DEF IInv, IndexIsAdmitted
  <1>3. RecordsFollowPath'
    BY <1>1 DEF IInv, RecordsFollowPath
  <1>4. PathFollowsIndex'
    BY <1>1 DEF IInv, PathFollowsIndex
  <1>. QED  BY <1>2, <1>3, <1>4 DEF IInv

\* FixTask takes the oldest staged command into its slot.
LEMMA PopStagedPreserves ==
  ASSUME IInv, Running, PopStaged
  PROVE  IInv'
  <1>1. /\ pendingStaged = <<>> /\ staging # <<>> /\ staging \in Seq(StagedCommands) /\ ingress \in Seq(StagedCommands)
        /\ pendingStaged' = <<Head(staging)>> /\ staging' = Tail(staging)
        /\ UNCHANGED <<instrument, records, sequencerVars, matcherVars, completionVars, busBacklog, terminated, admitted>>
    BY DEF IInv, Types, PopStaged, Running
  <1>2. pendingStaged' \in Seq(StagedCommands) /\ staging' \in Seq(StagedCommands)
        /\ (ingress \o pendingStaged') \o staging' = (ingress \o pendingStaged) \o staging
    BY <1>1, HeadMoves
  <1>3. Types'
    BY <1>1, <1>2 DEF IInv, Types, sequencerVars, matcherVars, completionVars
  <1>4. Sequenced' = Sequenced /\ Unsequenced' = Unsequenced /\ BoundUpTo' = BoundUpTo
    BY <1>1, <1>2 DEF Sequenced, Unsequenced, BoundUpTo, sequencerVars, matcherVars, completionVars
  <1>. QED  BY <1>1, <1>3, <1>4, MoveKeeps DEF sequencerVars

\* FixTask puts it at the end of the ingress queue.
LEMMA ForwardStagedPreserves ==
  ASSUME IInv, Running, ForwardStaged
  PROVE  IInv'
  <1>1. /\ staging \in Seq(StagedCommands) /\ ingress \in Seq(StagedCommands) /\ pendingStaged \in Seq(StagedCommands)
        /\ ingress' = ingress \o pendingStaged /\ pendingStaged' = <<>>
        /\ UNCHANGED <<instrument, records, staging, pendingCommand, pendingReady, lastAssignedSequence, matcherVars,
                       completionVars, busBacklog, terminated, admitted>>
    BY DEF IInv, Types, ForwardStaged, Running
  <1>2. ingress' \in Seq(StagedCommands) /\ pendingStaged' \in Seq(StagedCommands)
        /\ ingress' \o pendingStaged' = ingress \o pendingStaged
    BY <1>1, SlotMoves, EmptySeq
  <1>3. Types'
    BY <1>1, <1>2 DEF IInv, Types, matcherVars, completionVars
  <1>4. Sequenced' = Sequenced /\ Unsequenced' = Unsequenced /\ BoundUpTo' = BoundUpTo
    BY <1>1, <1>2 DEF Sequenced, Unsequenced, BoundUpTo, matcherVars, completionVars
  <1>. QED  BY <1>1, <1>3, <1>4, MoveKeeps

\* Reading the bus concerns nothing else.
LEMMA ReadBusPreserves ==
  ASSUME IInv, Running, ReadBus
  PROVE  IInv'
  <1>1. UNCHANGED <<instrument, records, fixVars, sequencerVars, matcherVars, completionVars, terminated, admitted>>
    BY DEF ReadBus, Running
  <1>2. Types'
    BY <1>1 DEF IInv, Types, fixVars, sequencerVars, matcherVars, completionVars
  <1>3. Sequenced' = Sequenced /\ Unsequenced' = Unsequenced /\ BoundUpTo' = BoundUpTo
    BY <1>1 DEF Sequenced, Unsequenced, BoundUpTo, fixVars, sequencerVars, matcherVars, completionVars
  <1>. QED  BY <1>1, <1>2, <1>3, MoveKeeps DEF sequencerVars

\* The command that leaves the sequencer is bound.
LEMMA HandoffPendingCommandPreserves ==
  ASSUME IInv, Running, HandoffPendingCommand
  PROVE  IInv'
  <1>. DEFINE before == ((pendingBatch \o results) \o pendingResult) \o inProgress
  <1>1. /\ pendingCommand # <<>> /\ pendingReady
        /\ matching \in Seq(SequencedCommands) /\ pendingCommand \in Seq(SequencedCommands)
        /\ matching' = matching \o pendingCommand /\ pendingCommand' = <<>> /\ pendingReady' = FALSE
        /\ UNCHANGED <<instrument, records, fixVars, ingress, lastAssignedSequence, inProgress, pendingResult,
                       completionVars, terminated, admitted>>
    BY DEF IInv, Types, HandoffPendingCommand, MayHandOff, Running
  <1>2. before \in Seq(SequencedCommands) /\ before' = before
    BY <1>1, ConcatProperties DEF IInv, Types, completionVars
  <1>. HIDE DEF before
  <1>3. matching' \in Seq(SequencedCommands) /\ pendingCommand' \in Seq(SequencedCommands)
        /\ (before \o matching') \o pendingCommand' = (before \o matching) \o pendingCommand
    BY <1>1, <1>2, SlotMoves, EmptySeq
  <1>4. Types'
    <2>1. Len(pendingCommand') <= 1
      BY <1>1, EmptySeq
    <2>2. pendingReady' \in BOOLEAN /\ ~pendingReady'
      BY <1>1
    <2>. QED  BY <1>1, <1>3, <2>1, <2>2 DEF IInv, Types, fixVars, completionVars
  <1>5. Sequenced' = Sequenced
    BY <1>2, <1>3 DEF Sequenced, before
  <1>6. Unsequenced' = Unsequenced /\ BoundUpTo' = BoundUpTo
    BY <1>1 DEF Unsequenced, BoundUpTo, fixVars
  <1>. QED  BY <1>1, <1>4, <1>5, <1>6, MoveKeeps

\* The matcher takes the oldest command.
LEMMA PopMatchingPreserves ==
  ASSUME IInv, Running, PopMatching
  PROVE  IInv'
  <1>. DEFINE before == (pendingBatch \o results) \o pendingResult
  <1>1. /\ inProgress = <<>> /\ pendingResult = <<>> /\ matching # <<>> /\ matching \in Seq(SequencedCommands)
        /\ inProgress' = <<Head(matching)>> /\ matching' = Tail(matching)
        /\ UNCHANGED <<instrument, records, fixVars, sequencerVars, pendingResult, completionVars, terminated, admitted>>
    BY DEF IInv, Types, PopMatching, MayTakeMatching, Running
  <1>2. before \in Seq(SequencedCommands) /\ before' = before
    BY <1>1, ConcatProperties DEF IInv, Types, completionVars
  <1>. HIDE DEF before
  <1>3. matching' \in Seq(SequencedCommands) /\ inProgress' \in Seq(SequencedCommands)
        /\ (before \o inProgress') \o matching' = (before \o inProgress) \o matching
    BY <1>1, <1>2, HeadMoves
  <1>4. Types'
    BY <1>1, <1>3 DEF IInv, Types, fixVars, sequencerVars, completionVars
  <1>5. Sequenced' = Sequenced
    BY <1>1, <1>2, <1>3 DEF Sequenced, before, sequencerVars
  <1>6. Unsequenced' = Unsequenced /\ BoundUpTo' = BoundUpTo
    BY <1>1 DEF Unsequenced, BoundUpTo, fixVars, sequencerVars
  <1>. QED  BY <1>1, <1>4, <1>5, <1>6, MoveKeeps DEF sequencerVars

\* The command in progress becomes the pending result.
LEMMA ProcessCommandPreserves ==
  ASSUME IInv, Running, ProcessCommand
  PROVE  IInv'
  <1>. DEFINE before == pendingBatch \o results
  <1>1. /\ pendingResult = <<>> /\ inProgress \in Seq(SequencedCommands)
        /\ pendingResult' = inProgress /\ inProgress' = <<>>
        /\ UNCHANGED <<instrument, records, fixVars, sequencerVars, matching, completionVars, terminated, admitted>>
    BY DEF IInv, Types, ProcessCommand, Running
  <1>2. before \in Seq(SequencedCommands) /\ before' = before
    BY <1>1, ConcatProperties DEF IInv, Types, completionVars
  <1>. HIDE DEF before
  <1>3. inProgress' \in Seq(SequencedCommands)
        /\ (before \o pendingResult') \o inProgress' = (before \o pendingResult) \o inProgress
    BY <1>1, <1>2, SlotMoves, EmptySeq
  <1>4. Types'
    BY <1>1, <1>3 DEF IInv, Types, fixVars, sequencerVars, completionVars
  <1>5. Sequenced' = Sequenced
    BY <1>1, <1>2, <1>3 DEF Sequenced, before, sequencerVars
  <1>6. Unsequenced' = Unsequenced /\ BoundUpTo' = BoundUpTo
    BY <1>1 DEF Unsequenced, BoundUpTo, fixVars, sequencerVars
  <1>. QED  BY <1>1, <1>4, <1>5, <1>6, MoveKeeps DEF sequencerVars

\* The pending result goes to the end of the result queue.
LEMMA HandoffResultPreserves ==
  ASSUME IInv, Running, HandoffResult
  PROVE  IInv'
  <1>1. /\ pendingBatch \in Seq(SequencedCommands) /\ results \in Seq(SequencedCommands)
        /\ pendingResult \in Seq(SequencedCommands)
        /\ results' = results \o pendingResult /\ pendingResult' = <<>>
        /\ UNCHANGED <<instrument, records, fixVars, sequencerVars, matching, inProgress, pendingBatch, terminated, admitted>>
    BY DEF IInv, Types, HandoffResult, Running
  <1>2. results' \in Seq(SequencedCommands) /\ pendingResult' \in Seq(SequencedCommands)
        /\ (pendingBatch \o results') \o pendingResult' = (pendingBatch \o results) \o pendingResult
    BY <1>1, SlotMoves, EmptySeq
  <1>3. Types'
    BY <1>1, <1>2 DEF IInv, Types, fixVars, sequencerVars
  <1>4. Sequenced' = Sequenced
    BY <1>1, <1>2 DEF Sequenced, sequencerVars
  <1>5. Unsequenced' = Unsequenced /\ BoundUpTo' = BoundUpTo
    BY <1>1 DEF Unsequenced, BoundUpTo, fixVars, sequencerVars
  <1>. QED  BY <1>1, <1>3, <1>4, <1>5, MoveKeeps DEF sequencerVars

\* The completion consumer takes the oldest result.
LEMMA PopResultPreserves ==
  ASSUME IInv, Running, PopResult
  PROVE  IInv'
  <1>1. /\ pendingBatch = <<>> /\ results # <<>> /\ results \in Seq(SequencedCommands)
        /\ pendingBatch' = <<Head(results)>> /\ results' = Tail(results)
        /\ UNCHANGED <<instrument, records, fixVars, sequencerVars, matcherVars, terminated, admitted>>
    BY DEF IInv, Types, PopResult, Running
  <1>2. results' \in Seq(SequencedCommands) /\ pendingBatch' \in Seq(SequencedCommands) /\ Len(pendingBatch') = 1
        /\ pendingBatch' \o results' = pendingBatch \o results
    BY <1>1, HeadMoves, ConcatEmptySeq
  <1>3. Types'
    BY <1>1, <1>2 DEF IInv, Types, fixVars, sequencerVars, matcherVars
  <1>4. Sequenced' = Sequenced
    BY <1>1, <1>2 DEF Sequenced, sequencerVars, matcherVars
  <1>5. Unsequenced' = Unsequenced /\ BoundUpTo' = BoundUpTo
    BY <1>1 DEF Unsequenced, BoundUpTo, fixVars, sequencerVars
  <1>. QED  BY <1>1, <1>3, <1>4, <1>5, MoveKeeps DEF sequencerVars

-----------------------------------------------------------------------------
(* Steps that change the index or the path.                                *)

\* The first command of the queue is the first that has no sequence.
LEMMA TailOfPath ==
  ASSUME NEW S, NEW q \in Seq(S), NEW slot \in Seq(S), NEW staged \in Seq(S), q # <<>>
  PROVE  /\ Len((q \o slot) \o staged) > 0
         /\ ((q \o slot) \o staged)[1] = Head(q)
         /\ Len((Tail(q) \o slot) \o staged) = Len((q \o slot) \o staged) - 1
         /\ \A i \in 1..(Len((q \o slot) \o staged) - 1) :
              ((Tail(q) \o slot) \o staged)[i] = ((q \o slot) \o staged)[i + 1]
  <1>. DEFINE rest == (Tail(q) \o slot) \o staged
  <1>1. rest \in Seq(S) /\ Head(q) \in S /\ <<Head(q)>> \in Seq(S) /\ Tail(q) \in Seq(S)
        /\ <<Head(q)>> \o Tail(q) = q
    BY HeadMoves, ConcatProperties
  <1>2. (q \o slot) \o staged = <<Head(q)>> \o rest
    <2>1. q \o slot = <<Head(q)>> \o (Tail(q) \o slot) /\ Tail(q) \o slot \in Seq(S)
      BY <1>1, ConcatAssociative, ConcatProperties
    <2>. QED  BY <1>1, <2>1, ConcatAssociative
  <1>. HIDE DEF rest
  <1>3. Len(rest) \in Nat /\ Len(<<Head(q)>> \o rest) = Len(rest) + 1
        /\ (<<Head(q)>> \o rest)[1] = Head(q)
        /\ \A i \in 1..Len(rest) : (<<Head(q)>> \o rest)[i + 1] = rest[i]
    BY <1>1, ConcatProperties, LenProperties
  <1>. QED  BY <1>2, <1>3 DEF rest

\* Sequences do not run out: there are at least as many as places in the index.
LEMMA TakeCommandPreserves ==
  ASSUME IInv, Running, TakeCommand
  PROVE  IInv'
  <1>. DEFINE c == Head(ingress)
              item == [key |-> c.key, body |-> c.body, sequence |-> lastAssignedSequence + 1]
  <1>1. /\ pendingCommand = <<>> /\ ingress # <<>> /\ pendingReady = FALSE
        /\ ingress \in Seq(StagedCommands) /\ pendingStaged \in Seq(StagedCommands) /\ staging \in Seq(StagedCommands)
        /\ UNCHANGED <<instrument, records, fixVars, matcherVars, completionVars, admitted>>
    BY DEF IInv, Types, TakeCommand, Running
  <1>2. /\ Len(Unsequenced) > 0 /\ Unsequenced[1] = c
        /\ Len((Tail(ingress) \o pendingStaged) \o staging) = Len(Unsequenced) - 1
        /\ \A i \in 1..(Len(Unsequenced) - 1) :
             ((Tail(ingress) \o pendingStaged) \o staging)[i] = Unsequenced[i + 1]
    BY <1>1, TailOfPath DEF Unsequenced
  <1>3. /\ Len(Sequenced) \in Nat /\ Len(Unsequenced) \in Nat /\ Len(admitted) \in Nat /\ lastAssignedSequence \in Nat
        /\ Sequenced \in Seq(SequencedCommands)
    BY PathTypes DEF IInv
  <1>4. lastAssignedSequence < MaxSequence
    BY <1>2, <1>3, FixPipelineAssumption DEF IInv, IndexIsAdmitted, RecordsFollowPath
  <1>5. /\ ingress' = Tail(ingress) /\ lastAssignedSequence' = lastAssignedSequence + 1
        /\ pendingCommand' = <<item>> /\ UNCHANGED <<pendingReady, terminated>>
    <2>1. lastAssignedSequence # MaxSequence
      BY <1>3, <1>4, FixPipelineAssumption
    <2>. QED  BY <2>1 DEF TakeCommand, sequencerVars
  <1>6. c \in StagedCommands /\ item \in SequencedCommands /\ ingress' \in Seq(StagedCommands)
        /\ item.key = c.key /\ item.body = c.body /\ item.sequence = lastAssignedSequence + 1
    <2>1. c \in StagedCommands /\ ingress' \in Seq(StagedCommands)
      BY <1>1, <1>5, HeadTailProperties
    <2>. HIDE DEF c
    <2>. QED  BY <1>3, <2>1 DEF StagedCommands, SequencedCommands
  <1>. HIDE DEF item, c
  <1>7. Types'
    <2>1. pendingCommand' \in Seq(SequencedCommands) /\ Len(pendingCommand') <= 1
      BY <1>5, <1>6
    <2>2. lastAssignedSequence' \in Nat
      BY <1>3, <1>5
    <2>3. pendingReady' \in BOOLEAN /\ ~pendingReady'
      BY <1>1, <1>5
    <2>. QED  BY <1>1, <1>5, <1>6, <2>1, <2>2, <2>3 DEF IInv, Types, fixVars, matcherVars, completionVars
  <1>8. /\ Len(Sequenced') = Len(Sequenced) + 1
        /\ \A i \in 1..Len(Sequenced) : Sequenced'[i] = Sequenced[i]
        /\ Sequenced'[Len(Sequenced) + 1] = item
    <2>1. Sequenced' = Sequenced \o <<item>>
      <3>. DEFINE before == (((pendingBatch \o results) \o pendingResult) \o inProgress) \o matching
      <3>1. before \in Seq(SequencedCommands) /\ before' = before
        BY <1>1, ConcatProperties DEF IInv, Types, matcherVars, completionVars
      <3>2. Sequenced = before \o <<>> /\ Sequenced' = before' \o <<item>>
        BY <1>1, <1>5 DEF Sequenced
      <3>. HIDE DEF before
      <3>. QED  BY <3>1, <3>2, ConcatEmptySeq
    <2>. QED  BY <1>3, <1>6, <2>1, ConcatProperties
  <1>9. /\ Len(Unsequenced') = Len(Unsequenced) - 1
        /\ \A i \in 1..(Len(Unsequenced) - 1) : Unsequenced'[i] = Unsequenced[i + 1]
    <2>1. Unsequenced' = (Tail(ingress) \o pendingStaged) \o staging
      BY <1>1, <1>5 DEF Unsequenced, fixVars
    <2>. QED  BY <1>2, <2>1
  <1>10. Done' = Done /\ BoundUpTo' = BoundUpTo /\ Completed' = Completed
    <2>1. Done' = Done /\ Completed' = Completed
      BY <1>1, <1>3, <1>5, <1>8 DEF Done, Completed
    <2>2. BoundUpTo = lastAssignedSequence
      BY <1>1 DEF BoundUpTo
    <2>3. pendingCommand' # <<>> /\ ~pendingReady'
      BY <1>1, <1>5
    <2>4. BoundUpTo' = lastAssignedSequence
      BY <1>3, <1>5, <2>3 DEF BoundUpTo
    <2>. QED  BY <2>1, <2>2, <2>4
  <1>11. IndexIsAdmitted'
    BY <1>1 DEF IInv, IndexIsAdmitted
  <1>12. RecordsFollowPath'
    <2>1. Len(admitted') = lastAssignedSequence' + Len(Unsequenced')
      <3>1. Len(admitted) = lastAssignedSequence + Len(Unsequenced) /\ Len(admitted') = Len(admitted)
        BY <1>1 DEF IInv, RecordsFollowPath
      <3>. QED  BY <1>3, <1>5, <1>9, <3>1
    <2>. QED  BY <1>1, <1>10, <2>1 DEF IInv, RecordsFollowPath
  <1>13. PathFollowsIndex'
    <2>1. ASSUME NEW i \in 1..Len(Sequenced')
          PROVE  /\ Sequenced'[i].key = admitted[Done + i]
                 /\ Sequenced'[i].body = records[admitted[Done + i]].body
                 /\ Sequenced'[i].sequence = Done + i
      <3>1. CASE i \in 1..Len(Sequenced)
        BY <1>8, <3>1 DEF IInv, PathFollowsIndex
      <3>2. CASE i = Len(Sequenced) + 1
        <4>1. Done + i = lastAssignedSequence + 1
          BY <1>3, <3>2 DEF Done
        <4>2. c.key = admitted[lastAssignedSequence + 1] /\ c.body = records[admitted[lastAssignedSequence + 1]].body
          BY <1>2, <1>3 DEF IInv, PathFollowsIndex
        <4>. QED  BY <1>6, <1>8, <3>2, <4>1, <4>2
      <3>. QED  BY <1>3, <1>8, <3>1, <3>2
    <2>2. ASSUME NEW i \in 1..Len(Unsequenced')
          PROVE  /\ Unsequenced'[i].key = admitted[lastAssignedSequence' + i]
                 /\ Unsequenced'[i].body = records[admitted[lastAssignedSequence' + i]].body
      <3>1. i + 1 \in 1..Len(Unsequenced) /\ Unsequenced'[i] = Unsequenced[i + 1]
            /\ lastAssignedSequence' + i = lastAssignedSequence + (i + 1)
        BY <1>3, <1>5, <1>9
      <3>. QED  BY <3>1 DEF IInv, PathFollowsIndex
    <2>. QED  BY <1>1, <1>10, <2>1, <2>2 DEF PathFollowsIndex
  <1>. QED  BY <1>5, <1>7, <1>11, <1>12, <1>13 DEF IInv

\* The index with a record bound to its sequence, and with one completed.
Bind(f, k, n) == [f EXCEPT ![k].state = "SEQUENCED", ![k].sequence = n]
Finish(f, k) == [f EXCEPT ![k].state = "COMPLETED"]

\* markSequenced changes one record, to SEQUENCED with its sequence.
LEMMA BoundRecord ==
  ASSUME NEW D, NEW f \in [D -> Records], NEW k \in D, NEW n \in Nat
  PROVE  /\ Bind(f, k, n) \in [D -> Records]
         /\ Bind(f, k, n)[k].state = "SEQUENCED"
         /\ Bind(f, k, n)[k].sequence = n
         /\ Bind(f, k, n)[k].body = f[k].body
         /\ \A l \in D \ {k} : Bind(f, k, n)[l] = f[l]
  <1>. DEFINE g == Bind(f, k, n)
              h == [f EXCEPT ![k].state = "SEQUENCED"]
  <1>1. /\ h \in [D -> Records] /\ h[k].state = "SEQUENCED" /\ h[k].body = f[k].body
        /\ \A l \in D \ {k} : h[l] = f[l]
    BY DEF Records
  <1>2. g = [h EXCEPT ![k].sequence = n]
    BY DEF Bind
  <1>. HIDE DEF h, g
  <1>3. g[k] = [h[k] EXCEPT !.sequence = n] /\ \A l \in D \ {k} : g[l] = h[l]
    BY <1>1, <1>2
  <1>4. h[k] \in Records
    BY <1>1
  <1>5. g[k] \in Records /\ g[k].sequence = n /\ g[k].state = h[k].state /\ g[k].body = h[k].body
    BY <1>3, <1>4 DEF Records
  <1>6. g \in [D -> Records]
    BY <1>1, <1>2, <1>5
  <1>. QED  BY <1>1, <1>3, <1>5, <1>6 DEF g

\* complete changes one record, to COMPLETED.
LEMMA CompletedRecord ==
  ASSUME NEW D, NEW f \in [D -> Records], NEW k \in D
  PROVE  /\ Finish(f, k) \in [D -> Records]
         /\ Finish(f, k)[k].state = "COMPLETED"
         /\ Finish(f, k)[k].sequence = f[k].sequence
         /\ Finish(f, k)[k].body = f[k].body
         /\ \A l \in D \ {k} : Finish(f, k)[l] = f[l]
  BY DEF Records, Finish

\* The sequencer finds the command it binds reserved.
LEMMA MarkSequencedPreserves ==
  ASSUME IInv, Running, MarkSequenced
  PROVE  IInv'
  <1>. DEFINE c == pendingCommand[1]
  <1>1. /\ pendingCommand # <<>> /\ pendingReady = FALSE /\ records \in [DOMAIN records -> Records]
        /\ pendingCommand \in Seq(SequencedCommands) /\ Len(pendingCommand) <= 1
        /\ UNCHANGED <<instrument, fixVars, ingress, pendingCommand, lastAssignedSequence, matcherVars, completionVars,
                       admitted>>
    BY DEF IInv, Types, MarkSequenced, Running
  <1>2. /\ Len(Sequenced) \in Nat /\ Len(Unsequenced) \in Nat /\ Len(admitted) \in Nat /\ lastAssignedSequence \in Nat
    BY PathTypes DEF IInv
  <1>3. Len(Sequenced) >= 1 /\ Sequenced[Len(Sequenced)] = c /\ c \in SequencedCommands
    <2>. DEFINE before == (((pendingBatch \o results) \o pendingResult) \o inProgress) \o matching
    <2>1. before \in Seq(SequencedCommands)
      BY ConcatProperties DEF IInv, Types
    <2>2. Sequenced = before \o pendingCommand
      BY DEF Sequenced
    <2>. HIDE DEF before
    <2>3. Len(pendingCommand) = 1 /\ c \in SequencedCommands
      BY <1>1, SlotHoldsOne
    <2>5. Len(before) \in Nat /\ Len(Sequenced) = Len(before) + 1 /\ Sequenced[Len(before) + 1] = pendingCommand[1]
      <3>1. /\ pendingCommand \in Seq(SequencedCommands) /\ Len(before) \in Nat
            /\ Len(Sequenced) = Len(before) + Len(pendingCommand)
            /\ \A i \in 1..(Len(before) + Len(pendingCommand)) :
                 Sequenced[i] = IF i <= Len(before) THEN before[i] ELSE pendingCommand[i - Len(before)]
        BY <1>1, <2>1, <2>2, ConcatProperties, LenProperties
      <3>. QED  BY <2>3, <3>1
    <2>. QED  BY <2>3, <2>5
  <1>. HIDE DEF c
  <1>4. /\ Done + Len(Sequenced) = lastAssignedSequence /\ Done \in Nat
        /\ lastAssignedSequence \in 1..Len(admitted) /\ BoundUpTo = lastAssignedSequence - 1
    <2>1. Done \in Nat /\ Len(admitted) = lastAssignedSequence + Len(Unsequenced)
      BY DEF IInv, RecordsFollowPath
    <2>. QED  BY <1>1, <1>2, <1>3, <2>1 DEF Done, BoundUpTo
  <1>5. /\ c.key = admitted[lastAssignedSequence] /\ c.sequence = lastAssignedSequence
        /\ c.body = records[c.key].body
    <2>1. Len(Sequenced) \in 1..Len(Sequenced)
      BY <1>2, <1>3
    <2>. QED  BY <1>3, <1>4, <2>1 DEF IInv, PathFollowsIndex
  <1>6. c.key \in DOMAIN records
    BY <1>4, <1>5 DEF IInv, IndexIsAdmitted
  <1>7. records[c.key].state = "RESERVED"
    <2>1. BoundUpTo < lastAssignedSequence
      BY <1>2, <1>4
    <2>. QED  BY <1>4, <1>5, <2>1 DEF IInv, RecordsFollowPath
  <1>8. /\ records' = [records EXCEPT ![c.key].state = "SEQUENCED", ![c.key].sequence = c.sequence]
        /\ pendingReady' = TRUE /\ UNCHANGED terminated
    BY <1>5, <1>6, <1>7 DEF MarkSequenced, c
  <1>9. /\ records' \in [DOMAIN records -> Records] /\ DOMAIN records' = DOMAIN records
        /\ records'[c.key].state = "SEQUENCED" /\ records'[c.key].sequence = lastAssignedSequence
        /\ \A key \in DOMAIN records : records'[key].body = records[key].body
        /\ \A key \in DOMAIN records \ {c.key} : records'[key] = records[key]
    <2>1. /\ records' \in [DOMAIN records -> Records]
          /\ records'[c.key].state = "SEQUENCED" /\ records'[c.key].sequence = c.sequence
          /\ records'[c.key].body = records[c.key].body
          /\ \A key \in DOMAIN records \ {c.key} : records'[key] = records[key]
      <3>1. records' = Bind(records, c.key, c.sequence) /\ c.sequence \in Nat
        BY <1>2, <1>5, <1>8 DEF Bind
      <3>. QED  BY <1>1, <1>6, <3>1, BoundRecord
    <2>. QED  BY <1>5, <2>1
  <1>10. Types'
    <2>1. pendingReady' \in BOOLEAN
      BY <1>8
    <2>. QED  BY <1>1, <1>8, <1>9, <2>1 DEF IInv, Types, fixVars, matcherVars, completionVars
  <1>11. Sequenced' = Sequenced /\ Unsequenced' = Unsequenced /\ Done' = Done /\ BoundUpTo' = lastAssignedSequence
    <2>1. Sequenced' = Sequenced /\ Unsequenced' = Unsequenced
      BY <1>1 DEF Sequenced, Unsequenced, fixVars, matcherVars, completionVars
    <2>2. BoundUpTo' = lastAssignedSequence
      BY <1>1, <1>8 DEF BoundUpTo
    <2>. QED  BY <1>1, <2>1, <2>2 DEF Done
  <1>12. Completed' = Completed
    BY <1>7, <1>9 DEF Completed
  <1>13. IndexIsAdmitted'
    BY <1>1, <1>9 DEF IInv, IndexIsAdmitted
  <1>14. RecordsFollowPath'
    <2>1. Len(admitted') = lastAssignedSequence' + Len(Unsequenced') /\ Done' \in Nat
          /\ IsFiniteSet(Completed') /\ Cardinality(Completed') = Done'
      BY <1>1, <1>11, <1>12 DEF IInv, RecordsFollowPath
    <2>2. ASSUME NEW n \in 1..Len(admitted)
          PROVE  /\ n <= Done => records'[admitted[n]].state = "COMPLETED"
                 /\ Done < n /\ n <= lastAssignedSequence => records'[admitted[n]].state = "SEQUENCED"
                 /\ n <= lastAssignedSequence => records'[admitted[n]].sequence = n
                 /\ lastAssignedSequence < n => records'[admitted[n]].state = "RESERVED"
      <3>1. CASE n = lastAssignedSequence
        <4>1. Done < n
          BY <1>2, <1>3, <1>4, <3>1
        <4>. QED  BY <1>2, <1>4, <1>5, <1>9, <3>1, <4>1
      <3>2. CASE n # lastAssignedSequence
        <4>1. records'[admitted[n]] = records[admitted[n]]
          BY <1>4, <1>5, <1>9, <3>2 DEF IInv, IndexIsAdmitted
        <4>2. (n <= BoundUpTo <=> n <= lastAssignedSequence) /\ (BoundUpTo < n <=> lastAssignedSequence < n)
          BY <1>2, <1>4, <3>2
        <4>. QED  BY <4>1, <4>2 DEF IInv, RecordsFollowPath
      <3>. QED  BY <3>1, <3>2
    <2>. QED  BY <1>1, <1>11, <2>1, <2>2 DEF RecordsFollowPath
  <1>15. PathFollowsIndex'
    <2>1. \A n \in 1..Len(admitted) : records'[admitted[n]].body = records[admitted[n]].body
      BY <1>9 DEF IInv, IndexIsAdmitted
    <2>2. Len(admitted) = lastAssignedSequence + Len(Unsequenced)
      BY DEF IInv, RecordsFollowPath
    <2>3. \A i \in 1..Len(Sequenced) : Done + i \in 1..Len(admitted)
      BY <1>2, <1>4, <2>2
    <2>4. \A i \in 1..Len(Unsequenced) : lastAssignedSequence + i \in 1..Len(admitted)
      BY <1>2, <2>2
    <2>. QED  BY <1>1, <1>11, <2>1, <2>3, <2>4 DEF IInv, PathFollowsIndex
  <1>. QED  BY <1>8, <1>10, <1>13, <1>14, <1>15 DEF IInv

Path == Seq(SequencedCommands)

\* Concatenation by another name, which the provers do not unfold.
Cat(x, y) == x \o y

\* Concatenation under a name of its own, so that the provers treat it as opaque.
LEMMA CatFacts ==
  /\ \A p, x, y \in Path : Cat(Cat(p, x), y) = Cat(p, Cat(x, y))
  /\ \A x, y \in Path : Cat(x, y) \in Path /\ Len(Cat(x, y)) >= Len(y)
  /\ \A x \in Path : Cat(<<>>, x) = x
  <1>1. ASSUME NEW p \in Path, NEW x \in Path, NEW y \in Path
        PROVE  Cat(Cat(p, x), y) = Cat(p, Cat(x, y))
    BY ConcatAssociative DEF Path, Cat
  <1>2. ASSUME NEW x \in Path, NEW y \in Path
        PROVE  Cat(x, y) \in Path /\ Len(Cat(x, y)) >= Len(y)
    <2>1. x \o y \in Path /\ Len(x \o y) = Len(x) + Len(y) /\ Len(x) \in Nat /\ Len(y) \in Nat
      BY ConcatProperties, LenProperties DEF Path
    <2>. QED  BY <2>1 DEF Cat
  <1>3. ASSUME NEW x \in Path
        PROVE  Cat(<<>>, x) = x
    BY ConcatEmptySeq DEF Path, Cat
  <1>. QED  BY <1>1, <1>2, <1>3

\* What is completed next is at the front of everything sequenced.
Rest == Cat(Cat(Cat(Cat(results, pendingResult), inProgress), matching), pendingCommand)

\* The sequenced part of the path, seen from the batch that is being completed.
LEMMA SequencedFromBatch ==
  ASSUME Types
  PROVE  /\ Rest \in Path /\ Len(Rest) >= Len(pendingCommand)
         /\ Sequenced = pendingBatch \o Rest
  <1>. DEFINE b2 == Cat(results, pendingResult)
              c2 == Cat(b2, inProgress)
              d2 == Cat(c2, matching)
              e2 == Cat(d2, pendingCommand)
  <1>1. /\ pendingBatch \in Path /\ results \in Path /\ pendingResult \in Path /\ inProgress \in Path
        /\ matching \in Path /\ pendingCommand \in Path
    BY DEF Types, Path
  <1>2. Sequenced = Cat(Cat(Cat(Cat(Cat(pendingBatch, results), pendingResult), inProgress), matching), pendingCommand)
    BY DEF Sequenced, Cat
  <1>3. b2 \in Path /\ Cat(Cat(pendingBatch, results), pendingResult) = Cat(pendingBatch, b2)
    BY <1>1, CatFacts
  <1>4. c2 \in Path /\ Cat(Cat(pendingBatch, b2), inProgress) = Cat(pendingBatch, c2)
    <2>. HIDE DEF b2
    <2>. QED  BY <1>1, <1>3, CatFacts
  <1>5. d2 \in Path /\ Cat(Cat(pendingBatch, c2), matching) = Cat(pendingBatch, d2)
    <2>. HIDE DEF c2
    <2>. QED  BY <1>1, <1>4, CatFacts
  <1>6. e2 \in Path /\ Cat(Cat(pendingBatch, d2), pendingCommand) = Cat(pendingBatch, e2)
        /\ Len(e2) >= Len(pendingCommand)
    <2>. HIDE DEF d2
    <2>. QED  BY <1>1, <1>5, CatFacts
  <1>7. Sequenced = Cat(pendingBatch, e2)
    <2>. HIDE DEF b2, c2, d2, e2
    <2>. QED  BY <1>2, <1>3, <1>4, <1>5, <1>6
  <1>8. Rest = e2
    BY DEF Rest
  <1>. HIDE DEF e2
  <1>. QED  BY <1>6, <1>7, <1>8 DEF Cat

\* What is left once it is completed.
LEMMA EmptyBatch ==
  ASSUME Types
  PROVE  Rest = ((((<<>> \o results) \o pendingResult) \o inProgress) \o matching) \o pendingCommand
  <1>1. Cat(<<>>, results) = results
    BY CatFacts DEF Types, Path
  <1>2. Rest = Cat(Cat(Cat(Cat(Cat(<<>>, results), pendingResult), inProgress), matching), pendingCommand)
    BY <1>1 DEF Rest
  <1>. QED  BY <1>2 DEF Cat

\* The consumer finds the command it completes sequenced, with its sequence.
LEMMA CompletePreserves ==
  ASSUME IInv, Running, Complete
  PROVE  IInv'
  <1>. DEFINE r == pendingBatch[1]
  <1>1. /\ pendingBatch # <<>> /\ records \in [DOMAIN records -> Records]
        /\ pendingBatch \in Seq(SequencedCommands) /\ Len(pendingBatch) <= 1
        /\ UNCHANGED <<instrument, fixVars, sequencerVars, matcherVars, results, admitted>>
    BY DEF IInv, Types, Complete, Running
  <1>2. /\ Len(Sequenced) \in Nat /\ Len(Unsequenced) \in Nat /\ Len(admitted) \in Nat /\ lastAssignedSequence \in Nat
    BY PathTypes DEF IInv
  <1>3. /\ Rest \in Seq(SequencedCommands) /\ Sequenced = pendingBatch \o Rest
        /\ Len(Rest) >= Len(pendingCommand)
    BY SequencedFromBatch DEF IInv, Path
  <1>4. /\ r \in SequencedCommands /\ Len(Rest) \in Nat /\ Len(Sequenced) = Len(Rest) + 1 /\ Sequenced[1] = r
        /\ \A i \in 1..Len(Rest) : Sequenced[i + 1] = Rest[i]
    <2>1. Len(pendingBatch) = 1 /\ r \in SequencedCommands
      BY <1>1, SlotHoldsOne
    <2>2. /\ pendingBatch \in Seq(SequencedCommands) /\ Len(Rest) \in Nat
          /\ Len(Sequenced) = Len(pendingBatch) + Len(Rest)
          /\ \A i \in 1..(Len(pendingBatch) + Len(Rest)) :
               Sequenced[i] = IF i <= Len(pendingBatch) THEN pendingBatch[i] ELSE Rest[i - Len(pendingBatch)]
      BY <1>1, <1>3, ConcatProperties, LenProperties
    <2>3. Len(Sequenced) = Len(Rest) + 1 /\ Sequenced[1] = r
      BY <2>1, <2>2
    <2>4. ASSUME NEW i \in 1..Len(Rest) PROVE Sequenced[i + 1] = Rest[i]
      BY <2>1, <2>2
    <2>. QED  BY <2>1, <2>2, <2>3, <2>4
  <1>. HIDE DEF r
  <1>5. Done \in Nat /\ Len(admitted) = lastAssignedSequence + Len(Unsequenced)
        /\ lastAssignedSequence = Done + Len(Rest) + 1
    <2>1. Done \in Nat /\ Len(admitted) = lastAssignedSequence + Len(Unsequenced)
      BY DEF IInv, RecordsFollowPath
    <2>. QED  BY <1>2, <1>4, <2>1 DEF Done
  <1>6. Done + 1 <= BoundUpTo
    <2>1. CASE pendingCommand # <<>> /\ ~pendingReady
      <3>1. Len(pendingCommand) = 1
        BY <2>1, SlotHoldsOne DEF IInv, Types
      <3>. QED  BY <1>2, <1>3, <1>4, <1>5, <2>1, <3>1 DEF BoundUpTo
    <2>2. CASE ~(pendingCommand # <<>> /\ ~pendingReady)
      BY <1>2, <1>4, <1>5, <2>2 DEF BoundUpTo
    <2>. QED  BY <2>1, <2>2
  <1>7. /\ r.key = admitted[Done + 1] /\ r.sequence = Done + 1 /\ Done + 1 \in 1..Len(admitted)
    <2>1. 1 \in 1..Len(Sequenced)
      BY <1>4
    <2>. QED  BY <1>2, <1>4, <1>5, <2>1 DEF IInv, PathFollowsIndex
  <1>8. r.key \in DOMAIN records
    BY <1>7 DEF IInv, IndexIsAdmitted
  <1>9. records[r.key].state = "SEQUENCED" /\ records[r.key].sequence = Done + 1
    <2>1. Done < Done + 1
      BY <1>5
    <2>. QED  BY <1>6, <1>7, <2>1 DEF IInv, RecordsFollowPath
  <1>10. records' = [records EXCEPT ![r.key].state = "COMPLETED"] /\ pendingBatch' = <<>> /\ UNCHANGED terminated
    BY <1>7, <1>8, <1>9 DEF Complete, r
  <1>11. /\ records' \in [DOMAIN records -> Records] /\ DOMAIN records' = DOMAIN records
         /\ records'[r.key].state = "COMPLETED" /\ records'[r.key].sequence = Done + 1
         /\ \A key \in DOMAIN records : records'[key].body = records[key].body
         /\ \A key \in DOMAIN records \ {r.key} : records'[key] = records[key]
    <2>1. records' = Finish(records, r.key)
      BY <1>10 DEF Finish
    <2>2. /\ records' \in [DOMAIN records -> Records]
          /\ records'[r.key].state = "COMPLETED" /\ records'[r.key].sequence = records[r.key].sequence
          /\ records'[r.key].body = records[r.key].body
          /\ \A key \in DOMAIN records \ {r.key} : records'[key] = records[key]
      BY <1>1, <1>8, <2>1, CompletedRecord
    <2>. QED  BY <1>9, <2>2
  <1>12. Types'
    <2>1. pendingBatch' \in Seq(SequencedCommands) /\ Len(pendingBatch') <= 1
      BY <1>10, EmptySeq
    <2>. QED  BY <1>1, <1>10, <1>11, <2>1 DEF IInv, Types, fixVars, sequencerVars, matcherVars
  <1>13. Sequenced' = Rest /\ Unsequenced' = Unsequenced /\ BoundUpTo' = BoundUpTo
    <2>1. Rest' = Rest /\ Unsequenced' = Unsequenced /\ BoundUpTo' = BoundUpTo
      BY <1>1 DEF Rest, Unsequenced, BoundUpTo, fixVars, sequencerVars, matcherVars
    <2>2. Sequenced' = ((((<<>> \o results) \o pendingResult) \o inProgress) \o matching) \o pendingCommand
      BY <1>1, <1>10 DEF Sequenced, sequencerVars, matcherVars
    <2>3. Rest = ((((<<>> \o results) \o pendingResult) \o inProgress) \o matching) \o pendingCommand
      BY EmptyBatch DEF IInv
    <2>. QED  BY <2>1, <2>2, <2>3
  <1>14. Done' = Done + 1
    BY <1>1, <1>4, <1>5, <1>13 DEF Done, sequencerVars
  <1>15. IsFiniteSet(Completed') /\ Cardinality(Completed') = Done + 1
    <2>1. Completed' = Completed \cup {r.key} /\ r.key \notin Completed
      BY <1>8, <1>9, <1>11 DEF Completed
    <2>2. IsFiniteSet(Completed) /\ Cardinality(Completed) = Done
      BY DEF IInv, RecordsFollowPath
    <2>. QED  BY <2>1, <2>2, FS_AddElement
  <1>16. IndexIsAdmitted'
    BY <1>1, <1>11 DEF IInv, IndexIsAdmitted
  <1>17. RecordsFollowPath'
    <2>1. Len(admitted') = lastAssignedSequence' + Len(Unsequenced') /\ Done' \in Nat
      BY <1>1, <1>5, <1>13, <1>14 DEF sequencerVars
    <2>2. ASSUME NEW n \in 1..Len(admitted)
          PROVE  /\ n <= Done + 1 => records'[admitted[n]].state = "COMPLETED"
                 /\ Done + 1 < n /\ n <= BoundUpTo => records'[admitted[n]].state = "SEQUENCED"
                 /\ n <= BoundUpTo => records'[admitted[n]].sequence = n
                 /\ BoundUpTo < n => records'[admitted[n]].state = "RESERVED"
      <3>0. BoundUpTo \in Int
        BY <1>2 DEF BoundUpTo
      <3>1. CASE n = Done + 1
        BY <1>5, <1>6, <1>7, <1>11, <3>0, <3>1
      <3>2. CASE n # Done + 1
        <4>1. records'[admitted[n]] = records[admitted[n]]
          BY <1>7, <1>11, <3>2 DEF IInv, IndexIsAdmitted
        <4>2. (n <= Done + 1 <=> n <= Done) /\ (Done + 1 < n <=> Done < n)
          BY <1>5, <3>2
        <4>. QED  BY <4>1, <4>2 DEF IInv, RecordsFollowPath
      <3>. QED  BY <3>1, <3>2
    <2>. QED  BY <1>1, <1>13, <1>14, <1>15, <2>1, <2>2 DEF RecordsFollowPath
  <1>18. PathFollowsIndex'
    <2>1. \A n \in 1..Len(admitted) : records'[admitted[n]].body = records[admitted[n]].body
      BY <1>11 DEF IInv, IndexIsAdmitted
    <2>2. ASSUME NEW i \in 1..Len(Rest)
          PROVE  /\ Rest[i].key = admitted[Done + 1 + i]
                 /\ Rest[i].body = records'[admitted[Done + 1 + i]].body
                 /\ Rest[i].sequence = Done + 1 + i
      <3>1. i + 1 \in 1..Len(Sequenced) /\ Sequenced[i + 1] = Rest[i]
        BY <1>4
      <3>2. Done + (i + 1) = Done + 1 + i /\ Done + 1 + i \in 1..Len(admitted)
        BY <1>2, <1>4, <1>5
      <3>. QED  BY <2>1, <3>1, <3>2 DEF IInv, PathFollowsIndex
    <2>3. \A i \in 1..Len(Unsequenced) : lastAssignedSequence + i \in 1..Len(admitted)
      BY <1>2, <1>5
    <2>4. ASSUME NEW i \in 1..Len(Unsequenced)
          PROVE  /\ Unsequenced[i].key = admitted[lastAssignedSequence + i]
                 /\ Unsequenced[i].body = records'[admitted[lastAssignedSequence + i]].body
      BY <2>1, <2>3 DEF IInv, PathFollowsIndex
    <2>. QED  BY <1>1, <1>13, <1>14, <2>2, <2>4 DEF PathFollowsIndex, sequencerVars
  <1>. QED  BY <1>10, <1>12, <1>16, <1>17, <1>18 DEF IInv

\* A first submission: its record, its place in the queue and its place in the
\* order of admission appear together.
LEMMA FromAppPreserves ==
  ASSUME IInv, NEW session \in Sessions, NEW message \in Messages, Running, FromApp(session, message)
  PROVE  IInv'
  <1>. DEFINE command == Parsed[session, message, instrument]
              staged == [key |-> command.key, body |-> command.body]
              before == ingress \o pendingStaged
              last == Len(admitted) + 1
  <1>1. /\ command.failure = 0 /\ ReserveAndStage(command) /\ instrument \in Configurations
        /\ UNCHANGED <<instrument, pendingStaged, sequencerVars, matcherVars, completionVars, terminated>>
    BY DEF FromApp, Running, IInv, Types
  <1>2. command = Parse(session, message, instrument)
    BY DEF Parse
  <1>. HIDE DEF command
  <1>2a. command \in Commands
    BY <1>1, <1>2 DEF Commands
  <1>3. command.key \in Keys /\ command.body \in Bodies
    BY <1>2a DEF Keys, Bodies
  <1>4. staged \in StagedCommands /\ staged.key = command.key /\ staged.body = command.body
    BY <1>3 DEF StagedCommands
  <1>5. /\ command.key \notin DOMAIN records /\ Cardinality(DOMAIN records) < AdmissionCapacity
        /\ records' = [key \in DOMAIN records \cup {command.key} |->
                         IF key = command.key THEN [body |-> command.body, state |-> "RESERVED", sequence |-> 0]
                         ELSE records[key]]
        /\ staging' = Append(staging, staged) /\ admitted' = Append(admitted, command.key)
    BY <1>1 DEF ReserveAndStage
  <1>. HIDE DEF staged
  <1>6. /\ DOMAIN records' = DOMAIN records \cup {command.key}
        /\ records'[command.key].body = command.body /\ records'[command.key].state = "RESERVED"
        /\ \A key \in DOMAIN records : records'[key] = records[key]
        /\ records' \in [DOMAIN records' -> Records]
    <2>0. [body |-> command.body, state |-> "RESERVED", sequence |-> 0] \in Records
      BY <1>3 DEF Records
    <2>1. records \in [DOMAIN records -> Records]
      BY DEF IInv, Types
    <2>. QED  BY <1>5, <2>0, <2>1
  <1>7. /\ before \in Seq(StagedCommands) /\ staging \in Seq(StagedCommands) /\ Unsequenced = before \o staging
        /\ before' = before /\ Unsequenced' = before \o Append(staging, staged)
    <2>1. before \in Seq(StagedCommands) /\ staging \in Seq(StagedCommands)
      BY ConcatProperties DEF IInv, Types
    <2>2. before' = before
      BY <1>1 DEF sequencerVars
    <2>. QED  BY <1>5, <2>1, <2>2 DEF Unsequenced
  <1>. HIDE DEF before
  <1>8. /\ staging' \in Seq(StagedCommands) /\ Len(Unsequenced') = Len(Unsequenced) + 1
        /\ \A i \in 1..Len(Unsequenced) : Unsequenced'[i] = Unsequenced[i]
        /\ Unsequenced'[Len(Unsequenced) + 1] = staged
    BY <1>4, <1>5, <1>7, EndOfPath
  <1>9. /\ Len(Sequenced) \in Nat /\ Len(Unsequenced) \in Nat /\ Len(admitted) \in Nat /\ lastAssignedSequence \in Nat
    BY PathTypes DEF IInv
  <1>10. /\ admitted' \in Seq(Keys) /\ Len(admitted') = last /\ admitted'[last] = command.key
         /\ \A n \in 1..Len(admitted) : admitted'[n] = admitted[n]
    <2>1. admitted \in Seq(Keys)
      BY DEF IInv, Types
    <2>. QED  BY <1>3, <1>5, <2>1, AppendProperties
  <1>11. IsFiniteSet(DOMAIN records') /\ Cardinality(DOMAIN records') = Cardinality(DOMAIN records) + 1
    <2>1. IsFiniteSet(DOMAIN records)
      BY DEF IInv, Types
    <2>. QED  BY <1>5, <1>6, <2>1, FS_AddElement
  <1>12. Types'
    <2>1. DOMAIN records' \subseteq Keys
      BY <1>3, <1>6 DEF IInv, Types
    <2>. QED  BY <1>1, <1>6, <1>8, <1>10, <1>11, <2>1 DEF IInv, Types, sequencerVars, matcherVars, completionVars
  <1>13. Sequenced' = Sequenced /\ Done' = Done /\ BoundUpTo' = BoundUpTo /\ lastAssignedSequence' = lastAssignedSequence
    <2>1. Sequenced' = Sequenced /\ lastAssignedSequence' = lastAssignedSequence
      BY <1>1 DEF Sequenced, sequencerVars, matcherVars, completionVars
    <2>2. BoundUpTo' = BoundUpTo
      BY <1>1 DEF BoundUpTo, sequencerVars
    <2>. QED  BY <2>1, <2>2 DEF Done
  <1>14. Completed' = Completed
    BY <1>5, <1>6 DEF Completed
  <1>15. \A n \in 1..last : n = last \/ n \in 1..Len(admitted)
    BY <1>9
  <1>16. \A n \in 1..Len(admitted) : admitted[n] \in DOMAIN records /\ admitted[n] # command.key /\ n \in 1..last /\ n # last
    BY <1>5, <1>9 DEF IInv, IndexIsAdmitted
  <1>17. last \in 1..last /\ Len(admitted) < last
    BY <1>9
  <1>18. Len(admitted) = lastAssignedSequence + Len(Unsequenced) /\ Done \in Nat /\ Done + Len(Sequenced) = lastAssignedSequence
         /\ IsFiniteSet(Completed) /\ Cardinality(Completed) = Done
    <2>1. Len(admitted) = lastAssignedSequence + Len(Unsequenced) /\ Done \in Nat
          /\ IsFiniteSet(Completed) /\ Cardinality(Completed) = Done
      BY DEF IInv, RecordsFollowPath
    <2>. QED  BY <1>9, <2>1 DEF Done
  <1>19. BoundUpTo \in Int /\ BoundUpTo <= lastAssignedSequence /\ BoundUpTo < last
    <2>1. BoundUpTo = lastAssignedSequence \/ BoundUpTo = lastAssignedSequence - 1
      BY DEF BoundUpTo
    <2>. QED  BY <1>9, <1>18, <2>1
  <1>20. last = lastAssignedSequence + (Len(Unsequenced) + 1) /\ ~(last <= Done) /\ ~(last <= BoundUpTo)
    BY <1>9, <1>18, <1>19
  <1>. HIDE DEF last
  <1>21. IndexIsAdmitted'
    <2>1. ASSUME NEW key PROVE key \in DOMAIN records' <=> \E n \in 1..last : key = admitted'[n]
      <3>1. CASE key = command.key
        BY <1>6, <1>10, <1>17, <3>1
      <3>2. CASE key # command.key
        <4>1. key \in DOMAIN records <=> \E n \in 1..Len(admitted) : key = admitted[n]
          BY DEF IInv, IndexIsAdmitted
        <4>. QED  BY <1>6, <1>10, <1>15, <1>16, <3>2, <4>1
      <3>. QED  BY <3>1, <3>2
    <2>2. ASSUME NEW m \in 1..last, NEW n \in 1..last, admitted'[m] = admitted'[n] PROVE m = n
      <3>1. CASE m = last /\ n = last
        BY <3>1
      <3>2. CASE m = last /\ n \in 1..Len(admitted)
        BY <1>10, <1>16, <2>2, <3>2
      <3>3. CASE n = last /\ m \in 1..Len(admitted)
        BY <1>10, <1>16, <2>2, <3>3
      <3>4. CASE m \in 1..Len(admitted) /\ n \in 1..Len(admitted)
        BY <1>10, <2>2, <3>4 DEF IInv, IndexIsAdmitted
      <3>. QED  BY <1>15, <3>1, <3>2, <3>3, <3>4
    <2>3. Cardinality(DOMAIN records) = Len(admitted)
      BY DEF IInv, IndexIsAdmitted
    <2>4. last <= AdmissionCapacity
      BY <1>5, <1>9, <2>3, FixPipelineAssumption DEF last
    <2>5. Cardinality(DOMAIN records') = last
      BY <1>11, <2>3 DEF last
    <2>. QED  BY <1>10, <2>1, <2>2, <2>4, <2>5 DEF IndexIsAdmitted
  <1>22. RecordsFollowPath'
    <2>1. last = lastAssignedSequence + Len(Unsequenced')
      BY <1>8, <1>20
    <2>2. ASSUME NEW n \in 1..last
          PROVE  /\ n <= Done => records'[admitted'[n]].state = "COMPLETED"
                 /\ Done < n /\ n <= BoundUpTo => records'[admitted'[n]].state = "SEQUENCED"
                 /\ n <= BoundUpTo => records'[admitted'[n]].sequence = n
                 /\ BoundUpTo < n => records'[admitted'[n]].state = "RESERVED"
      <3>1. CASE n = last
        BY <1>6, <1>10, <1>20, <3>1
      <3>2. CASE n \in 1..Len(admitted)
        <4>1. records'[admitted'[n]] = records[admitted[n]]
          BY <1>6, <1>10, <1>16, <3>2
        <4>. QED  BY <3>2, <4>1 DEF IInv, RecordsFollowPath
      <3>. QED  BY <1>15, <3>1, <3>2
    <2>. QED  BY <1>10, <1>13, <1>14, <1>18, <2>1, <2>2 DEF RecordsFollowPath
  <1>23. PathFollowsIndex'
    <2>1. ASSUME NEW i \in 1..Len(Sequenced)
          PROVE  /\ Sequenced[i].key = admitted'[Done + i]
                 /\ Sequenced[i].body = records'[admitted'[Done + i]].body
                 /\ Sequenced[i].sequence = Done + i
      <3>1. Done + i \in 1..Len(admitted)
        BY <1>9, <1>18
      <3>2. admitted'[Done + i] = admitted[Done + i] /\ records'[admitted[Done + i]] = records[admitted[Done + i]]
        BY <1>6, <1>10, <1>16, <3>1
      <3>. QED  BY <3>2 DEF IInv, PathFollowsIndex
    <2>2. ASSUME NEW i \in 1..Len(Unsequenced')
          PROVE  /\ Unsequenced'[i].key = admitted'[lastAssignedSequence + i]
                 /\ Unsequenced'[i].body = records'[admitted'[lastAssignedSequence + i]].body
      <3>1. i = Len(Unsequenced) + 1 \/ i \in 1..Len(Unsequenced)
        BY <1>8, <1>9
      <3>2. CASE i = Len(Unsequenced) + 1
        BY <1>4, <1>6, <1>8, <1>10, <1>20, <3>2
      <3>3. CASE i \in 1..Len(Unsequenced)
        <4>1. lastAssignedSequence + i \in 1..Len(admitted)
          BY <1>9, <1>18, <3>3
        <4>2. /\ admitted'[lastAssignedSequence + i] = admitted[lastAssignedSequence + i]
              /\ records'[admitted[lastAssignedSequence + i]] = records[admitted[lastAssignedSequence + i]]
          BY <1>6, <1>10, <1>16, <4>1
        <4>. QED  BY <1>8, <3>3, <4>2 DEF IInv, PathFollowsIndex
      <3>. QED  BY <3>1, <3>2, <3>3
    <2>. QED  BY <1>13, <2>1, <2>2 DEF PathFollowsIndex
  <1>. QED  BY <1>1, <1>12, <1>21, <1>22, <1>23 DEF IInv

-----------------------------------------------------------------------------
(* Every behaviour.                                                        *)

\* An executable that has just started satisfies the invariant.
LEMMA InitEstablishes ==
  ASSUME Init
  PROVE  IInv
  <1>1. /\ instrument \in Configurations /\ records = [key \in {} |-> {}]
        /\ staging = <<>> /\ ingress = <<>> /\ matching = <<>> /\ results = <<>> /\ pendingStaged = <<>>
        /\ pendingCommand = <<>> /\ pendingReady = FALSE /\ lastAssignedSequence = 0
        /\ inProgress = <<>> /\ pendingResult = <<>> /\ pendingBatch = <<>> /\ ~terminated /\ admitted = <<>>
    BY DEF Init
  <1>2. \A S : <<>> \in Seq(S) /\ Len(<<>>) = 0
    BY EmptySeq
  <1>3. DOMAIN records = {} /\ IsFiniteSet({}) /\ Cardinality({}) = 0 /\ records \in [DOMAIN records -> Records]
    BY <1>1, FS_EmptySet
  <1>4. Types
    <2>1. pendingReady \in BOOLEAN /\ ~pendingReady
      BY <1>1
    <2>. QED  BY <1>1, <1>2, <1>3, <2>1 DEF Types
  <1>5. <<>> \o <<>> = <<>>
    OBVIOUS
  <1>6. Sequenced = <<>> /\ Unsequenced = <<>>
    BY <1>1, <1>5 DEF Sequenced, Unsequenced
  <1>7. Len(Sequenced) = 0 /\ Len(Unsequenced) = 0 /\ Len(admitted) = 0 /\ Done = 0 /\ BoundUpTo = 0
    <2>1. Len(<<>>) = 0
      BY <1>2
    <2>2. Len(Sequenced) = 0 /\ Len(Unsequenced) = 0 /\ Len(admitted) = 0
      BY <1>1, <1>6, <2>1
    <2>3. BoundUpTo = 0
      BY <1>1 DEF BoundUpTo
    <2>. QED  BY <1>1, <2>2, <2>3 DEF Done
  <1>8. Completed = {}
    BY <1>3 DEF Completed
  <1>9. IndexIsAdmitted
    <2>1. 0 <= AdmissionCapacity
      BY FixPipelineAssumption
    <2>. QED  BY <1>3, <1>7, <2>1 DEF IndexIsAdmitted
  <1>10. RecordsFollowPath
    BY <1>1, <1>3, <1>7, <1>8 DEF RecordsFollowPath
  <1>11. PathFollowsIndex
    BY <1>7 DEF PathFollowsIndex
  <1>. QED  BY <1>1, <1>4, <1>9, <1>10, <1>11 DEF IInv

\* The invariant holds in every state the executable reaches, for any sessions,
\* messages, configurations and capacities.
THEOREM Invariance == Spec => []IInv
  <1>1. Init => IInv
    BY InitEstablishes
  <1>2. IInv /\ [Next]_vars => IInv'
    <2>. SUFFICES ASSUME IInv, [Next]_vars
                  PROVE  IInv'
      OBVIOUS
    <2>1. CASE \E session \in Sessions, message \in Messages : Running /\ FromApp(session, message)
      BY <2>1, FromAppPreserves
    <2>2. CASE Running /\ PopStaged
      BY <2>2, PopStagedPreserves
    <2>3. CASE Running /\ ForwardStaged
      BY <2>3, ForwardStagedPreserves
    <2>4. CASE Running /\ ReadBus
      BY <2>4, ReadBusPreserves
    <2>5. CASE Running /\ TakeCommand
      BY <2>5, TakeCommandPreserves
    <2>6. CASE Running /\ MarkSequenced
      BY <2>6, MarkSequencedPreserves
    <2>7. CASE Running /\ HandoffPendingCommand
      BY <2>7, HandoffPendingCommandPreserves
    <2>8. CASE Running /\ PopMatching
      BY <2>8, PopMatchingPreserves
    <2>9. CASE Running /\ ProcessCommand
      BY <2>9, ProcessCommandPreserves
    <2>10. CASE Running /\ HandoffResult
      BY <2>10, HandoffResultPreserves
    <2>11. CASE Running /\ PopResult
      BY <2>11, PopResultPreserves
    <2>12. CASE Running /\ Complete
      BY <2>12, CompletePreserves
    <2>13. CASE UNCHANGED vars
      <3>1. UNCHANGED <<instrument, records, fixVars, sequencerVars, matcherVars, completionVars, terminated, admitted>>
        BY <2>13 DEF vars
      <3>2. Types'
        BY <3>1 DEF IInv, Types, fixVars, sequencerVars, matcherVars, completionVars
      <3>3. Sequenced' = Sequenced /\ Unsequenced' = Unsequenced /\ BoundUpTo' = BoundUpTo
        BY <3>1 DEF Sequenced, Unsequenced, BoundUpTo, fixVars, sequencerVars, matcherVars, completionVars
      <3>. QED  BY <3>1, <3>2, <3>3, MoveKeeps DEF sequencerVars
    <2>. QED  BY <2>1, <2>2, <2>3, <2>4, <2>5, <2>6, <2>7, <2>8, <2>9, <2>10, <2>11, <2>12, <2>13 DEF Next
  <1>. QED  BY <1>1, <1>2, PTL DEF Spec

\* No thread of the executable throws: a command is reserved when the sequencer
\* binds it and sequenced, with its sequence, when the consumer completes it,
\* and sequences do not run out.
THEOREM NoThrow == Spec => []NoThreadThrows
  <1>1. IInv => NoThreadThrows
    BY DEF IInv, NoThreadThrows
  <1>. QED  BY <1>1, Invariance, PTL

\* The path is the two halves, one after the other.
LEMMA PathHalves ==
  ASSUME IInv
  PROVE  LET path == Sequenced \o Unsequenced IN
         /\ Len(path) = Len(Sequenced) + Len(Unsequenced)
         /\ \A i \in 1..(Len(Sequenced) + Len(Unsequenced)) :
              path[i] = IF i <= Len(Sequenced) THEN Sequenced[i] ELSE Unsequenced[i - Len(Sequenced)]
         /\ DOMAIN path = 1..(Len(Sequenced) + Len(Unsequenced))
         /\ DOMAIN Sequenced = 1..Len(Sequenced)
  <1>. DEFINE Both == SequencedCommands \cup StagedCommands
  <1>1. Sequenced \in Seq(SequencedCommands) /\ Unsequenced \in Seq(StagedCommands)
    BY PathTypes DEF IInv
  <1>2. SequencedCommands \subseteq Both /\ StagedCommands \subseteq Both
    OBVIOUS
  <1>. HIDE DEF Both
  <1>3. Sequenced \in Seq(Both) /\ Unsequenced \in Seq(Both)
    BY <1>1, <1>2
  <1>. QED  BY <1>3, ConcatProperties, LenProperties

\* Every first submission is on its way exactly once, in the order of admission
\* and with the sequence of its place in it, until it is completed.
THEOREM PathInOrder == Spec => []PathIsAdmitted
  <1>1. ASSUME IInv PROVE PathIsAdmitted
    <2>. DEFINE done == Cardinality(Completed)
                path == Sequenced \o Unsequenced
    <2>1. /\ Len(Sequenced) \in Nat /\ Len(Unsequenced) \in Nat /\ Len(admitted) \in Nat /\ lastAssignedSequence \in Nat
      BY <1>1, PathTypes DEF IInv
    <2>2. /\ done = Done /\ Done \in Nat /\ Len(admitted) = lastAssignedSequence + Len(Unsequenced)
      BY <1>1 DEF IInv, RecordsFollowPath
    <2>3. Done + Len(Sequenced) = lastAssignedSequence
      BY <2>1, <2>2 DEF Done
    <2>4. /\ Len(path) = Len(Sequenced) + Len(Unsequenced)
          /\ \A i \in 1..(Len(Sequenced) + Len(Unsequenced)) :
               path[i] = IF i <= Len(Sequenced) THEN Sequenced[i] ELSE Unsequenced[i - Len(Sequenced)]
          /\ DOMAIN path = 1..(Len(Sequenced) + Len(Unsequenced)) /\ DOMAIN Sequenced = 1..Len(Sequenced)
      BY <1>1, PathHalves
    <2>. HIDE DEF done, path
    <2>5. Len(path) = Len(admitted) - done
      BY <2>1, <2>2, <2>3, <2>4
    <2>6. ASSUME NEW n \in 1..done
          PROVE  admitted[n] \in Completed /\ records[admitted[n]].sequence = n
      <3>1. n \in 1..Len(admitted) /\ n <= Done
        BY <2>1, <2>2, <2>3
      <3>2. n <= BoundUpTo
        <4>1. CASE pendingCommand # <<>> /\ ~pendingReady
          <5>1. Len(Sequenced) >= 1
            <6>1. Len(pendingCommand) = 1
              BY <1>1, <4>1, SlotHoldsOne DEF IInv, Types
            <6>2. Len(Rest) >= Len(pendingCommand) /\ Sequenced = pendingBatch \o Rest /\ Rest \in Path
              BY <1>1, SequencedFromBatch DEF IInv
            <6>3. Len(Sequenced) = Len(pendingBatch) + Len(Rest) /\ Len(pendingBatch) \in Nat /\ Len(Rest) \in Nat
              <7>1. pendingBatch \in Path
                BY <1>1 DEF IInv, Types, Path
              <7>. QED  BY <6>2, <7>1, ConcatProperties, LenProperties DEF Path
            <6>. QED  BY <6>1, <6>2, <6>3
          <5>. QED  BY <2>1, <2>2, <2>3, <3>1, <4>1, <5>1 DEF BoundUpTo
        <4>2. CASE ~(pendingCommand # <<>> /\ ~pendingReady)
          BY <2>1, <2>2, <2>3, <3>1, <4>2 DEF BoundUpTo
        <4>. QED  BY <4>1, <4>2
      <3>3. records[admitted[n]].state = "COMPLETED" /\ records[admitted[n]].sequence = n
        BY <1>1, <3>1, <3>2 DEF IInv, RecordsFollowPath
      <3>4. admitted[n] \in DOMAIN records
        BY <1>1, <3>1 DEF IInv, IndexIsAdmitted
      <3>. QED  BY <3>3, <3>4 DEF Completed
    <2>7. ASSUME NEW i \in DOMAIN path
          PROVE  path[i].key = admitted[done + i] /\ path[i].body = records[path[i].key].body
      <3>1. CASE i <= Len(Sequenced)
        <4>1. i \in 1..Len(Sequenced) /\ path[i] = Sequenced[i]
          BY <2>1, <2>4, <3>1
        <4>2. Sequenced[i].key = admitted[Done + i] /\ Sequenced[i].body = records[admitted[Done + i]].body
          BY <1>1, <4>1 DEF IInv, PathFollowsIndex
        <4>. QED  BY <2>2, <4>1, <4>2
      <3>2. CASE ~(i <= Len(Sequenced))
        <4>. DEFINE j == i - Len(Sequenced)
        <4>1. j \in 1..Len(Unsequenced) /\ path[i] = Unsequenced[j] /\ lastAssignedSequence + j = Done + i
          BY <2>1, <2>2, <2>3, <2>4, <3>2
        <4>. HIDE DEF j
        <4>2. /\ Unsequenced[j].key = admitted[lastAssignedSequence + j]
              /\ Unsequenced[j].body = records[admitted[lastAssignedSequence + j]].body
          BY <1>1, <4>1 DEF IInv, PathFollowsIndex
        <4>. QED  BY <2>2, <4>1, <4>2
      <3>. QED  BY <3>1, <3>2
    <2>8. ASSUME NEW i \in DOMAIN Sequenced PROVE Sequenced[i].sequence = done + i
      BY <1>1, <2>2, <2>4 DEF IInv, PathFollowsIndex
    <2>. QED  BY <2>5, <2>6, <2>7, <2>8 DEF PathIsAdmitted, done, path
  <1>. QED  BY <1>1, Invariance, PTL

-----------------------------------------------------------------------------
(* The numbers that texts denote.                                          *)

Characters == 0..11

\* f holds the numbers that the beginnings of a text denote.
Beginnings(text, f) ==
  /\ f \in [0..Len(text) -> Nat]
  /\ f[0] = 0
  /\ \A n \in 1..Len(text) : f[n] = 10 * f[n - 1] + text[n]

\* Characters are numbers.
LEMMA CharacterAt ==
  ASSUME NEW text \in Seq(Characters)
  PROVE  Len(text) \in Nat /\ \A n \in 1..Len(text) : text[n] \in Nat
<1>1. Len(text) \in Nat /\ \A n \in 1..Len(text) : text[n] \in Characters
  OBVIOUS
<1> QED BY <1>1 DEF Characters

\* A text denotes the last of these numbers.
LEMMA NumberIs ==
  ASSUME NEW text \in Seq(Characters), NEW f, Beginnings(text, f)
  PROVE  Number(text) = f[Len(text)]
<1> DEFINE l == Len(text)
           F(a) == [n \in 0..l |-> IF n = 0 THEN 0 ELSE 10 * a[n - 1] + text[n]]
           prefix == CHOOSE a : a = F(a)
<1>1. l \in Nat /\ f \in [0..l -> Nat] /\ f[0] = 0 /\ \A n \in 1..l : f[n] = 10 * f[n - 1] + text[n]
  BY DEF Beginnings
<1>2. f = F(f)
  <2>1. ASSUME NEW n \in 0..l PROVE f[n] = IF n = 0 THEN 0 ELSE 10 * f[n - 1] + text[n]
    <3>1. n = 0 \/ n \in 1..l
      BY <1>1
    <3> HIDE DEF l
    <3> QED BY <3>1, <1>1
  <2> HIDE DEF l
  <2> QED BY <2>1, <1>1
<1>3. prefix = F(prefix)
  <2> HIDE DEF F
  <2> QED BY <1>2
<1>4. Number(text) = prefix[l]
  BY DEF Number
<1> HIDE DEF prefix
<1>5. prefix[0] = 0 /\ \A n \in 1..l : prefix[n] = 10 * prefix[n - 1] + text[n]
  <2>1. 0 \in 0..l /\ \A n \in 1..l : n \in 0..l /\ n # 0
    BY <1>1
  <2> QED BY <1>3, <2>1
<1> DEFINE S == {n \in 0..l : prefix[n] = f[n]}
<1>6. 0 \in S
  BY <1>1, <1>5
<1>7. ASSUME NEW n \in 0..(l - 1), n \in S PROVE n + 1 \in S
  <2>1. n + 1 \in 1..l /\ n + 1 \in 0..l /\ (n + 1) - 1 = n
    BY <1>1
  <2> QED BY <2>1, <1>1, <1>5, <1>7
<1>8. l \in S
  <2> HIDE DEF S, l
  <2>1. \A n \in 0..l : n \in S
    BY <1>1, <1>6, <1>7, CountingUp
  <2> QED BY <2>1, <1>1
<1> QED BY <1>4, <1>8

\* Every text has such numbers.
LEMMA BeginningsExist ==
  ASSUME NEW text \in Seq(Characters)
  PROVE  \E f : Beginnings(text, f)
<1> DEFINE l == Len(text)
           step == [p \in Nat \X (1..l) |-> 10 * p[1] + text[p[2]]]
<1>1. l \in Nat /\ \A n \in 1..l : text[n] \in Nat
  BY DEF Characters
<1>2. step \in [Nat \X (1..l) -> Nat]
  BY <1>1
<1>0. PICK f : Solution(f, l, Nat, 0, step)
  <2> HIDE DEF step, l
  <2>1. 0 \in Nat /\ l \in Nat
    BY <1>1
  <2> QED BY <2>1, <1>2, RecursionExists
<1>3. f \in [0..l -> Nat] /\ f[0] = 0 /\ \A n \in 1..l : f[n] = step[<<f[n - 1], n>>]
  BY <1>0 DEF Solution
<1>4. ASSUME NEW n \in 1..l PROVE f[n] = 10 * f[n - 1] + text[n]
  <2>1. n - 1 \in 0..l /\ f[n - 1] \in Nat
    BY <1>1, <1>3
  <2>2. <<f[n - 1], n>> \in Nat \X (1..l)
    BY <2>1
  <2> QED BY <1>3, <2>2
<1> QED BY <1>3, <1>4 DEF Beginnings

\* Powers of ten.
LEMMA PowerIs ==
  ASSUME NEW m \in Nat, NEW f \in [0..m -> Nat], f[0] = 1, \A n \in 1..m : f[n] = 10 * f[n - 1]
  PROVE  TenTo(m) = f[m]
<1> DEFINE F(a) == [k \in 0..m |-> IF k = 0 THEN 1 ELSE 10 * a[k - 1]]
           power == CHOOSE a : a = F(a)
<1>2. f = F(f)
  <2>1. ASSUME NEW n \in 0..m PROVE f[n] = IF n = 0 THEN 1 ELSE 10 * f[n - 1]
    <3>1. n = 0 \/ n \in 1..m
      OBVIOUS
    <3> QED BY <3>1
  <2> QED BY <2>1
<1>3. power = F(power)
  <2> HIDE DEF F
  <2> QED BY <1>2
<1>4. TenTo(m) = power[m]
  BY DEF TenTo
<1> HIDE DEF power
<1>5. power[0] = 1 /\ \A n \in 1..m : power[n] = 10 * power[n - 1]
  <2>1. 0 \in 0..m /\ \A n \in 1..m : n \in 0..m /\ n # 0
    OBVIOUS
  <2> QED BY <1>3, <2>1
<1> DEFINE S == {n \in 0..m : power[n] = f[n]}
<1>6. 0 \in S
  BY <1>5
<1>7. ASSUME NEW n \in 0..(m - 1), n \in S PROVE n + 1 \in S
  <2>1. n + 1 \in 1..m /\ n + 1 \in 0..m /\ (n + 1) - 1 = n
    OBVIOUS
  <2> QED BY <2>1, <1>5, <1>7
<1>8. m \in S
  <2> HIDE DEF S
  <2>1. \A n \in 0..m : n \in S
    BY <1>6, <1>7, CountingUp
  <2> QED BY <2>1
<1> QED BY <1>4, <1>8

\* A power of ten is ten times the one before.
LEMMA Powers ==
  ASSUME NEW n \in Nat
  PROVE  TenTo(n) \in Nat /\ TenTo(n) >= 1 /\ TenTo(0) = 1 /\ TenTo(n + 1) = 10 * TenTo(n)
<1> DEFINE V == {v \in Nat : v >= 1}
           m == n + 1
           step == [p \in V \X (1..m) |-> 10 * p[1]]
<1>1. m \in Nat /\ 1 \in V
  OBVIOUS
<1>2. step \in [V \X (1..m) -> V]
  OBVIOUS
<1>0. PICK f : Solution(f, m, V, 1, step)
  <2> HIDE DEF step, V, m
  <2> QED BY <1>1, <1>2, RecursionExists
<1>3. f \in [0..m -> V] /\ f[0] = 1 /\ \A k \in 1..m : f[k] = step[<<f[k - 1], k>>]
  BY <1>0 DEF Solution
<1>4. ASSUME NEW k \in 1..m PROVE f[k] = 10 * f[k - 1]
  <2>1. k - 1 \in 0..m /\ f[k - 1] \in V
    BY <1>1, <1>3
  <2>2. <<f[k - 1], k>> \in V \X (1..m)
    BY <2>1
  <2>3. step[<<f[k - 1], k>>] = 10 * f[k - 1]
    BY <2>2
  <2> HIDE DEF step
  <2> QED BY <1>3, <2>3
<1>5. ASSUME NEW j \in 0..m PROVE TenTo(j) = f[j] /\ f[j] \in Nat /\ f[j] >= 1
  <2> DEFINE g == [k \in 0..j |-> f[k]]
  <2>1. f[j] \in V /\ j \in Nat
    BY <1>3
  <2>2. g \in [0..j -> Nat] /\ g[0] = 1 /\ g[j] = f[j]
    BY <1>3
  <2>3. ASSUME NEW k \in 1..j PROVE g[k] = 10 * g[k - 1]
    <3>1. k \in 0..j /\ k - 1 \in 0..j /\ k \in 1..m
      OBVIOUS
    <3> QED BY <3>1, <1>4
  <2> HIDE DEF g
  <2>4. TenTo(j) = g[j]
    BY <2>1, <2>2, <2>3, PowerIs
  <2> QED BY <2>1, <2>2, <2>4
<1>6. 0 \in 0..m /\ n \in 0..m /\ n + 1 \in 0..m /\ n + 1 \in 1..m /\ (n + 1) - 1 = n
  OBVIOUS
<1>7. TenTo(0) = f[0] /\ TenTo(n) = f[n] /\ TenTo(n + 1) = f[n + 1] /\ f[n] \in Nat /\ f[n] >= 1
  BY <1>5, <1>6
<1> QED BY <1>3, <1>4, <1>6, <1>7

\* Powers are multiplied by adding exponents.
LEMMA PowersMultiply ==
  ASSUME NEW a \in Nat, NEW b \in Nat
  PROVE  TenTo(a + b) = TenTo(a) * TenTo(b)
<1> DEFINE S == {n \in Nat : TenTo(a + n) = TenTo(a) * TenTo(n)}
<1>1. 0 \in S
  <2>1. TenTo(a) \in Nat /\ TenTo(0) = 1 /\ a + 0 = a
    BY Powers
  <2> QED BY <2>1
<1>2. ASSUME NEW n \in Nat, n \in S PROVE n + 1 \in S
  <2>1. TenTo(a) \in Nat /\ TenTo(n) \in Nat /\ TenTo(n + 1) = 10 * TenTo(n)
    BY Powers
  <2>2. TenTo((a + n) + 1) = 10 * TenTo(a + n)
    BY Powers
  <2>3. a + (n + 1) = (a + n) + 1
    OBVIOUS
  <2>4. TenTo(a + (n + 1)) = 10 * (TenTo(a) * TenTo(n))
    BY <2>2, <2>3, <1>2
  <2>5. ASSUME NEW x \in Nat, NEW y \in Nat PROVE 10 * (x * y) = x * (10 * y)
    OBVIOUS
  <2>6. TenTo(a + (n + 1)) = TenTo(a) * TenTo(n + 1)
    BY <2>1, <2>4, <2>5
  <2> QED BY <2>6
<1>3. b \in S
  <2> HIDE DEF S
  <2> QED BY <1>1, <1>2, AllNumbers
<1> QED BY <1>3

\* Powers grow.
LEMMA PowersGrow ==
  ASSUME NEW a \in Nat, NEW b \in Nat, a <= b
  PROVE  TenTo(a) <= TenTo(b)
<1>1. b - a \in Nat /\ a + (b - a) = b
  OBVIOUS
<1>2. TenTo(b) = TenTo(a) * TenTo(b - a)
  BY <1>1, PowersMultiply
<1>3. TenTo(a) \in Nat /\ TenTo(b - a) \in Nat /\ TenTo(b - a) >= 1
  BY <1>1, Powers
<1>4. ASSUME NEW x \in Nat, NEW y \in Nat, y >= 1 PROVE x <= x * y
  <2>1. PICK z \in Nat : y = 1 + z
    BY <1>4
  <2>2. x * y = x + x * z /\ x * z \in Nat
    BY <2>1
  <2> QED BY <2>2
<1> QED BY <1>2, <1>3, <1>4

\* A text denotes a natural number, zero if and only if it has no other digit.
LEMMA NumberZero ==
  ASSUME NEW text \in Seq(Characters)
  PROVE  Number(text) \in Nat /\ (Number(text) = 0 <=> \A i \in 1..Len(text) : text[i] = 0)
<1> DEFINE l == Len(text)
<1>1. PICK f : Beginnings(text, f)
  BY BeginningsExist
<1>2. Number(text) = f[l]
  BY <1>1, NumberIs
<1>3. l \in Nat /\ f \in [0..l -> Nat] /\ f[0] = 0 /\ \A n \in 1..l : f[n] = 10 * f[n - 1] + text[n]
  BY <1>1 DEF Beginnings
<1> DEFINE S == {n \in 0..l : f[n] = 0 <=> \A i \in 1..n : text[i] = 0}
<1>4. 0 \in S
  BY <1>3
<1>5. ASSUME NEW n \in 0..(l - 1), n \in S PROVE n + 1 \in S
  <2>1. n + 1 \in 1..l /\ n + 1 \in 0..l /\ (n + 1) - 1 = n /\ n \in 0..l
    BY <1>3
  <2>2. f[n + 1] = 10 * f[n] + text[n + 1] /\ f[n] \in Nat /\ text[n + 1] \in Nat
    BY <2>1, <1>3, CharacterAt
  <2>3. f[n + 1] = 0 <=> f[n] = 0 /\ text[n + 1] = 0
    BY <2>2
  <2>4. \A i \in 1..(n + 1) : i \in 1..n \/ i = n + 1
    OBVIOUS
  <2>5. \A i \in 1..n : i \in 1..(n + 1)
    OBVIOUS
  <2>6. n + 1 \in 1..(n + 1)
    OBVIOUS
  <2>7. f[n + 1] = 0 <=> \A i \in 1..(n + 1) : text[i] = 0
    BY <2>3, <2>4, <2>5, <2>6, <1>5
  <2> HIDE DEF l
  <2> QED BY <2>1, <2>7
<1>6. l \in S
  <2> HIDE DEF S, l
  <2>1. \A n \in 0..l : n \in S
    BY <1>3, <1>4, <1>5, CountingUp
  <2> QED BY <2>1, <1>3
<1> QED BY <1>2, <1>3, <1>6

\* Digits are characters.
LEMMA DigitText ==
  ASSUME NEW text \in Seq(Digits)
  PROVE  text \in Seq(Characters)
<1>1. text \in [1..Len(text) -> Digits] /\ Len(text) \in Nat
  BY LenProperties
<1>2. \A n \in 1..Len(text) : text[n] \in Characters
  BY <1>1 DEF Digits, Characters
<1>3. text \in [1..Len(text) -> Characters]
  BY <1>1, <1>2
<1> QED BY <1>1, <1>3, SeqDef

\* As many digits as a text has are enough for its number.
LEMMA BeginningsBelow ==
  ASSUME NEW text \in Seq(Digits), NEW f, Beginnings(text, f)
  PROVE  \A n \in 0..Len(text) : f[n] < TenTo(n)
<1> DEFINE l == Len(text)
<1>1. l \in Nat /\ f \in [0..l -> Nat] /\ f[0] = 0 /\ \A n \in 1..l : f[n] = 10 * f[n - 1] + text[n]
  BY DEF Beginnings
<1> DEFINE S == {n \in 0..l : f[n] < TenTo(n)}
<1>2. 0 \in S
  <2>1. TenTo(0) = 1
    BY Powers
  <2> QED BY <2>1, <1>1
<1>3. ASSUME NEW n \in 0..(l - 1), n \in S PROVE n + 1 \in S
  <2>1. n + 1 \in 1..l /\ n + 1 \in 0..l /\ (n + 1) - 1 = n /\ n \in 0..l /\ n \in Nat
    BY <1>1
  <2>2. f[n + 1] = 10 * f[n] + text[n + 1] /\ f[n] \in Nat /\ text[n + 1] \in 0..9
    BY <2>1, <1>1 DEF Digits
  <2>3. TenTo(n + 1) = 10 * TenTo(n) /\ TenTo(n) \in Nat
    BY <2>1, Powers
  <2>4. f[n] < TenTo(n)
    BY <1>3
  <2>5. f[n + 1] < TenTo(n + 1)
    BY <2>2, <2>3, <2>4
  <2> HIDE DEF l
  <2> QED BY <2>1, <2>5
<1>4. \A n \in 0..l : n \in S
  <2> HIDE DEF S, l
  <2> QED BY <1>1, <1>2, <1>3, CountingUp
<1> QED BY <1>4

\* A number is below the power of ten for its digits.
LEMMA NumberBelow ==
  ASSUME NEW text \in Seq(Digits)
  PROVE  Number(text) < TenTo(Len(text))
<1>1. text \in Seq(Characters) /\ Len(text) \in 0..Len(text)
  BY DigitText
<1>2. PICK f : Beginnings(text, f)
  BY <1>1, BeginningsExist
<1>3. \A n \in 0..Len(text) : f[n] < TenTo(n)
  BY <1>2, BeginningsBelow
<1> QED BY <1>1, <1>2, <1>3, NumberIs

\* A text after another one shifts it to the left.
LEMMA NumberCat ==
  ASSUME NEW u \in Seq(Characters), NEW v \in Seq(Characters)
  PROVE  Number(u \o v) = Number(u) * TenTo(Len(v)) + Number(v)
<1> DEFINE w == u \o v
           k == Len(u)
           l == Len(v)
<1>1. w \in Seq(Characters) /\ Len(w) = k + l /\ k \in Nat /\ l \in Nat
  BY ConcatProperties, LenProperties
<1>2. (\A n \in 1..k : w[n] = u[n]) /\ (\A n \in 1..l : w[k + n] = v[n])
  BY ConcatProperties, LenProperties
<1>3. PICK f : Beginnings(u, f)
  BY BeginningsExist
<1>4. PICK g : Beginnings(v, g)
  BY BeginningsExist
<1>5. PICK h : Beginnings(w, h)
  <2> HIDE DEF w
  <2> QED BY <1>1, BeginningsExist
<1>6. Number(u) = f[k] /\ Number(v) = g[l]
  BY <1>3, <1>4, NumberIs
<1>7. Number(w) = h[k + l]
  <2> HIDE DEF w
  <2> QED BY <1>1, <1>5, NumberIs
<1>8. f \in [0..k -> Nat] /\ f[0] = 0 /\ \A n \in 1..k : f[n] = 10 * f[n - 1] + u[n]
  BY <1>3 DEF Beginnings
<1>9. g \in [0..l -> Nat] /\ g[0] = 0 /\ \A n \in 1..l : g[n] = 10 * g[n - 1] + v[n]
  BY <1>4 DEF Beginnings
<1>10. h \in [0..(k + l) -> Nat] /\ h[0] = 0 /\ \A n \in 1..(k + l) : h[n] = 10 * h[n - 1] + w[n]
  BY <1>1, <1>5 DEF Beginnings
<1> HIDE DEF w
<1>11. h[k] = f[k]
  <2> DEFINE S == {n \in 0..k : h[n] = f[n]}
  <2>1. 0 \in S
    BY <1>1, <1>8, <1>10
  <2>2. ASSUME NEW n \in 0..(k - 1), n \in S PROVE n + 1 \in S
    <3>1. n + 1 \in 1..k /\ n + 1 \in 0..k /\ (n + 1) - 1 = n /\ n + 1 \in 1..(k + l)
      BY <1>1
    <3>2. h[n + 1] = 10 * h[n] + w[n + 1] /\ f[n + 1] = 10 * f[n] + u[n + 1] /\ w[n + 1] = u[n + 1]
      BY <3>1, <1>2, <1>8, <1>10
    <3> HIDE DEF k, l
    <3> QED BY <3>1, <3>2, <2>2
  <2>3. k \in S
    <3> HIDE DEF S, k
    <3>1. \A n \in 0..k : n \in S
      BY <1>1, <2>1, <2>2, CountingUp
    <3> QED BY <3>1, <1>1
  <2> QED BY <2>3
<1> DEFINE S == {n \in 0..l : h[k + n] = f[k] * TenTo(n) + g[n]}
<1>12. f[k] \in Nat
  <2>1. k \in 0..k /\ f \in [0..k -> Nat]
    BY <1>1, <1>8
  <2> QED BY <2>1
<1>13. 0 \in S
  <2>0. TenTo(0) = 1
    BY Powers
  <2>1. TenTo(0) = 1 /\ k + 0 = k /\ f[k] * 1 + 0 = f[k]
    BY <2>0, <1>1, <1>12
  <2> HIDE DEF k, l
  <2> QED BY <2>1, <1>1, <1>9, <1>11
<1>14. ASSUME NEW n \in 0..(l - 1), n \in S PROVE n + 1 \in S
  <2>1. /\ n + 1 \in 1..l /\ n + 1 \in 0..l /\ n \in 0..l /\ (n + 1) - 1 = n /\ n \in Nat
        /\ k + (n + 1) \in 1..(k + l) /\ (k + (n + 1)) - 1 = k + n
    BY <1>1
  <2>2. h[k + (n + 1)] = 10 * h[k + n] + w[k + (n + 1)]
    BY <2>1, <1>10
  <2>3. g[n + 1] = 10 * g[n] + v[n + 1] /\ w[k + (n + 1)] = v[n + 1] /\ g[n] \in Nat /\ v[n + 1] \in Nat
    BY <2>1, <1>2, <1>9, CharacterAt
  <2>4. TenTo(n) \in Nat /\ TenTo(n + 1) = 10 * TenTo(n)
    BY <2>1, Powers
  <2>5. h[k + n] = f[k] * TenTo(n) + g[n]
    BY <1>14
  <2>6. ASSUME NEW a \in Nat, NEW t \in Nat, NEW b \in Nat, NEW d \in Nat
        PROVE  10 * (a * t + b) + d = a * (10 * t) + (10 * b + d)
    OBVIOUS
  <2>7. 10 * (f[k] * TenTo(n) + g[n]) + v[n + 1] = f[k] * (10 * TenTo(n)) + (10 * g[n] + v[n + 1])
    <3> HIDE DEF k
    <3> QED BY <2>3, <2>4, <2>6, <1>12
  <2>8. h[k + (n + 1)] = f[k] * TenTo(n + 1) + g[n + 1]
    <3> HIDE DEF k
    <3> QED BY <2>2, <2>3, <2>4, <2>5, <2>7
  <2> HIDE DEF k, l
  <2> QED BY <2>1, <2>8
<1>15. l \in S
  <2> HIDE DEF S, l
  <2>1. \A n \in 0..l : n \in S
    BY <1>1, <1>13, <1>14, CountingUp
  <2> QED BY <2>1, <1>1
<1> QED BY <1>6, <1>7, <1>11, <1>15 DEF w

-----------------------------------------------------------------------------
(* The conversions.                                                        *)

\* What does not reach the width does not wrap.
LEMMA NoWrap ==
  ASSUME NEW n \in 0..MaxUint
  PROVE  Wrap(n) = n
BY ParserAssumption DEF Wrap

\* The test on quotient and remainder is the test on the value with its next digit.
LEMMA FitsIs ==
  ASSUME NEW value \in Nat, NEW digit \in Digits, NEW maximum \in Nat
  PROVE  NextDigitFits(value, digit, maximum) <=> 10 * value + digit <= maximum
BY DEF NextDigitFits, Digits

\* The loop over a text finds its number, if there is one and it is not too large.
LEMMA DigitLoopIs ==
  ASSUME NEW text \in Seq(Characters), NEW maximum \in 0..MaxUint
  PROVE  DigitLoop(text, maximum) = IF (\A i \in 1..Len(text) : text[i] \in Digits) /\ Number(text) <= maximum
                                    THEN Number(text) ELSE Rejected
<1> DEFINE l == Len(text)
           TakeDigit(value, character) ==
             IF value = Rejected \/ character \notin Digits THEN Rejected
             ELSE IF ~NextDigitFits(value, character, maximum) THEN Rejected
             ELSE Wrap(value * 10 + character)
           F(a) == [n \in 0..l |-> IF n = 0 THEN 0 ELSE TakeDigit(a[n - 1], text[n])]
           after == CHOOSE a : a = F(a)
<1>1. PICK f : Beginnings(text, f)
  BY BeginningsExist
<1>2. Number(text) = f[l]
  BY <1>1, NumberIs
<1>3. /\ l \in Nat /\ f \in [0..l -> Nat] /\ f[0] = 0 /\ \A n \in 1..l : f[n] = 10 * f[n - 1] + text[n]
      /\ MaxUint \in Nat /\ maximum \in Nat
  BY <1>1, ParserAssumption DEF Beginnings
<1> DEFINE Good(n) == (\A i \in 1..n : text[i] \in Digits) /\ f[n] <= maximum
           Value(n) == IF Good(n) THEN f[n] ELSE Rejected
           closed == [n \in 0..l |-> Value(n)]
<1>4. Value(0) = 0
  BY <1>3
<1>5. ASSUME NEW n \in 1..l PROVE Value(n) = TakeDigit(Value(n - 1), text[n])
  <2>0. n - 1 \in 0..l /\ n \in 0..l
    BY <1>3
  <2>1. n - 1 \in 0..l /\ n \in 0..l /\ f[n - 1] \in Nat /\ text[n] \in Nat /\ f[n] = 10 * f[n - 1] + text[n]
    BY <2>0, <1>3, CharacterAt
  <2>2. (\A i \in 1..n : text[i] \in Digits) <=> (\A i \in 1..(n - 1) : text[i] \in Digits) /\ text[n] \in Digits
    <3>1. \A i \in 1..n : i \in 1..(n - 1) \/ i = n
      OBVIOUS
    <3>2. n \in 1..n /\ \A i \in 1..(n - 1) : i \in 1..n
      OBVIOUS
    <3> QED BY <3>1, <3>2
  <2>3. Good(n) => Good(n - 1) /\ text[n] \in Digits
    BY <2>1, <2>2, <1>3
  <2>4. f[n - 1] # Rejected
    BY <2>1 DEF Rejected
  <2>5. CASE ~Good(n - 1) \/ text[n] \notin Digits
    <3> HIDE DEF Good
    <3> QED BY <2>3, <2>5, <2>4
  <2>6. CASE Good(n - 1) /\ text[n] \in Digits
    <3>1. NextDigitFits(f[n - 1], text[n], maximum) <=> f[n] <= maximum
      BY <2>1, <2>6, <1>3, FitsIs
    <3>2. Good(n) <=> f[n] <= maximum
      BY <2>2, <2>6
    <3>3. f[n] <= maximum => Wrap(f[n - 1] * 10 + text[n]) = f[n]
      <4>1. f[n - 1] * 10 + text[n] = f[n] /\ (f[n] <= maximum => f[n] \in 0..MaxUint)
        BY <2>1, <1>3
      <4> QED BY <4>1, NoWrap
    <3> HIDE DEF Good
    <3> QED BY <2>4, <2>6, <3>1, <3>2, <3>3
  <2> HIDE DEF Good
  <2> QED BY <2>5, <2>6
<1> HIDE DEF Value
<1>6. closed = F(closed)
  <2>1. ASSUME NEW n \in 0..l, n # 0 PROVE closed[n] = TakeDigit(closed[n - 1], text[n])
    <3>1. n \in 1..l /\ n - 1 \in 0..l
      BY <1>3, <2>1
    <3>2. closed[n - 1] = Value(n - 1) /\ closed[n] = Value(n)
      BY <3>1
    <3> HIDE DEF closed, TakeDigit
    <3> QED BY <3>1, <3>2, <1>5
  <2>2. closed[0] = 0
    BY <1>3, <1>4
  <2> HIDE DEF TakeDigit
  <2> QED BY <2>1, <2>2
<1>7. after = F(after)
  <2> HIDE DEF closed, F
  <2> QED BY <1>6
<1>8. DigitLoop(text, maximum) = after[l]
  BY DEF DigitLoop
<1> HIDE DEF after
<1>9. after[0] = 0 /\ \A n \in 1..l : after[n] = TakeDigit(after[n - 1], text[n])
  <2>1. 0 \in 0..l /\ \A n \in 1..l : n \in 0..l /\ n # 0
    BY <1>3
  <2> HIDE DEF TakeDigit
  <2> QED BY <1>7, <2>1
<1> HIDE DEF TakeDigit
<1> DEFINE S == {n \in 0..l : after[n] = Value(n)}
<1>10. 0 \in S
  BY <1>3, <1>4, <1>9
<1>11. ASSUME NEW n \in 0..(l - 1), n \in S PROVE n + 1 \in S
  <2>1. n + 1 \in 1..l /\ n + 1 \in 0..l /\ (n + 1) - 1 = n
    BY <1>3
  <2>2. after[n + 1] = TakeDigit(after[n], text[n + 1]) /\ Value(n + 1) = TakeDigit(Value(n), text[n + 1])
    BY <2>1, <1>5, <1>9
  <2> HIDE DEF l
  <2> QED BY <2>1, <2>2, <1>11
<1>12. l \in S
  <2> HIDE DEF S, l
  <2>1. \A n \in 0..l : n \in S
    BY <1>3, <1>10, <1>11, CountingUp
  <2> QED BY <2>1, <1>3
<1>13. DigitLoop(text, maximum) = Value(l)
  BY <1>8, <1>12
<1> QED BY <1>13, <1>2 DEF Value

\* powerOfTen computes the power or reports that it does not fit.
LEMMA PowerOfTenIs ==
  ASSUME NEW exponent \in Nat
  PROVE  powerOfTen(exponent) = IF TenTo(exponent) <= MaxUint THEN TenTo(exponent) ELSE Internal
<1> DEFINE l == exponent
           Times10(value) == IF value = Internal \/ value > MaxUint \div 10 THEN Internal ELSE Wrap(value * 10)
           F(a) == [n \in 0..l |-> IF n = 0 THEN 1 ELSE Times10(a[n - 1])]
           after == CHOOSE a : a = F(a)
           Value(n) == IF TenTo(n) <= MaxUint THEN TenTo(n) ELSE Internal
           closed == [n \in 0..l |-> Value(n)]
<1>1. l \in Nat /\ MaxUint \in Nat /\ MaxUint >= 10
  BY ParserAssumption
<1>2. Value(0) = 1
  <2>1. TenTo(0) = 1
    BY Powers
  <2> QED BY <2>1, <1>1
<1>3. ASSUME NEW n \in Nat PROVE Value(n + 1) = Times10(Value(n))
  <2>1. TenTo(n) \in Nat /\ TenTo(n + 1) = 10 * TenTo(n) /\ TenTo(n) >= 1
    BY Powers
  <2>2. PICK t \in Nat : t = TenTo(n)
    BY <2>1
  <2>3. TenTo(n + 1) = 10 * t /\ TenTo(n) = t /\ t # Internal
    BY <2>1, <2>2 DEF Internal
  <2>4. t > MaxUint \div 10 <=> 10 * t > MaxUint
    BY <1>1
  <2>5. 10 * t <= MaxUint => Wrap(t * 10) = 10 * t
    <3>1. t * 10 = 10 * t /\ (10 * t <= MaxUint => t * 10 \in 0..MaxUint)
      BY <1>1
    <3> QED BY <3>1, NoWrap
  <2>6. t > MaxUint => 10 * t > MaxUint
    BY <1>1
  <2>7. ~(10 * t <= MaxUint) <=> 10 * t > MaxUint
    BY <1>1
  <2>8. ~(t <= MaxUint) <=> t > MaxUint
    BY <1>1
  <2> QED BY <2>3, <2>4, <2>5, <2>6, <2>7, <2>8
<1> HIDE DEF Value, l, Times10
<1>4. ASSUME NEW n \in 1..l PROVE Value(n) = Times10(Value(n - 1))
  <2>1. n - 1 \in Nat /\ (n - 1) + 1 = n
    BY <1>1
  <2>2. Value((n - 1) + 1) = Times10(Value(n - 1))
    BY <2>1, <1>3
  <2> QED BY <2>1, <2>2
<1>6. closed = F(closed)
  <2>1. ASSUME NEW n \in 0..l, n # 0 PROVE closed[n] = Times10(closed[n - 1])
    <3>1. n \in 1..l /\ n - 1 \in 0..l
      BY <1>1, <2>1
    <3>2. closed[n - 1] = Value(n - 1) /\ closed[n] = Value(n)
      BY <3>1
    <3> HIDE DEF closed
    <3> QED BY <3>1, <3>2, <1>4
  <2>2. closed[0] = 1
    BY <1>1, <1>2
  <2> QED BY <2>1, <2>2
<1>7. after = F(after)
  <2> HIDE DEF closed, F
  <2> QED BY <1>6
<1>8. powerOfTen(exponent) = after[l]
  BY DEF powerOfTen, l, Times10
<1> HIDE DEF after
<1>9. after[0] = 1 /\ \A n \in 1..l : after[n] = Times10(after[n - 1])
  <2>1. 0 \in 0..l /\ \A n \in 1..l : n \in 0..l /\ n # 0
    BY <1>1
  <2> QED BY <1>7, <2>1
<1> DEFINE S == {n \in 0..l : after[n] = Value(n)}
<1>10. 0 \in S
  BY <1>1, <1>2, <1>9
<1>11. ASSUME NEW n \in 0..(l - 1), n \in S PROVE n + 1 \in S
  <2>1. n + 1 \in 1..l /\ n + 1 \in 0..l /\ (n + 1) - 1 = n
    BY <1>1
  <2>2. after[n + 1] = Times10(after[n]) /\ Value(n + 1) = Times10(Value(n))
    BY <2>1, <1>4, <1>9
  <2> QED BY <2>1, <2>2, <1>11
<1>12. l \in S
  <2> HIDE DEF S
  <2>1. \A n \in 0..l : n \in S
    BY <1>1, <1>10, <1>11, CountingUp
  <2> QED BY <2>1, <1>1
<1> QED BY <1>8, <1>12 DEF Value, l

\* A fraction cut or filled up with zeros to the length of the scale.
Padded(fraction, scale) == [i \in 1..scale |-> IF i <= Len(fraction) THEN fraction[i] ELSE 0]

\* ScaledFraction rejects the fraction.
Unscalable(fraction, scale) ==
  \E i \in DOMAIN fraction : fraction[i] \notin Digits \/ (i > scale /\ fraction[i] # 0)

\* A fraction without other characters is filled up to digits.
LEMMA PaddedType ==
  ASSUME NEW fraction \in Seq(Characters), NEW scale \in Nat, \A i \in 1..Len(fraction) : fraction[i] \in Digits
  PROVE  Padded(fraction, scale) \in Seq(Digits) /\ Len(Padded(fraction, scale)) = scale
<1>1. Len(fraction) \in Nat
  BY CharacterAt
<1>2. ASSUME NEW i \in 1..scale
      PROVE  (IF i <= Len(fraction) THEN fraction[i] ELSE 0) \in Digits
  <2>1. 0 \in Digits
    BY DEF Digits
  <2>2. CASE i <= Len(fraction)
    <3>1. i \in 1..Len(fraction)
      BY <1>1, <2>2
    <3> QED BY <3>1, <2>2
  <2>3. CASE ~(i <= Len(fraction))
    BY <2>1, <2>3
  <2> QED BY <2>2, <2>3
<1>3. Padded(fraction, scale) \in [1..scale -> Digits]
  BY <1>2 DEF Padded
<1>4. Padded(fraction, scale) \in Seq(Digits)
  BY <1>3, SeqDef
<1> QED BY <1>3, <1>4, LenProperties

\* The loop over the scale computes the number of the filled up fraction, which
\* is below the scale factor and does not wrap.
LEMMA ScaledFractionIs ==
  ASSUME NEW fraction \in Seq(Characters), NEW scale \in Nat, TenTo(scale) <= MaxUint
  PROVE  ScaledFraction(fraction, scale) = IF Unscalable(fraction, scale) THEN Rejected
                                           ELSE Number(Padded(fraction, scale))
<1>1. CASE Unscalable(fraction, scale)
  BY <1>1 DEF Unscalable, ScaledFraction
<1>2. CASE ~Unscalable(fraction, scale)
  <2> DEFINE digit(n) == IF n <= Len(fraction) THEN fraction[n] ELSE 0
             F(a) == [n \in 0..scale |-> IF n = 0 THEN 0 ELSE Wrap(a[n - 1] * 10 + digit(n))]
             after == CHOOSE a : a = F(a)
             p == Padded(fraction, scale)
  <2>1. \A i \in 1..Len(fraction) : fraction[i] \in Digits
    BY <1>2 DEF Unscalable
  <2>2. p \in Seq(Digits) /\ Len(p) = scale /\ p \in Seq(Characters)
    BY <2>1, PaddedType, DigitText
  <2>3. \A n \in 1..scale : p[n] = digit(n) /\ p[n] \in 0..9
    <3>1. \A n \in 1..scale : p[n] = digit(n)
      BY DEF Padded
    <3>2. \A n \in 1..scale : p[n] \in Digits
      <4> HIDE DEF p
      <4> QED BY <2>2
    <3> QED BY <3>1, <3>2 DEF Digits
  <2> HIDE DEF p
  <2>4. PICK f : Beginnings(p, f)
    BY <2>2, BeginningsExist
  <2>5. Number(p) = f[scale]
    BY <2>2, <2>4, NumberIs
  <2>6. f \in [0..scale -> Nat] /\ f[0] = 0 /\ \A n \in 1..scale : f[n] = 10 * f[n - 1] + p[n]
    BY <2>2, <2>4 DEF Beginnings
  <2>7. \A n \in 0..scale : f[n] < TenTo(n)
    BY <2>2, <2>4, BeginningsBelow
  <2>8. ASSUME NEW n \in 1..scale PROVE f[n] = Wrap(f[n - 1] * 10 + digit(n))
    <3>1. n \in 0..scale /\ n - 1 \in 0..scale /\ n \in Nat /\ n <= scale
      OBVIOUS
    <3>2. f[n - 1] \in Nat /\ f[n] \in Nat /\ f[n] = 10 * f[n - 1] + digit(n) /\ digit(n) \in 0..9
      BY <3>1, <2>3, <2>6
    <3>3. f[n] < TenTo(n) /\ TenTo(n) <= TenTo(scale) /\ TenTo(n) \in Nat /\ TenTo(scale) \in Nat /\ MaxUint \in Nat
      BY <3>1, <2>7, PowersGrow, Powers, ParserAssumption
    <3> HIDE DEF digit
    <3>4. f[n] \in 0..MaxUint /\ f[n - 1] * 10 + digit(n) = f[n]
      BY <3>2, <3>3
    <3> QED BY <3>4, NoWrap
  <2>9. f = F(f)
    <3>1. ASSUME NEW n \in 0..scale PROVE f[n] = IF n = 0 THEN 0 ELSE Wrap(f[n - 1] * 10 + digit(n))
      <4>1. n = 0 \/ n \in 1..scale
        OBVIOUS
      <4> HIDE DEF digit
      <4> QED BY <4>1, <2>6, <2>8
    <3> HIDE DEF digit
    <3> QED BY <3>1, <2>6
  <2>10. after = F(after)
    <3> HIDE DEF F
    <3> QED BY <2>9
  <2>11. ScaledFraction(fraction, scale) = after[scale]
    BY <1>2 DEF Unscalable, ScaledFraction
  <2> HIDE DEF after, digit
  <2>12. after[0] = 0 /\ \A n \in 1..scale : after[n] = Wrap(after[n - 1] * 10 + digit(n))
    <3>1. 0 \in 0..scale /\ \A n \in 1..scale : n \in 0..scale /\ n # 0
      OBVIOUS
    <3> QED BY <2>10, <3>1
  <2> DEFINE S == {n \in 0..scale : after[n] = f[n]}
  <2>13. 0 \in S
    BY <2>6, <2>12
  <2>14. ASSUME NEW n \in 0..(scale - 1), n \in S PROVE n + 1 \in S
    <3>1. n + 1 \in 1..scale /\ n + 1 \in 0..scale /\ (n + 1) - 1 = n
      OBVIOUS
    <3>2. after[n + 1] = Wrap(after[n] * 10 + digit(n + 1)) /\ f[n + 1] = Wrap(f[n] * 10 + digit(n + 1))
      BY <3>1, <2>8, <2>12
    <3> QED BY <3>1, <3>2, <2>14
  <2>15. scale \in S
    <3> HIDE DEF S
    <3>1. \A n \in 0..scale : n \in S
      BY <2>13, <2>14, CountingUp
    <3> QED BY <3>1
  <2> QED BY <1>2, <2>5, <2>11, <2>15 DEF p
<1> QED BY <1>1, <1>2

-----------------------------------------------------------------------------
(* Division.                                                               *)

LEMMA Division ==
  ASSUME NEW a \in Nat, NEW b \in Nat \ {0}
  PROVE  /\ a \div b \in Nat /\ a % b \in Nat /\ a % b < b
         /\ a = b * (a \div b) + (a % b)
OBVIOUS

\* Quotient and remainder are determined.
LEMMA DivisionIs ==
  ASSUME NEW b \in Nat \ {0}, NEW q \in Nat, NEW r \in Nat, r < b
  PROVE  (b * q + r) \div b = q /\ (b * q + r) % b = r
<1> DEFINE a == b * q + r
<1>1. PICK x \in Nat : x = a
  OBVIOUS
<1>2. PICK y \in Nat : y = x \div b
  BY Division
<1>3. PICK z \in Nat : z = x % b
  BY Division
<1>4. z < b /\ b * y + z = b * q + r
  BY <1>1, <1>2, <1>3, Division
<1>5. ~(y < q)
  <2> SUFFICES ASSUME y < q PROVE FALSE
    OBVIOUS
  <2>1. PICK d \in Nat : q = y + 1 + d
    OBVIOUS
  <2>2. b * q = b * y + b + b * d /\ b * d \in Nat
    BY <2>1
  <2> QED BY <2>2, <1>4
<1>6. ~(q < y)
  <2> SUFFICES ASSUME q < y PROVE FALSE
    OBVIOUS
  <2>1. PICK d \in Nat : y = q + 1 + d
    OBVIOUS
  <2>2. b * y = b * q + b + b * d /\ b * d \in Nat
    BY <2>1
  <2> QED BY <2>2, <1>4
<1>7. y = q
  BY <1>5, <1>6
<1>8. z = r
  BY <1>7, <1>4
<1> QED BY <1>1, <1>2, <1>3, <1>7, <1>8

\* A bound on a factor is a bound on the product.
LEMMA DivisionBound ==
  ASSUME NEW a \in Nat, NEW m \in Nat, NEW b \in Nat \ {0}
  PROVE  a <= m \div b <=> a * b <= m
<1>1. PICK q \in Nat : q = m \div b
  BY Division
<1>2. PICK r \in Nat : r = m % b
  BY Division
<1>3. m = b * q + r /\ r < b
  BY <1>1, <1>2, Division
<1>4. ASSUME a <= q PROVE a * b <= m
  <2>1. PICK d \in Nat : q = a + d
    BY <1>4
  <2>2. b * q = a * b + b * d /\ b * d \in Nat /\ a * b \in Nat
    BY <2>1
  <2> QED BY <2>2, <1>3
<1>5. ASSUME ~(a <= q) PROVE ~(a * b <= m)
  <2>1. PICK d \in Nat : a = q + 1 + d
    BY <1>5
  <2>2. a * b = b * q + b + b * d /\ b * d \in Nat /\ b * q \in Nat
    BY <2>1
  <2> QED BY <2>2, <1>3
<1> QED BY <1>1, <1>4, <1>5

\* A common factor does not change the quotient nor whether it is exact.
LEMMA CommonFactor ==
  ASSUME NEW a \in Nat, NEW b \in Nat \ {0}, NEW k \in Nat \ {0}
  PROVE  (a * k) \div (b * k) = a \div b /\ ((a * k) % (b * k) = 0 <=> a % b = 0)
<1>1. PICK q \in Nat : q = a \div b
  BY Division
<1>2. PICK r \in Nat : r = a % b
  BY Division
<1>3. a = b * q + r /\ r < b
  BY <1>1, <1>2, Division
<1>4. PICK c \in Nat \ {0} : c = b * k
  OBVIOUS
<1>5. PICK t \in Nat : t = r * k
  OBVIOUS
<1>6. a * k = c * q + t
  BY <1>3, <1>4, <1>5
<1>7. t < c
  <2>1. PICK d \in Nat : b = r + 1 + d
    BY <1>3
  <2>2. c = t + k + d * k /\ d * k \in Nat
    BY <2>1, <1>4, <1>5
  <2> QED BY <2>2
<1>8. t = 0 <=> r = 0
  BY <1>5
<1>9. (c * q + t) \div c = q /\ (c * q + t) % c = t
  BY <1>7, DivisionIs
<1> QED BY <1>1, <1>2, <1>4, <1>6, <1>8, <1>9

-----------------------------------------------------------------------------
(* Fractions and the scale.                                                *)

\* A sequence is what it is up to a place, followed by the rest.
LEMMA CutAt ==
  ASSUME NEW S, NEW s \in Seq(S), NEW n \in 0..Len(s)
  PROVE  LET u == SubSeq(s, 1, n)
             v == SubSeq(s, n + 1, Len(s))
         IN  /\ u \in Seq(S) /\ Len(u) = n /\ \A i \in 1..n : u[i] = s[i]
             /\ v \in Seq(S) /\ Len(v) = Len(s) - n /\ \A i \in 1..(Len(s) - n) : v[i] = s[n + i]
             /\ s = u \o v
<1> DEFINE u == SubSeq(s, 1, n)
           v == SubSeq(s, n + 1, Len(s))
           d == Len(s) - n
<1>1. Len(s) \in Nat /\ n \in Nat /\ d \in Nat /\ n + d = Len(s) /\ \A i \in 1..Len(s) : s[i] \in S
  OBVIOUS
<1>2. 1 \in Int /\ n \in Int /\ n + 1 \in Int /\ Len(s) \in Int
  BY <1>1
<1>3. (\A i \in 1..n : s[i] \in S) /\ \A i \in (n + 1)..Len(s) : s[i] \in S
  BY <1>1
<1>4. /\ u \in Seq(S) /\ Len(u) = IF 1 <= n THEN n - 1 + 1 ELSE 0
      /\ \A i \in 1..(n - 1 + 1) : u[i] = s[1 + i - 1]
  BY <1>2, <1>3, SubSeqProperties
<1>5. /\ v \in Seq(S) /\ Len(v) = IF n + 1 <= Len(s) THEN Len(s) - (n + 1) + 1 ELSE 0
      /\ \A i \in 1..(Len(s) - (n + 1) + 1) : v[i] = s[n + 1 + i - 1]
  BY <1>2, <1>3, SubSeqProperties
<1> HIDE DEF u, v
<1>6. u \in Seq(S) /\ Len(u) = n /\ \A i \in 1..n : u[i] = s[i]
  <2>0. ASSUME NEW i \in Int PROVE 1 + i - 1 = i
    OBVIOUS
  <2>1. n - 1 + 1 = n /\ \A i \in 1..n : 1 + i - 1 = i
    BY <1>1, <2>0
  <2>2. Len(u) = n
    BY <1>1, <1>4
  <2> QED BY <1>4, <2>1, <2>2
<1>7. v \in Seq(S) /\ Len(v) = d /\ \A i \in 1..d : v[i] = s[n + i]
  <2>1. Len(s) - (n + 1) + 1 = d /\ \A i \in 1..d : n + 1 + i - 1 = n + i
    BY <1>1
  <2>2. Len(v) = d
    <3>1. Len(v) = IF n + 1 <= Len(s) THEN Len(s) - (n + 1) + 1 ELSE 0
      BY <1>5
    <3>2. PICK l \in Nat : l = Len(s)
      BY <1>1
    <3>3. n \in Nat /\ n <= l /\ d = l - n
      BY <1>1, <3>2
    <3> HIDE DEF d
    <3>4. Len(v) = IF n + 1 <= l THEN l - (n + 1) + 1 ELSE 0
      BY <3>1, <3>2
    <3> QED BY <3>3, <3>4
  <2> HIDE DEF d
  <2> QED BY <1>5, <2>1, <2>2
<1>8. s = u \o v
  <2> HIDE DEF d
  <2>1. /\ u \o v \in Seq(S) /\ Len(u \o v) = Len(u) + Len(v)
        /\ \A i \in 1..(Len(u) + Len(v)) : (u \o v)[i] = IF i <= Len(u) THEN u[i] ELSE v[i - Len(u)]
    BY <1>6, <1>7, ConcatProperties
  <2>2. \A i \in 1..(n + d) : (u \o v)[i] = IF i <= n THEN u[i] ELSE v[i - n]
    BY <2>1, <1>6, <1>7
  <2>3. ASSUME NEW i \in 1..Len(s) PROVE s[i] = (u \o v)[i]
    <3>1. i \in 1..(n + d)
      BY <1>1
    <3>2. CASE i <= n
      <4>1. i \in 1..n
        BY <3>2, <1>1
      <4> QED BY <3>1, <3>2, <4>1, <2>2, <1>6
    <3>3. CASE ~(i <= n)
      <4>1. i - n \in 1..d /\ n + (i - n) = i
        BY <3>1, <3>3, <1>1
      <4>2. (u \o v)[i] = v[i - n]
        BY <3>1, <3>3, <2>2
      <4> QED BY <4>1, <4>2, <1>7
    <3> QED BY <3>2, <3>3
  <2>4. Len(u \o v) = Len(s)
    BY <2>1, <1>1, <1>6, <1>7
  <2> QED BY <2>1, <2>3, <2>4, SeqEqual
<1> QED BY <1>6, <1>7, <1>8 DEF u, v

\* A fraction that fits the scale keeps its value, which is below one.
LEMMA FractionKept ==
  ASSUME NEW fraction \in Seq(Digits), NEW scale \in Nat, ~Unscalable(fraction, scale)
  PROVE  LET f == Number(Padded(fraction, scale))
         IN  /\ f \in Nat /\ f < TenTo(scale)
             /\ f * TenTo(Len(fraction)) = Number(fraction) * TenTo(scale)
<1> DEFINE l == Len(fraction)
           p == Padded(fraction, scale)
<1>1. fraction \in Seq(Characters) /\ l \in Nat /\ \A i \in 1..l : fraction[i] \in Digits
  BY DigitText
<1>2. p \in Seq(Digits) /\ Len(p) = scale /\ p \in Seq(Characters)
  BY <1>1, PaddedType, DigitText
<1>3. \A i \in 1..scale : p[i] = IF i <= l THEN fraction[i] ELSE 0
  BY DEF Padded
<1>4. \A i \in 1..l : i > scale => fraction[i] = 0
  BY <1>1 DEF Unscalable
<1> HIDE DEF p
<1>5. Number(p) \in Nat /\ Number(p) < TenTo(scale)
  BY <1>2, NumberZero, NumberBelow
<1>6. PICK n \in Nat : n = Number(fraction)
  BY <1>1, NumberZero
<1>7. CASE l <= scale
  <2> DEFINE d == scale - l
             zeros == [i \in 1..d |-> 0]
  <2>1. d \in Nat /\ l + d = scale
    BY <1>1, <1>7
  <2>2. zeros \in Seq(Characters) /\ Len(zeros) = d /\ \A i \in 1..d : zeros[i] = 0
    <3> HIDE DEF d
    <3>1. 0 \in Characters
      BY DEF Characters
    <3>2. zeros \in [1..d -> Characters] /\ \A i \in 1..d : zeros[i] = 0
      BY <3>1
    <3> HIDE DEF zeros
    <3>3. zeros \in Seq(Characters)
      BY <3>2, <2>1, SeqDef
    <3> QED BY <3>2, <3>3, <2>1, LenProperties
  <2> HIDE DEF zeros, d
  <2>3. Number(zeros) = 0
    BY <2>2, NumberZero
  <2>4. p = fraction \o zeros
    <3>1. Len(fraction \o zeros) = scale /\ fraction \o zeros \in Seq(Characters)
      BY <1>1, <2>1, <2>2, ConcatProperties
    <3>2. ASSUME NEW i \in 1..scale PROVE p[i] = (fraction \o zeros)[i]
      <4>1. CASE i <= l
        <5>1. i \in 1..l
          BY <4>1, <1>1
        <5> QED BY <5>1, <4>1, <1>1, <1>3, <2>2, ConcatProperties
      <4>2. CASE ~(i <= l)
        <5>1. i - l \in 1..d /\ i \in (l + 1)..(l + d)
          BY <4>2, <1>1, <2>1
        <5>2. (fraction \o zeros)[i] = zeros[i - l]
          BY <5>1, <1>1, <2>2, <4>2, ConcatProperties
        <5> QED BY <5>1, <5>2, <4>2, <1>3, <2>2
      <4> QED BY <4>1, <4>2
    <3> QED BY <1>2, <3>1, <3>2, SeqEqual
  <2>5. Number(p) = Number(fraction) * TenTo(d) + 0
    BY <1>1, <2>2, <2>3, <2>4, NumberCat
  <2>6. TenTo(scale) = TenTo(l) * TenTo(d)
    BY <1>1, <2>1, PowersMultiply
  <2>7. PICK x \in Nat : x = TenTo(d)
    BY <2>1, Powers
  <2>8. PICK y \in Nat : y = TenTo(l)
    BY <1>1, Powers
  <2>9. (n * x + 0) * y = n * (y * x)
    OBVIOUS
  <2> QED BY <1>5, <1>6, <2>5, <2>6, <2>7, <2>8, <2>9 DEF p
<1>8. CASE ~(l <= scale)
  <2> DEFINE d == l - scale
             rest == SubSeq(fraction, scale + 1, l)
  <2>1. d \in Nat /\ scale + d = l
    BY <1>1, <1>8
  <2>2. /\ rest \in Seq(Characters) /\ Len(rest) = d /\ \A i \in 1..d : rest[i] = fraction[scale + i]
        /\ fraction = p \o rest
    <3> DEFINE u == SubSeq(fraction, 1, scale)
    <3>1. scale \in 0..l
      BY <1>1, <1>8
    <3>2. /\ u \in Seq(Digits) /\ Len(u) = scale /\ \A i \in 1..scale : u[i] = fraction[i]
          /\ rest \in Seq(Digits) /\ Len(rest) = d /\ \A i \in 1..d : rest[i] = fraction[scale + i]
          /\ fraction = u \o rest
      BY <3>1, CutAt
    <3> HIDE DEF u, rest, d
    <3>3. ASSUME NEW i \in 1..scale PROVE p[i] = u[i]
      <4>1. i <= l
        BY <1>1, <1>8
      <4> QED BY <4>1, <1>3, <3>2
    <3>4. p = u
      BY <1>2, <3>2, <3>3, SeqEqual
    <3> QED BY <3>2, <3>4, DigitText
  <2> HIDE DEF rest, d
  <2>3. Number(rest) = 0
    <3>1. \A i \in 1..d : rest[i] = 0
      <4> SUFFICES ASSUME NEW i \in 1..d PROVE rest[i] = 0
        OBVIOUS
      <4>1. scale + i \in 1..l /\ scale + i > scale
        BY <2>1
      <4> QED BY <4>1, <2>2, <1>4
    <3> QED BY <2>2, <3>1, NumberZero
  <2>5. Number(fraction) = Number(p) * TenTo(d) + 0
    BY <1>2, <2>2, <2>3, NumberCat
  <2>6. TenTo(l) = TenTo(scale) * TenTo(d)
    BY <2>1, PowersMultiply
  <2>7. PICK x \in Nat : x = TenTo(d)
    BY <2>1, Powers
  <2>8. PICK y \in Nat : y = TenTo(scale)
    BY Powers
  <2>10. PICK f \in Nat : f = Number(p)
    BY <1>5
  <2>9. f * (y * x) = (f * x + 0) * y
    OBVIOUS
  <2> QED BY <1>5, <2>5, <2>6, <2>7, <2>8, <2>9, <2>10 DEF p
<1> QED BY <1>7, <1>8

\* A fraction that does not fit the scale is no multiple of the unit, whatever
\* stands before the point and however large the tick is.
LEMMA FractionLost ==
  ASSUME NEW fraction \in Seq(Digits), NEW scale \in Nat, Unscalable(fraction, scale),
         NEW w \in Nat, NEW tick \in Nat \ {0}
  PROVE  ((w * TenTo(Len(fraction)) + Number(fraction)) * TenTo(scale)) % (TenTo(Len(fraction)) * tick) # 0
<1> DEFINE l == Len(fraction)
           d == l - scale
           first == SubSeq(fraction, 1, scale)
           rest == SubSeq(fraction, scale + 1, l)
<1>1. fraction \in Seq(Characters) /\ l \in Nat /\ \A i \in 1..l : fraction[i] \in Digits
  BY DigitText
<1>2. PICK k \in 1..l : k > scale /\ fraction[k] # 0
  BY <1>1 DEF Unscalable
<1>3. d \in Nat /\ scale + d = l /\ scale < l
  BY <1>1, <1>2
<1>4. /\ first \in Seq(Digits) /\ Len(first) = scale
      /\ rest \in Seq(Digits) /\ Len(rest) = d /\ \A i \in 1..d : rest[i] = fraction[scale + i]
  <2>1. scale \in 0..l
    BY <1>1, <1>3
  <2> QED BY <2>1, CutAt
<1>5. fraction = first \o rest
  <2>1. scale \in 0..l
    BY <1>1, <1>3
  <2> QED BY <2>1, CutAt
<1> HIDE DEF first, rest
<1> HIDE DEF d
<1>6. first \in Seq(Characters) /\ rest \in Seq(Characters)
  BY <1>4, DigitText
<1>7. Number(fraction) = Number(first) * TenTo(d) + Number(rest)
  BY <1>4, <1>5, <1>6, NumberCat
<1>8. PICK r \in Nat : r = Number(rest)
  BY <1>6, NumberZero
<1>9. PICK h \in Nat : h = Number(first)
  BY <1>6, NumberZero
<1>10. PICK D \in Nat \ {0} : D = TenTo(d)
  <2>1. TenTo(d) \in Nat /\ TenTo(d) >= 1
    BY <1>3, Powers
  <2> QED BY <2>1
<1>11. PICK T \in Nat \ {0} : T = TenTo(scale)
  <2>1. TenTo(scale) \in Nat /\ TenTo(scale) >= 1
    BY Powers
  <2> QED BY <2>1
<1>12. TenTo(l) = T * D
  BY <1>3, <1>10, <1>11, PowersMultiply
<1>13. r < D
  BY <1>4, <1>8, <1>10, NumberBelow
<1>14. r # 0
  <2>1. k - scale \in 1..d /\ scale + (k - scale) = k
    BY <1>1, <1>2, <1>3
  <2>2. rest[k - scale] # 0
    BY <2>1, <1>2, <1>4
  <2> QED BY <2>1, <2>2, <1>4, <1>6, <1>8, NumberZero
<1>15. PICK x \in Nat : x = D * (w * T + h) + r
  OBVIOUS
<1>16. w * (T * D) + (h * D + r) = x
  BY <1>15
<1>17. x % D = r
  <2>1. w * T + h \in Nat
    OBVIOUS
  <2> QED BY <2>1, <1>13, <1>15, DivisionIs
<1>18. PICK e \in Nat \ {0} : e = D * tick
  OBVIOUS
<1>19. x % e # 0
  <2> SUFFICES ASSUME x % e = 0 PROVE FALSE
    OBVIOUS
  <2>1. PICK q \in Nat : x = e * q + 0
    BY Division
  <2>2. tick * q \in Nat /\ x = D * (tick * q) + 0
    BY <2>1, <1>18
  <2>3. x % D = 0
    BY <2>2, DivisionIs
  <2> QED BY <2>3, <1>14, <1>17
<1>20. (x * T) % (e * T) # 0
  BY <1>19, CommonFactor
<1>21. (T * D) * tick = e * T
  BY <1>18
<1> QED BY <1>7, <1>8, <1>9, <1>10, <1>11, <1>12, <1>16, <1>20, <1>21

-----------------------------------------------------------------------------
(* The shape of a text.                                                    *)

AllDigits(text) == \A i \in 1..Len(text) : text[i] \in Digits

\* Texts of digits.
LEMMA AllDigitsIs ==
  ASSUME NEW text \in Seq(Characters), AllDigits(text)
  PROVE  text \in Seq(Digits)
<1>1. text \in [1..Len(text) -> Characters] /\ Len(text) \in Nat
  BY LenProperties
<1>2. text \in [1..Len(text) -> Digits]
  BY <1>1 DEF AllDigits
<1> QED BY <1>1, <1>2, SeqDef

\* A text without a point is its own whole part.
LEMMA PlainParts ==
  ASSUME NEW text \in Seq(Characters), Points(text) = {}
  PROVE  /\ WholeText(text) = text /\ FractionalText(text) = <<>>
         /\ IsDecimal(text) <=> ~Malformed(text) /\ AllDigits(text)
<1>1. WholeText(text) = text /\ FractionalText(text) = <<>>
  BY DEF WholeText, FractionalText
<1>2. Cardinality(Points(text)) = 0
  BY FS_EmptySet
<1>3. Malformed(text) <=> text = <<>>
  BY <1>1, <1>2 DEF Malformed
<1>4. DOMAIN text = 1..Len(text) /\ Len(text) \in Nat
  BY LenProperties
<1>5. IsUnsigned(text) <=> text # <<>> /\ AllDigits(text)
  BY <1>4 DEF IsUnsigned, AllDigits
<1>6. ASSUME NEW i \in 2..(Len(text) - 1) PROVE text[i] # Point
  BY <1>4 DEF Points
<1> QED BY <1>1, <1>3, <1>5, <1>6 DEF IsDecimal

\* A text with a point is cut there.
LEMMA PointedParts ==
  ASSUME NEW text \in Seq(Characters), Points(text) # {}
  PROVE  \E p \in 1..Len(text) :
           /\ text[p] = Point /\ \A i \in 1..(p - 1) : text[i] # Point
           /\ WholeText(text) = SubSeq(text, 1, p - 1)
           /\ FractionalText(text) = SubSeq(text, p + 1, Len(text))
<1> DEFINE p == Min(Points(text))
<1>1. DOMAIN text = 1..Len(text) /\ Len(text) \in Nat
  BY LenProperties
<1>2. Points(text) \in SUBSET (0..Len(text)) /\ \A i : i \in Points(text) <=> i \in 1..Len(text) /\ text[i] = Point
  BY <1>1 DEF Points
<1>3. \E x \in Points(text) : \A y \in Points(text) : x <= y
  BY <1>1, <1>2, LeastExists
<1>4. p \in Points(text) /\ \A y \in Points(text) : p <= y
  BY <1>3 DEF Min
<1>5. WholeText(text) = SubSeq(text, 1, p - 1) /\ FractionalText(text) = SubSeq(text, p + 1, Len(text))
  BY DEF WholeText, FractionalText
<1> HIDE DEF p
<1>6. p \in 1..Len(text) /\ text[p] = Point
  BY <1>2, <1>4
<1>7. ASSUME NEW i \in 1..(p - 1) PROVE text[i] # Point
  <2>1. i \in 1..Len(text) /\ ~(p <= i)
    BY <1>1, <1>6
  <2> QED BY <2>1, <1>2, <1>4
<1> QED BY <1>5, <1>6, <1>7

\* The parts of a text around a place.
LEMMA Around ==
  ASSUME NEW text \in Seq(Characters), NEW p \in 1..Len(text)
  PROVE  LET u == SubSeq(text, 1, p - 1)
             v == SubSeq(text, p + 1, Len(text))
         IN  /\ u \in Seq(Characters) /\ Len(u) = p - 1 /\ \A i \in 1..(p - 1) : u[i] = text[i]
             /\ v \in Seq(Characters) /\ Len(v) = Len(text) - p /\ \A i \in 1..(Len(text) - p) : v[i] = text[p + i]
<1>1. p - 1 \in 0..Len(text) /\ p \in 0..Len(text)
  BY CharacterAt
<1> QED BY <1>1, CutAt

\* What IsDecimal asks of a text is what the conversions test one after the other.
LEMMA Shape ==
  ASSUME NEW text \in Seq(Characters)
  PROVE  /\ WholeText(text) \in Seq(Characters) /\ FractionalText(text) \in Seq(Characters)
         /\ IsDecimal(text) <=> ~Malformed(text) /\ AllDigits(WholeText(text)) /\ AllDigits(FractionalText(text))
<1>1. CASE Points(text) = {}
  <2>1. <<>> \in Seq(Characters) /\ AllDigits(<<>>)
    BY EmptySeq DEF AllDigits
  <2> QED BY <1>1, <2>1, PlainParts
<1>2. CASE Points(text) # {}
  <2> DEFINE l == Len(text)
  <2>1. PICK p \in 1..l :
          /\ text[p] = Point /\ \A i \in 1..(p - 1) : text[i] # Point
          /\ WholeText(text) = SubSeq(text, 1, p - 1)
          /\ FractionalText(text) = SubSeq(text, p + 1, l)
    BY <1>2, PointedParts
  <2> DEFINE u == SubSeq(text, 1, p - 1)
             v == SubSeq(text, p + 1, l)
  <2>2. l \in Nat /\ DOMAIN text = 1..l
    BY LenProperties
  <2>3. /\ u \in Seq(Characters) /\ Len(u) = p - 1 /\ \A i \in 1..(p - 1) : u[i] = text[i]
        /\ v \in Seq(Characters) /\ Len(v) = l - p /\ \A i \in 1..(l - p) : v[i] = text[p + i]
    BY Around
  <2>4. IsUnsigned(u) <=> u # <<>> /\ AllDigits(u)
    BY <2>3, LenProperties DEF IsUnsigned, AllDigits
  <2>5. IsUnsigned(v) <=> v # <<>> /\ AllDigits(v)
    BY <2>3, LenProperties DEF IsUnsigned, AllDigits
  <2>6. Point \notin Digits
    BY DEF Point, Digits
  <2>7. ~IsUnsigned(text)
    BY <2>1, <2>2, <2>6 DEF IsUnsigned
  <2> HIDE DEF u, v
  <2>8. ASSUME ~Malformed(text), AllDigits(u), AllDigits(v) PROVE IsDecimal(text)
    <3>1. u # <<>> /\ v # <<>>
      BY <1>2, <2>1, <2>8 DEF Malformed, u, v
    <3>2. Len(u) # 0 /\ Len(v) # 0
      <4>1. Len(u) # 0
        BY <2>3, <3>1, EmptySeq
      <4>2. Len(v) # 0
        BY <2>3, <3>1, EmptySeq
      <4> QED BY <4>1, <4>2
    <3>3. p \in 2..(l - 1)
      <4>1. p - 1 # 0 /\ l - p # 0
        BY <2>3, <3>2
      <4> HIDE DEF l
      <4> QED BY <4>1, <2>2
    <3>4. IsUnsigned(u) /\ IsUnsigned(v)
      BY <2>4, <2>5, <2>8, <3>1
    <3> QED BY <2>1, <3>3, <3>4 DEF IsDecimal, u, v
  <2>9. ASSUME IsDecimal(text) PROVE ~Malformed(text) /\ AllDigits(u) /\ AllDigits(v)
    <3>1. PICK i \in 2..(l - 1) :
            text[i] = Point /\ IsUnsigned(SubSeq(text, 1, i - 1)) /\ IsUnsigned(SubSeq(text, i + 1, l))
      BY <2>7, <2>9 DEF IsDecimal
    <3>2. i \in 1..l /\ i - 1 \in 0..l
      BY <2>2
    <3>3. i = p
      <4>1. ~(i < p)
        <5>1. i < p => i \in 1..(p - 1)
          BY <3>2, <2>2
        <5> QED BY <5>1, <3>1, <2>1
      <4>2. ~(p < i)
        <5> SUFFICES ASSUME p < i PROVE FALSE
          OBVIOUS
        <5> DEFINE a == SubSeq(text, 1, i - 1)
        <5>1. p \in 1..(i - 1)
          BY <2>2, <3>2
        <5>2. a \in Seq(Characters) /\ Len(a) = i - 1 /\ \A j \in 1..(i - 1) : a[j] = text[j]
          BY <3>2, Around
        <5>3. p \in DOMAIN a /\ a[p] = Point
          BY <5>1, <5>2, <2>1, LenProperties
        <5>4. IsUnsigned(a)
          BY <3>1
        <5> HIDE DEF a
        <5> QED BY <5>3, <5>4, <2>6 DEF IsUnsigned
      <4> QED BY <4>1, <4>2, <3>2, <2>2
    <3>4. IsUnsigned(u) /\ IsUnsigned(v)
      BY <3>1, <3>3 DEF u, v
    <3>5. u # <<>> /\ AllDigits(u) /\ v # <<>> /\ AllDigits(v)
      BY <3>4, <2>4, <2>5
    <3>6. ASSUME NEW j \in Points(text) PROVE j = p
      <4>1. j \in 1..l /\ text[j] = Point
        BY <2>2 DEF Points
      <4>2. ~(j < p)
        <5>1. j < p => j \in 1..(p - 1)
          BY <4>1, <2>2
        <5> QED BY <5>1, <4>1, <2>1
      <4>3. ~(p < j)
        <5> SUFFICES ASSUME p < j PROVE FALSE
          OBVIOUS
        <5>1. j - p \in 1..(l - p) /\ p + (j - p) = j
          BY <4>1, <2>2
        <5>2. v[j - p] = Point /\ j - p \in 1..Len(v)
          BY <5>1, <2>3, <4>1
        <5> QED BY <5>2, <3>5, <2>6 DEF AllDigits
      <4> QED BY <4>1, <4>2, <4>3, <2>2
    <3>7. Points(text) = {p}
      BY <1>2, <3>6
    <3>8. Cardinality(Points(text)) = 1
      BY <3>7, FS_Singleton
    <3>9. ~(Cardinality(Points(text)) > 1)
      BY <3>8
    <3> QED BY <3>5, <3>9, <2>1 DEF Malformed, u, v
  <2> QED BY <2>1, <2>3, <2>8, <2>9 DEF u, v
<1> QED BY <1>1, <1>2

\* The mantissa of a text.
LEMMA MantissaIs ==
  ASSUME NEW text \in Seq(Characters)
  PROVE  Mantissa(text) = Number(WholeText(text)) * Scale(text) + Number(FractionalText(text))
BY Shape, NumberCat DEF Mantissa, Scale

-----------------------------------------------------------------------------
(* Every text converts to the number it denotes.                           *)

\* parseUnsignedWhole.
LEMMA WholeIs ==
  ASSUME NEW text \in Seq(Characters), NEW maximum \in 0..MaxUint
  PROVE  parseUnsignedWhole(text, maximum) =
           IF text # <<>> /\ AllDigits(text) /\ Number(text) <= maximum THEN Number(text) ELSE Rejected
<1>1. DigitLoop(text, maximum) = IF AllDigits(text) /\ Number(text) <= maximum THEN Number(text) ELSE Rejected
  BY DigitLoopIs DEF AllDigits
<1>2. CASE text = <<>>
  BY <1>2 DEF parseUnsignedWhole
<1>3. CASE text # <<>>
  BY <1>1, <1>3 DEF parseUnsignedWhole
<1> QED BY <1>2, <1>3

\* Identifiers, of orders and of clients.
LEMMA IdentifiersAreExact ==
  ASSUME NEW text \in Seq(Characters)
  PROVE  extractTargetOrderId(text) = Identifier(text) /\ parseConfiguredClientId(text) = Identifier(text)
<1>1. MaxUint \in 0..MaxUint /\ MaxUint \in Nat
  BY ParserAssumption
<1>2. PICK n \in Nat : n = Number(text)
  BY NumberZero
<1>3. IsUnsigned(text) <=> text # <<>> /\ AllDigits(text)
  BY LenProperties DEF IsUnsigned, AllDigits
<1>4. n # Rejected /\ Rejected # 0
  BY DEF Rejected
<1>5. Identifier(text) = IF text # <<>> /\ AllDigits(text) /\ n # 0 /\ n <= MaxUint THEN n ELSE Rejected
  <2>1. n \in 1..MaxUint <=> n # 0 /\ n <= MaxUint
    BY <1>1
  <2> QED BY <1>2, <1>3, <2>1 DEF Identifier
<1>6. parseUnsignedWhole(text, MaxUint) = IF text # <<>> /\ AllDigits(text) /\ n <= MaxUint THEN n ELSE Rejected
  BY <1>1, <1>2, WholeIs
<1>7. extractTargetOrderId(text) = Identifier(text)
  BY <1>4, <1>5, <1>6 DEF extractTargetOrderId
<1>8. text # <<>> => parseUnsignedWhole(text, MaxUint) = DigitLoop(text, MaxUint)
  BY DEF parseUnsignedWhole
<1>9. parseConfiguredClientId(text) = Identifier(text)
  BY <1>4, <1>5, <1>6, <1>8 DEF parseConfiguredClientId
<1> QED BY <1>7, <1>9

\* A multiple of the tick is in range if and only if the scaled price is.
LEMMA TicksInRange ==
  ASSUME NEW price \in Nat, NEW tick \in Nat \ {0}, NEW maximum \in Nat, price % tick = 0
  PROVE  price \div tick \in 1..maximum <=> price # 0 /\ price <= maximum * tick
<1>1. PICK q \in Nat : q = price \div tick
  BY Division
<1>2. price = tick * q
  BY <1>1, Division
<1>3. q = 0 <=> price = 0
  BY <1>2
<1>4. ASSUME q <= maximum PROVE price <= maximum * tick
  <2>1. PICK d \in Nat : maximum = q + d
    BY <1>4
  <2>2. maximum * tick = tick * q + d * tick /\ d * tick \in Nat /\ tick * q \in Nat
    BY <2>1
  <2> QED BY <2>2, <1>2
<1>5. ASSUME ~(q <= maximum) PROVE ~(price <= maximum * tick)
  <2>1. PICK d \in Nat : q = maximum + 1 + d
    BY <1>5
  <2>2. tick * q = maximum * tick + tick + tick * d /\ tick * d \in Nat /\ maximum * tick \in Nat
    BY <2>1
  <2> QED BY <2>2, <1>2
<1>6. q \in 1..maximum <=> q # 0 /\ q <= maximum
  OBVIOUS
<1> QED BY <1>1, <1>3, <1>4, <1>5, <1>6

\* An instrument's configuration.
ConfigurationTypes ==
  [tick: 0..MaxUint, priceScale: Nat, maxPrice: 0..MaxUint, lotSize: 0..MaxUint, maxOrderQuantity: 0..MaxUint]

\* The configuration is checked before the text is converted.
LEMMA TicksAreChecked ==
  ASSUME NEW c \in ConfigurationTypes
  PROVE  ValidTicks(c) <=> ~(c.tick = 0 \/ c.maxPrice > MaxUint \div c.tick \/ powerOfTen(c.priceScale) = Internal)
<1>1. c.tick \in Nat /\ c.maxPrice \in Nat /\ c.priceScale \in Nat /\ MaxUint \in Nat
  BY ParserAssumption DEF ConfigurationTypes
<1>2. powerOfTen(c.priceScale) = Internal <=> ~(TenTo(c.priceScale) <= MaxUint)
  <2>1. TenTo(c.priceScale) # Internal
    BY <1>1, Powers DEF Internal
  <2> QED BY <1>1, <2>1, PowerOfTenIs
<1>3. CASE c.tick = 0
  BY <1>3 DEF ValidTicks
<1>4. CASE c.tick # 0
  <2>1. c.maxPrice <= MaxUint \div c.tick <=> c.maxPrice * c.tick <= MaxUint
    BY <1>1, <1>4, DivisionBound
  <2>2. PICK q \in Nat : q = MaxUint \div c.tick
    BY <1>1, <1>4, Division
  <2>3. c.maxPrice > q <=> ~(c.maxPrice <= q)
    BY <1>1
  <2> QED BY <1>2, <1>4, <2>1, <2>2, <2>3 DEF ValidTicks
<1> QED BY <1>3, <1>4

\* Prices.
LEMMA PricesAreExact ==
  ASSUME NEW text \in Seq(Characters), NEW c \in ConfigurationTypes, ValidTicks(c)
  PROVE  parsePriceTicks(text, c) = Multiple(text, c.tick, TenTo(c.priceScale), c.maxPrice)
<1> DEFINE wholeText == WholeText(text)
           fraction == FractionalText(text)
<1>1. MaxUint \in Nat /\ c.priceScale \in Nat
  BY ParserAssumption DEF ConfigurationTypes
<1>2. PICK tick \in Nat \ {0} : tick = c.tick
  BY DEF ConfigurationTypes, ValidTicks
<1>3. PICK maximum \in Nat : maximum = c.maxPrice
  BY DEF ConfigurationTypes
<1>4. PICK T \in Nat \ {0} : T = TenTo(c.priceScale)
  <2>1. TenTo(c.priceScale) \in Nat /\ TenTo(c.priceScale) >= 1
    BY <1>1, Powers
  <2> QED BY <2>1
<1>5. PICK M \in Nat : M = maximum * tick
  OBVIOUS
<1>6. T <= MaxUint /\ M <= MaxUint
  BY <1>2, <1>3, <1>4, <1>5 DEF ValidTicks
<1>7. powerOfTen(c.priceScale) = T /\ Wrap(c.maxPrice * c.tick) = M
  <2>1. M \in 0..MaxUint
    BY <1>1, <1>6
  <2> QED BY <1>1, <1>2, <1>3, <1>4, <1>5, <1>6, <2>1, PowerOfTenIs, NoWrap
<1>8. wholeText \in Seq(Characters) /\ fraction \in Seq(Characters)
  BY Shape
<1>9. IsDecimal(text) <=> ~Malformed(text) /\ AllDigits(wholeText) /\ AllDigits(fraction)
  BY Shape
<1>10. PICK w \in Nat : w = Number(wholeText)
  BY <1>8, NumberZero
<1>11. PICK n \in Nat : n = Number(fraction)
  BY <1>8, NumberZero
<1>12. PICK L \in Nat \ {0} : L = TenTo(Len(fraction))
  <2>1. Len(fraction) \in Nat
    BY <1>8, LenProperties
  <2>2. TenTo(Len(fraction)) \in Nat /\ TenTo(Len(fraction)) >= 1
    BY <2>1, Powers
  <2> QED BY <2>2
<1>13. Mantissa(text) = w * L + n /\ Scale(text) = L
  BY <1>10, <1>11, <1>12, MantissaIs DEF Scale
<1> DEFINE dividend == (w * L + n) * T
           divisor == L * tick
<1>14. Multiple(text, c.tick, TenTo(c.priceScale), c.maxPrice) =
         IF IsDecimal(text) /\ dividend % divisor = 0 /\ dividend \div divisor \in 1..maximum
         THEN dividend \div divisor ELSE Rejected
  BY <1>2, <1>3, <1>4, <1>13 DEF Multiple
<1> DEFINE whole == parseUnsignedWhole(wholeText, M \div T)
           fractional == ScaledFraction(fraction, c.priceScale)
           scaledWhole == Wrap(whole * T)
           scaledPrice == Wrap(scaledWhole + fractional)
<1>15. parsePriceTicks(text, c) =
         IF Malformed(text) THEN Rejected
         ELSE IF whole = Rejected \/ fractional = Rejected THEN Rejected
         ELSE IF fractional > Wrap(M - scaledWhole) THEN Rejected
         ELSE IF scaledPrice = 0 \/ scaledPrice % tick # 0 THEN Rejected
         ELSE scaledPrice \div tick
  <2>1. ~(c.tick = 0 \/ c.maxPrice > MaxUint \div c.tick \/ powerOfTen(c.priceScale) = Internal)
    BY TicksAreChecked
  <2> QED BY <2>1, <1>2, <1>7 DEF parsePriceTicks
<1>16. whole = IF wholeText # <<>> /\ AllDigits(wholeText) /\ w * T <= M THEN w ELSE Rejected
  <2>1. PICK q \in Nat : q = M \div T
    BY Division
  <2>2. q \in 0..MaxUint
    <3>1. q <= q * T /\ q * T <= M
      <4>1. q * T <= M
        BY <2>1, DivisionBound
      <4>2. PICK d \in Nat : T = 1 + d
        OBVIOUS
      <4>3. q * T = q + q * d /\ q * d \in Nat
        BY <4>2
      <4> QED BY <4>1, <4>3
    <3>2. q * T \in Nat
      OBVIOUS
    <3> QED BY <3>1, <3>2, <1>1, <1>6
  <2>3. w <= q <=> w * T <= M
    BY <2>1, DivisionBound
  <2> HIDE DEF wholeText
  <2>4. parseUnsignedWhole(wholeText, q) = IF wholeText # <<>> /\ AllDigits(wholeText) /\ w <= q THEN w ELSE Rejected
    BY <1>8, <1>10, <2>2, WholeIs
  <2> QED BY <2>1, <2>3, <2>4
<1>17. fractional = IF Unscalable(fraction, c.priceScale) THEN Rejected ELSE Number(Padded(fraction, c.priceScale))
  BY <1>1, <1>4, <1>6, <1>8, ScaledFractionIs
<1> HIDE DEF whole, fractional
<1>18. w # Rejected
  BY DEF Rejected
<1>19. CASE ~IsDecimal(text)
  <2>1. ~AllDigits(fraction) => Unscalable(fraction, c.priceScale)
    BY <1>8, LenProperties DEF AllDigits, Unscalable
  <2>2. Malformed(text) \/ whole = Rejected \/ fractional = Rejected
    BY <1>9, <1>16, <1>17, <1>19, <2>1
  <2>3. parsePriceTicks(text, c) = Rejected
    BY <1>15, <2>2
  <2> QED BY <1>14, <1>19, <2>3
<1>20. CASE IsDecimal(text) /\ Unscalable(fraction, c.priceScale)
  <2>1. parsePriceTicks(text, c) = Rejected
    BY <1>15, <1>17, <1>20
  <2>2. fraction \in Seq(Digits)
    BY <1>8, <1>9, <1>20, AllDigitsIs
  <2> HIDE DEF fraction
  <2>3. dividend % divisor # 0
    BY <1>1, <1>4, <1>11, <1>12, <1>20, <2>2, FractionLost
  <2> QED BY <1>14, <2>1, <2>3
<1>21. CASE IsDecimal(text) /\ ~Unscalable(fraction, c.priceScale)
  <2>1. fraction \in Seq(Digits)
    BY <1>8, <1>9, <1>21, AllDigitsIs
  <2>2. PICK f \in Nat : f = Number(Padded(fraction, c.priceScale)) /\ f < T /\ f * L = n * T
    <3> HIDE DEF fraction
    <3> QED BY <1>1, <1>4, <1>11, <1>12, <1>21, <2>1, FractionKept
  <2>3. fractional = f /\ f # Rejected
    BY <1>17, <1>21, <2>2 DEF Rejected
  <2>4. PICK P \in Nat : P = w * T + f
    OBVIOUS
  <2>5. dividend = P * L /\ divisor = tick * L
    <3>1. (w * L + n) * T = (w * T) * L + n * T
      OBVIOUS
    <3>2. P * L = (w * T) * L + f * L
      BY <2>4
    <3> QED BY <3>1, <3>2, <2>2
  <2>6. dividend \div divisor = P \div tick /\ (dividend % divisor = 0 <=> P % tick = 0)
    <3> HIDE DEF dividend, divisor
    <3> QED BY <2>5, CommonFactor
  <2> HIDE DEF dividend, divisor
  <2>7. P % tick = 0 => (P \div tick \in 1..maximum <=> P # 0 /\ P <= M)
    BY <1>5, TicksInRange
  <2>8. Multiple(text, c.tick, TenTo(c.priceScale), c.maxPrice) =
          IF P % tick = 0 /\ P # 0 /\ P <= M THEN P \div tick ELSE Rejected
    BY <1>14, <1>21, <2>6, <2>7
  <2>9. ~Malformed(text) /\ AllDigits(wholeText) /\ wholeText # <<>>
    BY <1>9, <1>21 DEF Malformed
  <2>10. PICK x \in Nat : x = w * T
    OBVIOUS
  <2>11. CASE x > M
    <3>1. whole = Rejected
      BY <1>16, <2>10, <2>11
    <3>2. ~(P <= M)
      BY <2>4, <2>10, <2>11
    <3> QED BY <1>15, <2>8, <3>1, <3>2
  <2>12. CASE x <= M
    <3>1. whole = w
      BY <1>16, <2>9, <2>10, <2>12
    <3>2. scaledWhole = x
      <4>1. x \in 0..MaxUint
        BY <1>1, <1>6, <2>12
      <4> QED BY <3>1, <2>10, <4>1, NoWrap
    <3>3. Wrap(M - scaledWhole) = M - x
      <4>1. M - x \in 0..MaxUint
        BY <1>1, <1>6, <2>12
      <4> QED BY <3>2, <4>1, NoWrap
    <3>4. f > M - x <=> ~(P <= M)
      BY <2>4, <2>10
    <3>5. P <= M => scaledPrice = P
      <4>1. P <= M => P \in 0..MaxUint
        BY <1>1, <1>6
      <4> QED BY <2>3, <2>4, <2>10, <3>2, <4>1, NoWrap
    <3> HIDE DEF scaledWhole, scaledPrice
    <3> QED BY <1>15, <1>18, <2>3, <2>8, <2>9, <3>1, <3>3, <3>4, <3>5
  <2> QED BY <2>11, <2>12
<1> QED BY <1>19, <1>20, <1>21

\* Quantities.
LEMMA QuantitiesAreExact ==
  ASSUME NEW text \in Seq(Characters), NEW c \in ConfigurationTypes, c.lotSize # 0
  PROVE  parseQuantityUnits(text, c) =
           LET units == Multiple(text, 1, 1, c.maxOrderQuantity)
           IN IF units % c.lotSize = 0 THEN units ELSE Rejected
<1> DEFINE wholeText == WholeText(text)
           fraction == FractionalText(text)
           units == Multiple(text, 1, 1, c.maxOrderQuantity)
           quantity == parseUnsignedWhole(wholeText, c.maxOrderQuantity)
<1>1. MaxUint \in Nat /\ c.maxOrderQuantity \in 0..MaxUint /\ c.lotSize \in Nat
  BY ParserAssumption DEF ConfigurationTypes
<1>2. PICK m \in Nat : m = c.maxOrderQuantity
  BY <1>1
<1>8. wholeText \in Seq(Characters) /\ fraction \in Seq(Characters)
  BY Shape
<1>9. IsDecimal(text) <=> ~Malformed(text) /\ AllDigits(wholeText) /\ AllDigits(fraction)
  BY Shape
<1>10. PICK w \in Nat : w = Number(wholeText)
  BY <1>8, NumberZero
<1>11. PICK n \in Nat : n = Number(fraction)
  BY <1>8, NumberZero
<1>12. PICK L \in Nat \ {0} : L = TenTo(Len(fraction))
  <2>1. Len(fraction) \in Nat
    BY <1>8, LenProperties
  <2>2. TenTo(Len(fraction)) \in Nat /\ TenTo(Len(fraction)) >= 1
    BY <2>1, Powers
  <2> QED BY <2>2
<1>13. Mantissa(text) = w * L + n /\ Scale(text) = L
  BY <1>10, <1>11, <1>12, MantissaIs DEF Scale
<1>14. units = IF IsDecimal(text) /\ (L * w + n) % L = 0 /\ (L * w + n) \div L \in 1..m
               THEN (L * w + n) \div L ELSE Rejected
  <2>1. Mantissa(text) * 1 = L * w + n /\ Scale(text) * 1 = L
    BY <1>13
  <2> QED BY <1>2, <2>1 DEF Multiple
<1>15. quantity = IF wholeText # <<>> /\ AllDigits(wholeText) /\ w <= m THEN w ELSE Rejected
  <2> HIDE DEF wholeText
  <2> QED BY <1>1, <1>2, <1>8, <1>10, WholeIs
<1>16. (\E i \in DOMAIN fraction : fraction[i] # 0) <=> n # 0
  <2>1. DOMAIN fraction = 1..Len(fraction)
    BY <1>8, LenProperties
  <2> QED BY <2>1, <1>8, <1>11, NumberZero
<1>17. parseQuantityUnits(text, c) =
         IF Malformed(text) \/ n # 0 THEN Rejected
         ELSE IF quantity \in {Rejected, 0} THEN Rejected
         ELSE IF quantity % c.lotSize # 0 THEN Rejected
         ELSE quantity
  <2> HIDE DEF quantity
  <2> QED BY <1>16 DEF parseQuantityUnits, quantity
<1> HIDE DEF quantity, units
<1>18. w # Rejected
  BY DEF Rejected
<1>19. CASE ~IsDecimal(text)
  <2>1. units = Rejected
    BY <1>14, <1>19
  <2>2. ~AllDigits(fraction) => n # 0
    <3>1. DOMAIN fraction = 1..Len(fraction) /\ 0 \in Digits
      BY <1>8, LenProperties DEF Digits
    <3> QED BY <3>1, <1>16 DEF AllDigits
  <2>3. Malformed(text) \/ quantity = Rejected \/ n # 0
    BY <1>9, <1>15, <1>19, <2>2
  <2>4. parseQuantityUnits(text, c) = Rejected
    BY <1>17, <2>3
  <2> QED BY <2>1, <2>4 DEF units
<1>20. CASE IsDecimal(text) /\ n # 0
  <2>1. n < L
    <3>1. fraction \in Seq(Digits)
      BY <1>8, <1>9, <1>20, AllDigitsIs
    <3> QED BY <1>11, <1>12, <3>1, NumberBelow
  <2>2. (L * w + n) % L # 0
    BY <1>20, <2>1, DivisionIs
  <2>3. units = Rejected
    BY <1>14, <2>2
  <2>4. parseQuantityUnits(text, c) = Rejected
    BY <1>17, <1>20
  <2> QED BY <2>3, <2>4 DEF units
<1>21. CASE IsDecimal(text) /\ n = 0
  <2>1. (L * w + 0) % L = 0 /\ (L * w + 0) \div L = w
    BY DivisionIs
  <2>2. units = IF w \in 1..m THEN w ELSE Rejected
    BY <1>14, <1>21, <2>1
  <2>3. ~Malformed(text) /\ AllDigits(wholeText) /\ wholeText # <<>>
    BY <1>9, <1>21 DEF Malformed
  <2>4. quantity = IF w <= m THEN w ELSE Rejected
    BY <1>15, <2>3
  <2>5. CASE w \in 1..m
    <3>1. quantity = w /\ units = w /\ w # 0
      BY <2>2, <2>4, <2>5
    <3> QED BY <1>17, <1>18, <1>21, <2>3, <3>1 DEF units
  <2>6. CASE w \notin 1..m
    <3>1. quantity \in {Rejected, 0} /\ units = Rejected
      BY <2>2, <2>4, <2>6
    <3> QED BY <1>17, <3>1 DEF units
  <2> QED BY <2>5, <2>6
<1> QED BY <1>19, <1>20, <1>21

\* All conversions of a configuration.
LEMMA AllExact ==
  ASSUME NEW c \in Configurations
  PROVE  ExactConversions(c)
<1>1. c \in ConfigurationTypes
  BY ParserAssumption DEF ConfigurationTypes
<1>2. ASSUME NEW text \in Texts PROVE text \in Seq(Characters)
  <2>1. PICK m \in 0..MaxTextLength : text \in [1..m -> Alphabet]
    BY DEF Texts, BoundedSeq, SeqOf
  <2>2. m \in Nat /\ Alphabet \subseteq Characters
    BY ParserAssumption DEF Digits, Point, OtherCharacter, Characters
  <2>3. text \in [1..m -> Characters]
    BY <2>1, <2>2
  <2> QED BY <2>2, <2>3, SeqDef
<1>3. ASSUME NEW text \in Texts, ~ValidTicks(c)
      PROVE  parsePriceTicks(text, c) = IF Malformed(text) THEN Rejected ELSE Internal
  <2>1. c.tick = 0 \/ c.maxPrice > MaxUint \div c.tick \/ powerOfTen(c.priceScale) = Internal
    BY <1>1, <1>3, TicksAreChecked
  <2> QED BY <2>1 DEF parsePriceTicks
<1> QED BY <1>1, <1>2, <1>3, IdentifiersAreExact, PricesAreExact, QuantitiesAreExact DEF ExactConversions

\* Every price, quantity and identifier is converted to exactly the number its
\* text denotes or rejected, and nothing wraps on the way.
THEOREM ExactFields == Spec => []ConversionsAreExact
<1>1. IInv => ConversionsAreExact
  BY AllExact DEF IInv, Types, ConversionsAreExact, Exact
<1> QED BY <1>1, Invariance, PTL

=============================================================================
