-------------------------- MODULE JournalFileProofs --------------------------
(***************************************************************************)
(* The journal as bytes, for any contents, frame lengths and limits and    *)
(* any number of damaged cells, stops and power losses.                    *)
(***************************************************************************)
EXTENDS JournalFile, SequenceTheorems, FiniteSetTheorems, TLAPS

-----------------------------------------------------------------------------
(* The inductive invariant.                                                *)

\* A cell of a frame or of the header.
CellStates == [sequence : Nat, body : Bodies \cup {"header"}, part : Nat, ok : BOOLEAN]

\* A plan is a sequence of commands and the places where their frames end.  The
\* contents of a file are always those of a plan, cut somewhere: what was
\* written completely, and perhaps part of one more frame.
Plan(plan, ends) ==
  /\ plan \in Seq(Commands)
  /\ ends \in [0..Len(plan) -> Nat] /\ ends[0] = HeaderLength
  /\ \A n \in 1..Len(plan) : /\ plan[n].sequence = n /\ plan[n].body \in NewOrders \cup Cancels
                             /\ ends[n] = ends[n - 1] + FrameLength(plan[n].body)
  /\ \A m, n \in 0..Len(plan) : m < n => ends[m] < ends[n]

\* The cell is the one of the command, damaged or not.
Holds(cell, command, part) ==
  cell.sequence = command.sequence /\ cell.body = command.body /\ cell.part = part

\* The contents are the plan's, up to where they end.
LaidOut(cells, plan, ends) ==
  /\ cells \in Seq(CellStates)
  /\ HeaderLength <= Len(cells) /\ Len(cells) <= ends[Len(plan)]
  /\ \A n \in 1..Len(plan) : \A part \in 1..FrameLength(plan[n].body) :
       ends[n - 1] + part <= Len(cells) => Holds(cells[ends[n - 1] + part], plan[n], part)

\* A run's own journal stays within its limits, unfinished frames included.
Fits(plan, ends) ==
  headerRun = "expected" => Len(plan) <= MaxRunCommands /\ ends[Len(plan)] <= MaxRunJournalBytes

\* What was acknowledged is complete in both contents, and the same cells.
Acknowledged(plan, ends, stablePlan, stableEnds) ==
  LET a == Len(acknowledged) IN
  /\ acknowledged \in Seq(Commands)
  /\ a <= Len(plan) /\ a <= Len(stablePlan)
  /\ \A n \in 1..a : acknowledged[n] = plan[n] /\ acknowledged[n] = stablePlan[n]
  /\ \A n \in 0..a : ends[n] = stableEnds[n]
  /\ ends[a] <= Len(file) /\ ends[a] <= Len(stable)
  /\ \A i \in 1..ends[a] : file[i] = stable[i]

\* Where the process stands.
Repairing == pc \in {"preserve", "truncate", "sync", "seek"}
Writing == (pc = "open" /\ usable) \/ pc = "writing"
Reading == pc = "frames" \/ Repairing \/ Writing

\* The writer, the frame and the outcome agree with it.
Control ==
  /\ headerRun \in {"expected", "foreign"}
  /\ pc \in {"down", "header", "frames", "preserve", "truncate", "sync", "seek", "open", "writing"}
  /\ loaded \in Seq(Commands) /\ frame \in Seq(CellStates) /\ bytesWritten \in Nat
  /\ position \in Nat /\ committedByteCount \in Nat
  /\ usable \in BOOLEAN
  /\ pc \in {"down", "header"} => loaded = <<>>
  /\ pc # "writing" => frame = <<>> /\ bytesWritten = 0
  /\ pc = "writing" => usable
  /\ Repairing \/ Writing => headerRun = "expected"
  /\ result = "CORRUPTION" => pc = "down" /\ (headerRun = "foreign" \/ ~Undamaged)

\* What the process has read or written is the beginning of the plan, undamaged.
Known(plan, ends) ==
  Reading =>
    /\ Len(loaded) <= Len(plan)
    /\ \A n \in 1..Len(loaded) : loaded[n] = plan[n]
    /\ ends[Len(loaded)] <= Len(file)
    /\ \A i \in 1..ends[Len(loaded)] : file[i].ok

\* Position and counters stand at the end of it, ...
Counted(ends) ==
  /\ pc = "frames" => position = ends[Len(loaded)]
  /\ Repairing \/ Writing => committedByteCount = ends[Len(loaded)]
  /\ pc \in {"sync", "seek"} \/ (pc = "open" /\ usable) => Len(file) = ends[Len(loaded)]
  /\ Writing => /\ committedCommandCount = Len(loaded) /\ nextCommandSequence = Len(loaded) + 1
                /\ position = Len(file)

\* ... no complete frame is cut, and a frame is written behind it.
AtEnd(plan, ends) ==
  /\ pc \in {"preserve", "truncate"} /\ Len(loaded) < Len(plan) => Len(file) < ends[Len(loaded) + 1]
  /\ pc = "writing" => /\ Len(plan) = Len(loaded) + 1
                       /\ frame = Encode(plan[Len(loaded) + 1])
                       /\ bytesWritten <= Len(frame)
                       /\ Len(file) = ends[Len(loaded)] + bytesWritten
                       /\ \A i \in DOMAIN file : file[i].ok
                       /\ Len(acknowledged) <= Len(loaded)

\* Both contents of the file, and where the process stands in it.
FilesFollow(plan, ends, stablePlan, stableEnds) ==
  /\ Plan(plan, ends) /\ LaidOut(file, plan, ends) /\ Fits(plan, ends)
  /\ Plan(stablePlan, stableEnds) /\ LaidOut(stable, stablePlan, stableEnds) /\ Fits(stablePlan, stableEnds)
  /\ Acknowledged(plan, ends, stablePlan, stableEnds)

ProcessFollows(plan, ends) == Known(plan, ends) /\ Counted(ends) /\ AtEnd(plan, ends)

\* The invariant: there are plans that both contents and the process follow.
IInv ==
  /\ Control
  /\ \E plan, ends, stablePlan, stableEnds :
       FilesFollow(plan, ends, stablePlan, stableEnds) /\ ProcessFollows(plan, ends)

-----------------------------------------------------------------------------
(* Counting without induction.                                             *)

\* A beginning of the positive numbers is an interval.
LEMMA Beginning ==
  ASSUME NEW m \in Nat, NEW S \in SUBSET (1..m), \A i \in S : \A j \in 1..i : j \in S
  PROVE  /\ IsFiniteSet(S) /\ Cardinality(S) \in 0..m
         /\ S = 1..Cardinality(S)
  <1>1. IsFiniteSet(1..m) /\ Cardinality(1..m) = m
    BY FS_Interval
  <1>2. IsFiniteSet(S) /\ Cardinality(S) <= m /\ Cardinality(S) \in Nat
    BY <1>1, FS_Subset, FS_CardinalityType
  <1>. DEFINE c == Cardinality(S)
  <1>3. ASSUME NEW i \in S PROVE i \in 1..c
    <2>1. i \in Nat /\ i >= 1 /\ 1..i \in SUBSET S
      OBVIOUS
    <2>2. Cardinality(1..i) = i
      BY <2>1, FS_Interval
    <2>3. Cardinality(1..i) <= c
      BY <1>2, <2>1, FS_Subset
    <2>. HIDE DEF c
    <2>. QED  BY <2>1, <2>2, <2>3, <1>2 DEF c
  <1>4. IsFiniteSet(1..c) /\ Cardinality(1..c) = c
    BY <1>2, FS_Interval
  <1>5. S \in SUBSET (1..c)
    BY <1>3
  <1>6. S = 1..c
    BY <1>4, <1>5, FS_Subset
  <1>. QED  BY <1>2, <1>6

\* The n-th element of an increasing sequence is the n-th of the set it runs through.
LEMMA Rank ==
  ASSUME NEW k \in Nat, NEW S \in SUBSET Nat, NEW f \in [1..k -> S], \A x \in S : \E i \in 1..k : x = f[i],
         \A m, n \in 1..k : m < n => f[m] < f[n], NEW n \in 1..k
  PROVE  Cardinality({x \in S : x <= f[n]}) = n
  <1>. DEFINE T == {x \in S : x <= f[n]}
              g == [i \in 1..n |-> f[i]]
  <1>1. \A i \in 1..k : f[i] \in Nat /\ f[i] \in S
    OBVIOUS
  <1>2. ASSUME NEW i \in 1..k PROVE f[i] <= f[n] <=> i <= n
    <2>1. i \in Nat /\ n \in Nat /\ (i < n \/ i = n \/ n < i)
      OBVIOUS
    <2>. QED  BY <1>1, <2>1
  <1>3. g \in [1..n -> T]
    BY <1>1, <1>2
  <1>4. \A i, j \in 1..n : g[i] = g[j] => i = j
    <2>. SUFFICES ASSUME NEW i \in 1..n, NEW j \in 1..n, g[i] = g[j] PROVE i = j
      OBVIOUS
    <2>1. i \in 1..k /\ j \in 1..k /\ f[i] = f[j]
      OBVIOUS
    <2>2. i < j \/ i = j \/ j < i
      OBVIOUS
    <2>. QED  BY <1>1, <2>1, <2>2
  <1>5. \A x \in T : \E i \in 1..n : g[i] = x
    BY <1>2
  <1>6. g \in Bijection(1..n, T)
    BY <1>3, <1>4, <1>5 DEF Bijection, Injection, IsInjective, Surjection
  <1>. QED  BY <1>6, FS_CountingElements DEF ExistsBijection

\* An increasing sequence through a set is its only enumeration.
LEMMA OneEnumeration ==
  ASSUME NEW k \in Nat, NEW S \in SUBSET Nat, NEW f \in [1..k -> S], \A x \in S : \E i \in 1..k : x = f[i],
         \A m, n \in 1..k : m < n => f[m] < f[n]
  PROVE  Cardinality(S) = k /\ Enumerations(S) = {f}
  <1>0. \A i \in 1..k : f[i] \in Nat /\ f[i] \in S
    OBVIOUS
  <1>1. \A i, j \in 1..k : f[i] = f[j] => i = j
    <2>. SUFFICES ASSUME NEW i \in 1..k, NEW j \in 1..k, f[i] = f[j] PROVE i = j
      OBVIOUS
    <2>1. i < j \/ i = j \/ j < i
      OBVIOUS
    <2>. QED  BY <1>0, <2>1
  <1>2. f \in Bijection(1..k, S)
    BY <1>1 DEF Bijection, Injection, IsInjective, Surjection
  <1>3. Cardinality(S) = k /\ IsFiniteSet(S)
    BY <1>2, FS_CountingElements, FS_NatBijection DEF ExistsBijection
  <1>4. f \in Enumerations(S)
    BY <1>3 DEF Enumerations
  <1>5. ASSUME NEW g \in Enumerations(S) PROVE g = f
    <2>1. g \in [1..k -> S] /\ \A m, n \in 1..k : m < n => g[m] < g[n]
      BY <1>3 DEF Enumerations
    <2>2. \A i \in 1..k : g[i] \in Nat /\ g[i] \in S
      BY <2>1
    <2>3. \A i, j \in 1..k : g[i] = g[j] => i = j
      <3>. SUFFICES ASSUME NEW i \in 1..k, NEW j \in 1..k, g[i] = g[j] PROVE i = j
        OBVIOUS
      <3>1. i < j \/ i = j \/ j < i
        OBVIOUS
      <3>. QED  BY <2>1, <2>2, <3>1
    <2>4. g \in Injection(1..k, S)
      BY <2>1, <2>3 DEF Injection, IsInjective
    <2>5. Cardinality(1..k) = k
      BY FS_Interval
    <2>6. g \in Surjection(1..k, S)
      BY <1>3, <2>4, <2>5, FS_Injection
    <2>7. \A x \in S : \E i \in 1..k : x = g[i]
      BY <2>6 DEF Surjection
    <2>8. ASSUME NEW n \in 1..k PROVE g[n] = f[n]
      <3>1. PICK i \in 1..k : g[n] = f[i]
        BY <2>2
      <3>2. Cardinality({x \in S : x <= f[i]}) = i
        BY Rank
      <3>3. Cardinality({x \in S : x <= g[n]}) = n
        BY <2>1, <2>7, Rank
      <3>. QED  BY <3>1, <3>2, <3>3
    <2>. QED  BY <2>1, <2>8
  <1>. QED  BY <1>3, <1>4, <1>5

-----------------------------------------------------------------------------
(* Frames and plans.                                                       *)

\* A piece of a sequence.
LEMMA Piece ==
  ASSUME NEW S, NEW s \in Seq(S), NEW p \in Nat, NEW n \in Nat, p + n <= Len(s)
  PROVE  /\ SubSeq(s, p + 1, p + n) \in Seq(S) /\ Len(SubSeq(s, p + 1, p + n)) = n
         /\ \A j \in 1..n : SubSeq(s, p + 1, p + n)[j] = s[p + j] /\ p + j \in 1..Len(s)
  <1>1. Len(s) \in Nat
    OBVIOUS
  <1>2. \A j \in (p + 1)..(p + n) : j \in 1..Len(s)
    BY <1>1
  <1>3. \A j \in (p + 1)..(p + n) : s[j] \in S
    BY <1>2, ElementOfSeq
  <1>4. /\ p + 1 \in Int /\ p + n \in Int /\ (p + n) - (p + 1) + 1 = n
        /\ (IF p + 1 <= p + n THEN (p + n) - (p + 1) + 1 ELSE 0) = n
    OBVIOUS
  <1>. DEFINE a == p + 1
              b == p + n
  <1>5. /\ SubSeq(s, a, b) \in Seq(S) /\ Len(SubSeq(s, a, b)) = n
        /\ \A j \in 1..n : SubSeq(s, a, b)[j] = s[a + j - 1]
    <2>1. /\ a \in Int /\ b \in Int /\ b - a + 1 = n /\ (IF a <= b THEN b - a + 1 ELSE 0) = n
          /\ \A j \in a..b : s[j] \in S
      BY <1>3, <1>4
    <2>. HIDE DEF a, b
    <2>2. /\ SubSeq(s, a, b) \in Seq(S)
          /\ Len(SubSeq(s, a, b)) = IF a <= b THEN b - a + 1 ELSE 0
          /\ \A j \in 1..(b - a + 1) : SubSeq(s, a, b)[j] = s[a + j - 1]
      BY <2>1, SubSeqProperties
    <2>. QED  BY <2>1, <2>2
  <1>6. \A j \in 1..n : (p + 1) + j - 1 = p + j /\ p + j \in 1..Len(s)
    BY <1>1
  <1>. QED  BY <1>5, <1>6

\* A frame has an envelope and a payload.
LEMMA FrameLengths ==
  /\ HeaderLength \in Nat /\ HeaderLength >= 1 /\ MaxRunJournalBytes \in Nat /\ MaxRunCommands \in Nat
  /\ \A body : FrameLength(body) \in Nat /\ FrameLength(body) > EnvelopeSize
  BY JournalAssumption DEF FrameLength, EnvelopeSize

\* What Encode writes for a command.
LEMMA Encoded ==
  ASSUME NEW c \in Commands
  PROVE  /\ Len(Encode(c)) = FrameLength(c.body) /\ Encode(c) \in Seq(CellStates)
         /\ Encode(c) = [part \in 1..FrameLength(c.body) |-> Cell(c, part)]
         /\ \A part \in 1..FrameLength(c.body) : /\ Encode(c)[part] = Cell(c, part)
                                                 /\ Encode(c)[part] \in CellStates
                                                 /\ Holds(Encode(c)[part], c, part) /\ Encode(c)[part].ok
                                                 /\ CommandOf(Encode(c)[part]) = c
  <1>. DEFINE length == FrameLength(c.body)
  <1>0. c = [sequence |-> c.sequence, body |-> c.body]
    BY DEF Commands
  <1>1. Encode(c) = [part \in 1..length |-> Cell(c, part)]
    BY DEF Encode, encodeNewOrderV1, encodeCancelV1, FrameLength
  <1>2. length \in Nat
    BY FrameLengths
  <1>. HIDE DEF length
  <1>3. \A part \in 1..length : Cell(c, part) \in CellStates
    BY <1>2 DEF Cell, CellStates, Commands
  <1>4. Encode(c) \in Seq(CellStates) /\ Len(Encode(c)) = length
    BY <1>1, <1>2, <1>3
  <1>5. \A part \in 1..length : Holds(Cell(c, part), c, part) /\ Cell(c, part).ok /\ CommandOf(Cell(c, part)) = c
    BY <1>0 DEF Cell, Holds, CommandOf
  <1>. QED  BY <1>1, <1>3, <1>4, <1>5 DEF length

\* The places of a plan.
LEMMA PlanEnds ==
  ASSUME NEW plan, NEW ends, Plan(plan, ends)
  PROVE  /\ Len(plan) \in Nat
         /\ \A n \in 0..Len(plan) : ends[n] \in Nat /\ ends[n] >= HeaderLength /\ ends[n] <= ends[Len(plan)]
         /\ \A m, n \in 0..Len(plan) : ends[m] <= ends[n] <=> m <= n
         /\ \A n \in 1..Len(plan) : n - 1 \in 0..Len(plan) /\ plan[n] \in Commands
  <1>0. plan \in Seq(Commands) /\ ends \in [0..Len(plan) -> Nat]
    BY DEF Plan
  <1>1. Len(plan) \in Nat /\ \A n \in 0..Len(plan) : ends[n] \in Nat
    BY <1>0
  <1>2. ASSUME NEW m \in 0..Len(plan), NEW n \in 0..Len(plan) PROVE ends[m] <= ends[n] <=> m <= n
    <2>1. m < n \/ m = n \/ n < m
      OBVIOUS
    <2>. QED  BY <1>1, <2>1 DEF Plan
  <1>3. \A n \in 0..Len(plan) : ends[n] >= HeaderLength /\ ends[n] <= ends[Len(plan)]
    <2>. SUFFICES ASSUME NEW n \in 0..Len(plan) PROVE ends[n] >= HeaderLength /\ ends[n] <= ends[Len(plan)]
      OBVIOUS
    <2>1. 0 \in 0..Len(plan) /\ Len(plan) \in 0..Len(plan) /\ 0 <= n /\ n <= Len(plan)
      BY <1>1
    <2>2. ends[0] <= ends[n] /\ ends[n] <= ends[Len(plan)] /\ ends[0] = HeaderLength
      BY <1>2, <2>1 DEF Plan
    <2>. QED  BY <1>1, <2>1, <2>2
  <1>4. \A n \in 1..Len(plan) : n - 1 \in 0..Len(plan) /\ plan[n] \in Commands
    BY <1>1, ElementOfSeq DEF Plan
  <1>. QED  BY <1>1, <1>2, <1>3, <1>4

\* Every cell behind the header belongs to a frame.
LEMMA Located ==
  ASSUME NEW plan, NEW ends, Plan(plan, ends), NEW i \in Nat, HeaderLength < i, i <= ends[Len(plan)]
  PROVE  \E n \in 1..Len(plan) : /\ ends[n - 1] < i /\ i <= ends[n]
                                 /\ i - ends[n - 1] \in 1..FrameLength(plan[n].body)
                                 /\ i = ends[n - 1] + (i - ends[n - 1])
  <1>. DEFINE S == {n \in 1..Len(plan) : ends[n] < i}
              c == Cardinality(S)
  <1>1. Len(plan) \in Nat /\ \A n \in 0..Len(plan) : ends[n] \in Nat
    BY PlanEnds
  <1>2. \A n \in S : \A m \in 1..n : m \in S
    <2>. SUFFICES ASSUME NEW n \in S, NEW m \in 1..n PROVE m \in S
      OBVIOUS
    <2>1. n \in 0..Len(plan) /\ m \in 0..Len(plan) /\ m \in 1..Len(plan) /\ m <= n
      BY <1>1
    <2>2. ends[m] <= ends[n] /\ ends[n] < i
      BY <2>1, PlanEnds
    <2>. QED  BY <1>1, <2>1, <2>2
  <1>3. c \in 0..Len(plan) /\ S = 1..c
    BY <1>1, <1>2, Beginning
  <1>. HIDE DEF c
  <1>4. c # Len(plan)
    <2>. SUFFICES ASSUME c = Len(plan) PROVE FALSE
      OBVIOUS
    <2>1. CASE c = 0
      BY <2>1, <1>1 DEF Plan
    <2>2. CASE c # 0
      <3>1. c \in S
        BY <1>1, <1>3, <2>2
      <3>. QED  BY <1>1, <1>3, <3>1
    <2>. QED  BY <2>1, <2>2
  <1>. DEFINE n == c + 1
  <1>5. n \in 1..Len(plan) /\ n \notin S /\ n - 1 = c
    BY <1>1, <1>3, <1>4
  <1>6. i <= ends[n]
    BY <1>1, <1>5
  <1>7. ends[c] < i
    <2>1. CASE c = 0
      BY <2>1, <1>1, FrameLengths DEF Plan
    <2>2. CASE c # 0
      BY <1>1, <1>3, <2>2
    <2>. QED  BY <2>1, <2>2
  <1>8. ends[n] = ends[n - 1] + FrameLength(plan[n].body)
    BY <1>5 DEF Plan
  <1>. HIDE DEF n
  <1>9. ends[n] \in Nat /\ ends[n - 1] \in Nat /\ FrameLength(plan[n].body) \in Nat
    BY <1>1, <1>5, PlanEnds, FrameLengths
  <1>10. ends[n - 1] < i
    BY <1>5, <1>7
  <1>. QED  BY <1>5, <1>6, <1>8, <1>9, <1>10

\* The number of frames that are complete.
Complete(cells, plan, ends, k) ==
  /\ k \in 0..Len(plan) /\ ends[k] <= Len(cells)
  /\ k < Len(plan) => Len(cells) < ends[k + 1]

\* Some number of frames is complete in every file.
LEMMA CompleteCount ==
  ASSUME NEW cells, NEW plan, NEW ends, Plan(plan, ends), LaidOut(cells, plan, ends)
  PROVE  \E k \in 0..Len(plan) : Complete(cells, plan, ends, k)
  <1>1. Len(plan) \in Nat /\ Len(cells) \in Nat /\ HeaderLength \in Nat /\ \A n \in 0..Len(plan) : ends[n] \in Nat
    BY PlanEnds, FrameLengths DEF LaidOut
  <1>2. CASE Len(cells) = ends[Len(plan)]
    <2>1. Complete(cells, plan, ends, Len(plan))
      BY <1>1, <1>2 DEF Complete
    <2>. QED  BY <1>1, <2>1
  <1>3. CASE Len(cells) # ends[Len(plan)]
    <2>1. Len(cells) + 1 <= ends[Len(plan)] /\ HeaderLength < Len(cells) + 1 /\ Len(cells) + 1 \in Nat
      BY <1>1, <1>3 DEF LaidOut
    <2>2. PICK n \in 1..Len(plan) : ends[n - 1] < Len(cells) + 1 /\ Len(cells) + 1 <= ends[n]
      BY <2>1, Located
    <2>3. n - 1 \in 0..Len(plan) /\ (n - 1) + 1 = n /\ n \in 0..Len(plan)
      BY <1>1
    <2>4. ends[n - 1] <= Len(cells) /\ Len(cells) < ends[n]
      BY <1>1, <2>2, <2>3
    <2>. QED  BY <2>3, <2>4 DEF Complete
  <1>. QED  BY <1>2, <1>3

\* All frames up to there end within the cells, and no other.
LEMMA CompleteEnds ==
  ASSUME NEW cells, NEW plan, NEW ends, Plan(plan, ends), LaidOut(cells, plan, ends),
         NEW k, Complete(cells, plan, ends, k), NEW n \in 0..Len(plan)
  PROVE  ends[n] <= Len(cells) <=> n <= k
  <1>1. /\ k \in 0..Len(plan) /\ Len(plan) \in Nat /\ Len(cells) \in Nat
        /\ \A m \in 0..Len(plan) : ends[m] \in Nat
    BY PlanEnds DEF LaidOut, Complete
  <1>2. CASE n <= k
    <2>1. ends[n] <= ends[k]
      BY <1>1, <1>2, PlanEnds
    <2>. QED  BY <1>1, <1>2, <2>1 DEF Complete
  <1>3. CASE k < n
    <2>1. k + 1 \in 0..Len(plan) /\ k + 1 <= n /\ k < Len(plan)
      BY <1>1, <1>3
    <2>2. ends[k + 1] <= ends[n] /\ Len(cells) < ends[k + 1]
      BY <2>1, PlanEnds DEF Complete
    <2>. QED  BY <1>1, <1>3, <2>1, <2>2
  <1>. QED  BY <1>1, <1>2, <1>3

\* The complete frames of a file are those of the plan.
LEMMA FramesOfPlan ==
  ASSUME NEW cells, NEW plan, NEW ends, Plan(plan, ends), LaidOut(cells, plan, ends),
         NEW k, Complete(cells, plan, ends, k)
  PROVE  FramesIn(cells) = SubSeq(plan, 1, k)
  <1>. DEFINE S == FrameEnds(cells)
              f == [n \in 1..k |-> ends[n]]
  <1>1. /\ k \in Nat /\ k <= Len(plan) /\ Len(plan) \in Nat /\ Len(cells) \in Nat /\ HeaderLength \in Nat
        /\ \A n \in 0..Len(plan) : ends[n] \in Nat
    BY PlanEnds, FrameLengths DEF LaidOut, Complete
  <1>2. ASSUME NEW n \in 1..Len(plan), NEW part \in 1..FrameLength(plan[n].body), ends[n - 1] + part <= Len(cells)
        PROVE  /\ cells[ends[n - 1] + part].part = part /\ CommandOf(cells[ends[n - 1] + part]) = plan[n]
               /\ FrameLength(cells[ends[n - 1] + part].body) = FrameLength(plan[n].body)
    <2>1. Holds(cells[ends[n - 1] + part], plan[n], part)
      BY <1>2 DEF LaidOut
    <2>2. plan[n] = [sequence |-> plan[n].sequence, body |-> plan[n].body]
      BY PlanEnds DEF Commands
    <2>. QED  BY <2>1, <2>2 DEF Holds, CommandOf
  <1>3. ASSUME NEW n \in 1..k
        PROVE  ends[n] \in S /\ CommandOf(cells[ends[n]]) = plan[n]
    <2>. DEFINE part == FrameLength(plan[n].body)
    <2>1. /\ n \in 1..Len(plan) /\ n \in 0..Len(plan) /\ n - 1 \in 0..Len(plan) /\ n <= k
          /\ part \in Nat /\ part >= 1 /\ part \in 1..FrameLength(plan[n].body)
      BY <1>1, FrameLengths DEF EnvelopeSize
    <2>2. ends[n] = ends[n - 1] + part /\ ends[n - 1] >= HeaderLength
      BY <2>1, PlanEnds DEF Plan
    <2>3. ends[n] <= Len(cells)
      BY <2>1, CompleteEnds
    <2>4. cells[ends[n]].part = FrameLength(cells[ends[n]].body) /\ CommandOf(cells[ends[n]]) = plan[n]
      BY <1>2, <2>1, <2>2, <2>3
    <2>. HIDE DEF part
    <2>5. ends[n] \in (HeaderLength + 1)..Len(cells)
      BY <1>1, <2>1, <2>2, <2>3
    <2>. QED  BY <2>4, <2>5 DEF FrameEnds
  <1>4. ASSUME NEW i \in S PROVE \E n \in 1..k : i = f[n]
    <2>1. /\ i \in Nat /\ HeaderLength < i /\ i <= Len(cells) /\ i <= ends[Len(plan)]
          /\ cells[i].part = FrameLength(cells[i].body)
      BY <1>1 DEF FrameEnds, LaidOut
    <2>2. PICK n \in 1..Len(plan) : /\ i - ends[n - 1] \in 1..FrameLength(plan[n].body)
                                    /\ i = ends[n - 1] + (i - ends[n - 1])
      BY <2>1, Located
    <2>. DEFINE part == i - ends[n - 1]
    <2>3. part = FrameLength(plan[n].body)
      BY <1>2, <2>1, <2>2
    <2>4. n \in 0..Len(plan) /\ ends[n] = ends[n - 1] + FrameLength(plan[n].body)
      BY <1>1 DEF Plan
    <2>. HIDE DEF part
    <2>5. i = ends[n]
      BY <2>2, <2>3, <2>4 DEF part
    <2>6. n <= k
      BY <2>1, <2>4, <2>5, CompleteEnds
    <2>. QED  BY <1>1, <2>5, <2>6
  <1>5. S \in SUBSET Nat
    BY <1>1 DEF FrameEnds
  <1>6. f \in [1..k -> S]
    BY <1>3
  <1>7. \A m, n \in 1..k : m < n => f[m] < f[n]
    BY <1>1 DEF Plan
  <1>. HIDE DEF S
  <1>8. Enumerations(S) = {f}
    <2>. HIDE DEF f
    <2>. QED  BY <1>1, <1>4, <1>5, <1>6, <1>7, OneEnumeration
  <1>9. FramesIn(cells) = [n \in DOMAIN f |-> CommandOf(cells[f[n]])]
    BY <1>8 DEF FramesIn, S
  <1>10. FramesIn(cells) = [n \in 1..k |-> plan[n]]
    BY <1>3, <1>9
  <1>11. SubSeq(plan, 1, k) = [n \in 1..k |-> plan[n]]
    BY <1>1 DEF Plan
  <1>. QED  BY <1>10, <1>11

\* The complete frames of a file, one by one.
LEMMA FramesAre ==
  ASSUME NEW cells, NEW plan, NEW ends, Plan(plan, ends), LaidOut(cells, plan, ends),
         NEW k, Complete(cells, plan, ends, k)
  PROVE  /\ k \in Nat /\ k <= Len(plan) /\ FramesIn(cells) \in Seq(Commands) /\ Len(FramesIn(cells)) = k
         /\ \A n \in 1..k : FramesIn(cells)[n] = plan[n]
  <1>1. k \in Nat /\ k <= Len(plan) /\ plan \in Seq(Commands) /\ Len(plan) \in Nat
    BY PlanEnds DEF Complete, Plan
  <1>2. 0 + 1 = 1 /\ 0 + k = k /\ 0 \in Nat /\ \A n \in 1..k : 0 + n = n
    BY <1>1
  <1>3. FramesIn(cells) = SubSeq(plan, 1, k)
    BY FramesOfPlan
  <1>. QED  BY <1>1, <1>2, <1>3, Piece

\* A file without a complete frame.
LEMMA NoFrame ==
  ASSUME NEW cells, NEW plan, NEW ends, Plan(plan, ends), LaidOut(cells, plan, ends), Complete(cells, plan, ends, 0)
  PROVE  FramesIn(cells) = <<>>
  <1>1. FramesIn(cells) \in Seq(Commands) /\ Len(FramesIn(cells)) = 0
    BY FramesAre
  <1>. QED  BY <1>1, EmptySeq

\* The frames of any contents that follow a plan are commands.
LEMMA FramesAreTyped ==
  ASSUME NEW cells, NEW plan, NEW ends, Plan(plan, ends), LaidOut(cells, plan, ends)
  PROVE  FramesIn(cells) \in Seq(Commands)
  <1>1. PICK k \in 0..Len(plan) : Complete(cells, plan, ends, k)
    BY CompleteCount
  <1>. QED  BY <1>1, FramesAre

-----------------------------------------------------------------------------
(* Steps that leave the files alone.                                       *)

Files == <<file, stable, headerRun, acknowledged>>

\* The same plans describe the same files.
LEMMA FilesKeep ==
  ASSUME NEW plan, NEW ends, NEW stablePlan, NEW stableEnds,
         FilesFollow(plan, ends, stablePlan, stableEnds), UNCHANGED Files
  PROVE  FilesFollow(plan, ends, stablePlan, stableEnds)'
  BY DEF Files, FilesFollow, Fits, Acknowledged

\* A process that knows nothing of the file contradicts no plan.
LEMMA NothingKnown ==
  ASSUME NEW plan, NEW ends, pc' \in {"down", "header"} \/ (pc' = "open" /\ usable' = FALSE)
  PROVE  ProcessFollows(plan, ends)'
  BY DEF ProcessFollows, Known, Counted, AtEnd, Reading, Repairing, Writing

\* Whatever ends the process or its work on the file.
LEMMA DownKeeps ==
  ASSUME IInv, NEW outcome, Down(outcome), UNCHANGED Files,
         outcome = "CORRUPTION" => headerRun = "foreign" \/ ~Undamaged
  PROVE  IInv'
  <1>1. PICK plan, ends, stablePlan, stableEnds : FilesFollow(plan, ends, stablePlan, stableEnds)
    BY DEF IInv
  <1>2. FilesFollow(plan, ends, stablePlan, stableEnds)' /\ ProcessFollows(plan, ends)'
    BY <1>1, FilesKeep, NothingKnown DEF Down
  <1>3. Control'
    <2>1. /\ result' = outcome /\ pc' = "down" /\ position' = 0 /\ loaded' = <<>> /\ usable' = FALSE
          /\ committedByteCount' = 0 /\ frame' = <<>> /\ bytesWritten' = 0
          /\ headerRun' = headerRun /\ Undamaged' = Undamaged
      BY DEF Down, Files, Undamaged
    <2>2. loaded' \in Seq(Commands) /\ frame' \in Seq(CellStates)
      BY <2>1, EmptySeq
    <2>3. ~Repairing' /\ ~Writing'
      BY <2>1 DEF Repairing, Writing
    <2>. QED  BY <2>1, <2>2, <2>3 DEF IInv, Control
  <1>. QED  BY <1>2, <1>3 DEF IInv

\* The process ends wherever it stands.
LEMMA StopPreserves == ASSUME IInv, Stop PROVE IInv'
  BY DownKeeps DEF Stop, Files

\* closeAfterFailure gives up the descriptor and what was read.
LEMMA PrepareFailsPreserves == ASSUME IInv, PrepareFails PROVE IInv'
  <1>1. PICK outcome \in {"RECOVERY_REQUIRED", "IO_FAILURE"} : Down(outcome)
    BY DEF PrepareFails
  <1>. QED  BY <1>1, DownKeeps DEF PrepareFails, Files

\* append returns without a COMMITTED: nobody uses the writer any more.
LEMMA AppendFailsPreserves ==
  ASSUME IInv, NEW outcome \in {"IO_FAILURE", "RECOVERY_REQUIRED"}, AppendFails(outcome)
  PROVE  IInv'
  <1>1. PICK plan, ends, stablePlan, stableEnds : FilesFollow(plan, ends, stablePlan, stableEnds)
    BY DEF IInv
  <1>2. FilesFollow(plan, ends, stablePlan, stableEnds)' /\ ProcessFollows(plan, ends)'
    BY <1>1, FilesKeep, NothingKnown DEF AppendFails, Files
  <1>3. Control'
    <2>1. /\ result' # "CORRUPTION" /\ pc' = "open" /\ usable' = FALSE /\ frame' = <<>> /\ bytesWritten' = 0
          /\ UNCHANGED <<loaded, headerRun, position, committedByteCount>>
      BY DEF AppendFails
    <2>2. frame' \in Seq(CellStates)
      BY <2>1, EmptySeq
    <2>3. ~Repairing' /\ ~Writing'
      BY <2>1 DEF Repairing, Writing
    <2>. QED  BY <2>1, <2>2, <2>3 DEF IInv, Control
  <1>. QED  BY <1>2, <1>3 DEF IInv

\* The preparation begins.
LEMMA OpenReadWritePreserves == ASSUME IInv, OpenReadWrite PROVE IInv'
  <1>1. PICK plan, ends, stablePlan, stableEnds : FilesFollow(plan, ends, stablePlan, stableEnds)
    BY DEF IInv
  <1>2. FilesFollow(plan, ends, stablePlan, stableEnds)' /\ ProcessFollows(plan, ends)'
    BY <1>1, FilesKeep, NothingKnown DEF OpenReadWrite, Files
  <1>3. Control'
    <2>1. /\ pc = "down" /\ pc' = "header" /\ result' = "NONE"
          /\ UNCHANGED <<loaded, headerRun, position, committedByteCount, usable, frame, bytesWritten>>
      BY DEF OpenReadWrite, writerVars, appendVars
    <2>2. ~Repairing' /\ ~Writing'
      BY <2>1 DEF Repairing, Writing
    <2>. QED  BY <2>1, <2>2 DEF IInv, Control
  <1>. QED  BY <1>2, <1>3 DEF IInv

-----------------------------------------------------------------------------
(* Reading.                                                                *)

\* What stands behind the frames read so far is the next frame of the plan.
LEMMA NextFrame ==
  ASSUME NEW plan, NEW ends, Plan(plan, ends), LaidOut(file, plan, ends), NEW k \in 0..Len(plan),
         ends[k] < Len(file)
  PROVE  /\ k + 1 \in 1..Len(plan) /\ ends[k + 1] = ends[k] + FrameLength(plan[k + 1].body)
         /\ plan[k + 1] \in Commands /\ plan[k + 1].sequence = k + 1
         /\ file[ends[k] + 1].part = 1 /\ CommandOf(file[ends[k] + 1]) = plan[k + 1]
         /\ file[ends[k] + 1].body = plan[k + 1].body /\ file[ends[k] + 1].sequence = k + 1
         /\ ends[k] + 1 \in DOMAIN file
  <1>1. /\ Len(plan) \in Nat /\ file \in Seq(CellStates) /\ Len(file) \in Nat /\ DOMAIN file = 1..Len(file)
        /\ ends[k] \in Nat /\ ends[Len(plan)] \in Nat /\ Len(file) <= ends[Len(plan)]
    BY PlanEnds DEF LaidOut
  <1>2. k # Len(plan)
    BY <1>1
  <1>3. k + 1 \in 1..Len(plan) /\ (k + 1) - 1 = k
    BY <1>1, <1>2
  <1>4. /\ ends[k + 1] = ends[k] + FrameLength(plan[k + 1].body) /\ plan[k + 1] \in Commands
        /\ plan[k + 1].sequence = k + 1
    BY <1>3, PlanEnds DEF Plan
  <1>5. 1 \in 1..FrameLength(plan[k + 1].body) /\ ends[k] + 1 <= Len(file)
    BY <1>1, FrameLengths DEF EnvelopeSize
  <1>6. Holds(file[ends[k] + 1], plan[k + 1], 1)
    BY <1>3, <1>5 DEF LaidOut
  <1>7. plan[k + 1] = [sequence |-> plan[k + 1].sequence, body |-> plan[k + 1].body]
    BY <1>4 DEF Commands
  <1>8. ends[k] + 1 \in DOMAIN file
    BY <1>1, <1>5
  <1>. QED  BY <1>3, <1>4, <1>6, <1>7, <1>8 DEF Holds, CommandOf

\* The header is read whole, or a changed cell of it is seen.
LEMMA ReadHeaderPreserves == ASSUME IInv, ReadHeader PROVE IInv'
  <1>1. CASE \A i \in 1..HeaderLength : file[i].ok
    <2>1. /\ pc = "header" /\ pc' = "frames" /\ position' = HeaderLength
          /\ UNCHANGED <<result, loaded, usable, committedByteCount, frame, bytesWritten>>
          /\ UNCHANGED <<file, stable, headerRun, acknowledged>>
      BY <1>1 DEF ReadHeader, writerVars, appendVars
    <2>2. PICK plan, ends, stablePlan, stableEnds : FilesFollow(plan, ends, stablePlan, stableEnds)
      BY DEF IInv
    <2>3. FilesFollow(plan, ends, stablePlan, stableEnds)'
      BY <2>1, <2>2, FilesKeep DEF Files
    <2>4. Control'
      <3>1. ~Repairing' /\ ~Writing' /\ HeaderLength \in Nat
        BY <2>1, FrameLengths DEF Repairing, Writing
      <3>. QED  BY <2>1, <3>1 DEF IInv, Control
    <2>5. /\ loaded' = <<>> /\ Len(loaded') = 0 /\ ends[0] = HeaderLength /\ Len(plan) \in Nat
          /\ HeaderLength <= Len(file)
      BY <2>1, <2>2, PlanEnds DEF IInv, Control, FilesFollow, Plan, LaidOut
    <2>6. Known(plan, ends)'
      BY <1>1, <2>1, <2>5 DEF Known
    <2>7. Counted(ends)' /\ AtEnd(plan, ends)'
      BY <2>1, <2>5 DEF Counted, AtEnd, Repairing, Writing
    <2>. QED  BY <2>3, <2>4, <2>6, <2>7 DEF IInv, ProcessFollows
  <1>2. CASE ~(\A i \in 1..HeaderLength : file[i].ok)
    <2>1. Down("CORRUPTION") /\ UNCHANGED <<file, stable, headerRun, acknowledged>>
      BY <1>2 DEF ReadHeader
    <2>2. PICK plan, ends : LaidOut(file, plan, ends)
      BY DEF IInv, FilesFollow
    <2>3. file \in Seq(CellStates) /\ HeaderLength <= Len(file) /\ HeaderLength \in Nat
      BY <2>2, FrameLengths DEF LaidOut
    <2>4. Len(file) \in Nat /\ DOMAIN file = 1..Len(file)
      BY <2>3
    <2>5. ~Undamaged
      BY <1>2, <2>3, <2>4 DEF Undamaged
    <2>. QED  BY <2>1, <2>5, DownKeeps DEF Files
  <1>. QED  BY <1>1, <1>2

\* A frame that decodes is the next one of the plan.
LEMMA ReadFramePreserves == ASSUME IInv, ReadFrame PROVE IInv'
  <1>. DEFINE k == Len(loaded)
              first == file[position + 1]
              length == FrameLength(first.body)
              rest == Len(file) - position
              cells == SubSeq(file, position + 1, position + length)
  <1>1. /\ pc = "frames" /\ pc' = "frames" /\ loaded' = Append(loaded, CommandOf(first))
        /\ position' = position + length
        /\ UNCHANGED <<result, usable, committedByteCount, frame, bytesWritten>>
        /\ UNCHANGED <<file, stable, headerRun, acknowledged>>
    BY DEF ReadFrame, writerVars, appendVars
  <1>2. PICK plan, ends, stablePlan, stableEnds :
          FilesFollow(plan, ends, stablePlan, stableEnds) /\ ProcessFollows(plan, ends)
    BY DEF IInv
  <1>3. FilesFollow(plan, ends, stablePlan, stableEnds)'
    BY <1>1, <1>2, FilesKeep DEF Files
  <1>4. rest # 0 /\ ~(rest < length) /\ FrameDecodes(cells)
    BY DEF ReadFrame, LoadOutcome
  <1>5. /\ Plan(plan, ends) /\ LaidOut(file, plan, ends) /\ loaded \in Seq(Commands) /\ k \in Nat
        /\ k <= Len(plan) /\ position = ends[k] /\ ends[k] <= Len(file)
        /\ \A n \in 1..k : loaded[n] = plan[n]
        /\ \A i \in 1..ends[k] : file[i].ok
    BY <1>1, <1>2 DEF FilesFollow, ProcessFollows, Known, Counted, Reading, IInv, Control
  <1>6. /\ Len(plan) \in Nat /\ k \in 0..Len(plan) /\ ends[k] \in Nat /\ file \in Seq(CellStates) /\ Len(file) \in Nat
        /\ ends[k] < Len(file)
    BY <1>4, <1>5, PlanEnds DEF LaidOut
  <1>7. /\ k + 1 \in 1..Len(plan) /\ ends[k + 1] = ends[k] + length /\ plan[k + 1] \in Commands
        /\ first.body = plan[k + 1].body /\ CommandOf(first) = plan[k + 1]
        /\ length = FrameLength(plan[k + 1].body) /\ length \in Nat /\ length >= 1
    BY <1>5, <1>6, NextFrame, FrameLengths DEF EnvelopeSize
  <1>8. /\ loaded' \in Seq(Commands) /\ Len(loaded') = k + 1 /\ \A n \in 1..(k + 1) : loaded'[n] = plan[n]
    <2>1. loaded' = Append(loaded, plan[k + 1])
      BY <1>1, <1>7
    <2>. QED  BY <1>5, <1>7, <2>1, AppendProperties
  <1>9. position' = ends[k + 1] /\ ends[k + 1] <= Len(file) /\ position' \in Nat
    BY <1>1, <1>4, <1>5, <1>6, <1>7
  <1>10. ASSUME NEW i \in 1..ends[k + 1] PROVE file[i].ok
    <2>1. CASE i <= ends[k]
      BY <1>5, <1>6, <1>7, <2>1
    <2>2. CASE i > ends[k]
      <3>. DEFINE part == i - ends[k]
      <3>1. part \in 1..length /\ i = position + part
        BY <1>5, <1>6, <1>7, <2>2
      <3>2. cells[1] = first /\ cells[part] = file[i]
        <4>1. position \in Nat /\ position + length <= Len(file)
          BY <1>5, <1>6, <1>7, <1>9
        <4>2. \A j \in 1..length : cells[j] = file[position + j]
          <5>. HIDE DEF length
          <5>. QED  BY <1>6, <1>7, <4>1, Piece
        <4>. HIDE DEF length, part, first, cells
        <4>3. cells[1] = file[position + 1] /\ cells[part] = file[position + part]
          BY <1>7, <3>1, <4>2
        <4>. QED  BY <3>1, <4>3 DEF first
      <3>3. cells = Encode(plan[k + 1])
        <4>. HIDE DEF cells, first
        <4>1. CommandOf(cells[1]) = plan[k + 1] /\ cells[1].body = plan[k + 1].body
          BY <1>7, <3>2
        <4>. QED  BY <1>4, <4>1 DEF FrameDecodes, decodeNewOrderV1, decodeCancelV1, Encode
      <3>4. Encode(plan[k + 1])[part].ok
        BY <1>7, <3>1, Encoded
      <3>. HIDE DEF cells, part
      <3>. QED  BY <3>2, <3>3, <3>4
    <2>3. i <= ends[k] \/ i > ends[k]
      BY <1>6
    <2>. QED  BY <2>1, <2>2, <2>3
  <1>. HIDE DEF k, first, length, rest, cells
  <1>11. Known(plan, ends)'
    <2>1. file' = file /\ Len(loaded') = k + 1 /\ k + 1 <= Len(plan)
      BY <1>1, <1>6, <1>7, <1>8
    <2>2. /\ Len(loaded') <= Len(plan) /\ \A n \in 1..Len(loaded') : loaded'[n] = plan[n]
          /\ ends[Len(loaded')] <= Len(file')
          /\ \A i \in 1..ends[Len(loaded')] : file'[i].ok
      BY <1>8, <1>9, <1>10, <2>1
    <2>. QED  BY <2>2 DEF Known
  <1>12. Counted(ends)' /\ AtEnd(plan, ends)'
    BY <1>1, <1>8, <1>9 DEF Counted, AtEnd, Repairing, Writing
  <1>13. Control'
    <2>1. ~Repairing' /\ ~Writing'
      BY <1>1 DEF Repairing, Writing
    <2>. QED  BY <1>1, <1>8, <1>9, <2>1 DEF IInv, Control
  <1>. QED  BY <1>3, <1>11, <1>12, <1>13 DEF IInv, ProcessFollows

\* What readJournal says of the bytes behind the last valid frame.
LEMMA Verdict ==
  ASSUME NEW plan, NEW ends, Plan(plan, ends), LaidOut(file, plan, ends), loaded \in Seq(Commands),
         Len(loaded) <= Len(plan), position = ends[Len(loaded)], ends[Len(loaded)] <= Len(file)
  PROVE  /\ LoadOutcome = "VALID" => Len(file) = ends[Len(loaded)]
         /\ LoadOutcome = "INCOMPLETE_TAIL" =>
              Len(loaded) < Len(plan) /\ ends[Len(loaded)] < Len(file) /\ Len(file) < ends[Len(loaded) + 1]
         /\ LoadOutcome = "CORRUPTION" /\ headerRun = "expected" /\ Fits(plan, ends) => ~Undamaged
         /\ LoadOutcome \in {"VALID", "INCOMPLETE_TAIL", "CORRUPTION", "FRAME"}
  <1>. DEFINE k == Len(loaded)
              first == file[position + 1]
              length == FrameLength(first.body)
              rest == Len(file) - position
              cells == SubSeq(file, position + 1, position + length)
  <1>1. /\ Len(plan) \in Nat /\ k \in Nat /\ k \in 0..Len(plan) /\ ends[k] \in Nat /\ file \in Seq(CellStates)
        /\ Len(file) \in Nat /\ DOMAIN file = 1..Len(file) /\ rest \in Nat /\ position \in Nat
        /\ rest = 0 <=> Len(file) = ends[k]
        /\ MaxRunCommands \in Nat /\ MaxRunJournalBytes \in Nat
    BY PlanEnds, FrameLengths DEF LaidOut
  <1>2. LoadOutcome = IF rest = 0 THEN "VALID"
                      ELSE IF k >= MaxRunCommands THEN "CORRUPTION"
                      ELSE IF rest < EnvelopeSize
                           THEN IF ExceedsCapacity(rest) THEN "CORRUPTION" ELSE "INCOMPLETE_TAIL"
                      ELSE IF ~EnvelopeIsValid(first) THEN "CORRUPTION"
                      ELSE IF first.sequence # k + 1 THEN "CORRUPTION"
                      ELSE IF ExceedsCapacity(length) THEN "CORRUPTION"
                      ELSE IF rest < length THEN "INCOMPLETE_TAIL"
                      ELSE IF ~FrameDecodes(cells) THEN "CORRUPTION"
                      ELSE "FRAME"
    BY DEF LoadOutcome
  <1>. HIDE DEF cells, rest, first, length, k
  <1>3. CASE rest = 0
    BY <1>1, <1>2, <1>3 DEF k
  <1>4. CASE rest # 0
    <2>1. ends[k] < Len(file) /\ rest = Len(file) - ends[k]
      BY <1>1, <1>4 DEF rest, k
    <2>2. /\ k + 1 \in 1..Len(plan) /\ ends[k + 1] = ends[k] + length /\ plan[k + 1] \in Commands
          /\ CommandOf(first) = plan[k + 1] /\ length = FrameLength(plan[k + 1].body)
          /\ first.part = 1 /\ first.sequence = k + 1 /\ position + 1 \in DOMAIN file
      BY <1>1, <2>1, NextFrame DEF k, first, length
    <2>3. length \in Nat /\ length > EnvelopeSize /\ EnvelopeSize = 2
      BY <2>2, FrameLengths DEF EnvelopeSize
    <2>4. LoadOutcome = "INCOMPLETE_TAIL" => rest < length
      BY <1>1, <1>2, <1>4, <2>3
    <2>5. LoadOutcome = "INCOMPLETE_TAIL" => k < Len(plan) /\ ends[k] < Len(file) /\ Len(file) < ends[k + 1]
      BY <1>1, <2>1, <2>2, <2>3, <2>4
    <2>6. ASSUME Undamaged, headerRun = "expected", Fits(plan, ends) PROVE LoadOutcome # "CORRUPTION"
      <3>1. Len(plan) <= MaxRunCommands /\ ends[Len(plan)] <= MaxRunJournalBytes /\ ends[Len(plan)] \in Nat
        BY <2>6, <1>1, PlanEnds DEF Fits
      <3>2. ends[k + 1] <= MaxRunJournalBytes /\ k < MaxRunCommands
        <4>1. k + 1 \in 0..Len(plan)
          BY <1>1, <2>2
        <4>2. ends[k + 1] <= ends[Len(plan)] /\ ends[k + 1] \in Nat
          BY <4>1, PlanEnds
        <4>. QED  BY <1>1, <2>2, <3>1, <4>2
      <3>3. ~ExceedsCapacity(length) /\ (rest < EnvelopeSize => ~ExceedsCapacity(rest))
        <4>1. position = ends[k]
          BY DEF k
        <4>. QED  BY <1>1, <2>2, <2>3, <3>2, <4>1 DEF ExceedsCapacity
      <3>4. EnvelopeIsValid(first)
        BY <2>2, <2>6 DEF EnvelopeIsValid, Undamaged, first
      <3>5. ASSUME ~(rest < length) PROVE FrameDecodes(cells)
        <4>1. position = ends[k] /\ position + length <= Len(file)
          BY <1>1, <2>1, <2>3, <3>5 DEF k
        <4>4. cells \in Seq(CellStates) /\ Len(cells) = length /\ \A j \in 1..length : cells[j] = file[position + j]
          <5>1. file \in Seq(CellStates) /\ position \in Nat /\ length \in Nat /\ position + length <= Len(file)
            BY <1>1, <2>3, <4>1
          <5>2. /\ SubSeq(file, position + 1, position + length) \in Seq(CellStates)
                /\ Len(SubSeq(file, position + 1, position + length)) = length
                /\ \A j \in 1..length : SubSeq(file, position + 1, position + length)[j] = file[position + j]
            BY <5>1, Piece
          <5>. QED  BY <5>2 DEF cells
        <4>5. ASSUME NEW j \in 1..length PROVE cells[j] = Cell(plan[k + 1], j)
          <5>1. position + j = ends[k] + j /\ ends[k] + j <= Len(file) /\ ends[k] + j \in DOMAIN file
            BY <1>1, <2>3, <4>1
          <5>2. (k + 1) - 1 = k
            BY <1>1
          <5>3. Holds(file[ends[k] + j], plan[k + 1], j)
            BY <2>2, <5>1, <5>2 DEF LaidOut
          <5>4. file[ends[k] + j].ok = TRUE /\ file[ends[k] + j] \in CellStates
            BY <1>1, <2>6, <5>1, ElementOfSeq DEF Undamaged, CellStates
          <5>. QED  BY <4>4, <5>1, <5>3, <5>4 DEF Holds, Cell, CellStates
        <4>6. cells = Encode(plan[k + 1])
          <5>1. /\ Encode(plan[k + 1]) \in Seq(CellStates) /\ Len(Encode(plan[k + 1])) = length
                /\ \A j \in 1..length : Encode(plan[k + 1])[j] = Cell(plan[k + 1], j)
            BY <2>2, Encoded
          <5>. QED  BY <4>4, <4>5, <5>1, SeqEqual
        <4>7. CommandOf(cells[1]) = plan[k + 1] /\ cells[1].body = plan[k + 1].body
          <5>1. 1 \in 1..length
            BY <1>1, <2>3
          <5>2. cells[1] = first
            BY <4>4, <5>1 DEF first
          <5>. QED  BY <2>2, <5>2 DEF CommandOf
        <4>. QED  BY <4>6, <4>7 DEF FrameDecodes, decodeNewOrderV1, decodeCancelV1, Encode
      <3>. QED  BY <1>1, <1>2, <1>4, <2>2, <3>2, <3>3, <3>4, <3>5
    <2>7. LoadOutcome \in {"VALID", "INCOMPLETE_TAIL", "CORRUPTION", "FRAME"} /\ LoadOutcome # "VALID"
      BY <1>2, <1>4
    <2>. QED  BY <2>5, <2>6, <2>7 DEF k
  <1>. QED  BY <1>3, <1>4

\* The reading ends where the plan is complete, cut or damaged.
LEMMA EndLoadPreserves == ASSUME IInv, EndLoad PROVE IInv'
  <1>1. PICK plan, ends, stablePlan, stableEnds :
          FilesFollow(plan, ends, stablePlan, stableEnds) /\ ProcessFollows(plan, ends)
    BY DEF IInv
  <1>2. /\ pc = "frames" /\ LoadOutcome # "FRAME" /\ UNCHANGED <<file, stable, headerRun, acknowledged>>
    BY DEF EndLoad
  <1>3. /\ Plan(plan, ends) /\ LaidOut(file, plan, ends) /\ Fits(plan, ends) /\ loaded \in Seq(Commands)
        /\ Len(loaded) <= Len(plan) /\ position = ends[Len(loaded)] /\ ends[Len(loaded)] <= Len(file)
        /\ \A n \in 1..Len(loaded) : loaded[n] = plan[n]
        /\ \A i \in 1..ends[Len(loaded)] : file[i].ok
    BY <1>1, <1>2 DEF FilesFollow, ProcessFollows, Known, Counted, Reading, IInv, Control
  <1>4. CASE LoadOutcome = "CORRUPTION" \/ ~RunIdMatches
    <2>1. Down("CORRUPTION")
      BY <1>4 DEF EndLoad
    <2>2. headerRun = "foreign" \/ ~Undamaged
      BY <1>3, <1>4, Verdict DEF RunIdMatches, IInv, Control
    <2>. QED  BY <1>2, <2>1, <2>2, DownKeeps DEF Files
  <1>5. CASE ~(LoadOutcome = "CORRUPTION" \/ ~RunIdMatches)
    <2>1. /\ pc' = IF LoadOutcome = "VALID" THEN "seek" ELSE "preserve"
          /\ committedByteCount' = position /\ position' = Len(file) /\ headerRun = "expected"
          /\ UNCHANGED <<result, loaded, usable, frame, bytesWritten>>
      BY <1>5 DEF EndLoad, appendVars, RunIdMatches
    <2>2. FilesFollow(plan, ends, stablePlan, stableEnds)'
      BY <1>1, <1>2, FilesKeep DEF Files
    <2>3. /\ LoadOutcome = "VALID" => Len(file) = ends[Len(loaded)]
          /\ LoadOutcome # "VALID" => Len(file) < ends[Len(loaded) + 1]
      BY <1>2, <1>3, <1>5, Verdict
    <2>4. Control'
      <3>1. /\ pc' \in {"seek", "preserve"} /\ position' \in Nat /\ committedByteCount' \in Nat
            /\ loaded' \in Seq(Commands) /\ headerRun' = "expected" /\ result' # "CORRUPTION"
        <4>1. file \in Seq(CellStates) /\ position \in Nat /\ result # "CORRUPTION"
          BY <1>2, <1>3 DEF LaidOut, IInv, Control
        <4>. QED  BY <1>2, <1>3, <2>1, <4>1
      <3>2. frame' = <<>> /\ bytesWritten' = 0 /\ frame' \in Seq(CellStates) /\ usable' \in BOOLEAN
        BY <1>2, <2>1 DEF IInv, Control
      <3>. QED  BY <3>1, <3>2 DEF Control
    <2>5. Known(plan, ends)'
      BY <1>2, <1>3, <2>1 DEF Known
    <2>6. Counted(ends)' /\ AtEnd(plan, ends)'
      BY <1>2, <1>3, <2>1, <2>3 DEF Counted, AtEnd, Repairing, Writing
    <2>. QED  BY <2>2, <2>4, <2>5, <2>6 DEF IInv, ProcessFollows
  <1>. QED  BY <1>4, <1>5

-----------------------------------------------------------------------------
(* The repair.                                                             *)

\* A file that is cut behind its header is one of the same plan.
LEMMA Cut ==
  ASSUME NEW cells, NEW plan, NEW ends, Plan(plan, ends), LaidOut(cells, plan, ends),
         NEW n \in Nat, HeaderLength <= n, n <= Len(cells)
  PROVE  /\ LaidOut(SubSeq(cells, 1, n), plan, ends) /\ Len(SubSeq(cells, 1, n)) = n
         /\ \A i \in 1..n : SubSeq(cells, 1, n)[i] = cells[i]
  <1>. DEFINE cut == SubSeq(cells, 1, n)
  <1>1. /\ cells \in Seq(CellStates) /\ Len(cells) \in Nat /\ Len(cells) <= ends[Len(plan)] /\ ends[Len(plan)] \in Nat
        /\ Len(plan) \in Nat /\ \A m \in 0..Len(plan) : ends[m] \in Nat
    BY PlanEnds DEF LaidOut
  <1>2. cut \in Seq(CellStates) /\ Len(cut) = n /\ \A i \in 1..n : cut[i] = cells[i]
    <2>1. 0 + 1 = 1 /\ 0 + n = n /\ 0 \in Nat /\ \A i \in 1..n : 0 + i = i
      OBVIOUS
    <2>. QED  BY <1>1, <2>1, Piece
  <1>. HIDE DEF cut
  <1>3. ASSUME NEW m \in 1..Len(plan), NEW part \in 1..FrameLength(plan[m].body), ends[m - 1] + part <= Len(cut)
        PROVE  Holds(cut[ends[m - 1] + part], plan[m], part)
    <2>1. ends[m - 1] \in Nat /\ part \in Nat /\ part >= 1
      BY <1>1, FrameLengths
    <2>2. ends[m - 1] + part <= Len(cells) /\ ends[m - 1] + part \in 1..n
      BY <1>1, <1>2, <1>3, <2>1
    <2>3. Holds(cells[ends[m - 1] + part], plan[m], part)
      BY <2>2 DEF LaidOut
    <2>. QED  BY <1>2, <2>2, <2>3
  <1>4. HeaderLength <= Len(cut) /\ Len(cut) <= ends[Len(plan)]
    BY <1>1, <1>2
  <1>5. LaidOut(cut, plan, ends)
    BY <1>2, <1>3, <1>4 DEF LaidOut
  <1>. QED  BY <1>2, <1>5 DEF cut

\* Reading the tail again changes nothing but the position.
LEMMA PreserveTailPreserves == ASSUME IInv, PreserveTail PROVE IInv'
  <1>1. /\ pc = "preserve" /\ pc' = "truncate" /\ position' = Len(file)
        /\ UNCHANGED <<file, stable, headerRun, acknowledged>>
        /\ UNCHANGED <<result, loaded, usable, committedByteCount, frame, bytesWritten>>
    BY DEF PreserveTail, writerVars, appendVars
  <1>2. PICK plan, ends, stablePlan, stableEnds :
          FilesFollow(plan, ends, stablePlan, stableEnds) /\ ProcessFollows(plan, ends)
    BY DEF IInv
  <1>3. FilesFollow(plan, ends, stablePlan, stableEnds)'
    BY <1>1, <1>2, FilesKeep DEF Files
  <1>4. Len(file) \in Nat
    BY <1>2 DEF FilesFollow, LaidOut
  <1>5. Control'
    BY <1>1, <1>4 DEF IInv, Control, Repairing, Writing
  <1>6. Known(plan, ends)' /\ Counted(ends)' /\ AtEnd(plan, ends)'
    BY <1>1, <1>2 DEF ProcessFollows, Known, Counted, AtEnd, Reading, Repairing, Writing
  <1>. QED  BY <1>3, <1>5, <1>6 DEF IInv, ProcessFollows

\* The tail is cut where the last complete frame ends: the file keeps its plan.
LEMMA TruncateFollows ==
  ASSUME IInv, Truncate, NEW plan, NEW ends, NEW stablePlan, NEW stableEnds,
         FilesFollow(plan, ends, stablePlan, stableEnds), ProcessFollows(plan, ends)
  PROVE  IInv' /\ FilesFollow(plan, ends, stablePlan, stableEnds)' /\ ProcessFollows(plan, ends)'
  <1>. DEFINE k == Len(loaded)
              a == Len(acknowledged)
  <1>1. /\ pc = "truncate" /\ pc' = "sync" /\ file' = SubSeq(file, 1, committedByteCount)
        /\ UNCHANGED <<stable, headerRun, acknowledged>>
        /\ UNCHANGED <<result, loaded, usable, position, committedByteCount, frame, bytesWritten>>
    BY DEF Truncate, writerVars, appendVars
  <1>2. FilesFollow(plan, ends, stablePlan, stableEnds) /\ ProcessFollows(plan, ends)
    OBVIOUS
  <1>3. /\ Plan(plan, ends) /\ LaidOut(file, plan, ends) /\ Fits(plan, ends)
        /\ Plan(stablePlan, stableEnds) /\ LaidOut(stable, stablePlan, stableEnds) /\ Fits(stablePlan, stableEnds)
        /\ Acknowledged(plan, ends, stablePlan, stableEnds)
    BY <1>2 DEF FilesFollow
  <1>4. /\ loaded \in Seq(Commands) /\ k \in Nat /\ k <= Len(plan) /\ committedByteCount = ends[k] /\ ends[k] <= Len(file)
        /\ k < Len(plan) => Len(file) < ends[k + 1]
        /\ \A n \in 1..k : loaded[n] = plan[n]
        /\ \A i \in 1..ends[k] : file[i].ok
    BY <1>1, <1>2 DEF ProcessFollows, Known, Counted, AtEnd, Reading, Repairing, IInv, Control
  <1>5. k \in 0..Len(plan) /\ Len(plan) \in Nat /\ ends[k] \in Nat /\ HeaderLength <= ends[k] /\ Len(file) \in Nat
    BY <1>3, <1>4, PlanEnds DEF LaidOut
  <1>6. /\ LaidOut(file', plan, ends) /\ Len(file') = ends[k] /\ \A i \in 1..ends[k] : file'[i] = file[i]
    BY <1>1, <1>3, <1>4, <1>5, Cut
  <1>7. a \in Nat /\ a <= Len(plan) /\ ends[a] <= Len(file) /\ a \in 0..Len(plan)
    BY <1>3, <1>5 DEF Acknowledged
  <1>8. ends[a] <= ends[k] /\ ends[a] \in Nat
    <2>1. Complete(file, plan, ends, k)
      BY <1>4, <1>5 DEF Complete
    <2>2. a <= k
      BY <1>3, <1>7, <2>1, CompleteEnds
    <2>. QED  BY <1>3, <1>5, <1>7, <2>2, PlanEnds
  <1>9. Acknowledged(plan, ends, stablePlan, stableEnds)'
    <2>1. \A i \in 1..ends[a] : file'[i] = stable[i]
      BY <1>3, <1>5, <1>6, <1>8 DEF Acknowledged
    <2>2. ends[a] <= Len(file')
      BY <1>6, <1>8
    <2>. QED  BY <1>1, <1>3, <2>1, <2>2 DEF Acknowledged
  <1>10. FilesFollow(plan, ends, stablePlan, stableEnds)'
    BY <1>1, <1>3, <1>6, <1>9 DEF FilesFollow, Fits
  <1>11. Control'
    BY <1>1 DEF IInv, Control, Repairing, Writing
  <1>. HIDE DEF k, a
  <1>12. Known(plan, ends)' /\ Counted(ends)' /\ AtEnd(plan, ends)'
    <2>1. Len(loaded') = k /\ loaded' = loaded
      BY <1>1 DEF k
    <2>2. Known(plan, ends)'
      BY <1>4, <1>5, <1>6, <2>1 DEF Known
    <2>3. Counted(ends)'
      BY <1>1, <1>4, <1>6, <2>1 DEF Counted, Repairing, Writing
    <2>4. AtEnd(plan, ends)'
      BY <1>1 DEF AtEnd
    <2>. QED  BY <2>2, <2>3, <2>4
  <1>. QED  BY <1>10, <1>11, <1>12 DEF IInv, ProcessFollows

\* Hence the cut preserves the invariant.
LEMMA TruncatePreserves == ASSUME IInv, Truncate PROVE IInv'
  <1>1. PICK plan, ends, stablePlan, stableEnds :
          FilesFollow(plan, ends, stablePlan, stableEnds) /\ ProcessFollows(plan, ends)
    BY DEF IInv
  <1>. QED  BY <1>1, TruncateFollows

\* The file is synchronised: the plan of the file is now that of both contents.
LEMMA Synchronised ==
  ASSUME NEW plan, NEW ends, NEW stablePlan, NEW stableEnds, FilesFollow(plan, ends, stablePlan, stableEnds),
         stable' = file, UNCHANGED <<file, headerRun, acknowledged>>
  PROVE  FilesFollow(plan, ends, plan, ends)'
  BY DEF FilesFollow, Fits, Acknowledged

\* The shortened file is synchronised.
LEMMA SyncTruncationPreserves == ASSUME IInv, SyncTruncation PROVE IInv'
  <1>1. /\ pc = "sync" /\ pc' = "seek" /\ stable' = file /\ UNCHANGED <<file, headerRun, acknowledged>>
        /\ UNCHANGED <<result, loaded, usable, position, committedByteCount, frame, bytesWritten>>
    BY DEF SyncTruncation, SyncedContents, writerVars, appendVars
  <1>2. PICK plan, ends, stablePlan, stableEnds :
          FilesFollow(plan, ends, stablePlan, stableEnds) /\ ProcessFollows(plan, ends)
    BY DEF IInv
  <1>3. FilesFollow(plan, ends, plan, ends)'
    BY <1>1, <1>2, Synchronised
  <1>4. Control'
    BY <1>1 DEF IInv, Control, Repairing, Writing
  <1>5. Known(plan, ends)' /\ Counted(ends)' /\ AtEnd(plan, ends)'
    BY <1>1, <1>2 DEF ProcessFollows, Known, Counted, AtEnd, Reading, Repairing, Writing
  <1>. QED  BY <1>3, <1>4, <1>5 DEF IInv, ProcessFollows

\* The recovered writer starts at the end of the last complete frame.
LEMMA MakeWriterPreserves == ASSUME IInv, MakeWriter PROVE IInv'
  <1>1. /\ pc = "seek" /\ pc' = "open" /\ result' = "PREPARED" /\ position' = committedByteCount /\ usable' = TRUE
        /\ committedCommandCount' = Len(loaded) /\ nextCommandSequence' = Len(loaded) + 1
        /\ UNCHANGED <<file, stable, headerRun, acknowledged>>
        /\ UNCHANGED <<loaded, committedByteCount, frame, bytesWritten>>
    BY DEF MakeWriter, SeekPosition, appendVars
  <1>2. PICK plan, ends, stablePlan, stableEnds :
          FilesFollow(plan, ends, stablePlan, stableEnds) /\ ProcessFollows(plan, ends)
    BY DEF IInv
  <1>3. FilesFollow(plan, ends, stablePlan, stableEnds)'
    BY <1>1, <1>2, FilesKeep DEF Files
  <1>4. Control'
    BY <1>1 DEF IInv, Control, Repairing, Writing
  <1>5. Known(plan, ends)' /\ Counted(ends)' /\ AtEnd(plan, ends)'
    BY <1>1, <1>2 DEF ProcessFollows, Known, Counted, AtEnd, Reading, Repairing, Writing
  <1>. QED  BY <1>3, <1>4, <1>5 DEF IInv, ProcessFollows

-----------------------------------------------------------------------------
(* append.                                                                 *)

\* The plan when a command is to follow the first k.
NewEnds(ends, k, c) == [n \in 0..(k + 1) |-> IF n <= k THEN ends[n] ELSE ends[k] + FrameLength(c.body)]

\* A plan cut after its k-th command and continued with another one is a plan.
LEMMA Extended ==
  ASSUME NEW plan, NEW ends, Plan(plan, ends), NEW known \in Seq(Commands), Len(known) <= Len(plan),
         \A n \in 1..Len(known) : known[n] = plan[n],
         NEW c \in Commands, c.sequence = Len(known) + 1, c.body \in NewOrders \cup Cancels
  PROVE  LET k == Len(known)
             plan2 == Append(known, c)
             ends2 == NewEnds(ends, k, c) IN
         /\ Plan(plan2, ends2) /\ Len(plan2) = k + 1 /\ plan2[k + 1] = c
         /\ \A n \in 1..k : plan2[n] = plan[n] /\ n \in 1..Len(plan)
         /\ \A n \in 0..k : ends2[n] = ends[n] /\ n \in 0..Len(plan)
         /\ ends2[k + 1] = ends[k] + FrameLength(c.body)
  <1>. DEFINE k == Len(known)
              plan2 == Append(known, c)
              ends2 == NewEnds(ends, k, c)
  <1>1. /\ k \in Nat /\ Len(plan) \in Nat /\ k \in 0..Len(plan) /\ FrameLength(c.body) \in Nat /\ FrameLength(c.body) >= 1
        /\ \A n \in 0..Len(plan) : ends[n] \in Nat
    BY PlanEnds, FrameLengths DEF EnvelopeSize
  <1>2. plan2 \in Seq(Commands) /\ Len(plan2) = k + 1 /\ plan2[k + 1] = c /\ \A n \in 1..k : plan2[n] = known[n]
    BY AppendProperties
  <1>. HIDE DEF plan2, k
  <1>3. \A n \in 1..k : plan2[n] = plan[n] /\ n \in 1..Len(plan)
    BY <1>1, <1>2 DEF k
  <1>4. \A n \in 0..k : ends2[n] = ends[n] /\ n \in 0..Len(plan) /\ ends2[n] \in Nat
    BY <1>1 DEF NewEnds
  <1>5. ends2[k + 1] = ends[k] + FrameLength(c.body) /\ ends2[k + 1] \in Nat
    BY <1>1 DEF NewEnds
  <1>6. ends2 \in [0..(k + 1) -> Nat]
    <2>1. DOMAIN ends2 = 0..(k + 1) /\ ends2 = [n \in 0..(k + 1) |-> ends2[n]]
      BY DEF NewEnds
    <2>. HIDE DEF ends2
    <2>2. \A n \in 0..(k + 1) : ends2[n] \in Nat
      BY <1>1, <1>4, <1>5
    <2>. QED  BY <2>1, <2>2
  <1>. HIDE DEF ends2
  <1>7. ASSUME NEW n \in 1..(k + 1)
        PROVE  /\ plan2[n].sequence = n /\ plan2[n].body \in NewOrders \cup Cancels
               /\ ends2[n] = ends2[n - 1] + FrameLength(plan2[n].body)
    <2>1. CASE n = k + 1
      <3>1. n - 1 = k /\ k \in 0..k
        BY <1>1, <2>1
      <3>. QED  BY <1>2, <1>4, <1>5, <2>1, <3>1 DEF k
    <2>2. CASE n # k + 1
      <3>1. n \in 1..k /\ n \in 0..k /\ n - 1 \in 0..k
        BY <1>1, <2>2
      <3>2. ends2[n] = ends[n] /\ ends2[n - 1] = ends[n - 1] /\ plan2[n] = plan[n] /\ n \in 1..Len(plan)
        BY <1>3, <1>4, <3>1
      <3>. QED  BY <3>2 DEF Plan
    <2>. QED  BY <2>1, <2>2
  <1>8. ASSUME NEW m \in 0..(k + 1), NEW n \in 0..(k + 1), m < n PROVE ends2[m] < ends2[n]
    <2>1. m \in 0..k /\ ends2[m] = ends[m] /\ m \in 0..Len(plan)
      BY <1>1, <1>4, <1>8
    <2>2. CASE n = k + 1
      <3>1. ends[m] <= ends[k] /\ ends[m] \in Nat /\ ends[k] \in Nat
        BY <1>1, <2>1, PlanEnds
      <3>. QED  BY <1>1, <1>5, <2>1, <2>2, <3>1
    <2>3. CASE n # k + 1
      <3>1. n \in 0..k
        BY <1>1, <2>3
      <3>2. ends2[n] = ends[n] /\ n \in 0..Len(plan)
        BY <1>4, <3>1
      <3>. QED  BY <1>8, <2>1, <3>2 DEF Plan
    <2>. QED  BY <2>2, <2>3
  <1>9. ends2[0] = HeaderLength
    BY <1>1, <1>4 DEF Plan
  <1>10. Plan(plan2, ends2)
    BY <1>2, <1>6, <1>7, <1>8, <1>9 DEF Plan
  <1>. QED  BY <1>2, <1>3, <1>4, <1>5, <1>10 DEF k, plan2, ends2

\* A frame is begun behind a file that holds complete frames only.
LEMMA BeginFrame ==
  ASSUME IInv, NEW c \in Commands, c.body \notin Unencodable, c.sequence = nextCommandSequence,
         ~CapacityReached(FrameLength(c.body)),
         pc = "open", usable, pc' = "writing", frame' = Encode(c), result' = "NONE",
         UNCHANGED <<file, stable, headerRun, position, loaded, truncationBegan, writerVars, bytesWritten, acknowledged>>
  PROVE  IInv'
  <1>. DEFINE k == Len(loaded)
              a == Len(acknowledged)
  <1>1. PICK plan, ends, stablePlan, stableEnds :
          FilesFollow(plan, ends, stablePlan, stableEnds) /\ ProcessFollows(plan, ends)
    BY DEF IInv
  <1>0. PICK plan2, ends2 : plan2 = Append(loaded, c) /\ ends2 = NewEnds(ends, k, c)
    OBVIOUS
  <1>2. /\ Plan(plan, ends) /\ LaidOut(file, plan, ends) /\ Fits(plan, ends)
        /\ Plan(stablePlan, stableEnds) /\ LaidOut(stable, stablePlan, stableEnds) /\ Fits(stablePlan, stableEnds)
        /\ Acknowledged(plan, ends, stablePlan, stableEnds)
    BY <1>1 DEF FilesFollow
  <1>3. /\ loaded \in Seq(Commands) /\ k \in Nat /\ k <= Len(plan) /\ committedByteCount = ends[k] /\ Len(file) = ends[k]
        /\ \A n \in 1..k : loaded[n] = plan[n]
        /\ \A i \in 1..ends[k] : file[i].ok
        /\ committedCommandCount = k /\ nextCommandSequence = k + 1 /\ position = Len(file)
        /\ headerRun = "expected" /\ bytesWritten = 0
    BY <1>1 DEF ProcessFollows, Known, Counted, Reading, Writing, IInv, Control
  <1>4. c.body \in NewOrders \cup Cancels
    BY DEF Commands, Bodies
  <1>5. /\ Plan(plan2, ends2) /\ Len(plan2) = k + 1 /\ plan2[k + 1] = c
        /\ \A n \in 1..k : plan2[n] = plan[n] /\ n \in 1..Len(plan)
        /\ \A n \in 0..k : ends2[n] = ends[n] /\ n \in 0..Len(plan)
        /\ ends2[k + 1] = ends[k] + FrameLength(c.body)
    BY <1>0, <1>2, <1>3, <1>4, Extended
  <1>. HIDE DEF k, a
  <1>6. /\ Len(file) \in Nat /\ file \in Seq(CellStates) /\ DOMAIN file = 1..Len(file) /\ ends[k] \in Nat
        /\ HeaderLength <= Len(file) /\ FrameLength(c.body) \in Nat /\ Len(plan) \in Nat
        /\ HeaderLength <= Len(file)
        /\ \A n \in 0..(k + 1) : ends2[n] \in Nat
    <2>1. \A n \in 0..(k + 1) : ends2[n] \in Nat
      BY <1>5, PlanEnds
    <2>. QED  BY <1>2, <1>3, <2>1, PlanEnds, FrameLengths DEF LaidOut
  <1>7. LaidOut(file, plan2, ends2)
    <2>1. ASSUME NEW n \in 1..(k + 1), NEW part \in 1..FrameLength(plan2[n].body), ends2[n - 1] + part <= Len(file)
          PROVE  Holds(file[ends2[n - 1] + part], plan2[n], part)
      <3>1. n # k + 1
        <4>. SUFFICES ASSUME n = k + 1 PROVE FALSE
          OBVIOUS
        <4>1. n - 1 = k /\ k \in 0..k
          BY <1>3
        <4>2. ends2[n - 1] = ends[k] /\ part >= 1
          BY <1>5, <4>1
        <4>. QED  BY <1>3, <1>6, <2>1, <4>2
      <3>2. n \in 1..k /\ n - 1 \in 0..k
        BY <1>3, <3>1
      <3>3. ends2[n - 1] = ends[n - 1] /\ plan2[n] = plan[n] /\ n \in 1..Len(plan)
        BY <1>5, <3>2
      <3>. QED  BY <1>2, <2>1, <3>3 DEF LaidOut
    <2>2. Len(file) <= ends2[k + 1]
      BY <1>3, <1>5, <1>6
    <2>. QED  BY <1>5, <1>6, <2>1, <2>2 DEF LaidOut
  <1>8. Fits(plan2, ends2)
    <2>1. k < MaxRunCommands /\ ends[k] + FrameLength(c.body) <= MaxRunJournalBytes
      BY <1>3, <1>6, FrameLengths DEF CapacityReached
    <2>. QED  BY <1>3, <1>5, <2>1, FrameLengths DEF Fits
  <1>9. a \in Nat /\ a <= k
    <2>1. a \in Nat /\ a <= Len(plan) /\ ends[a] <= Len(file)
      BY <1>2 DEF Acknowledged, a
    <2>2. a \in 0..Len(plan) /\ k \in 0..Len(plan)
      BY <1>3, <1>6, <2>1
    <2>. QED  BY <1>2, <1>3, <2>1, <2>2, PlanEnds
  <1>10. Acknowledged(plan2, ends2, stablePlan, stableEnds)
    <2>1. \A n \in 1..a : plan2[n] = plan[n]
      BY <1>3, <1>5, <1>9
    <2>2. \A n \in 0..a : ends2[n] = ends[n]
      BY <1>3, <1>5, <1>9
    <2>3. a <= Len(plan2) /\ ends2[a] = ends[a]
      BY <1>3, <1>5, <1>9, <2>2
    <2>. QED  BY <1>2, <2>1, <2>2, <2>3 DEF Acknowledged, a
  <1>11. FilesFollow(plan2, ends2, stablePlan, stableEnds)
    BY <1>2, <1>5, <1>7, <1>8, <1>10 DEF FilesFollow
  <1>12. FilesFollow(plan2, ends2, stablePlan, stableEnds)'
    BY <1>11, FilesKeep DEF Files
  <1>13. /\ Encode(c) \in Seq(CellStates) /\ Len(Encode(c)) \in Nat
    BY Encoded, FrameLengths
  <1>14. Control'
    BY <1>3, <1>13 DEF IInv, Control, Repairing, Writing, writerVars
  <1>15. ends2[k] = ends[k] /\ k <= Len(plan2) /\ \A n \in 1..k : loaded[n] = plan2[n]
    BY <1>3, <1>5
  <1>16. Known(plan2, ends2)'
    BY <1>3, <1>15 DEF Known, k
  <1>17. Counted(ends2)'
    BY <1>3, <1>15 DEF Counted, Repairing, Writing, writerVars, k
  <1>18. AtEnd(plan2, ends2)'
    <2>1. Len(file) = ends2[k] + 0 /\ \A i \in DOMAIN file : file[i].ok
      BY <1>3, <1>6, <1>15
    <2>. QED  BY <1>3, <1>5, <1>9, <1>13, <2>1 DEF AtEnd, k, a
  <1>. QED  BY <1>12, <1>14, <1>16, <1>17, <1>18 DEF IInv, ProcessFollows

\* append refuses the command, or starts its frame.
LEMMA BeginAppendPreserves ==
  ASSUME IInv, NEW c \in Commands, BeginAppend(c)
  PROVE  IInv'
  <1>1. CASE usable /\ c.sequence = nextCommandSequence /\ c.body \notin Unencodable /\ ~CapacityReached(FrameLength(c.body))
    <2>1. pc = "open" /\ pc' = "writing" /\ frame' = Encode(c) /\ result' = "NONE"
      BY <1>1 DEF BeginAppend
    <2>. QED  BY <1>1, <2>1, BeginFrame DEF BeginAppend
  <1>2. CASE ~(usable /\ c.sequence = nextCommandSequence /\ c.body \notin Unencodable /\ ~CapacityReached(FrameLength(c.body)))
    <2>1. /\ result' \in {"RECOVERY_REQUIRED", "INVALID_COMMAND", "CAPACITY_REACHED"}
          /\ UNCHANGED <<file, stable, headerRun, acknowledged>>
          /\ UNCHANGED <<pc, frame, position, loaded, bytesWritten, usable, committedCommandCount, committedByteCount,
                         nextCommandSequence>>
      BY <1>2 DEF BeginAppend, writerVars
    <2>2. PICK plan, ends, stablePlan, stableEnds :
            FilesFollow(plan, ends, stablePlan, stableEnds) /\ ProcessFollows(plan, ends)
      BY DEF IInv
    <2>3. FilesFollow(plan, ends, stablePlan, stableEnds)'
      BY <2>1, <2>2, FilesKeep DEF Files
    <2>4. Control'
      BY <2>1 DEF IInv, Control, Repairing, Writing
    <2>5. Known(plan, ends)' /\ Counted(ends)' /\ AtEnd(plan, ends)'
      BY <2>1, <2>2 DEF ProcessFollows, Known, Counted, AtEnd, Reading, Repairing, Writing
    <2>. QED  BY <2>3, <2>4, <2>5 DEF IInv, ProcessFollows
  <1>. QED  BY <1>1, <1>2

\* A write at the end of the file makes it longer and leaves no hole.
LEMMA WriteAtEnd ==
  ASSUME NEW cells \in Seq(CellStates), NEW bytes \in Seq(CellStates)
  PROVE  LET written == Overwrite(cells, Len(cells), bytes) IN
         /\ written \in Seq(CellStates) /\ Len(written) = Len(cells) + Len(bytes)
         /\ \A i \in 1..Len(cells) : written[i] = cells[i]
         /\ \A i \in 1..Len(bytes) : written[Len(cells) + i] = bytes[i]
  <1>. DEFINE m == Len(cells)
              n == Len(bytes)
              written == Overwrite(cells, m, bytes)
  <1>1. m \in Nat /\ n \in Nat
    OBVIOUS
  <1>2. Max({m, m + n}) = m + n
    <2>. HIDE DEF m, n
    <2>. QED  BY <1>1 DEF Max
  <1>3. written = [i \in 1..(m + n) |-> IF i \in (m + 1)..(m + n) THEN bytes[i - m]
                                        ELSE IF i <= m THEN cells[i] ELSE Hole]
    BY <1>2 DEF Overwrite
  <1>. HIDE DEF written
  <1>4. \A i \in 1..m : written[i] = cells[i] /\ cells[i] \in CellStates
    <2>1. \A i \in 1..m : cells[i] \in CellStates
      BY ElementOfSeq
    <2>. HIDE DEF m, n
    <2>. QED  BY <1>1, <1>3, <2>1
  <1>5. \A i \in 1..n : written[m + i] = bytes[i] /\ bytes[i] \in CellStates
    <2>1. \A i \in 1..n : bytes[i] \in CellStates
      BY ElementOfSeq
    <2>. HIDE DEF m, n
    <2>2. \A i \in 1..n : m + i \in 1..(m + n) /\ m + i \in (m + 1)..(m + n) /\ (m + i) - m = i
      BY <1>1
    <2>. QED  BY <1>3, <2>1, <2>2
  <1>6. \A i \in 1..(m + n) : written[i] \in CellStates
    <2>. SUFFICES ASSUME NEW i \in 1..(m + n) PROVE written[i] \in CellStates
      OBVIOUS
    <2>. HIDE DEF m, n
    <2>1. CASE i <= m
      BY <1>1, <1>4, <2>1
    <2>2. CASE i > m
      <3>1. i - m \in 1..n /\ m + (i - m) = i
        BY <1>1, <2>2
      <3>. QED  BY <1>5, <3>1
    <2>. QED  BY <1>1, <2>1, <2>2
  <1>7. written \in [1..(m + n) -> CellStates] /\ m + n \in Nat
    <2>. HIDE DEF m, n
    <2>1. written = [i \in 1..(m + n) |-> written[i]]
      BY <1>3
    <2>. QED  BY <1>1, <1>6, <2>1
  <1>8. written \in Seq(CellStates) /\ Len(written) = m + n
    <2>. HIDE DEF m, n
    <2>. QED  BY <1>7
  <1>. QED  BY <1>4, <1>5, <1>8 DEF written

\* What every step of writing finds.
LEMMA WhileWriting ==
  ASSUME IInv, pc = "writing",
         NEW plan, NEW ends, NEW stablePlan, NEW stableEnds,
         FilesFollow(plan, ends, stablePlan, stableEnds), ProcessFollows(plan, ends)
  PROVE  LET k == Len(loaded) IN
         /\ Plan(plan, ends) /\ LaidOut(file, plan, ends)
         /\ loaded \in Seq(Commands) /\ k \in Nat /\ Len(plan) = k + 1 /\ plan[k + 1] \in Commands
         /\ k \in 0..Len(plan) /\ k + 1 \in 1..Len(plan)
         /\ frame = Encode(plan[k + 1]) /\ frame \in Seq(CellStates) /\ Len(frame) = FrameLength(plan[k + 1].body)
         /\ Len(frame) \in Nat /\ Len(frame) >= 1
         /\ bytesWritten \in Nat /\ bytesWritten <= Len(frame) /\ Len(file) = ends[k] + bytesWritten
         /\ ends[k] \in Nat /\ ends[k + 1] = ends[k] + Len(frame)
         /\ position = Len(file) /\ file \in Seq(CellStates) /\ Len(file) \in Nat /\ DOMAIN file = 1..Len(file)
         /\ \A i \in 1..Len(file) : file[i].ok
         /\ \A n \in 1..k : loaded[n] = plan[n]
         /\ committedByteCount = ends[k] /\ committedCommandCount = k /\ nextCommandSequence = k + 1
         /\ headerRun = "expected" /\ usable /\ Len(acknowledged) <= k
  <1>. DEFINE k == Len(loaded)
  <1>1. /\ Plan(plan, ends) /\ LaidOut(file, plan, ends) /\ loaded \in Seq(Commands) /\ k \in Nat /\ Len(plan) = k + 1
        /\ \A n \in 1..k : loaded[n] = plan[n]
        /\ frame = Encode(plan[k + 1]) /\ bytesWritten \in Nat /\ bytesWritten <= Len(frame)
        /\ Len(file) = ends[k] + bytesWritten /\ position = Len(file)
        /\ \A i \in DOMAIN file : file[i].ok
        /\ committedByteCount = ends[k] /\ committedCommandCount = k /\ nextCommandSequence = k + 1
        /\ headerRun = "expected" /\ usable /\ Len(acknowledged) <= k
    BY DEF IInv, Control, FilesFollow, ProcessFollows, Known, Counted, AtEnd, Reading, Writing
  <1>2. file \in Seq(CellStates) /\ Len(file) \in Nat /\ DOMAIN file = 1..Len(file)
    BY <1>1 DEF LaidOut
  <1>3. k \in 0..Len(plan) /\ k + 1 \in 1..Len(plan) /\ (k + 1) - 1 = k
    BY <1>1
  <1>4. plan[k + 1] \in Commands /\ ends[k] \in Nat /\ ends[k + 1] = ends[k] + FrameLength(plan[k + 1].body)
    BY <1>1, <1>3, PlanEnds DEF Plan
  <1>5. /\ frame \in Seq(CellStates) /\ Len(frame) = FrameLength(plan[k + 1].body)
        /\ Len(frame) \in Nat /\ Len(frame) >= 1
    BY <1>1, <1>4, Encoded, FrameLengths DEF EnvelopeSize
  <1>. QED  BY <1>1, <1>2, <1>3, <1>4, <1>5

\* A place behind l is l and a distance.
LEMMA Beyond ==
  ASSUME NEW l \in Nat, NEW n \in Nat, NEW i \in Nat, i > l, i <= l + n
  PROVE  \E j \in 1..n : l + j = i
  <1>1. i - l \in 1..n /\ l + (i - l) = i
    OBVIOUS
  <1>. QED  BY <1>1

\* Cells of the frame follow those already written: the file keeps its plan.
LEMMA WriteSomeFollows ==
  ASSUME IInv, WriteSome, NEW plan, NEW ends, NEW stablePlan, NEW stableEnds,
         FilesFollow(plan, ends, stablePlan, stableEnds), ProcessFollows(plan, ends)
  PROVE  IInv' /\ FilesFollow(plan, ends, stablePlan, stableEnds)' /\ ProcessFollows(plan, ends)'
  <1>. DEFINE k == Len(loaded)
              a == Len(acknowledged)
  <1>1. FilesFollow(plan, ends, stablePlan, stableEnds) /\ ProcessFollows(plan, ends)
    OBVIOUS
  <1>2. PICK n \in 1..(Len(frame) - bytesWritten) :
          /\ file' = Overwrite(file, position, SubSeq(frame, bytesWritten + 1, bytesWritten + n))
          /\ position' = position + n /\ bytesWritten' = bytesWritten + n
    BY DEF WriteSome
  <1>3. /\ pc = "writing" /\ bytesWritten < Len(frame)
        /\ UNCHANGED <<stable, headerRun, acknowledged>>
        /\ UNCHANGED <<pc, result, loaded, usable, committedCommandCount, committedByteCount, nextCommandSequence, frame>>
    BY DEF WriteSome, writerVars
  <1>4. /\ Plan(plan, ends) /\ LaidOut(file, plan, ends)
        /\ loaded \in Seq(Commands) /\ k \in Nat /\ Len(plan) = k + 1 /\ plan[k + 1] \in Commands
        /\ k \in 0..Len(plan) /\ k + 1 \in 1..Len(plan)
        /\ frame = Encode(plan[k + 1]) /\ frame \in Seq(CellStates) /\ Len(frame) = FrameLength(plan[k + 1].body)
        /\ Len(frame) \in Nat /\ Len(frame) >= 1
        /\ bytesWritten \in Nat /\ bytesWritten <= Len(frame) /\ Len(file) = ends[k] + bytesWritten
        /\ ends[k] \in Nat /\ ends[k + 1] = ends[k] + Len(frame)
        /\ position = Len(file) /\ file \in Seq(CellStates) /\ Len(file) \in Nat /\ DOMAIN file = 1..Len(file)
        /\ \A i \in 1..Len(file) : file[i].ok
        /\ \A m \in 1..k : loaded[m] = plan[m]
        /\ committedByteCount = ends[k] /\ committedCommandCount = k /\ nextCommandSequence = k + 1
        /\ headerRun = "expected" /\ usable /\ a <= k
    BY <1>1, <1>3, WhileWriting
  <1>. HIDE DEF k, a
  <1>5. /\ n \in Nat /\ n >= 1 /\ bytesWritten \in Nat /\ bytesWritten + n <= Len(frame) /\ Len(frame) \in Nat
        /\ Len(file) \in Nat /\ ends[k] \in Nat /\ Len(file) = ends[k] + bytesWritten
        /\ k \in Nat /\ Len(plan) = k + 1 /\ k \in 0..Len(plan) /\ ends[k + 1] = ends[k] + Len(frame)
    BY <1>4
  <1>6. /\ file' \in Seq(CellStates) /\ Len(file') = Len(file) + n
        /\ \A i \in 1..Len(file) : file'[i] = file[i]
        /\ \A i \in 1..n : file'[Len(file) + i] = frame[bytesWritten + i] /\ bytesWritten + i \in 1..Len(frame)
    <2>. DEFINE bytes == SubSeq(frame, bytesWritten + 1, bytesWritten + n)
    <2>1. /\ bytes \in Seq(CellStates) /\ Len(bytes) = n
          /\ \A i \in 1..n : bytes[i] = frame[bytesWritten + i] /\ bytesWritten + i \in 1..Len(frame)
      <3>1. PICK s, b : s = frame /\ b = bytesWritten
        OBVIOUS
      <3>2. s \in Seq(CellStates) /\ Len(s) \in Nat /\ b \in Nat /\ n \in Nat /\ n >= 1 /\ b + n <= Len(s)
        BY <1>4, <1>5, <3>1
      <3>3. /\ SubSeq(s, b + 1, b + n) \in Seq(CellStates) /\ Len(SubSeq(s, b + 1, b + n)) = n
            /\ \A i \in 1..n : SubSeq(s, b + 1, b + n)[i] = s[b + i] /\ b + i \in 1..Len(s)
        BY <3>2, Piece
      <3>. QED  BY <3>1, <3>3
    <2>2. file' = Overwrite(file, Len(file), bytes)
      BY <1>2, <1>4
    <2>. HIDE DEF bytes
    <2>. QED  BY <1>4, <2>1, <2>2, WriteAtEnd
  <1>7. \A part \in 1..Len(frame) : Holds(frame[part], plan[k + 1], part) /\ frame[part].ok
    BY <1>4, Encoded
  <1>8. ASSUME NEW i \in 1..Len(file'), i > Len(file)
        PROVE  i - ends[k] \in 1..Len(frame) /\ file'[i] = frame[i - ends[k]]
    <2>1. Len(file') = Len(file) + n
      BY <1>6
    <2>2. i \in Nat /\ i <= Len(file) + n /\ i > Len(file) /\ Len(file) \in Nat
      BY <1>5, <1>8, <2>1
    <2>3. PICK j \in 1..n : Len(file) + j = i
      BY <1>5, <2>2, Beyond
    <2>4. bytesWritten + j = i - ends[k]
      <3>1. PICK e, b, l : e = ends[k] /\ b = bytesWritten /\ l = Len(file)
        OBVIOUS
      <3>2. e \in Nat /\ b \in Nat /\ l = e + b /\ l + j = i /\ j \in Nat
        BY <1>5, <2>3, <3>1
      <3>3. b + j = i - e
        BY <3>2
      <3>. QED  BY <3>1, <3>3
    <2>5. file'[Len(file) + j] = frame[bytesWritten + j] /\ bytesWritten + j \in 1..Len(frame)
      <3>1. \A h \in 1..n : file'[Len(file) + h] = frame[bytesWritten + h] /\ bytesWritten + h \in 1..Len(frame)
        BY <1>6
      <3>. QED  BY <3>1, Zenon
    <2>. QED  BY <2>3, <2>4, <2>5, Zenon
  <1>9. LaidOut(file', plan, ends)
    <2>1. ASSUME NEW m \in 1..Len(plan), NEW part \in 1..FrameLength(plan[m].body), ends[m - 1] + part <= Len(file')
          PROVE  Holds(file'[ends[m - 1] + part], plan[m], part)
      <3>. DEFINE i == ends[m - 1] + part
      <3>0. m - 1 \in 0..Len(plan) /\ m \in 0..Len(plan)
        BY <1>5
      <3>1. /\ ends[m - 1] \in Nat /\ ends[m] \in Nat /\ part \in Nat /\ part >= 1 /\ i \in Nat /\ i >= 1
            /\ part <= FrameLength(plan[m].body)
        <4>1. ends[m - 1] \in Nat /\ ends[m] \in Nat
          BY <1>4, <3>0, PlanEnds
        <4>2. part \in Nat /\ part >= 1 /\ part <= FrameLength(plan[m].body)
          BY FrameLengths
        <4>. QED  BY <4>1, <4>2
      <3>2. CASE i <= Len(file)
        <4>1. Holds(file[i], plan[m], part)
          BY <1>4, <3>2 DEF LaidOut
        <4>2. file'[i] = file[i]
          <5>1. i \in 1..Len(file)
            BY <1>5, <3>1, <3>2
          <5>. HIDE DEF i
          <5>. QED  BY <1>6, <5>1
        <4>. QED  BY <4>1, <4>2
      <3>3. CASE i > Len(file)
        <4>1. m = k + 1
          <5>. SUFFICES ASSUME m # k + 1 PROVE FALSE
            OBVIOUS
          <5>1. m <= k /\ ends[m] = ends[m - 1] + FrameLength(plan[m].body)
            <6>1. Plan(plan, ends)
              BY <1>4
            <6>. QED  BY <1>5, <6>1 DEF Plan
          <5>2. ends[m] <= ends[k]
            BY <1>4, <3>0, <5>1, PlanEnds
          <5>3. FrameLength(plan[m].body) \in Nat
            BY FrameLengths
          <5>4. i <= ends[m]
            BY <3>1, <5>1, <5>3
          <5>5. ends[k] <= Len(file) /\ ends[k] \in Nat /\ Len(file) \in Nat
            BY <1>5
          <5>. HIDE DEF i
          <5>. QED  BY <3>1, <3>3, <5>2, <5>4, <5>5
        <4>2. m - 1 = k /\ i = ends[k] + part /\ i - ends[k] = part
          BY <1>5, <3>1, <4>1
        <4>3. i \in 1..Len(file')
          <5>1. Len(file') = Len(file) + n
            BY <1>6
          <5>. QED  BY <1>5, <2>1, <3>1, <5>1
        <4>. HIDE DEF i
        <4>4. file'[i] = frame[part] /\ part \in 1..Len(frame)
          BY <1>8, <3>3, <4>2, <4>3
        <4>. QED  BY <1>7, <4>1, <4>4 DEF i
      <3>. QED  BY <1>5, <3>1, <3>2, <3>3
    <2>2. HeaderLength <= Len(file') /\ Len(file') <= ends[Len(plan)]
      <3>1. Len(file') = Len(file) + n /\ HeaderLength <= Len(file) /\ HeaderLength \in Nat
        BY <1>4, <1>6, FrameLengths DEF LaidOut
      <3>. QED  BY <1>5, <3>1
    <2>. QED  BY <1>6, <2>1, <2>2 DEF LaidOut
  <1>10. \A i \in 1..Len(file') : file'[i].ok
    <2>. SUFFICES ASSUME NEW i \in 1..Len(file') PROVE file'[i].ok
      OBVIOUS
    <2>1. CASE i <= Len(file)
      <3>1. i \in 1..Len(file)
        BY <1>5, <2>1
      <3>. QED  BY <1>4, <1>6, <3>1
    <2>2. CASE i > Len(file)
      BY <1>7, <1>8, <2>2
    <2>. QED  BY <1>5, <2>1, <2>2
  <1>11. FilesFollow(plan, ends, stablePlan, stableEnds)'
    <2>1. Acknowledged(plan, ends, stablePlan, stableEnds)'
      <3>1. Acknowledged(plan, ends, stablePlan, stableEnds)
        BY <1>1 DEF FilesFollow
      <3>2. ends[a] <= Len(file) /\ ends[a] \in Nat
        <4>1. a \in 0..Len(plan)
          BY <1>4, <3>1 DEF Acknowledged, a
        <4>. QED  BY <1>4, <3>1, <4>1, PlanEnds DEF Acknowledged, a
      <3>3. ends[a] <= Len(file') /\ \A i \in 1..ends[a] : file'[i] = stable[i]
        <4>1. \A i \in 1..ends[a] : i \in 1..Len(file)
          BY <1>5, <3>2
        <4>2. ends[a] <= Len(file')
          <5>1. Len(file') = Len(file) + n
            BY <1>6
          <5>. QED  BY <1>5, <3>2, <5>1
        <4>. QED  BY <1>6, <3>1, <4>1, <4>2 DEF Acknowledged, a
      <3>. QED  BY <1>3, <3>1, <3>3 DEF Acknowledged, a
    <2>. QED  BY <1>1, <1>3, <1>9, <2>1 DEF FilesFollow, Fits
  <1>12. Control'
    <2>1. bytesWritten' \in Nat /\ position' \in Nat
      BY <1>2, <1>4, <1>5
    <2>. QED  BY <1>3, <2>1 DEF IInv, Control, Repairing, Writing
  <1>13. Len(file') = ends[k] + bytesWritten' /\ bytesWritten' <= Len(frame) /\ position' = Len(file') /\ ends[k] <= Len(file')
    <2>1. Len(file') = Len(file) + n /\ position' = Len(file) + n /\ bytesWritten' = bytesWritten + n
      BY <1>2, <1>4, <1>6
    <2>. QED  BY <1>5, <2>1
  <1>14. DOMAIN file' = 1..Len(file') /\ ends[k] <= Len(file') /\ \A i \in 1..ends[k] : file'[i].ok
    <2>1. Len(file') \in Nat /\ DOMAIN file' = 1..Len(file')
      BY <1>6
    <2>2. \A i \in 1..ends[k] : i \in 1..Len(file')
      BY <1>4, <1>13, <2>1
    <2>. QED  BY <1>10, <1>13, <2>1, <2>2
  <1>15. Known(plan, ends)'
    BY <1>3, <1>4, <1>14 DEF Known, k
  <1>16. Counted(ends)'
    BY <1>3, <1>4, <1>13 DEF Counted, Repairing, Writing, k
  <1>17. AtEnd(plan, ends)'
    BY <1>3, <1>4, <1>10, <1>13, <1>14 DEF AtEnd, k, a
  <1>. QED  BY <1>11, <1>12, <1>15, <1>16, <1>17 DEF IInv, ProcessFollows

\* Hence a write preserves the invariant.
LEMMA WriteSomePreserves == ASSUME IInv, WriteSome PROVE IInv'
  <1>1. PICK plan, ends, stablePlan, stableEnds :
          FilesFollow(plan, ends, stablePlan, stableEnds) /\ ProcessFollows(plan, ends)
    BY DEF IInv
  <1>. QED  BY <1>1, WriteSomeFollows

\* A write fails: what it left is a cut frame.
LEMMA WriteFailsPreserves == ASSUME IInv, WriteFails PROVE IInv'
  <1>1. PICK outcome \in {"IO_FAILURE", "RECOVERY_REQUIRED"} : AppendFails(outcome)
    BY DEF WriteFails
  <1>. QED  BY <1>1, AppendFailsPreserves

\* The synchronisation fails: the frame is complete and not acknowledged.
LEMMA SyncFailsPreserves == ASSUME IInv, SyncFails PROVE IInv'
  BY AppendFailsPreserves DEF SyncFails

\* The frame is complete and synchronised: the whole plan is acknowledged.
LEMMA SyncFramePreserves == ASSUME IInv, SyncFrame PROVE IInv'
  <1>. DEFINE k == Len(loaded)
  <1>1. PICK plan, ends, stablePlan, stableEnds :
          FilesFollow(plan, ends, stablePlan, stableEnds) /\ ProcessFollows(plan, ends)
    BY DEF IInv
  <1>2. /\ pc = "writing" /\ bytesWritten = Len(frame) /\ stable' = file
        /\ committedCommandCount' = committedCommandCount + 1
        /\ committedByteCount' = committedByteCount + Len(frame)
        /\ nextCommandSequence' = nextCommandSequence + 1
        /\ loaded' = Append(loaded, CommandOf(frame[1])) /\ acknowledged' = loaded' /\ result' = "COMMITTED"
        /\ pc' = "open" /\ frame' = <<>> /\ bytesWritten' = 0
        /\ UNCHANGED <<file, headerRun, position, usable>>
    BY DEF SyncFrame, SyncedContents
  <1>3. /\ Plan(plan, ends) /\ LaidOut(file, plan, ends)
        /\ loaded \in Seq(Commands) /\ k \in Nat /\ Len(plan) = k + 1 /\ plan[k + 1] \in Commands
        /\ k \in 0..Len(plan) /\ k + 1 \in 1..Len(plan)
        /\ frame = Encode(plan[k + 1]) /\ frame \in Seq(CellStates) /\ Len(frame) = FrameLength(plan[k + 1].body)
        /\ Len(frame) \in Nat /\ Len(frame) >= 1
        /\ bytesWritten \in Nat /\ bytesWritten <= Len(frame) /\ Len(file) = ends[k] + bytesWritten
        /\ ends[k] \in Nat /\ ends[k + 1] = ends[k] + Len(frame)
        /\ position = Len(file) /\ file \in Seq(CellStates) /\ Len(file) \in Nat /\ DOMAIN file = 1..Len(file)
        /\ \A i \in 1..Len(file) : file[i].ok
        /\ \A m \in 1..k : loaded[m] = plan[m]
        /\ committedByteCount = ends[k] /\ committedCommandCount = k /\ nextCommandSequence = k + 1
        /\ headerRun = "expected" /\ usable /\ Len(acknowledged) <= k
    BY <1>1, <1>2, WhileWriting
  <1>4. CommandOf(frame[1]) = plan[k + 1]
    <2>1. 1 \in 1..FrameLength(plan[k + 1].body)
      BY <1>3
    <2>. QED  BY <1>3, <2>1, Encoded
  <1>5. loaded' \in Seq(Commands) /\ Len(loaded') = k + 1 /\ \A m \in 1..(k + 1) : loaded'[m] = plan[m]
    <2>1. loaded' = Append(loaded, plan[k + 1])
      BY <1>2, <1>4
    <2>. QED  BY <1>3, <2>1, AppendProperties
  <1>. HIDE DEF k
  <1>6. Len(file) = ends[k + 1] /\ ends[k + 1] \in Nat
    BY <1>2, <1>3
  <1>7. Acknowledged(plan, ends, plan, ends)'
    BY <1>2, <1>3, <1>5, <1>6 DEF Acknowledged
  <1>8. FilesFollow(plan, ends, plan, ends)'
    BY <1>1, <1>2, <1>7 DEF FilesFollow, Fits
  <1>9. Control'
    <2>1. frame' \in Seq(CellStates) /\ committedByteCount' \in Nat
      BY <1>2, <1>3, EmptySeq
    <2>. QED  BY <1>2, <1>3, <1>5, <2>1 DEF IInv, Control, Repairing, Writing
  <1>10. Known(plan, ends)'
    BY <1>2, <1>3, <1>5, <1>6 DEF Known
  <1>11. Counted(ends)'
    BY <1>2, <1>3, <1>5, <1>6 DEF Counted, Repairing, Writing
  <1>12. AtEnd(plan, ends)'
    BY <1>2 DEF AtEnd
  <1>. QED  BY <1>8, <1>9, <1>10, <1>11, <1>12 DEF IInv, ProcessFollows

-----------------------------------------------------------------------------
(* The surroundings.                                                       *)

\* What both contents have acknowledged is common to them.
LEMMA AcknowledgedIsCommon ==
  ASSUME NEW plan, NEW ends, NEW stablePlan, NEW stableEnds, FilesFollow(plan, ends, stablePlan, stableEnds)
  PROVE  CommonLength \in Nat /\ ends[Len(acknowledged)] <= CommonLength
  <1>. DEFINE e == ends[Len(acknowledged)]
              l == Min({Len(file), Len(stable)})
              S == {i \in 1..l : SubSeq(file, 1, i) = SubSeq(stable, 1, i)}
  <1>1. /\ file \in Seq(CellStates) /\ stable \in Seq(CellStates) /\ Len(file) \in Nat /\ Len(stable) \in Nat
        /\ e <= Len(file) /\ e <= Len(stable) /\ \A i \in 1..e : file[i] = stable[i]
    BY DEF FilesFollow, LaidOut, Acknowledged
  <1>2. e \in Nat
    BY PlanEnds DEF FilesFollow, Acknowledged
  <1>3. l \in Nat /\ e <= l /\ l <= Len(file) /\ l <= Len(stable)
    <2>. HIDE DEF e
    <2>1. l = Len(file) \/ l = Len(stable)
      BY <1>1 DEF Min
    <2>2. l <= Len(file) /\ l <= Len(stable)
      BY <1>1 DEF Min
    <2>. QED  BY <1>1, <2>1, <2>2
  <1>. HIDE DEF e, l
  <1>4. ASSUME NEW i \in 1..e PROVE i \in S
    <2>1. i \in Nat /\ i <= e /\ i \in 1..l /\ i <= Len(file) /\ i <= Len(stable)
      BY <1>1, <1>2, <1>3
    <2>2. 0 + 1 = 1 /\ 0 + i = i /\ 0 \in Nat /\ \A j \in 1..i : 0 + j = j
      BY <2>1
    <2>3. /\ SubSeq(file, 1, i) \in Seq(CellStates) /\ Len(SubSeq(file, 1, i)) = i
          /\ \A j \in 1..i : SubSeq(file, 1, i)[j] = file[j]
      BY <1>1, <2>1, <2>2, Piece
    <2>4. /\ SubSeq(stable, 1, i) \in Seq(CellStates) /\ Len(SubSeq(stable, 1, i)) = i
          /\ \A j \in 1..i : SubSeq(stable, 1, i)[j] = stable[j]
      BY <1>1, <2>1, <2>2, Piece
    <2>5. \A j \in 1..i : file[j] = stable[j]
      BY <1>1, <1>2, <2>1
    <2>6. SubSeq(file, 1, i) = SubSeq(stable, 1, i)
      BY <2>3, <2>4, <2>5, SeqEqual
    <2>. QED  BY <2>1, <2>6
  <1>5. IsFiniteSet(1..l) /\ IsFiniteSet(1..e) /\ Cardinality(1..e) = e
    BY <1>2, <1>3, FS_Interval
  <1>6. IsFiniteSet(S)
    BY <1>5, FS_Subset
  <1>7. Cardinality(1..e) <= Cardinality(S) /\ Cardinality(S) \in Nat
    <2>1. 1..e \in SUBSET S
      BY <1>4
    <2>. QED  BY <1>6, <2>1, FS_Subset, FS_CardinalityType
  <1>8. CommonLength = Cardinality(S)
    BY DEF CommonLength, l
  <1>. QED  BY <1>5, <1>7, <1>8 DEF e

\* The process is gone; only the outcome it returned speaks of the file.
LEMMA DownControl ==
  ASSUME Control, NEW outcome, outcome # "CORRUPTION", Down(outcome), UNCHANGED headerRun
  PROVE  Control'
  <1>1. /\ result' = outcome /\ pc' = "down" /\ position' = 0 /\ loaded' = <<>> /\ usable' = FALSE
        /\ committedByteCount' = 0 /\ frame' = <<>> /\ bytesWritten' = 0
    BY DEF Down
  <1>2. loaded' \in Seq(Commands) /\ frame' \in Seq(CellStates)
    BY <1>1, EmptySeq
  <1>3. ~Repairing' /\ ~Writing'
    BY <1>1 DEF Repairing, Writing
  <1>. QED  BY <1>1, <1>2, <1>3 DEF Control

\* A beginning of the file that a power loss leaves holds every acknowledged frame.
LEMMA Shortened ==
  ASSUME NEW plan, NEW ends, NEW stablePlan, NEW stableEnds, FilesFollow(plan, ends, stablePlan, stableEnds),
         \E n \in CommonLength..Len(file) : file' = SubSeq(file, 1, n)
  PROVE  /\ LaidOut(file', plan, ends) /\ ends[Len(acknowledged)] <= Len(file')
         /\ Len(file') \in Nat /\ Len(file') <= Len(file)
  <1>. DEFINE a == Len(acknowledged)
  <1>1. PICK n \in CommonLength..Len(file) : file' = SubSeq(file, 1, n)
    OBVIOUS
  <1>2. CommonLength \in Nat /\ ends[a] <= CommonLength
    BY AcknowledgedIsCommon
  <1>3. /\ Plan(plan, ends) /\ LaidOut(file, plan, ends) /\ Len(file) \in Nat
        /\ a \in 0..Len(plan) /\ ends[a] \in Nat /\ HeaderLength <= ends[a]
    BY PlanEnds DEF FilesFollow, Acknowledged, LaidOut
  <1>4. n \in Nat /\ n <= Len(file) /\ ends[a] <= n /\ HeaderLength <= n /\ HeaderLength \in Nat
    BY <1>2, <1>3, FrameLengths
  <1>5. LaidOut(file', plan, ends) /\ Len(file') = n
    BY <1>1, <1>3, <1>4, Cut
  <1>. QED  BY <1>4, <1>5

\* A power loss leaves the contents last synchronised, or a beginning of the
\* file that holds every acknowledged frame.
LEMMA PowerLossPreserves == ASSUME IInv, PowerLoss PROVE IInv'
  <1>. DEFINE a == Len(acknowledged)
  <1>1. PICK plan, ends, stablePlan, stableEnds : FilesFollow(plan, ends, stablePlan, stableEnds)
    BY DEF IInv
  <1>2. Control' /\ pc' = "down" /\ file' \in Survivors /\ stable' = file' /\ UNCHANGED <<headerRun, acknowledged>>
    <2>1. Down("NONE") /\ file' \in Survivors /\ stable' = file' /\ UNCHANGED <<headerRun, acknowledged>>
      BY DEF PowerLoss
    <2>2. pc' = "down"
      BY <2>1 DEF Down
    <2>3. "NONE" # "CORRUPTION" /\ UNCHANGED headerRun /\ Control
      BY <2>1 DEF IInv
    <2>4. Control'
      BY <2>1, <2>3, DownControl
    <2>. QED  BY <2>1, <2>2, <2>4
  <1>3. ProcessFollows(plan, ends)' /\ ProcessFollows(stablePlan, stableEnds)'
    <2>1. pc' = "down"
      BY <1>2
    <2>2. ProcessFollows(plan, ends)'
      BY <2>1, NothingKnown
    <2>3. ProcessFollows(stablePlan, stableEnds)'
      BY <2>1, NothingKnown
    <2>. QED  BY <2>2, <2>3
  <1>4. CASE file' = stable
    <2>1. FilesFollow(stablePlan, stableEnds, stablePlan, stableEnds)'
      <3>1. Acknowledged(stablePlan, stableEnds, stablePlan, stableEnds)'
        <4>1. a \in Nat /\ a \in 0..a
          BY <1>1 DEF FilesFollow, Acknowledged
        <4>2. stableEnds[a] <= Len(stable)
          BY <1>1, <4>1 DEF FilesFollow, Acknowledged
        <4>. QED  BY <1>1, <1>2, <1>4, <4>2 DEF FilesFollow, Acknowledged
      <3>. QED  BY <1>1, <1>2, <1>4, <3>1 DEF FilesFollow, Fits
    <2>. QED  BY <1>2, <1>3, <2>1 DEF IInv
  <1>5. CASE \E n \in CommonLength..Len(file) : file' = SubSeq(file, 1, n)
    <2>1. LaidOut(file', plan, ends) /\ ends[a] <= Len(file')
      BY <1>1, <1>5, Shortened
    <2>2. Acknowledged(plan, ends, plan, ends)'
      BY <1>1, <1>2, <2>1 DEF FilesFollow, Acknowledged
    <2>3. FilesFollow(plan, ends, plan, ends)'
      BY <1>1, <1>2, <2>1, <2>2 DEF FilesFollow, Fits
    <2>. QED  BY <1>2, <1>3, <2>3 DEF IInv
  <1>. QED  BY <1>2, <1>4, <1>5 DEF Survivors

\* The cells with one of them changed.
Damaged(cells, i) == [cells EXCEPT ![i].ok = FALSE]

\* A damaged cell still is the one of its command.
LEMMA DamagedCell ==
  ASSUME NEW cells, NEW plan, NEW ends, Plan(plan, ends), LaidOut(cells, plan, ends), NEW i \in DOMAIN cells
  PROVE  /\ LaidOut(Damaged(cells, i), plan, ends) /\ Len(Damaged(cells, i)) = Len(cells)
         /\ \A j \in DOMAIN cells :
              Damaged(cells, i)[j] = IF j = i THEN [cells[i] EXCEPT !.ok = FALSE] ELSE cells[j]
  <1>. DEFINE damaged == Damaged(cells, i)
  <1>1. cells \in Seq(CellStates) /\ Len(cells) \in Nat /\ DOMAIN cells = 1..Len(cells)
    BY DEF LaidOut
  <1>2. /\ \A j \in DOMAIN cells : damaged[j] = IF j = i THEN [cells[i] EXCEPT !.ok = FALSE] ELSE cells[j]
        /\ DOMAIN damaged = 1..Len(cells) /\ damaged = [j \in 1..Len(cells) |-> damaged[j]]
    BY <1>1 DEF Damaged
  <1>. HIDE DEF damaged
  <1>3. \A j \in DOMAIN cells : cells[j] \in CellStates
    BY <1>1, ElementOfSeq
  <1>4. \A j \in DOMAIN cells : /\ damaged[j] \in CellStates /\ damaged[j].sequence = cells[j].sequence
                                /\ damaged[j].body = cells[j].body /\ damaged[j].part = cells[j].part
    BY <1>2, <1>3 DEF CellStates
  <1>5. damaged \in Seq(CellStates) /\ Len(damaged) = Len(cells)
    BY <1>1, <1>2, <1>4
  <1>6. ASSUME NEW n \in 1..Len(plan), NEW part \in 1..FrameLength(plan[n].body), ends[n - 1] + part <= Len(cells)
        PROVE  Holds(damaged[ends[n - 1] + part], plan[n], part)
    <2>. DEFINE j == ends[n - 1] + part
    <2>1. Holds(cells[j], plan[n], part)
      BY <1>6 DEF LaidOut
    <2>2. ends[n - 1] \in Nat /\ FrameLength(plan[n].body) \in Nat
      BY PlanEnds, FrameLengths
    <2>3. j \in DOMAIN cells
      BY <1>1, <1>6, <2>2
    <2>. HIDE DEF j
    <2>4. Holds(damaged[j], plan[n], part)
      BY <1>4, <2>1, <2>3 DEF Holds
    <2>. QED  BY <2>4 DEF j
  <1>7. HeaderLength <= Len(damaged) /\ Len(damaged) <= ends[Len(plan)]
    BY <1>5 DEF LaidOut
  <1>8. LaidOut(damaged, plan, ends)
    BY <1>5, <1>6, <1>7 DEF LaidOut
  <1>. QED  BY <1>2, <1>5, <1>8 DEF damaged

\* The same cell changes in both contents, or lies behind what both share.
LEMMA DamagePreserves == ASSUME IInv, Damage PROVE IInv'
  <1>. DEFINE a == Len(acknowledged)
  <1>1. PICK plan, ends, stablePlan, stableEnds : FilesFollow(plan, ends, stablePlan, stableEnds)
    BY DEF IInv
  <1>2. PICK i \in DOMAIN file :
          file' = Damaged(file, i) /\ stable' = IF i \in DOMAIN stable THEN Damaged(stable, i) ELSE stable
    BY DEF Damage, Damaged
  <1>3. /\ pc = "down" /\ pc' = pc /\ result' = "NONE"
        /\ UNCHANGED <<headerRun, position, loaded, usable, committedByteCount, frame, bytesWritten, acknowledged>>
    BY DEF Damage, writerVars, appendVars
  <1>4. Control'
    BY <1>3 DEF IInv, Control, Repairing, Writing
  <1>5. ProcessFollows(plan, ends)'
    BY <1>3, NothingKnown
  <1>6. /\ Plan(plan, ends) /\ LaidOut(file, plan, ends)
        /\ Plan(stablePlan, stableEnds) /\ LaidOut(stable, stablePlan, stableEnds)
        /\ Acknowledged(plan, ends, stablePlan, stableEnds)
    BY <1>1 DEF FilesFollow
  <1>7. /\ LaidOut(file', plan, ends) /\ Len(file') = Len(file)
        /\ \A j \in DOMAIN file : file'[j] = IF j = i THEN [file[i] EXCEPT !.ok = FALSE] ELSE file[j]
    BY <1>2, <1>6, DamagedCell
  <1>8. /\ LaidOut(stable', stablePlan, stableEnds) /\ Len(stable') = Len(stable)
        /\ \A j \in DOMAIN stable : stable'[j] = IF j = i THEN [stable[i] EXCEPT !.ok = FALSE] ELSE stable[j]
    <2>1. CASE i \in DOMAIN stable
      BY <1>2, <1>6, <2>1, DamagedCell
    <2>2. CASE i \notin DOMAIN stable
      BY <1>2, <1>6, <2>2
    <2>. QED  BY <2>1, <2>2
  <1>9. /\ ends[a] \in Nat /\ ends[a] <= Len(file) /\ ends[a] <= Len(stable)
        /\ DOMAIN file = 1..Len(file) /\ DOMAIN stable = 1..Len(stable) /\ Len(file) \in Nat /\ Len(stable) \in Nat
        /\ \A j \in 1..ends[a] : file[j] = stable[j]
    BY <1>6, PlanEnds DEF Acknowledged, LaidOut
  <1>. HIDE DEF a
  <1>10. \A j \in 1..ends[a] : file'[j] = stable'[j]
    <2>. SUFFICES ASSUME NEW j \in 1..ends[a] PROVE file'[j] = stable'[j]
      OBVIOUS
    <2>1. j \in DOMAIN file /\ j \in DOMAIN stable
      BY <1>9
    <2>2. file[j] = stable[j]
      BY <1>9
    <2>. QED  BY <1>7, <1>8, <2>1, <2>2
  <1>11. Acknowledged(plan, ends, stablePlan, stableEnds)'
    BY <1>3, <1>6, <1>7, <1>8, <1>10 DEF Acknowledged, a
  <1>12. FilesFollow(plan, ends, stablePlan, stableEnds)'
    BY <1>1, <1>3, <1>7, <1>8, <1>11 DEF FilesFollow, Fits
  <1>. QED  BY <1>4, <1>5, <1>12 DEF IInv

-----------------------------------------------------------------------------
(* The invariant.                                                          *)

\* The header of a journal.
LEMMA HeaderCells ==
  Header \in Seq(CellStates) /\ Len(Header) = HeaderLength /\ \A i \in 1..HeaderLength : Header[i].ok
  <1>1. HeaderLength \in Nat
    BY FrameLengths
  <1>2. \A part \in 1..HeaderLength : [sequence |-> 0, body |-> "header", part |-> part, ok |-> TRUE] \in CellStates
    BY <1>1 DEF CellStates
  <1>. QED  BY <1>1, <1>2 DEF Header

\* A journal that was just created: the plan has no command yet.
LEMMA CreatedFollows ==
  ASSUME Init, Created
  PROVE  IInv /\ CompleteFrames = <<>>
  <1>. DEFINE plan == <<>>
              ends == [n \in 0..0 |-> HeaderLength]
  <1>1. /\ file = Header /\ stable = Header /\ headerRun = "expected" /\ pc = "open" /\ position = HeaderLength
        /\ usable = TRUE /\ committedCommandCount = 0 /\ committedByteCount = HeaderLength /\ nextCommandSequence = 1
        /\ result = "NONE" /\ loaded = <<>> /\ frame = <<>> /\ bytesWritten = 0 /\ acknowledged = <<>>
    BY DEF Init, Created
  <1>2. /\ <<>> \in Seq(Commands) /\ <<>> \in Seq(CellStates) /\ Len(<<>>) = 0
        /\ HeaderLength \in Nat /\ MaxRunCommands \in Nat /\ HeaderLength <= MaxRunJournalBytes
    BY EmptySeq, JournalAssumption
  <1>3. Plan(plan, ends)
    BY <1>2 DEF Plan
  <1>4. LaidOut(Header, plan, ends)
    BY <1>2, HeaderCells DEF LaidOut
  <1>5. Fits(plan, ends)
    BY <1>2 DEF Fits
  <1>6. Acknowledged(plan, ends, plan, ends)
    BY <1>1, <1>2, HeaderCells DEF Acknowledged
  <1>7. FilesFollow(plan, ends, plan, ends)
    BY <1>1, <1>3, <1>4, <1>5, <1>6 DEF FilesFollow
  <1>8. ProcessFollows(plan, ends)
    BY <1>1, <1>2, HeaderCells DEF ProcessFollows, Known, Counted, AtEnd, Repairing
  <1>9. Control
    BY <1>1, <1>2 DEF Control, Repairing
  <1>10. CompleteFrames = <<>>
    <2>1. Complete(Header, plan, ends, 0)
      BY <1>2, HeaderCells DEF Complete
    <2>. HIDE DEF plan, ends
    <2>. QED  BY <1>1, <1>3, <1>4, <2>1, NoFrame DEF CompleteFrames
  <1>. QED  BY <1>7, <1>8, <1>9, <1>10 DEF IInv

\* The journal of another run: the plan is the frame of which it has a part.
LEMMA ForeignFollows ==
  ASSUME Init, Foreign
  PROVE  IInv /\ CompleteFrames = <<>>
  <1>1. PICK body \in NewOrders \cup Cancels : \E n \in 0..(FrameLength(body) - 1) :
          file = Header \o SubSeq(Encode([sequence |-> 1, body |-> body]), 1, n)
    BY DEF Foreign
  <1>2. PICK n \in 0..(FrameLength(body) - 1) : file = Header \o SubSeq(Encode([sequence |-> 1, body |-> body]), 1, n)
    BY <1>1
  <1>. DEFINE c == [sequence |-> 1, body |-> body]
              plan == <<c>>
              ends == [m \in 0..1 |-> IF m = 0 THEN HeaderLength ELSE HeaderLength + FrameLength(body)]
              part1 == SubSeq(Encode(c), 1, n)
  <1>3. /\ stable = file /\ headerRun = "foreign" /\ pc = "down" /\ position = 0
        /\ usable = FALSE /\ committedByteCount = 0
        /\ result = "NONE" /\ loaded = <<>> /\ frame = <<>> /\ bytesWritten = 0 /\ acknowledged = <<>>
    BY DEF Init, Foreign
  <1>4. /\ <<>> \in Seq(Commands) /\ <<>> \in Seq(CellStates) /\ Len(<<>>) = 0
        /\ HeaderLength \in Nat /\ FrameLength(body) \in Nat /\ FrameLength(body) > 0
        /\ n \in Nat /\ n <= FrameLength(body)
    BY EmptySeq, FrameLengths DEF EnvelopeSize
  <1>5. c \in Commands /\ c.sequence = 1 /\ c.body = body
    BY DEF Commands, Bodies
  <1>. HIDE DEF c
  <1>6. plan \in Seq(Commands) /\ Len(plan) = 1 /\ plan[1] = c
    BY <1>5
  <1>7. Plan(plan, ends)
    <2>1. ends \in [0..1 -> Nat] /\ ends[0] = HeaderLength /\ ends[1] = HeaderLength + FrameLength(body)
      BY <1>4
    <2>. HIDE DEF ends, plan
    <2>2. \A m \in 1..Len(plan) : m = 1
      BY <1>6
    <2>3. \A l, m \in 0..Len(plan) : l < m => l = 0 /\ m = 1
      BY <1>6
    <2>4. ends[0] < ends[1]
      BY <1>4, <2>1
    <2>5. 1 - 1 = 0
      OBVIOUS
    <2>6. \A m \in 1..Len(plan) : /\ plan[m].sequence = m /\ plan[m].body \in NewOrders \cup Cancels
                                  /\ ends[m] = ends[m - 1] + FrameLength(plan[m].body)
      BY <1>5, <1>6, <2>1, <2>2, <2>5
    <2>. QED  BY <1>6, <2>1, <2>3, <2>4, <2>6 DEF Plan
  <1>8. /\ part1 \in Seq(CellStates) /\ Len(part1) = n
        /\ \A j \in 1..n : part1[j] = Encode(c)[j] /\ j \in 1..FrameLength(body)
    <2>1. 0 + 1 = 1 /\ 0 + n = n /\ 0 \in Nat /\ \A j \in 1..n : 0 + j = j
      BY <1>4
    <2>2. Encode(c) \in Seq(CellStates) /\ Len(Encode(c)) = FrameLength(body)
      BY <1>5, Encoded
    <2>. QED  BY <1>4, <2>1, <2>2, Piece
  <1>. HIDE DEF part1
  <1>9. /\ file \in Seq(CellStates) /\ Len(file) = HeaderLength + n
        /\ \A j \in 1..n : file[HeaderLength + j] = part1[j]
    <2>1. file = Header \o part1
      BY <1>2 DEF c, part1
    <2>2. \A j \in 1..n : HeaderLength + j > HeaderLength /\ HeaderLength + j <= HeaderLength + n /\ (HeaderLength + j) - HeaderLength = j
      BY <1>4
    <2>. QED  BY <1>4, <1>8, <2>1, <2>2, HeaderCells, ConcatProperties
  <1>10. LaidOut(file, plan, ends)
    <2>1. ends[0] = HeaderLength /\ ends[1] = HeaderLength + FrameLength(body)
      BY <1>4
    <2>. HIDE DEF ends, plan
    <2>2. ASSUME NEW m \in 1..Len(plan), NEW part \in 1..FrameLength(plan[m].body), ends[m - 1] + part <= Len(file)
          PROVE  Holds(file[ends[m - 1] + part], plan[m], part)
      <3>1. m = 1 /\ m - 1 = 0 /\ plan[m] = c
        BY <1>6
      <3>2. part \in 1..FrameLength(body) /\ part \in 1..n /\ ends[m - 1] = HeaderLength
        BY <1>4, <1>5, <1>9, <2>1, <2>2, <3>1
      <3>3. file[HeaderLength + part] = Encode(c)[part]
        BY <1>8, <1>9, <3>2
      <3>4. Holds(Encode(c)[part], c, part)
        BY <1>5, <3>2, Encoded
      <3>. QED  BY <3>1, <3>2, <3>3, <3>4
    <2>3. HeaderLength <= Len(file) /\ Len(file) <= ends[Len(plan)]
      BY <1>4, <1>6, <1>9, <2>1
    <2>. QED  BY <1>9, <2>2, <2>3 DEF LaidOut
  <1>11. Acknowledged(plan, ends, plan, ends)
    <2>1. ends[0] = HeaderLength
      OBVIOUS
    <2>. HIDE DEF ends, plan
    <2>. QED  BY <1>3, <1>4, <1>6, <1>9, <2>1 DEF Acknowledged
  <1>12. FilesFollow(plan, ends, plan, ends)
    BY <1>3, <1>7, <1>10, <1>11 DEF FilesFollow, Fits
  <1>13. ProcessFollows(plan, ends)
    BY <1>3 DEF ProcessFollows, Known, Counted, AtEnd, Reading, Repairing, Writing
  <1>14. Control
    BY <1>3, <1>4 DEF Control, Repairing, Writing
  <1>15. CompleteFrames = <<>>
    <2>1. ends[0] = HeaderLength /\ ends[1] = HeaderLength + FrameLength(body) /\ n < FrameLength(body)
      BY <1>4
    <2>. HIDE DEF plan, ends
    <2>2. Complete(file, plan, ends, 0)
      BY <1>4, <1>6, <1>9, <2>1 DEF Complete
    <2>. QED  BY <1>7, <1>10, <2>2, NoFrame DEF CompleteFrames
  <1>. QED  BY <1>12, <1>13, <1>14, <1>15 DEF IInv

\* Every step of the writer, of the preparation and of the surroundings.
LEMMA NextPreserves == ASSUME IInv, [Next]_vars PROVE IInv'
  <1>1. CASE UNCHANGED vars
    BY <1>1 DEF IInv, vars, writerVars, appendVars, Control, FilesFollow, Fits, Acknowledged, ProcessFollows, Known,
                Counted, AtEnd, Reading, Repairing, Writing, Undamaged
  <1>2. ASSUME NEW sequence \in 1..(MaxRunCommands + 1), NEW body \in Bodies,
               BeginAppend([sequence |-> sequence, body |-> body])
        PROVE  IInv'
    <2>1. sequence \in Nat
      BY FrameLengths
    <2>2. [sequence |-> sequence, body |-> body] \in Commands
      BY <2>1 DEF Commands
    <2>. QED  BY <1>2, <2>2, BeginAppendPreserves
  <1>3. CASE WriteSome
    BY <1>3, WriteSomePreserves
  <1>4. CASE WriteFails
    BY <1>4, WriteFailsPreserves
  <1>5. CASE SyncFails
    BY <1>5, SyncFailsPreserves
  <1>6. CASE SyncFrame
    BY <1>6, SyncFramePreserves
  <1>7. CASE Prepare
    BY <1>7, OpenReadWritePreserves, ReadHeaderPreserves, ReadFramePreserves, EndLoadPreserves, PreserveTailPreserves,
       TruncatePreserves, SyncTruncationPreserves, MakeWriterPreserves, PrepareFailsPreserves DEF Prepare
  <1>8. CASE Stop
    BY <1>8, StopPreserves
  <1>9. CASE PowerLoss
    BY <1>9, PowerLossPreserves
  <1>10. CASE Damage
    BY <1>10, DamagePreserves
  <1>. QED  BY <1>1, <1>2, <1>3, <1>4, <1>5, <1>6, <1>7, <1>8, <1>9, <1>10 DEF Next

\* At every moment both contents of the journal are those of a plan, cut
\* somewhere, and the process knows its place in it.
THEOREM Invariance == Spec => []IInv
  <1>1. Init => IInv
    BY CreatedFollows, ForeignFollows DEF Init
  <1>2. IInv /\ [Next]_vars => IInv'
    BY NextPreserves
  <1>. QED  BY <1>1, <1>2, PTL DEF Spec

-----------------------------------------------------------------------------
(* The properties of the process.                                          *)

\* An undamaged journal of the expected run is never called corrupt, whatever
\* short writes, failed calls, stops and power losses made of it.
THEOREM CorruptIsDamaged == Spec => []OnlyDamageIsCorrupt
  <1>1. IInv => OnlyDamageIsCorrupt
    BY DEF IInv, Control, OnlyDamageIsCorrupt
  <1>. QED  BY <1>1, Invariance, PTL

\* A file that ends where a frame of its plan ends.
LEMMA EndsAt ==
  ASSUME NEW cells, NEW plan, NEW ends, Plan(plan, ends), LaidOut(cells, plan, ends),
         NEW k \in 0..Len(plan), Len(cells) = ends[k]
  PROVE  Complete(cells, plan, ends, k)
  <1>1. Len(plan) \in Nat /\ \A n \in 0..Len(plan) : ends[n] \in Nat
    BY PlanEnds
  <1>2. k < Len(plan) => k + 1 \in 0..Len(plan) /\ k < k + 1
    BY <1>1
  <1>. QED  BY <1>1, <1>2 DEF Complete, Plan

\* The commands a usable writer knows are those in the file, and it stands at the end.
LEMMA OpenWriter ==
  ASSUME IInv, pc = "open", usable
  PROVE  /\ headerRun = "expected" /\ Undamaged /\ loaded = CompleteFrames
         /\ committedCommandCount = Len(loaded) /\ nextCommandSequence = Len(loaded) + 1
         /\ committedByteCount = Len(file) /\ position = Len(file)
  <1>. DEFINE k == Len(loaded)
  <1>1. PICK plan, ends, stablePlan, stableEnds :
          FilesFollow(plan, ends, stablePlan, stableEnds) /\ ProcessFollows(plan, ends)
    BY DEF IInv
  <1>2. /\ Plan(plan, ends) /\ LaidOut(file, plan, ends) /\ DOMAIN file = 1..Len(file)
        /\ loaded \in Seq(Commands) /\ k \in Nat /\ k <= Len(plan) /\ headerRun = "expected"
        /\ Len(file) = ends[k] /\ \A i \in 1..ends[k] : file[i].ok
        /\ \A n \in 1..k : loaded[n] = plan[n]
        /\ committedByteCount = ends[k] /\ committedCommandCount = k /\ nextCommandSequence = k + 1
        /\ position = Len(file)
    BY <1>1 DEF IInv, Control, FilesFollow, LaidOut, ProcessFollows, Known, Counted, Reading, Writing
  <1>3. Len(plan) \in Nat
    BY <1>2, PlanEnds
  <1>4. Complete(file, plan, ends, k)
    BY <1>2, <1>3, EndsAt
  <1>5. /\ FramesIn(file) \in Seq(Commands) /\ Len(FramesIn(file)) = k
        /\ \A n \in 1..k : FramesIn(file)[n] = plan[n]
    BY <1>2, <1>4, FramesAre
  <1>6. loaded = FramesIn(file)
    BY <1>2, <1>5, SeqEqual
  <1>. QED  BY <1>2, <1>6 DEF Undamaged, CompleteFrames

\* A writer that the creation or the preparation handed out, and that no append
\* has made unusable, stands at the end of a journal it knows completely.
THEOREM WriterKnows == Spec => []WriterKnowsFile
  <1>1. IInv => WriterKnowsFile
    BY OpenWriter DEF WriterKnowsFile
  <1>. QED  BY <1>1, Invariance, PTL

-----------------------------------------------------------------------------
(* The file is a command log.                                              *)

\* A prefix, element by element.
Begins(s, t) == Len(s) <= Len(t) /\ \A n \in 1..Len(s) : s[n] = t[n]

\* The element-wise form is what the command log means.
LEMMA BeginsIsPrefix ==
  ASSUME NEW s \in Seq(Commands), NEW t \in Seq(Commands), Begins(s, t)
  PROVE  Log!IsPrefix(s, t)
  <1>1. Len(s) \in Nat /\ Len(t) \in Nat /\ Len(s) <= Len(s) /\ Len(s) <= Len(t) /\ \A n \in 1..Len(s) : s[n] = t[n]
    BY DEF Begins
  <1>2. 0 + 1 = 1 /\ 0 + Len(s) = Len(s) /\ 0 \in Nat /\ \A n \in 1..Len(s) : 0 + n = n
    BY <1>1
  <1>3. /\ SubSeq(s, 1, Len(s)) \in Seq(Commands) /\ Len(SubSeq(s, 1, Len(s))) = Len(s)
        /\ \A n \in 1..Len(s) : SubSeq(s, 1, Len(s))[n] = s[n]
    BY <1>1, <1>2, Piece
  <1>4. /\ SubSeq(t, 1, Len(s)) \in Seq(Commands) /\ Len(SubSeq(t, 1, Len(s))) = Len(s)
        /\ \A n \in 1..Len(s) : SubSeq(t, 1, Len(s))[n] = t[n]
    BY <1>1, <1>2, Piece
  <1>5. SubSeq(s, 1, Len(s)) = SubSeq(t, 1, Len(s))
    BY <1>1, <1>3, <1>4, SeqEqual
  <1>. QED  BY <1>1, <1>5 DEF Log!IsPrefix

\* What was synchronised last has no complete frame that the file has not.
StableBegins == Begins(FramesIn(stable), FramesIn(file))

\* Prefixes of prefixes.
LEMMA BeginsIsOrder ==
  /\ \A s \in Seq(Commands) : Begins(s, s)
  /\ \A s, t, u \in Seq(Commands) : Begins(s, t) /\ Begins(t, u) => Begins(s, u)
  <1>1. ASSUME NEW s \in Seq(Commands) PROVE Begins(s, s)
    BY DEF Begins
  <1>2. ASSUME NEW s \in Seq(Commands), NEW t \in Seq(Commands), NEW u \in Seq(Commands), Begins(s, t), Begins(t, u)
        PROVE  Begins(s, u)
    <2>1. Len(s) \in Nat /\ Len(t) \in Nat /\ Len(u) \in Nat /\ Len(s) <= Len(t) /\ Len(t) <= Len(u)
      BY <1>2 DEF Begins
    <2>2. Len(s) <= Len(u) /\ \A n \in 1..Len(s) : n \in 1..Len(t)
      BY <2>1
    <2>. QED  BY <1>2, <2>2 DEF Begins
  <1>. QED  BY <1>1, <1>2

\* The frames of both contents are commands.
LEMMA FramesAreCommands == ASSUME IInv PROVE FramesIn(file) \in Seq(Commands) /\ FramesIn(stable) \in Seq(Commands)
  <1>1. PICK plan, ends, stablePlan, stableEnds : FilesFollow(plan, ends, stablePlan, stableEnds)
    BY DEF IInv
  <1>2. /\ Plan(plan, ends) /\ LaidOut(file, plan, ends)
        /\ Plan(stablePlan, stableEnds) /\ LaidOut(stable, stablePlan, stableEnds)
    BY <1>1 DEF FilesFollow
  <1>3. FramesIn(file) \in Seq(Commands)
    BY <1>2, FramesAreTyped
  <1>4. FramesIn(stable) \in Seq(Commands)
    BY <1>2, FramesAreTyped
  <1>. QED  BY <1>3, <1>4

\* The same of the file after a step.
LEMMA NextFramesAreCommands == ASSUME IInv' PROVE FramesIn(file') \in Seq(Commands)
  <1>1. PICK plan, ends, stablePlan, stableEnds : FilesFollow(plan, ends, stablePlan, stableEnds)'
    BY DEF IInv
  <1>2. Plan(plan, ends) /\ LaidOut(file', plan, ends)
    BY <1>1 DEF FilesFollow
  <1>. QED  BY <1>2, FramesAreTyped

\* Contents that share a plan share the frames that are complete in both.
LEMMA SharedPlan ==
  ASSUME NEW cells, NEW others, NEW plan, NEW ends, Plan(plan, ends), LaidOut(cells, plan, ends),
         LaidOut(others, plan, ends), Len(cells) <= Len(others)
  PROVE  Begins(FramesIn(cells), FramesIn(others))
  <1>1. PICK k \in 0..Len(plan) : Complete(cells, plan, ends, k)
    BY CompleteCount
  <1>2. PICK h \in 0..Len(plan) : Complete(others, plan, ends, h)
    BY CompleteCount
  <1>3. Len(cells) \in Nat /\ Len(others) \in Nat /\ Len(plan) \in Nat /\ \A n \in 0..Len(plan) : ends[n] \in Nat
    BY PlanEnds DEF LaidOut
  <1>4. ends[k] <= Len(others)
    BY <1>1, <1>3 DEF Complete
  <1>5. k <= h
    BY <1>2, <1>4, CompleteEnds
  <1>6. Len(FramesIn(cells)) = k /\ \A n \in 1..k : FramesIn(cells)[n] = plan[n]
    BY <1>1, FramesAre
  <1>7. Len(FramesIn(others)) = h /\ \A n \in 1..h : FramesIn(others)[n] = plan[n]
    BY <1>2, FramesAre
  <1>8. \A n \in 1..k : n \in 1..h
    BY <1>5
  <1>. QED  BY <1>5, <1>6, <1>7, <1>8 DEF Begins

\* A write completes at most one frame, the next one.
LEMMA WriteSomeExtends ==
  ASSUME IInv, WriteSome
  PROVE  /\ FramesIn(file) \in Seq(Commands) /\ FramesIn(file') \in Seq(Commands)
         /\ Begins(FramesIn(file), FramesIn(file'))
         /\ \/ FramesIn(file') = FramesIn(file)
            \/ /\ Len(FramesIn(file')) = Len(FramesIn(file)) + 1
               /\ \A n \in 1..Len(FramesIn(file')) : FramesIn(file')[n].sequence = n
  <1>. DEFINE k == Len(loaded)
  <1>1. PICK plan, ends, stablePlan, stableEnds :
          FilesFollow(plan, ends, stablePlan, stableEnds) /\ ProcessFollows(plan, ends)
    BY DEF IInv
  <1>2. FilesFollow(plan, ends, stablePlan, stableEnds)' /\ ProcessFollows(plan, ends)' /\ IInv'
    BY <1>1, WriteSomeFollows
  <1>3. Plan(plan, ends) /\ LaidOut(file, plan, ends) /\ LaidOut(file', plan, ends)
    BY <1>1, <1>2 DEF FilesFollow
  <1>4. /\ pc = "writing" /\ pc' = "writing" /\ loaded' = loaded /\ frame' = frame
        /\ bytesWritten < Len(frame) /\ bytesWritten' > bytesWritten /\ bytesWritten' <= Len(frame)
        /\ bytesWritten \in Nat /\ bytesWritten' \in Nat /\ Len(frame) \in Nat
    <2>1. PICK n \in 1..(Len(frame) - bytesWritten) : bytesWritten' = bytesWritten + n
      BY DEF WriteSome
    <2>2. bytesWritten \in Nat /\ Len(frame) \in Nat
      BY DEF IInv, Control
    <2>3. bytesWritten' > bytesWritten /\ bytesWritten' <= Len(frame) /\ bytesWritten' \in Nat
      BY <2>1, <2>2
    <2>4. pc = "writing" /\ pc' = "writing" /\ loaded' = loaded /\ frame' = frame /\ bytesWritten < Len(frame)
      BY DEF WriteSome
    <2>. QED  BY <2>2, <2>3, <2>4
  <1>5. /\ k \in Nat /\ k \in 0..Len(plan) /\ Len(plan) = k + 1 /\ ends[k] \in Nat /\ ends[k + 1] = ends[k] + Len(frame)
        /\ Len(file) = ends[k] + bytesWritten
    <2>1. pc = "writing"
      BY <1>4
    <2>. QED  BY <1>1, <2>1, WhileWriting
  <1>6. Len(file') = ends[k] + bytesWritten'
    BY <1>2, <1>4 DEF ProcessFollows, AtEnd
  <1>. HIDE DEF k
  <1>7. Complete(file, plan, ends, k)
    BY <1>4, <1>5 DEF Complete
  <1>8. /\ FramesIn(file) \in Seq(Commands) /\ Len(FramesIn(file)) = k
        /\ \A n \in 1..k : FramesIn(file)[n] = plan[n]
    BY <1>3, <1>7, FramesAre
  <1>9. CASE bytesWritten' < Len(frame)
    <2>1. Complete(file', plan, ends, k)
      BY <1>4, <1>5, <1>6, <1>9 DEF Complete
    <2>2. FramesIn(file') = FramesIn(file)
      BY <1>3, <1>7, <2>1, FramesOfPlan
    <2>. QED  BY <1>8, <2>2, BeginsIsOrder
  <1>10. CASE bytesWritten' = Len(frame)
    <2>1. k + 1 \in 0..Len(plan) /\ Len(file') = ends[k + 1]
      BY <1>5, <1>6, <1>10
    <2>2. Complete(file', plan, ends, k + 1)
      BY <1>3, <2>1, EndsAt
    <2>3. /\ FramesIn(file') \in Seq(Commands) /\ Len(FramesIn(file')) = k + 1
          /\ \A n \in 1..(k + 1) : FramesIn(file')[n] = plan[n]
      BY <1>3, <2>2, FramesAre
    <2>4. Begins(FramesIn(file), FramesIn(file'))
      BY <1>5, <1>8, <2>3 DEF Begins
    <2>5. \A n \in 1..(k + 1) : plan[n].sequence = n
      BY <1>3, <1>5 DEF Plan
    <2>. QED  BY <1>8, <2>3, <2>4, <2>5
  <1>. QED  BY <1>4, <1>9, <1>10

\* The repair cuts no complete frame.
LEMMA TruncateKeeps == ASSUME IInv, Truncate PROVE FramesIn(file') = FramesIn(file)
  <1>. DEFINE k == Len(loaded)
  <1>1. PICK plan, ends, stablePlan, stableEnds :
          FilesFollow(plan, ends, stablePlan, stableEnds) /\ ProcessFollows(plan, ends)
    BY DEF IInv
  <1>2. FilesFollow(plan, ends, stablePlan, stableEnds)' /\ ProcessFollows(plan, ends)'
    BY <1>1, TruncateFollows
  <1>3. Plan(plan, ends) /\ LaidOut(file, plan, ends) /\ LaidOut(file', plan, ends)
    BY <1>1, <1>2 DEF FilesFollow
  <1>4. pc = "truncate" /\ pc' = "sync" /\ loaded' = loaded /\ k \in Nat
    BY DEF Truncate, IInv, Control
  <1>5. Complete(file, plan, ends, k)
    <2>1. Len(plan) \in Nat
      BY <1>3, PlanEnds
    <2>. QED  BY <1>1, <1>4, <2>1 DEF ProcessFollows, Known, AtEnd, Reading, Repairing, Complete
  <1>6. k \in 0..Len(plan) /\ Len(file') = ends[k]
    BY <1>2, <1>4, <1>5 DEF ProcessFollows, Counted, Complete
  <1>7. Complete(file', plan, ends, k)
    BY <1>3, <1>6, EndsAt
  <1>. QED  BY <1>3, <1>5, <1>7, FramesOfPlan

\* A damaged frame is still there.
LEMMA DamageKeeps ==
  ASSUME NEW cells, NEW plan, NEW ends, Plan(plan, ends), LaidOut(cells, plan, ends), NEW i \in DOMAIN cells
  PROVE  FramesIn(Damaged(cells, i)) = FramesIn(cells)
  <1>1. LaidOut(Damaged(cells, i), plan, ends) /\ Len(Damaged(cells, i)) = Len(cells)
    BY DamagedCell
  <1>2. PICK k \in 0..Len(plan) : Complete(cells, plan, ends, k)
    BY CompleteCount
  <1>3. Complete(Damaged(cells, i), plan, ends, k)
    BY <1>1, <1>2 DEF Complete
  <1>. QED  BY <1>1, <1>2, <1>3, FramesOfPlan

\* Damage changes the frames of neither contents.
LEMMA DamageKeepsFrames ==
  ASSUME IInv, Damage
  PROVE  FramesIn(file') = FramesIn(file) /\ FramesIn(stable') = FramesIn(stable)
  <1>1. PICK plan, ends, stablePlan, stableEnds : FilesFollow(plan, ends, stablePlan, stableEnds)
    BY DEF IInv
  <1>2. PICK i \in DOMAIN file :
          file' = Damaged(file, i) /\ stable' = IF i \in DOMAIN stable THEN Damaged(stable, i) ELSE stable
    BY DEF Damage, Damaged
  <1>3. /\ Plan(plan, ends) /\ LaidOut(file, plan, ends)
        /\ Plan(stablePlan, stableEnds) /\ LaidOut(stable, stablePlan, stableEnds)
    BY <1>1 DEF FilesFollow
  <1>. QED  BY <1>2, <1>3, DamageKeeps

\* A power loss takes frames from the end, none of them acknowledged.
LEMMA PowerLossLoses ==
  ASSUME IInv, StableBegins, PowerLoss
  PROVE  Begins(FramesIn(file'), FramesIn(file)) /\ Begins(acknowledged, FramesIn(file'))
  <1>. DEFINE a == Len(acknowledged)
  <1>1. PICK plan, ends, stablePlan, stableEnds : FilesFollow(plan, ends, stablePlan, stableEnds)
    BY DEF IInv
  <1>2. /\ Plan(plan, ends) /\ LaidOut(file, plan, ends)
        /\ Plan(stablePlan, stableEnds) /\ LaidOut(stable, stablePlan, stableEnds)
        /\ Acknowledged(plan, ends, stablePlan, stableEnds)
    BY <1>1 DEF FilesFollow
  <1>3. ASSUME NEW cells, NEW somePlan, NEW someEnds, Plan(somePlan, someEnds), LaidOut(cells, somePlan, someEnds),
               a \in 0..Len(somePlan), someEnds[a] <= Len(cells), \A n \in 1..a : acknowledged[n] = somePlan[n]
        PROVE  Begins(acknowledged, FramesIn(cells))
    <2>1. PICK k \in 0..Len(somePlan) : Complete(cells, somePlan, someEnds, k)
      BY <1>3, CompleteCount
    <2>2. a <= k
      BY <1>3, <2>1, CompleteEnds
    <2>3. Len(FramesIn(cells)) = k /\ \A n \in 1..k : FramesIn(cells)[n] = somePlan[n]
      BY <1>3, <2>1, FramesAre
    <2>. QED  BY <1>3, <2>2, <2>3 DEF Begins
  <1>4. /\ a \in 0..Len(plan) /\ a \in 0..Len(stablePlan)
        /\ \A n \in 1..a : acknowledged[n] = plan[n] /\ acknowledged[n] = stablePlan[n]
        /\ stableEnds[a] <= Len(stable)
    <2>1. Len(plan) \in Nat /\ Len(stablePlan) \in Nat /\ a \in Nat
      BY <1>2, PlanEnds DEF Acknowledged
    <2>2. a \in 0..a
      BY <2>1
    <2>. QED  BY <1>2, <2>1, <2>2 DEF Acknowledged
  <1>. HIDE DEF a
  <1>5. CASE file' = stable
    <2>1. Begins(acknowledged, FramesIn(stable))
      BY <1>2, <1>3, <1>4
    <2>. QED  BY <1>5, <2>1 DEF StableBegins
  <1>6. CASE \E n \in CommonLength..Len(file) : file' = SubSeq(file, 1, n)
    <2>1. LaidOut(file', plan, ends) /\ ends[a] <= Len(file') /\ Len(file') <= Len(file)
      BY <1>1, <1>6, Shortened DEF a
    <2>2. Begins(acknowledged, FramesIn(file'))
      BY <1>2, <1>3, <1>4, <2>1
    <2>3. Begins(FramesIn(file'), FramesIn(file))
      BY <1>2, <2>1, SharedPlan
    <2>. QED  BY <2>2, <2>3
  <1>7. file' \in Survivors
    BY DEF PowerLoss
  <1>. QED  BY <1>5, <1>6, <1>7 DEF Survivors

\* The other steps touch neither contents, nor what was acknowledged.
LEMMA OthersKeep ==
  ASSUME [Next]_vars, ~WriteSome, ~SyncFrame, ~Truncate, ~SyncTruncation, ~PowerLoss, ~Damage
  PROVE  UNCHANGED <<file, stable, acknowledged>>
  BY DEF Next, Prepare, vars, BeginAppend, WriteFails, SyncFails, AppendFails, OpenReadWrite, ReadHeader, ReadFrame,
         EndLoad, PreserveTail, MakeWriter, PrepareFails, Stop

\* Synchronising makes the contents equal; everything else only adds frames to
\* the file or takes the same from both.
LEMMA StableKeeps == ASSUME IInv, StableBegins, [Next]_vars PROVE StableBegins'
  <1>1. FramesIn(file) \in Seq(Commands) /\ FramesIn(stable) \in Seq(Commands)
    BY FramesAreCommands
  <1>2. IInv'
    BY NextPreserves
  <1>3. FramesIn(file') \in Seq(Commands)
    BY <1>2, NextFramesAreCommands
  <1>4. CASE WriteSome
    <2>1. stable' = stable
      BY <1>4 DEF WriteSome
    <2>2. Begins(FramesIn(file), FramesIn(file')) /\ FramesIn(file') \in Seq(Commands)
      BY <1>4, WriteSomeExtends
    <2>3. Begins(FramesIn(stable), FramesIn(file'))
      BY <1>1, <2>2, BeginsIsOrder DEF StableBegins
    <2>. QED  BY <2>1, <2>3 DEF StableBegins
  <1>5. CASE SyncFrame \/ SyncTruncation \/ PowerLoss
    <2>1. stable' = file'
      BY <1>5 DEF SyncFrame, SyncTruncation, SyncedContents, PowerLoss
    <2>. QED  BY <1>3, <2>1, BeginsIsOrder DEF StableBegins
  <1>6. CASE Truncate
    <2>1. stable' = stable /\ FramesIn(file') = FramesIn(file)
      BY <1>6, TruncateKeeps DEF Truncate
    <2>. QED  BY <2>1 DEF StableBegins
  <1>7. CASE Damage
    BY <1>7, DamageKeepsFrames DEF StableBegins
  <1>8. CASE ~WriteSome /\ ~SyncFrame /\ ~Truncate /\ ~SyncTruncation /\ ~PowerLoss /\ ~Damage
    BY <1>8, OthersKeep DEF StableBegins
  <1>. QED  BY <1>4, <1>5, <1>6, <1>7, <1>8

\* A frame that becomes complete extends the log.
LEMMA WriteSomeIsExtend == ASSUME IInv, WriteSome PROVE Log!Extend \/ UNCHANGED Log!logVars
  <1>. DEFINE log == FramesIn(file)
              longer == FramesIn(file')
  <1>1. /\ log \in Seq(Commands) /\ longer \in Seq(Commands) /\ Begins(log, longer)
        /\ \/ longer = log
           \/ /\ Len(longer) = Len(log) + 1
              /\ \A n \in 1..Len(longer) : longer[n].sequence = n
    BY WriteSomeExtends
  <1>2. CompleteFrames = log /\ CompleteFrames' = longer /\ acknowledged' = acknowledged
    BY DEF CompleteFrames, WriteSome
  <1>. HIDE DEF log, longer
  <1>3. CASE longer = log
    BY <1>2, <1>3 DEF Log!logVars
  <1>4. CASE Len(longer) = Len(log) + 1 /\ \A n \in 1..Len(longer) : longer[n].sequence = n
    <2>1. Log!IsPrefix(log, longer)
      BY <1>1, BeginsIsPrefix
    <2>2. /\ Len(log) \in Nat /\ DOMAIN log = 1..Len(log) /\ Len(longer) \in 1..Len(longer)
          /\ \A n \in 1..Len(log) : n \in 1..Len(longer) /\ n # Len(longer)
      BY <1>1, <1>4
    <2>3. \A n \in DOMAIN log : log[n].sequence # Log!Last(longer).sequence
      BY <1>1, <1>4, <2>2 DEF Begins, Log!Last
    <2>4. Log!Extend
      BY <1>2, <1>4, <2>1, <2>3 DEF Log!Extend
    <2>. QED  BY <2>4
  <1>. QED  BY <1>1, <1>3, <1>4

\* A COMMITTED tells the whole log.
LEMMA SyncFrameIsTell == ASSUME IInv, SyncFrame PROVE Log!Tell
  <1>. DEFINE k == Len(loaded)
              log == FramesIn(file)
  <1>1. PICK plan, ends, stablePlan, stableEnds :
          FilesFollow(plan, ends, stablePlan, stableEnds) /\ ProcessFollows(plan, ends)
    BY DEF IInv
  <1>2. /\ pc = "writing" /\ bytesWritten = Len(frame) /\ file' = file
        /\ loaded' = Append(loaded, CommandOf(frame[1])) /\ acknowledged' = loaded'
    BY DEF SyncFrame
  <1>3. /\ Plan(plan, ends) /\ LaidOut(file, plan, ends)
        /\ loaded \in Seq(Commands) /\ k \in Nat /\ Len(plan) = k + 1 /\ plan[k + 1] \in Commands
        /\ frame = Encode(plan[k + 1]) /\ Len(frame) = FrameLength(plan[k + 1].body) /\ Len(frame) \in Nat
        /\ Len(frame) >= 1 /\ Len(file) = ends[k] + bytesWritten /\ ends[k + 1] = ends[k] + Len(frame)
        /\ \A m \in 1..k : loaded[m] = plan[m]
        /\ Len(acknowledged) <= k
    BY <1>1, <1>2, WhileWriting
  <1>4. acknowledged \in Seq(Commands) /\ Len(acknowledged) \in Nat
    BY <1>1 DEF FilesFollow, Acknowledged
  <1>5. CommandOf(frame[1]) = plan[k + 1]
    <2>1. 1 \in 1..FrameLength(plan[k + 1].body)
      BY <1>3
    <2>. QED  BY <1>3, <2>1, Encoded
  <1>6. loaded' \in Seq(Commands) /\ Len(loaded') = k + 1 /\ \A m \in 1..(k + 1) : loaded'[m] = plan[m]
    <2>1. loaded' = Append(loaded, plan[k + 1])
      BY <1>2, <1>5
    <2>. QED  BY <1>3, <2>1, AppendProperties
  <1>. HIDE DEF k
  <1>7. Complete(file, plan, ends, k + 1)
    <2>1. k + 1 \in 0..Len(plan) /\ Len(file) = ends[k + 1]
      BY <1>2, <1>3
    <2>. QED  BY <1>3, <2>1, EndsAt
  <1>8. log \in Seq(Commands) /\ Len(log) = k + 1 /\ \A m \in 1..(k + 1) : log[m] = plan[m]
    BY <1>3, <1>7, FramesAre
  <1>. HIDE DEF log
  <1>9. loaded' = log
    BY <1>6, <1>8, SeqEqual
  <1>10. SubSeq(log, 1, k + 1) = log /\ k + 1 \in 1..Len(log) /\ k + 1 > Len(acknowledged)
    <2>1. k + 1 \in Nat /\ k + 1 \in 1..Len(log) /\ k + 1 > Len(acknowledged)
      BY <1>3, <1>4, <1>8
    <2>2. 0 + 1 = 1 /\ 0 + (k + 1) = k + 1 /\ 0 \in Nat /\ \A m \in 1..(k + 1) : 0 + m = m
      BY <1>3
    <2>3. /\ SubSeq(log, 1, k + 1) \in Seq(Commands) /\ Len(SubSeq(log, 1, k + 1)) = k + 1
          /\ \A m \in 1..(k + 1) : SubSeq(log, 1, k + 1)[m] = log[m]
      BY <1>8, <2>1, <2>2, Piece
    <2>4. SubSeq(log, 1, k + 1) = log
      BY <1>8, <2>3, SeqEqual
    <2>. QED  BY <2>1, <2>4
  <1>11. CompleteFrames = log /\ CompleteFrames' = CompleteFrames
    BY <1>2 DEF CompleteFrames, log
  <1>. DEFINE told == [channel \in {"writer"} |-> acknowledged]
              n == k + 1
  <1>12. [channel \in {"writer"} |-> acknowledged'] = [told EXCEPT !["writer"] = SubSeq(log, 1, n)]
    BY <1>2, <1>9, <1>10
  <1>13. told["writer"] = acknowledged
    OBVIOUS
  <1>. QED  BY <1>10, <1>11, <1>12, <1>13 DEF Log!Tell

\* A power loss is the failure that the command log allows.
LEMMA PowerLossIsLose == ASSUME IInv, StableBegins, PowerLoss PROVE Log!Lose
  <1>1. Begins(FramesIn(file'), FramesIn(file)) /\ Begins(acknowledged, FramesIn(file'))
    BY PowerLossLoses
  <1>2. FramesIn(file) \in Seq(Commands) /\ acknowledged \in Seq(Commands)
    BY FramesAreCommands DEF IInv, FilesFollow, Acknowledged
  <1>3. FramesIn(file') \in Seq(Commands)
    <2>1. IInv'
      BY PowerLossPreserves
    <2>. QED  BY <2>1, NextFramesAreCommands
  <1>4. CompleteFrames = FramesIn(file) /\ CompleteFrames' = FramesIn(file') /\ acknowledged' = acknowledged
    BY DEF CompleteFrames, PowerLoss
  <1>5. Log!IsPrefix(FramesIn(file'), FramesIn(file)) /\ Log!IsPrefix(acknowledged, FramesIn(file'))
    BY <1>1, <1>2, <1>3, BeginsIsPrefix
  <1>. QED  BY <1>4, <1>5 DEF Log!Lose

\* No journal starts with a frame.
LEMMA LogInitially == ASSUME Init PROVE Log!LogInit /\ StableBegins
  <1>1. IInv /\ acknowledged = <<>> /\ stable = file /\ CompleteFrames = <<>>
    BY CreatedFollows, ForeignFollows DEF Init
  <1>2. StableBegins
    BY <1>1, FramesAreCommands, BeginsIsOrder DEF StableBegins
  <1>. QED  BY <1>1, <1>2 DEF Log!LogInit

\* Frames only come to be complete at the end of the file, each with the next
\* sequence, and an acknowledged one outlives every stop, power loss and repair.
THEOREM FileIsCommandLog == Spec => ImplementsCommandLog
  <1>1. Init => Log!LogInit /\ StableBegins
    BY LogInitially
  <1>2. IInv /\ StableBegins /\ [Next]_vars => StableBegins'
    BY StableKeeps
  <1>3. ASSUME IInv, StableBegins, [Next]_vars PROVE [Log!LogNext]_(Log!logVars)
    <2>1. ASSUME CompleteFrames' = CompleteFrames, acknowledged' = acknowledged PROVE UNCHANGED Log!logVars
      BY <2>1 DEF Log!logVars
    <2>2. CASE WriteSome
      BY <1>3, <2>2, WriteSomeIsExtend DEF Log!LogNext
    <2>3. CASE SyncFrame
      BY <1>3, <2>3, SyncFrameIsTell DEF Log!LogNext
    <2>4. CASE PowerLoss
      BY <1>3, <2>4, PowerLossIsLose DEF Log!LogNext
    <2>5. CASE Truncate
      BY <1>3, <2>1, <2>5, TruncateKeeps DEF Truncate, CompleteFrames
    <2>6. CASE SyncTruncation
      BY <2>1, <2>6 DEF SyncTruncation, CompleteFrames
    <2>7. CASE Damage
      BY <1>3, <2>1, <2>7, DamageKeepsFrames DEF Damage, CompleteFrames
    <2>8. CASE ~WriteSome /\ ~SyncFrame /\ ~Truncate /\ ~SyncTruncation /\ ~PowerLoss /\ ~Damage
      BY <1>3, <2>1, <2>8, OthersKeep DEF CompleteFrames
    <2>. QED  BY <2>2, <2>3, <2>4, <2>5, <2>6, <2>7, <2>8
  <1>4. IInv /\ StableBegins /\ [Next]_vars => [Log!LogNext]_(Log!logVars)
    BY <1>3
  <1>. QED  BY <1>1, <1>2, <1>4, Invariance, PTL DEF Spec, ImplementsCommandLog, Log!LogSpec

=============================================================================
