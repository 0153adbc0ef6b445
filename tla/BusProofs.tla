------------------------------ MODULE BusProofs ------------------------------
(***************************************************************************)
(* The bus neither races nor loses, repeats or reorders a message, for any *)
(* number of readers, any size of the ring and any time of registration.   *)
(***************************************************************************)
EXTENDS Bus, TLAPS

\* What the writer's scan knows: the minimum is below every cursor loaded so far.
ScanInv ==
  writerPc \in {"registering", "scanning"} =>
    \A i \in 1..scanned : minimum <= cursors[readerCursors[i]]

\* While a slot is being reused every registered cursor has passed its old message.
SlotIsFree ==
  writerPc \in {"filling", "publishing"} =>
    \A r \in Registered : totalWrites < cursors[r] + Size

\* A reader that is inside read has a message that is still in the ring.
ReadInWindow ==
  \A r \in Readers : readerPc[r] # "idle" =>
    r \in Registered /\ cursors[r] < totalWrites /\ totalWrites <= cursors[r] + Size

\* The last Size messages are in their slots, the oldest of them not while its
\* slot is being reused.
RingHolds ==
  /\ \A n \in Nat :
       /\ n < totalWrites /\ totalWrites <= n + Size
       /\ writerPc \in {"filling", "publishing"} => totalWrites < n + Size
       => buffer[Slot(n)] = n
  /\ writerPc = "publishing" => buffer[Slot(totalWrites)] = totalWrites

\* A write under way is within the model's bound.
WriteInBound ==
  writerPc \in {"scanning", "filling", "publishing"} => totalWrites < MaxWrites

IInv ==
  /\ TypeOK
  /\ WriteInBound
  /\ CachedMinimumIsSafe
  /\ ScanInv
  /\ SlotIsFree
  /\ ReadInWindow
  /\ RingHolds
  /\ ReadsInOrder

-----------------------------------------------------------------------------
(* Lemmas on slots.                                                        *)

\* The slot of a message is one of the ring's.
LEMMA SlotInRing ==
  ASSUME NEW n \in Nat
  PROVE  Slot(n) \in Slots
BY BusAssumption DEF Slot, Slots

\* Messages less than Size apart have different slots.
LEMMA SlotsDiffer ==
  ASSUME NEW a \in Nat, NEW b \in Nat, a < b, b < a + Size
  PROVE  Slot(a) # Slot(b)
<1> DEFINE p == a \div Size
           q == b \div Size
<1>1. /\ Size \in Nat /\ Size > 0
      /\ p \in Int /\ q \in Int /\ a % Size \in Int /\ b % Size \in Int
      /\ a = Size * p + (a % Size) /\ b = Size * q + (b % Size)
  BY BusAssumption
<1> SUFFICES ASSUME a % Size = b % Size PROVE FALSE
  BY DEF Slot
<1>2. b - a = Size * q - Size * p
  BY <1>1
<1> HIDE DEF p, q
<1>3. Size * q - Size * p = Size * (q - p)
  BY <1>1
<1>4. CASE q - p <= 0
  <2>1. Size * (q - p) <= 0
    BY <1>1, <1>4
  <2> QED
    BY <1>1, <1>2, <1>3, <2>1
<1>5. CASE q - p >= 1
  <2>1. Size * (q - p) >= Size
    BY <1>1, <1>5
  <2> QED
    BY <1>1, <1>2, <1>3, <2>1
<1> QED
  BY <1>1, <1>4, <1>5

\* The registered cursors are cursors of readers, and listing one more adds that one.
LEMMA RegisteredFacts ==
  ASSUME readerCursors \in Seq(Readers)
  PROVE  /\ Registered = {readerCursors[i] : i \in 1..Len(readerCursors)}
         /\ Registered \subseteq Readers
BY DEF Registered

-----------------------------------------------------------------------------
(* Every action preserves the invariant.                                   *)

\* The assignment of the next slot begins: every registered cursor has passed
\* the message the slot held, and no other message of the window is in it.
LEMMA BeginFillIInv ==
  ASSUME IInv, BeginFill, writerPc # "filling", writerPc # "publishing",
         \A r \in Registered : totalWrites < cursors[r] + Size,
         totalWrites < MaxWrites,
         UNCHANGED <<totalWrites, readerCursors, scanned, minimum, readerVars>>,
         cachedMin' \in Nat, \A r \in Registered : cachedMin' <= cursors[r]
  PROVE  IInv'
<1>1. Slot(totalWrites) \in Slots /\ totalWrites \in Nat
  BY SlotInRing, BusAssumption DEF IInv, TypeOK
<1>2. TypeOK'
  BY <1>1 DEF IInv, TypeOK, BeginFill, readerVars, Messages
<1>3. WriteInBound' /\ CachedMinimumIsSafe' /\ ScanInv' /\ SlotIsFree' /\ ReadInWindow' /\ ReadsInOrder'
  BY DEF IInv, BeginFill, readerVars, WriteInBound, CachedMinimumIsSafe, ScanInv, SlotIsFree, ReadInWindow,
         ReadsInOrder, Registered
<1>4. RingHolds'
  <2> SUFFICES ASSUME NEW n \in Nat, n < totalWrites, totalWrites < n + Size
               PROVE  buffer'[Slot(n)] = n
    BY BusAssumption, <1>1 DEF RingHolds, BeginFill, Slot
  <2>1. buffer[Slot(n)] = n
    BY BusAssumption, <1>1 DEF IInv, RingHolds
  <2>2. Slot(n) # Slot(totalWrites) /\ Slot(n) \in Slots
    BY <1>1, SlotsDiffer, SlotInRing
  <2> QED
    BY <2>1, <2>2, <1>1 DEF BeginFill, IInv, TypeOK
<1> QED
  BY <1>2, <1>3, <1>4 DEF IInv

\* Listing a cursor (registerCursor).
LEMMA RegisterCursorIInv ==
  ASSUME IInv, NEW r \in Readers, RegisterCursor(r)
  PROVE  IInv'
<1>1. /\ readerCursors \in Seq(Readers) /\ totalWrites \in Nat
      /\ readerCursors' = Append(readerCursors, r)
      /\ writerPc = "idle" /\ writerPc' = "registering" /\ scanned' = 0
      /\ UNCHANGED <<buffer, totalWrites, cachedMin, readerVars>>
  BY DEF IInv, TypeOK, RegisterCursor, BeginScan
<1>2. /\ readerCursors' \in Seq(Readers) /\ Len(readerCursors') = Len(readerCursors) + 1
      /\ \A i \in 1..Len(readerCursors) : readerCursors'[i] = readerCursors[i]
      /\ readerCursors'[Len(readerCursors) + 1] = r
  BY <1>1
<1>3. Registered \subseteq Registered'
  BY <1>1, <1>2 DEF Registered
<1>4. \A i, j \in 1..Len(readerCursors') : readerCursors'[i] = readerCursors'[j] => i = j
  <2>1. \A i \in 1..Len(readerCursors) : readerCursors[i] # r
    BY <1>1 DEF RegisterCursor, Registered
  <2> QED
    BY <1>1, <1>2, <2>1 DEF IInv, TypeOK
<1>5. TypeOK'
  BY <1>1, <1>2, <1>4 DEF IInv, TypeOK, RegisterCursor, BeginScan, readerVars
<1>6. ReadInWindow'
  BY <1>1, <1>3 DEF IInv, ReadInWindow, readerVars
<1>7. WriteInBound' /\ CachedMinimumIsSafe' /\ ScanInv' /\ SlotIsFree' /\ RingHolds' /\ ReadsInOrder'
  BY <1>1 DEF IInv, readerVars, WriteInBound, CachedMinimumIsSafe, ScanInv, SlotIsFree, RingHolds, ReadsInOrder
<1> QED
  BY <1>5, <1>6, <1>7 DEF IInv

\* writeImpl's first decision: the cached minimum is below every cursor, so
\* that room beside it is room beside all of them.
LEMMA BeginWriteIInv ==
  ASSUME IInv, BeginWrite
  PROVE  IInv'
<1>1. CASE Registered # {} /\ Blocked(cachedMin)
  <2>1. /\ writerPc = "idle" /\ writerPc' = "scanning" /\ scanned' = 0 /\ minimum' = totalWrites
        /\ totalWrites < MaxWrites
        /\ UNCHANGED <<buffer, totalWrites, readerCursors, cachedMin, readerVars>>
    BY <1>1 DEF BeginWrite, BeginScan
  <2>2. TypeOK'
    BY <2>1 DEF IInv, TypeOK, readerVars
  <2>3. WriteInBound' /\ CachedMinimumIsSafe' /\ ScanInv' /\ SlotIsFree' /\ ReadInWindow' /\ RingHolds' /\ ReadsInOrder'
    BY <2>1 DEF IInv, readerVars, WriteInBound, CachedMinimumIsSafe, ScanInv, SlotIsFree, ReadInWindow, RingHolds,
                ReadsInOrder, Registered
  <2> QED
    BY <2>2, <2>3 DEF IInv
<1>2. CASE ~(Registered # {} /\ Blocked(cachedMin))
  <2>1. /\ writerPc = "idle" /\ BeginFill /\ totalWrites < MaxWrites
        /\ UNCHANGED <<totalWrites, readerCursors, cachedMin, minimum, scanned, readerVars>>
    BY <1>2 DEF BeginWrite
  <2>2. \A r \in Registered : cachedMin <= cursors[r]
    BY <2>1 DEF IInv, CachedMinimumIsSafe
  <2>3. \A r \in Registered : totalWrites < cursors[r] + Size
    <3> SUFFICES ASSUME NEW r \in Registered PROVE totalWrites < cursors[r] + Size
      OBVIOUS
    <3>1. ~(totalWrites >= cachedMin + Size)
      BY <1>2 DEF Blocked
    <3>2. r \in Readers
      BY RegisteredFacts DEF IInv, TypeOK
    <3> QED
      BY <3>1, <3>2, <2>2, BusAssumption DEF IInv, TypeOK
  <2>4. cachedMin' = cachedMin /\ cachedMin \in Nat
    BY <2>1 DEF IInv, TypeOK
  <2> QED
    BY <2>1, <2>2, <2>3, <2>4, BeginFillIInv
<1> QED
  BY <1>1, <1>2

\* One cursor of the scan: cursors only grow, so the minimum stays below them.
LEMMA ScanCursorIInv ==
  ASSUME IInv, ScanCursor
  PROVE  IInv'
<1> DEFINE r == readerCursors[scanned + 1]
<1>1. /\ writerPc \in {"registering", "scanning"} /\ scanned \in Nat /\ scanned < Len(readerCursors)
      /\ scanned' = scanned + 1 /\ minimum' = LesserCursor(minimum, cursors[r])
      /\ UNCHANGED <<buffer, totalWrites, readerCursors, cachedMin, writerPc, readerVars>>
      /\ readerCursors \in Seq(Readers) /\ cursors \in [Readers -> Nat] /\ minimum \in Nat
  BY DEF IInv, TypeOK, ScanCursor
<1>2. r \in Readers /\ cursors[r] \in Nat
  BY <1>1
<1> HIDE DEF r
<1>3. minimum' \in Nat /\ minimum' <= minimum /\ minimum' <= cursors[r]
  BY <1>1, <1>2 DEF LesserCursor
<1>4. ScanInv'
  <2> SUFFICES ASSUME NEW i \in 1..(scanned + 1) PROVE minimum' <= cursors[readerCursors[i]]
    BY <1>1 DEF ScanInv, readerVars
  <2>1. CASE i = scanned + 1
    BY <1>3, <2>1 DEF r
  <2>2. CASE i # scanned + 1
    <3>1. i \in 1..scanned /\ i \in 1..Len(readerCursors)
      BY <1>1, <2>2
    <3>2. minimum <= cursors[readerCursors[i]] /\ cursors[readerCursors[i]] \in Nat
      BY <1>1, <3>1 DEF IInv, ScanInv
    <3> QED
      BY <1>1, <1>3, <3>2
  <2> QED
    BY <2>1, <2>2
<1>5. TypeOK'
  BY <1>1, <1>3 DEF IInv, TypeOK, readerVars
<1>6. WriteInBound' /\ CachedMinimumIsSafe' /\ SlotIsFree' /\ ReadInWindow' /\ RingHolds' /\ ReadsInOrder'
  BY <1>1 DEF IInv, readerVars, WriteInBound, CachedMinimumIsSafe, SlotIsFree, ReadInWindow, RingHolds, ReadsInOrder,
              Registered
<1> QED
  BY <1>4, <1>5, <1>6 DEF IInv

\* The end of the scan: the minimum is below every registered cursor.
LEMMA EndScanIInv ==
  ASSUME IInv, EndScan
  PROVE  IInv'
<1>1. /\ writerPc \in {"registering", "scanning"} /\ scanned = Len(readerCursors)
      /\ cachedMin' = minimum /\ minimum \in Nat
      /\ UNCHANGED <<totalWrites, readerCursors, minimum, scanned, readerVars>>
  BY DEF IInv, TypeOK, EndScan
<1>2. \A r \in Registered : r \in Readers /\ minimum <= cursors[r]
  BY <1>1, RegisteredFacts DEF IInv, ScanInv, TypeOK
<1>3. CASE writerPc = "scanning" /\ ~Blocked(minimum)
  <2>1. BeginFill /\ totalWrites < MaxWrites
    BY <1>3 DEF EndScan, IInv, WriteInBound
  <2>2. \A r \in Registered : totalWrites < cursors[r] + Size
    <3> SUFFICES ASSUME NEW r \in Registered PROVE totalWrites < cursors[r] + Size
      OBVIOUS
    <3>1. ~(totalWrites >= minimum + Size)
      BY <1>3 DEF Blocked
    <3> QED
      BY <3>1, <1>1, <1>2, BusAssumption DEF IInv, TypeOK
  <2> QED
    BY <1>1, <1>2, <1>3, <2>1, <2>2, BeginFillIInv
<1>4. CASE ~(writerPc = "scanning" /\ ~Blocked(minimum))
  <2>1. writerPc' = "idle" /\ UNCHANGED buffer
    BY <1>4 DEF EndScan
  <2>2. TypeOK'
    BY <1>1, <2>1 DEF IInv, TypeOK, readerVars
  <2>3. WriteInBound' /\ CachedMinimumIsSafe' /\ ScanInv' /\ SlotIsFree' /\ ReadInWindow' /\ ReadsInOrder'
    BY <1>1, <1>2, <2>1 DEF IInv, readerVars, WriteInBound, CachedMinimumIsSafe, ScanInv, SlotIsFree, ReadInWindow,
                            ReadsInOrder, Registered
  <2>4. RingHolds'
    BY <1>1, <2>1 DEF IInv, RingHolds
  <2> QED
    BY <2>2, <2>3, <2>4 DEF IInv
<1> QED
  BY <1>3, <1>4

\* The slot takes its message; the rest of the window stands in other slots.
LEMMA EndFillIInv ==
  ASSUME IInv, EndFill
  PROVE  IInv'
<1>1. /\ writerPc = "filling" /\ writerPc' = "publishing" /\ totalWrites \in Nat /\ totalWrites \in Messages
      /\ buffer' = [buffer EXCEPT ![Slot(totalWrites)] = totalWrites]
      /\ UNCHANGED <<totalWrites, readerCursors, cachedMin, minimum, scanned, readerVars>>
  BY BusAssumption DEF IInv, TypeOK, EndFill, Messages
<1>2. Slot(totalWrites) \in Slots
  BY <1>1, SlotInRing
<1>3. TypeOK'
  BY <1>1, <1>2 DEF IInv, TypeOK, readerVars
<1>4. WriteInBound' /\ CachedMinimumIsSafe' /\ ScanInv' /\ SlotIsFree' /\ ReadInWindow' /\ ReadsInOrder'
  BY <1>1 DEF IInv, readerVars, WriteInBound, CachedMinimumIsSafe, ScanInv, SlotIsFree, ReadInWindow, ReadsInOrder,
              Registered
<1>5. buffer'[Slot(totalWrites)] = totalWrites
  BY <1>1, <1>2 DEF IInv, TypeOK
<1>6. ASSUME NEW n \in Nat, n < totalWrites, totalWrites < n + Size
      PROVE  buffer'[Slot(n)] = n
  <2>1. buffer[Slot(n)] = n
    BY BusAssumption, <1>1, <1>6 DEF IInv, RingHolds
  <2>2. Slot(n) # Slot(totalWrites) /\ Slot(n) \in Slots
    BY <1>1, <1>6, SlotsDiffer, SlotInRing
  <2> QED
    BY <2>1, <2>2, <1>1 DEF IInv, TypeOK
<1>7. RingHolds'
  BY <1>1, <1>5, <1>6 DEF RingHolds, Slot
<1> QED
  BY <1>3, <1>4, <1>7 DEF IInv

\* The count of writes is stored: the window moves by one.
LEMMA PublishIInv ==
  ASSUME IInv, Publish
  PROVE  IInv'
<1>1. /\ writerPc = "publishing" /\ writerPc' = "idle" /\ totalWrites' = totalWrites + 1
      /\ totalWrites \in Nat /\ cursors \in [Readers -> Nat]
      /\ UNCHANGED <<buffer, readerCursors, cachedMin, minimum, scanned, readerVars>>
  BY BusAssumption DEF IInv, TypeOK, Publish
<1>2. \A r \in Registered : r \in Readers /\ totalWrites < cursors[r] + Size
  BY <1>1, RegisteredFacts DEF IInv, SlotIsFree, TypeOK
<1>3. TypeOK'
  BY <1>1, BusAssumption DEF IInv, TypeOK, WriteInBound, readerVars
<1>4. WriteInBound' /\ CachedMinimumIsSafe' /\ ScanInv' /\ SlotIsFree' /\ ReadsInOrder'
  BY <1>1 DEF IInv, readerVars, WriteInBound, CachedMinimumIsSafe, ScanInv, SlotIsFree, ReadsInOrder, Registered
<1>5. ReadInWindow'
  <2> SUFFICES ASSUME NEW r \in Readers, readerPc[r] # "idle"
               PROVE  /\ r \in Registered /\ cursors[r] < totalWrites + 1
                      /\ totalWrites + 1 <= cursors[r] + Size
    BY <1>1 DEF ReadInWindow, readerVars, Registered
  <2>1. r \in Registered /\ cursors[r] < totalWrites /\ cursors[r] \in Nat
    BY <1>1 DEF IInv, ReadInWindow
  <2> QED
    BY <1>1, <1>2, <2>1, BusAssumption
<1>6. RingHolds'
  <2> SUFFICES ASSUME NEW n \in Nat, n < totalWrites + 1, totalWrites + 1 <= n + Size
               PROVE  buffer[Slot(n)] = n
    BY <1>1 DEF RingHolds, Slot
  <2>1. CASE n = totalWrites
    BY <1>1, <2>1 DEF IInv, RingHolds
  <2>2. CASE n # totalWrites
    BY <1>1, <2>2, BusAssumption DEF IInv, RingHolds
  <2> QED
    BY <2>1, <2>2
<1> QED
  BY <1>3, <1>4, <1>5, <1>6 DEF IInv

\* A reader enters read with its message in the window.
LEMMA BeginReadIInv ==
  ASSUME IInv, NEW r \in Readers, BeginRead(r)
  PROVE  IInv'
<1>1. /\ r \in Registered /\ readerPc' = [readerPc EXCEPT ![r] = "copying"]
      /\ UNCHANGED <<writerVars, cursors, output>>
      /\ totalWrites \in Nat /\ cursors[r] \in Nat /\ readerPc \in [Readers -> {"idle", "copying", "storing"}]
  BY DEF IInv, TypeOK, BeginRead
<1>2. cursors[r] < totalWrites /\ totalWrites <= cursors[r] + Size
  BY <1>1, BusAssumption DEF BeginRead, Readable, OldestAvailable
<1>3. TypeOK'
  BY <1>1 DEF IInv, TypeOK, writerVars
<1>4. ReadInWindow' /\ ReadsInOrder'
  BY <1>1, <1>2 DEF IInv, ReadInWindow, ReadsInOrder, writerVars, Registered
<1>5. WriteInBound' /\ CachedMinimumIsSafe' /\ ScanInv' /\ SlotIsFree' /\ RingHolds'
  BY <1>1 DEF IInv, writerVars, WriteInBound, CachedMinimumIsSafe, ScanInv, SlotIsFree, RingHolds, Registered, Slot
<1> QED
  BY <1>3, <1>4, <1>5 DEF IInv

\* The copied slot holds the message the cursor stands at: it is in the window
\* and its slot is not being reused, since the cursor has not passed it.
LEMMA CopySlotIInv ==
  ASSUME IInv, NEW r \in Readers, CopySlot(r)
  PROVE  IInv'
<1>1. /\ readerPc[r] = "copying" /\ UNCHANGED <<writerVars, cursors>>
      /\ totalWrites \in Nat /\ cursors[r] \in Nat /\ readerPc \in [Readers -> {"idle", "copying", "storing"}]
      /\ output \in [Readers -> Messages \cup {Empty, Partial}]
  BY DEF IInv, TypeOK, CopySlot
<1>2. r \in Registered /\ cursors[r] < totalWrites /\ totalWrites <= cursors[r] + Size
  BY <1>1 DEF IInv, ReadInWindow
<1>3. buffer[Slot(cursors[r])] = cursors[r]
  BY <1>1, <1>2 DEF IInv, RingHolds, SlotIsFree
<1>4. /\ readerPc' = [readerPc EXCEPT ![r] = "storing"]
      /\ output' = [output EXCEPT ![r] = cursors[r]]
  BY <1>1, <1>3 DEF CopySlot, Empty
<1>5. cursors[r] \in Messages
  BY <1>1, <1>2, BusAssumption DEF IInv, TypeOK, Messages
<1>6. TypeOK'
  BY <1>1, <1>4, <1>5 DEF IInv, TypeOK, writerVars
<1>7. ReadInWindow' /\ ReadsInOrder'
  BY <1>1, <1>2, <1>4 DEF IInv, ReadInWindow, ReadsInOrder, writerVars, Registered
<1>8. WriteInBound' /\ CachedMinimumIsSafe' /\ ScanInv' /\ SlotIsFree' /\ RingHolds'
  BY <1>1 DEF IInv, writerVars, WriteInBound, CachedMinimumIsSafe, ScanInv, SlotIsFree, RingHolds, Registered, Slot
<1> QED
  BY <1>6, <1>7, <1>8 DEF IInv

\* A cursor grows by one, up to the count of writes at most.
LEMMA StoreCursorIInv ==
  ASSUME IInv, NEW r \in Readers, StoreCursor(r)
  PROVE  IInv'
<1>1. /\ readerPc[r] = "storing" /\ cursors' = [cursors EXCEPT ![r] = cursors[r] + 1]
      /\ readerPc' = [readerPc EXCEPT ![r] = "idle"]
      /\ UNCHANGED <<writerVars, output>>
      /\ totalWrites \in Nat /\ cursors \in [Readers -> Nat]
      /\ readerPc \in [Readers -> {"idle", "copying", "storing"}]
  BY DEF IInv, TypeOK, StoreCursor, NextCursor
<1>2. cursors[r] < totalWrites
  BY <1>1 DEF IInv, ReadInWindow
<1>3. cursors' \in [Readers -> Nat] /\ \A x \in Readers : cursors[x] <= cursors'[x] /\ cursors'[x] <= totalWrites
  BY <1>1, <1>2 DEF IInv, TypeOK
<1>4. TypeOK'
  BY <1>1, <1>3 DEF IInv, TypeOK, writerVars
<1>5. /\ readerCursors \in Seq(Readers) /\ Registered' = Registered /\ Registered \subseteq Readers
      /\ cachedMin \in Nat /\ minimum \in Nat /\ scanned \in 0..Len(readerCursors)
  BY <1>1, RegisteredFacts DEF IInv, TypeOK, Registered, writerVars
<1>6. CachedMinimumIsSafe'
  BY <1>1, <1>3, <1>5 DEF IInv, CachedMinimumIsSafe, writerVars
<1>7. ScanInv'
  <2> SUFFICES ASSUME writerPc \in {"registering", "scanning"}, NEW i \in 1..scanned
               PROVE  minimum <= cursors'[readerCursors[i]]
    BY <1>1 DEF ScanInv, writerVars
  <2>1. readerCursors[i] \in Readers
    BY <1>5
  <2>2. minimum <= cursors[readerCursors[i]]
    BY DEF IInv, ScanInv
  <2> QED
    BY <1>1, <1>3, <1>5, <2>1, <2>2
<1>8. SlotIsFree'
  BY <1>1, <1>3, <1>5, BusAssumption DEF IInv, SlotIsFree, writerVars
<1>9. ReadInWindow' /\ ReadsInOrder'
  BY <1>1, <1>5 DEF IInv, ReadInWindow, ReadsInOrder, writerVars
<1>10. WriteInBound' /\ RingHolds'
  BY <1>1 DEF IInv, WriteInBound, RingHolds, writerVars, Slot
<1> QED
  BY <1>4, <1>6, <1>7, <1>8, <1>9, <1>10 DEF IInv

-----------------------------------------------------------------------------
(* Theorems.                                                               *)

\* The inductive invariant of the bus holds in every reachable state.
THEOREM Invariance == Spec => []IInv
<1>1. Init => IInv
  <2> SUFFICES ASSUME Init PROVE IInv
    OBVIOUS
  <2>1. TypeOK
    BY BusAssumption DEF Init, TypeOK, Messages
  <2>2. WriteInBound /\ CachedMinimumIsSafe /\ ScanInv /\ SlotIsFree /\ ReadInWindow /\ ReadsInOrder
    BY DEF Init, WriteInBound, CachedMinimumIsSafe, ScanInv, SlotIsFree, ReadInWindow, ReadsInOrder, Registered
  <2>3. RingHolds
    BY DEF Init, RingHolds
  <2> QED
    BY <2>1, <2>2, <2>3 DEF IInv
<1>2. IInv /\ [Next]_vars => IInv'
  <2> SUFFICES ASSUME IInv, [Next]_vars PROVE IInv'
    OBVIOUS
  <2>1. ASSUME NEW r \in Readers, RegisterCursor(r) PROVE IInv'
    BY <2>1, RegisterCursorIInv
  <2>2. CASE Write
    BY <2>2, BeginWriteIInv, ScanCursorIInv, EndScanIInv, EndFillIInv, PublishIInv DEF Write
  <2>3. ASSUME NEW r \in Readers, Read(r) PROVE IInv'
    BY <2>3, BeginReadIInv, CopySlotIInv, StoreCursorIInv DEF Read
  <2>4. CASE UNCHANGED vars
    BY <2>4 DEF vars, writerVars, readerVars, IInv, TypeOK, WriteInBound, CachedMinimumIsSafe, ScanInv,
                SlotIsFree, ReadInWindow, RingHolds, ReadsInOrder, Registered, Slot
  <2> QED
    BY <2>1, <2>2, <2>3, <2>4 DEF Next
<1> QED
  BY <1>1, <1>2, PTL DEF Spec

\* Every variable of the bus keeps its type, no cursor passes the writer.
THEOREM TypeCorrect == Spec => []TypeOK
BY Invariance, PTL DEF IInv

\* The comment on cached_min_cursor_ holds: it is at most every reader's cursor.
THEOREM CachedMinimum == Spec => []CachedMinimumIsSafe
BY Invariance, PTL DEF IInv

\* Each read returns the next message of the writes: none is lost, repeated,
\* reordered or seen half written.
THEOREM OrderedDelivery == Spec => []ReadsInOrder
BY Invariance, PTL DEF IInv

\* writeImpl never assigns a slot that some read is copying.
THEOREM RaceFreedom == Spec => []NoDataRace
<1>1. IInv => NoDataRace
  <2> SUFFICES ASSUME IInv, writerPc = "filling", NEW r \in Readers, readerPc[r] = "copying"
               PROVE  Slot(cursors[r]) # Slot(totalWrites)
    BY DEF NoDataRace
  <2>1. cursors[r] \in Nat /\ totalWrites \in Nat
    BY DEF IInv, TypeOK
  <2>2. cursors[r] < totalWrites /\ totalWrites < cursors[r] + Size
    BY DEF IInv, ReadInWindow, SlotIsFree
  <2> QED
    BY <2>1, <2>2, SlotsDiffer
<1> QED
  BY <1>1, Invariance, PTL
=============================================================================
