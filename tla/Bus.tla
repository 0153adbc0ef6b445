--------------------------------- MODULE Bus ---------------------------------
(***************************************************************************)
(* The multicast bus of core/bus: a ring of Size slots with one writer and *)
(* any number of registered readers, each with an atomic cursor.           *)
(*                                                                         *)
(* The ring's slots are not atomic, so that filling one and copying one    *)
(* are steps of their own; so is every load or store that another thread   *)
(* can see.  A load may lag behind: that is the same as an earlier load.   *)
(*                                                                         *)
(* A message is represented by its number among the successful writes.     *)
(***************************************************************************)
EXTENDS Integers, Sequences

CONSTANTS
  Readers,
  Size,               \* size_
  RegistrationLimit,  \* number of writes after which no cursor is registered any more
  MaxWrites           \* bound of the model: successful writes

ASSUME BusAssumption ==
  /\ Size \in Nat \ {0}
  /\ RegistrationLimit \in Nat
  /\ MaxWrites \in Nat

VARIABLES
  buffer,         \* buffer_: slot -> message, Empty, or Partial while it is being assigned
  totalWrites,    \* total_writes_
  cursors,        \* the readers' cursors
  readerCursors,  \* reader_cursors_, in the order of registration
  cachedMin,      \* cached_min_cursor_
  writerPc,       \* the writer's thread, which also registers
  minimum,        \* recomputeMinimumCursor's minimum_cursor
  scanned,        \* how many cursors its loop has loaded
  readerPc,       \* reader -> "idle", "copying" a slot or "storing" its cursor
  output          \* reader -> the message copied last

writerVars == <<buffer, totalWrites, readerCursors, cachedMin, writerPc, minimum, scanned>>
readerVars == <<cursors, readerPc, output>>
vars == <<writerVars, readerVars>>

-----------------------------------------------------------------------------
Empty == -1
Partial == -2
Slots == 0..(Size - 1)
Registered == {readerCursors[i] : i \in DOMAIN readerCursors}

\* The slot of the n-th message.
Slot(n) == n % Size

Init ==
  /\ buffer = [s \in Slots |-> Empty]
  /\ totalWrites = 0
  /\ cursors = [r \in Readers |-> 0]
  /\ readerCursors = <<>>
  /\ cachedMin = 0
  /\ writerPc = "idle" /\ minimum = 0 /\ scanned = 0
  /\ readerPc = [r \in Readers |-> "idle"]
  /\ output = [r \in Readers |-> Empty]

-----------------------------------------------------------------------------
(* The writer's thread.                                                    *)

\* MUTANT: the slot of a message that was not read counts as free.
Blocked_offByOne(min) == totalWrites > min + Size

\* The next write would overwrite a message some cursor has not passed.
Blocked(min) == totalWrites >= min + Size

\* recomputeMinimumCursor begins: for a registration or for a write.
BeginScan(pc) ==
  /\ writerPc' = pc
  /\ minimum' = totalWrites
  /\ scanned' = 0

\* The assignment of the free slot begins.
BeginFill ==
  /\ writerPc' = "filling"
  /\ buffer' = [buffer EXCEPT ![Slot(totalWrites)] = Partial]

\* registerCursor: the cursor is listed, then the minimum is recomputed.
RegisterCursor(r) ==
  /\ writerPc = "idle"
  /\ r \notin Registered
  /\ totalWrites <= RegistrationLimit
  /\ readerCursors' = Append(readerCursors, r)
  /\ BeginScan("registering")
  /\ UNCHANGED <<buffer, totalWrites, cachedMin, readerVars>>

\* writeImpl up to its first decision, which uses the cached minimum.
BeginWrite ==
  /\ writerPc = "idle"
  /\ totalWrites < MaxWrites
  /\ IF Registered # {} /\ Blocked(cachedMin)
     THEN BeginScan("scanning") /\ UNCHANGED buffer
     ELSE BeginFill /\ UNCHANGED <<minimum, scanned>>
  /\ UNCHANGED <<totalWrites, readerCursors, cachedMin, readerVars>>

\* std::min of the minimum so far and a cursor.
LesserCursor(a, b) == IF b < a THEN b ELSE a

\* One iteration of recomputeMinimumCursor.
ScanCursor ==
  /\ writerPc \in {"registering", "scanning"}
  /\ scanned < Len(readerCursors)
  /\ minimum' = LesserCursor(minimum, cursors[readerCursors[scanned + 1]])
  /\ scanned' = scanned + 1
  /\ UNCHANGED <<buffer, totalWrites, readerCursors, cachedMin, writerPc, readerVars>>

\* The recomputed minimum is cached.  A write goes on if that made room and
\* returns false if not; the caller drops the message.
EndScan ==
  /\ writerPc \in {"registering", "scanning"}
  /\ scanned = Len(readerCursors)
  /\ cachedMin' = minimum
  /\ IF writerPc = "scanning" /\ ~Blocked(minimum)
     THEN BeginFill
     ELSE writerPc' = "idle" /\ UNCHANGED buffer
  /\ UNCHANGED <<totalWrites, readerCursors, minimum, scanned, readerVars>>

\* The slot holds the message.
EndFill ==
  /\ writerPc = "filling"
  /\ buffer' = [buffer EXCEPT ![Slot(totalWrites)] = totalWrites]
  /\ writerPc' = "publishing"
  /\ UNCHANGED <<totalWrites, readerCursors, cachedMin, minimum, scanned, readerVars>>

\* total_writes_ is stored.
Publish ==
  /\ writerPc = "publishing"
  /\ totalWrites' = totalWrites + 1
  /\ writerPc' = "idle"
  /\ UNCHANGED <<buffer, readerCursors, cachedMin, minimum, scanned, readerVars>>

-----------------------------------------------------------------------------
(* A reader's thread.                                                      *)

OldestAvailable == IF totalWrites > Size THEN totalWrites - Size ELSE 0

\* MUTANT: a cursor that the writer has overtaken reads all the same.
Readable_overtaken(r) == cursors[r] < totalWrites

\* MUTANT: the newest message is left for later.
Readable_notNewest(r) == cursors[r] + 1 < totalWrites /\ cursors[r] >= OldestAvailable

\* There is a message for the reader and its slot still holds it.
Readable(r) == cursors[r] < totalWrites /\ cursors[r] >= OldestAvailable

\* read up to the slot; a reader that finds nothing returns false.
BeginRead(r) ==
  /\ r \in Registered
  /\ readerPc[r] = "idle"
  /\ Readable(r)
  /\ readerPc' = [readerPc EXCEPT ![r] = "copying"]
  /\ UNCHANGED <<writerVars, cursors, output>>

\* The copy of the slot, unless it holds no value.
CopySlot(r) ==
  /\ readerPc[r] = "copying"
  /\ IF buffer[Slot(cursors[r])] = Empty
     THEN readerPc' = [readerPc EXCEPT ![r] = "idle"] /\ UNCHANGED output
     ELSE /\ readerPc' = [readerPc EXCEPT ![r] = "storing"]
          /\ output' = [output EXCEPT ![r] = buffer[Slot(cursors[r])]]
  /\ UNCHANGED <<writerVars, cursors>>

\* MUTANT: a message is skipped.
NextCursor_skips(r) == cursors[r] + 2

NextCursor(r) == cursors[r] + 1

\* The cursor is stored, which frees the slot.
StoreCursor(r) ==
  /\ readerPc[r] = "storing"
  /\ cursors' = [cursors EXCEPT ![r] = NextCursor(r)]
  /\ readerPc' = [readerPc EXCEPT ![r] = "idle"]
  /\ UNCHANGED <<writerVars, output>>

Write == BeginWrite \/ ScanCursor \/ EndScan \/ EndFill \/ Publish
Read(r) == BeginRead(r) \/ CopySlot(r) \/ StoreCursor(r)

Next ==
  \/ \E r \in Readers : RegisterCursor(r)
  \/ Write
  \/ \E r \in Readers : Read(r)

Spec == Init /\ [][Next]_vars

\* A reader's loop keeps calling read.
FairSpec == Spec /\ \A r \in Readers : WF_vars(Read(r))

-----------------------------------------------------------------------------
(* Properties.                                                             *)

Messages == 0..MaxWrites

\* Variables stay in their types; cursors never pass the writer, and no
\* cursor is listed twice.
TypeOK ==
  /\ buffer \in [Slots -> Messages \cup {Empty, Partial}]
  /\ totalWrites \in 0..MaxWrites
  /\ cursors \in [Readers -> Nat] /\ \A r \in Readers : cursors[r] <= totalWrites
  /\ readerCursors \in Seq(Readers)
  /\ \A i, j \in 1..Len(readerCursors) : readerCursors[i] = readerCursors[j] => i = j
  /\ cachedMin \in Nat
  /\ writerPc \in {"idle", "registering", "scanning", "filling", "publishing"}
  /\ minimum \in Nat /\ scanned \in 0..Len(readerCursors)
  /\ readerPc \in [Readers -> {"idle", "copying", "storing"}]
  /\ output \in [Readers -> Messages \cup {Empty, Partial}]

\* The writer never assigns a slot that a reader is copying: the two are not
\* synchronised by anything but the cursors and the count of writes.
NoDataRace ==
  writerPc = "filling" =>
    \A r \in Readers : readerPc[r] = "copying" => Slot(cursors[r]) # Slot(totalWrites)

\* Every reader gets every message once, whole and in the order of the writes:
\* what it has copied is the message its cursor stands at.
ReadsInOrder ==
  \A r \in Readers : readerPc[r] = "storing" => output[r] = cursors[r]

\* The cached minimum is at most every registered cursor, except while a
\* registration is recomputing it.
CachedMinimumIsSafe ==
  writerPc # "registering" => \A r \in Registered : cachedMin <= cursors[r]

\* Every message written reaches every registered reader whose cursor the ring
\* has not left behind.  (A cursor registered more than Size writes late stays
\* at zero for ever, with the writer blocked on it.)
EveryMessageRead ==
  \A r \in Readers, n \in 0..(MaxWrites - 1) :
    (r \in Registered /\ totalWrites > n /\ totalWrites <= cursors[r] + Size) ~> (cursors[r] > n)
=============================================================================
