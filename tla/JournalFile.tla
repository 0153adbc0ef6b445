----------------------------- MODULE JournalFile -----------------------------
(***************************************************************************)
(* The journal of one run as bytes in a file: the writer that appends a    *)
(* frame with several writes and one synchronisation, and the preparation  *)
(* that reads the file again, cuts an incomplete tail and hands out a new  *)
(* writer.  The process may end between any two calls, the machine with    *)
(* it, and stored bytes may change while nobody looks.                     *)
(*                                                                         *)
(* A cell stands for the bytes that one check looks at.  A command frame   *)
(* begins with two cells of envelope: what is compared field by field as   *)
(* soon as the envelope is read, and what only the checksum covers; its    *)
(* payload follows.  A cell that is not `ok` holds other bytes than were   *)
(* written; a checksum over it does not match.                             *)
(***************************************************************************)
EXTENDS Integers, Sequences, SequencesExt, FiniteSetsExt

CONSTANTS
  NewOrders, Cancels,   \* contents the codecs encode
  Unencodable,          \* contents they refuse
  NewOrderPayload, CancelPayload, HeaderLength,  \* in cells
  MaxRunCommands, MaxRunJournalBytes,            \* of the RunHeaderV1
  MaxDamage             \* bound of the model: cells that change by themselves

ASSUME JournalAssumption ==
  /\ {NewOrderPayload, CancelPayload, HeaderLength, MaxRunCommands} \subseteq Nat \ {0}
  /\ MaxRunJournalBytes \in Nat /\ MaxRunJournalBytes >= HeaderLength  \* validateHeader
  /\ MaxDamage \in Nat

VARIABLES
  file, stable,         \* the cells a reader sees; those the last synchronisation covered
  headerRun,            \* exchangeRunId in the header: "expected" or "foreign"
  pc, result,           \* where the process stands; the last outcome it returned
  position,             \* of the descriptor
  loaded,               \* LoadedRunJournalV1::commands, and the commands committed since
  truncationBegan,
  usable, committedCommandCount, committedByteCount, nextCommandSequence,  \* RunJournalWriterV1
  frame, bytesWritten,  \* the frame that append is writing
  acknowledged          \* history: the commands up to the last COMMITTED

writerVars == <<usable, committedCommandCount, committedByteCount, nextCommandSequence>>
appendVars == <<frame, bytesWritten>>
vars == <<file, stable, headerRun, pc, result, position, loaded, truncationBegan, writerVars, appendVars,
          acknowledged>>

-----------------------------------------------------------------------------
(* Frames.                                                                 *)

EnvelopeSize == 2
Bodies == NewOrders \cup Cancels \cup Unencodable
Commands == [sequence: Nat, body: Bodies]

FrameLength(body) == EnvelopeSize + (IF body \in NewOrders THEN NewOrderPayload ELSE CancelPayload)

Cell(command, part) == [sequence |-> command.sequence, body |-> command.body, part |-> part, ok |-> TRUE]

\* The codecs, of a command they accept.
encodeNewOrderV1(command) == [part \in 1..(EnvelopeSize + NewOrderPayload) |-> Cell(command, part)]
encodeCancelV1(command) == [part \in 1..(EnvelopeSize + CancelPayload) |-> Cell(command, part)]

Encode(command) == IF command.body \in NewOrders THEN encodeNewOrderV1(command) ELSE encodeCancelV1(command)

Header == [part \in 1..HeaderLength |-> [sequence |-> 0, body |-> "header", part |-> part, ok |-> TRUE]]

\* The bytes between the end of a file and a write behind it.
Hole == [sequence |-> 0, body |-> "hole", part |-> 0, ok |-> FALSE]

\* A write at the descriptor's position.
Overwrite(cells, offset, bytes) ==
  [i \in 1..Max({Len(cells), offset + Len(bytes)}) |->
     IF i \in (offset + 1)..(offset + Len(bytes)) THEN bytes[i - offset]
     ELSE IF i <= Len(cells) THEN cells[i] ELSE Hole]

CommandOf(cell) == [sequence |-> cell.sequence, body |-> cell.body]

-----------------------------------------------------------------------------
(* A new journal with its writer, or the journal of another run in its place. *)

\* createRunJournalWriterV1: the header is written and synchronised.
Created ==
  /\ file = Header
  /\ headerRun = "expected"
  /\ pc = "open" /\ position = HeaderLength
  /\ usable = TRUE /\ committedCommandCount = 0 /\ committedByteCount = HeaderLength
  /\ nextCommandSequence = 1

\* A journal that belongs to another run, with an incomplete tail.
Foreign ==
  /\ \E body \in NewOrders \cup Cancels :
       \E n \in 0..(FrameLength(body) - 1) :
         file = Header \o SubSeq(Encode([sequence |-> 1, body |-> body]), 1, n)
  /\ headerRun = "foreign"
  /\ pc = "down" /\ position = 0
  /\ usable = FALSE /\ committedCommandCount = 0 /\ committedByteCount = 0 /\ nextCommandSequence = 0

Init ==
  /\ Created \/ Foreign
  /\ stable = file
  /\ result = "NONE" /\ loaded = <<>> /\ truncationBegan = FALSE
  /\ frame = <<>> /\ bytesWritten = 0
  /\ acknowledged = <<>>

\* Nothing is left of the descriptor, of what was loaded and of the writer.
Down(outcome) ==
  /\ result' = outcome
  /\ pc' = "down" /\ position' = 0 /\ loaded' = <<>> /\ truncationBegan' = FALSE
  /\ usable' = FALSE /\ committedCommandCount' = 0 /\ committedByteCount' = 0 /\ nextCommandSequence' = 0
  /\ frame' = <<>> /\ bytesWritten' = 0

-----------------------------------------------------------------------------
(* RunJournalWriterV1.                                                     *)

\* MUTANT: the byte limit is compared with the frame alone.
CapacityReached_frameOnly(length) ==
  \/ committedCommandCount >= MaxRunCommands
  \/ length > MaxRunJournalBytes

\* appendEncoded refuses a frame the run has no room for.
CapacityReached(length) ==
  \/ committedCommandCount >= MaxRunCommands
  \/ length > MaxRunJournalBytes - committedByteCount

\* append: the outcomes that need no write, or the first call of writeFile_.
BeginAppend(command) ==
  LET outcome == IF ~usable THEN "RECOVERY_REQUIRED"
                 ELSE IF command.sequence # nextCommandSequence THEN "INVALID_COMMAND"
                 ELSE IF command.body \in Unencodable THEN "INVALID_COMMAND"
                 ELSE IF CapacityReached(FrameLength(command.body)) THEN "CAPACITY_REACHED"
                 ELSE "NONE"
  IN
  /\ pc = "open"
  /\ result' = outcome
  /\ IF outcome = "NONE" THEN pc' = "writing" /\ frame' = Encode(command)
     ELSE UNCHANGED <<pc, frame>>
  /\ UNCHANGED <<file, stable, headerRun, position, loaded, truncationBegan, writerVars, bytesWritten,
                 acknowledged>>

\* One successful writeFile_, of all that remains or of less.
WriteSome ==
  /\ pc = "writing"
  /\ bytesWritten < Len(frame)
  /\ \E n \in 1..(Len(frame) - bytesWritten) :
       /\ file' = Overwrite(file, position, SubSeq(frame, bytesWritten + 1, bytesWritten + n))
       /\ position' = position + n
       /\ bytesWritten' = bytesWritten + n
  /\ UNCHANGED <<stable, headerRun, pc, result, loaded, truncationBegan, writerVars, frame, acknowledged>>

\* append returns without having committed; the writer accepts nothing more.
AppendFails(outcome) ==
  /\ result' = outcome
  /\ usable' = FALSE
  /\ pc' = "open" /\ frame' = <<>> /\ bytesWritten' = 0
  /\ UNCHANGED <<file, stable, headerRun, position, loaded, truncationBegan, committedCommandCount,
                 committedByteCount, nextCommandSequence, acknowledged>>

WriteFails ==
  /\ pc = "writing"
  /\ bytesWritten < Len(frame)
  /\ AppendFails(IF bytesWritten = 0 THEN "IO_FAILURE" ELSE "RECOVERY_REQUIRED")

SyncFails ==
  /\ pc = "writing"
  /\ bytesWritten = Len(frame)
  /\ AppendFails("RECOVERY_REQUIRED")

\* MUTANT: the command is acknowledged without synchronising.
SyncedContents_stale == stable

\* What syncFile_ makes durable.
SyncedContents == file

\* The synchronisation succeeds, the counters move and append returns COMMITTED.
SyncFrame ==
  /\ pc = "writing"
  /\ bytesWritten = Len(frame)
  /\ stable' = SyncedContents
  /\ committedCommandCount' = committedCommandCount + 1
  /\ committedByteCount' = committedByteCount + Len(frame)
  /\ nextCommandSequence' = nextCommandSequence + 1
  /\ loaded' = Append(loaded, CommandOf(frame[1]))
  /\ acknowledged' = loaded'
  /\ result' = "COMMITTED"
  /\ pc' = "open" /\ frame' = <<>> /\ bytesWritten' = 0
  /\ UNCHANGED <<file, headerRun, position, truncationBegan, usable>>

-----------------------------------------------------------------------------
(* prepareRunJournalV1.                                                    *)

OpenReadWrite ==
  /\ pc = "down"
  /\ pc' = "header" /\ result' = "NONE"
  /\ UNCHANGED <<file, stable, headerRun, position, loaded, truncationBegan, writerVars, appendVars, acknowledged>>

\* readJournal up to the decoded header.
ReadHeader ==
  /\ pc = "header"
  /\ IF \A i \in 1..HeaderLength : file[i].ok
     THEN /\ pc' = "frames" /\ position' = HeaderLength
          /\ UNCHANGED <<result, loaded, truncationBegan, writerVars, appendVars>>
     ELSE Down("CORRUPTION")
  /\ UNCHANGED <<file, stable, headerRun, acknowledged>>

ExceedsCapacity(additional) == additional > MaxRunJournalBytes - position

\* validateJournalV1CommandEnvelope of an envelope without its payload.
EnvelopeIsValid(cell) == cell.ok /\ cell.part = 1

\* A complete frame: every cell is the one that was written there.
decodeNewOrderV1(cells) == cells = encodeNewOrderV1(CommandOf(cells[1]))
decodeCancelV1(cells) == cells = encodeCancelV1(CommandOf(cells[1]))

FrameDecodes(cells) == IF cells[1].body \in NewOrders THEN decodeNewOrderV1(cells) ELSE decodeCancelV1(cells)

\* What the loop of readJournal makes of the bytes behind the last valid frame.
LoadOutcome ==
  LET rest == Len(file) - position
      first == file[position + 1]
      length == FrameLength(first.body)
  IN
  IF rest = 0 THEN "VALID"
  ELSE IF Len(loaded) >= MaxRunCommands THEN "CORRUPTION"
  ELSE IF rest < EnvelopeSize THEN IF ExceedsCapacity(rest) THEN "CORRUPTION" ELSE "INCOMPLETE_TAIL"
  ELSE IF ~EnvelopeIsValid(first) THEN "CORRUPTION"
  ELSE IF first.sequence # Len(loaded) + 1 THEN "CORRUPTION"
  ELSE IF ExceedsCapacity(length) THEN "CORRUPTION"
  ELSE IF rest < length THEN "INCOMPLETE_TAIL"
  ELSE IF ~FrameDecodes(SubSeq(file, position + 1, position + length)) THEN "CORRUPTION"
  ELSE "FRAME"

\* One more frame is read and accepted.
ReadFrame ==
  /\ pc = "frames"
  /\ LoadOutcome = "FRAME"
  /\ loaded' = Append(loaded, CommandOf(file[position + 1]))
  /\ position' = position + FrameLength(file[position + 1].body)
  /\ UNCHANGED <<file, stable, headerRun, pc, result, truncationBegan, writerVars, appendVars, acknowledged>>

\* The header is compared with the run that the catalog selected.
RunIdMatches == headerRun = "expected"

\* The reading ends.  Neither a corrupt journal nor one of another run is touched.
EndLoad ==
  /\ pc = "frames"
  /\ LoadOutcome # "FRAME"
  /\ IF LoadOutcome = "CORRUPTION" \/ ~RunIdMatches
     THEN Down("CORRUPTION")
     ELSE /\ pc' = IF LoadOutcome = "VALID" THEN "seek" ELSE "preserve"
          /\ committedByteCount' = position  \* validCommittedByteCount
          /\ position' = Len(file)
          /\ UNCHANGED <<result, loaded, truncationBegan, usable, committedCommandCount, nextCommandSequence,
                         appendVars>>
  /\ UNCHANGED <<file, stable, headerRun, acknowledged>>

\* The tail is read once more, to be returned to the caller.
PreserveTail ==
  /\ pc = "preserve"
  /\ pc' = "truncate"
  /\ truncationBegan' = TRUE
  /\ position' = Len(file)
  /\ UNCHANGED <<file, stable, headerRun, result, loaded, writerVars, appendVars, acknowledged>>

Truncate ==
  /\ pc = "truncate"
  /\ pc' = "sync"
  /\ file' = SubSeq(file, 1, committedByteCount)
  /\ UNCHANGED <<stable, headerRun, result, position, loaded, truncationBegan, writerVars, appendVars,
                 acknowledged>>

SyncTruncation ==
  /\ pc = "sync"
  /\ pc' = "seek"
  /\ stable' = SyncedContents
  /\ UNCHANGED <<file, headerRun, result, position, loaded, truncationBegan, writerVars, appendVars,
                 acknowledged>>

\* MUTANT: the descriptor stays where the reading ended.
SeekPosition_unmoved == position

\* seekDescriptor to the end of the last valid frame.
SeekPosition == committedByteCount

\* The last seek; makeRecoveredRunJournalWriterV1 and PREPARED.
MakeWriter ==
  /\ pc = "seek"
  /\ pc' = "open" /\ result' = "PREPARED"
  /\ position' = SeekPosition
  /\ usable' = TRUE
  /\ committedCommandCount' = Len(loaded)
  /\ nextCommandSequence' = Len(loaded) + 1
  /\ UNCHANGED <<file, stable, headerRun, loaded, truncationBegan, committedByteCount, appendVars, acknowledged>>

\* A call of the preparation fails, closeAfterFailure gives the descriptor up.
PrepareFails ==
  /\ pc \in {"header", "frames", "preserve", "truncate", "sync", "seek"}
  /\ Down(IF truncationBegan THEN "RECOVERY_REQUIRED" ELSE "IO_FAILURE")
  /\ UNCHANGED <<file, stable, headerRun, acknowledged>>

-----------------------------------------------------------------------------
(* The surroundings.                                                       *)

\* The writer is destroyed, or the process ends wherever it stands.
Stop ==
  /\ pc # "down"
  /\ Down("NONE")
  /\ UNCHANGED <<file, stable, headerRun, acknowledged>>

CommonLength == Cardinality({i \in 1..Min({Len(file), Len(stable)}) : SubSeq(file, 1, i) = SubSeq(stable, 1, i)})

\* What a power loss leaves: the contents last synchronised, or those and part
\* of what was done since, in the order in which it was done.
Survivors == {stable} \cup {SubSeq(file, 1, n) : n \in CommonLength..Len(file)}

PowerLoss ==
  /\ Down("NONE")
  /\ file' \in Survivors
  /\ stable' = file'
  /\ UNCHANGED <<headerRun, acknowledged>>

\* Stored bytes change while no process has the file open.
Damage ==
  /\ pc = "down"
  /\ Cardinality({i \in DOMAIN file : ~file[i].ok}) < MaxDamage
  /\ \E i \in DOMAIN file :
       /\ file[i].ok
       /\ file' = [file EXCEPT ![i].ok = FALSE]
       /\ stable' = IF i \in DOMAIN stable THEN [stable EXCEPT ![i].ok = FALSE] ELSE stable
  /\ result' = "NONE"
  /\ UNCHANGED <<headerRun, pc, position, loaded, truncationBegan, writerVars, appendVars, acknowledged>>

Prepare ==
  \/ OpenReadWrite \/ ReadHeader \/ ReadFrame \/ EndLoad \/ PreserveTail \/ Truncate \/ SyncTruncation
  \/ MakeWriter \/ PrepareFails

Next ==
  \/ \E sequence \in 1..(MaxRunCommands + 1), body \in Bodies : BeginAppend([sequence |-> sequence, body |-> body])
  \/ WriteSome \/ WriteFails \/ SyncFails \/ SyncFrame
  \/ Prepare
  \/ Stop \/ PowerLoss \/ Damage

Spec == Init /\ [][Next]_vars

-----------------------------------------------------------------------------
(* Properties.                                                             *)

\* Where the frames of a file end, damaged or not.
FrameEnds(cells) == {i \in (HeaderLength + 1)..Len(cells) : cells[i].part = FrameLength(cells[i].body)}

\* The elements of a set of numbers in increasing order, of which there is one.
Enumerations(S) == {f \in [1..Cardinality(S) -> S] : \A m, n \in DOMAIN f : m < n => f[m] < f[n]}

\* The commands whose frames are complete.
FramesIn(cells) ==
  CHOOSE frames \in {[n \in DOMAIN ends |-> CommandOf(cells[ends[n]])] : ends \in Enumerations(FrameEnds(cells))} : TRUE

CompleteFrames == FramesIn(file)

Undamaged == \A i \in DOMAIN file : file[i].ok

\* Short writes, failed calls, stops and power losses, at any point of append
\* or of the preparation itself, never leave a file that readJournal calls
\* corrupt: its capacity and sequence checks agree with the writer's, and every
\* cut is seen as an incomplete tail.  Only changed bytes, or another run's
\* journal, are refused.
OnlyDamageIsCorrupt == result = "CORRUPTION" => headerRun = "foreign" \/ ~Undamaged

\* A writer that will write stands at the end of a journal it knows: the
\* commands handed out by the preparation and committed since are the complete
\* frames of the file, nothing in it is damaged, no tail is left, and the next
\* frame goes to its end with the next sequence.
WriterKnowsFile ==
  pc = "open" /\ usable =>
    /\ headerRun = "expected"
    /\ Undamaged
    /\ loaded = CompleteFrames
    /\ committedCommandCount = Len(loaded) /\ nextCommandSequence = Len(loaded) + 1
    /\ committedByteCount = Len(file) /\ position = Len(file)

Log == INSTANCE CommandLog WITH
         Channels <- {"writer"}, KeyOf <- LAMBDA command : command.sequence,
         log <- CompleteFrames, told <- [channel \in {"writer"} |-> acknowledged]

\* The file is a command log: frames only come to be complete at its end, each
\* with the next sequence, and what append has acknowledged as COMMITTED
\* outlives every stop, power loss and repair.
ImplementsCommandLog == Log!LogSpec

=============================================================================
