--------------------------- MODULE CommandPipeline ---------------------------
(***************************************************************************)
(* One exchange run from submission to delivered result: the admission     *)
(* index, the sequencer and its journal writer, the matching worker, the   *)
(* result dispatcher and the two handoff queues, driven by the controller. *)
(*                                                                         *)
(* One thread submits, advances and changes the lifecycle; two consumers   *)
(* pop the handoff queues at any moment; the process or the machine may    *)
(* stop between any two steps.  advanceCommandProcessingV1 is cut at its   *)
(* file operations and at each command it moves.                           *)
(*                                                                         *)
(* A result is a deterministic function of the commands applied so far, so *)
(* it is represented by that sequence.  An optional value is a sequence of *)
(* at most one element.                                                    *)
(***************************************************************************)
EXTENDS Integers, FiniteSets, Sequences, SequencesExt

CONSTANTS
  Keys,                \* (ClientId, ClientCommandId)
  Bodies,              \* normalized business contents
  PoisonBodies,        \* contents the journal refuses to encode
  TradingBodies,       \* contents whose result holds a trade
  FrameBytes,          \* size of the journal frame of a content
  MaxRunCommands,      \* RunHeaderV1::maxRunCommands
  MaxRunJournalBytes,  \* RunHeaderV1::maxRunJournalBytes
  IngressCapacity, MatchingCapacity, ResultCapacity,
  PrivateCapacity, PublicCapacity,  \* in batches
  PowerLoss,           \* whether a stop may lose what was not synchronised
  MaxFaults            \* bound of the model: faults and stops in a behaviour

ASSUME PipelineAssumption ==
  /\ PoisonBodies \subseteq Bodies
  /\ TradingBodies \subseteq Bodies
  /\ FrameBytes \in [Bodies -> Nat \ {0}]
  /\ MaxRunCommands \in Nat \ {0}
  /\ MaxRunJournalBytes \in Nat
  /\ {IngressCapacity, MatchingCapacity, ResultCapacity, PrivateCapacity, PublicCapacity} \subseteq Nat \ {0}
  /\ PowerLoss \in BOOLEAN
  /\ MaxFaults \in Nat

VARIABLES
  \* files, which survive a stop of the process
  journal,   \* complete command frames that a reader of the file sees
  synced,    \* number of frames the last successful synchronisation covered
  torn,      \* whether an incomplete frame follows them
  catalog,   \* activeDisposition of the run in the catalog
  \* the controller
  run,       \* "NONE", "OWNED" (run_ is set) or "INSTALLED" (and commandProcessing_)
  state,     \* ExchangeRunStartupState
  failure,   \* why processing threw or stalled
  \* run_: the owners of the run's state
  records, admissionOpen,  \* CommandAdmissionIndex
  committed,               \* RunJournalWriterV1::committedCommandCount_
  applied,                 \* MatchingState: the commands applied to it
  \* commandProcessing_: queues and pending slots from left to right
  ingress, pending, pendingReady, appendFailure,
  matching, inProgress, pendingResult, results,
  pendingPrivate, pendingPublic, privateResults, publicTrades,
  acceptedCommands, acceptedBytes, capacityTransitionPending,
  \* the driving thread
  pc, pausing, progressed, beforeCommands,
  \* history and environment
  recovered,                          \* commands the last recovery replayed
  deliveredPrivate, deliveredPublic,  \* what the consumers have popped
  faults

fileVars == <<journal, synced, torn>>
lifecycleVars == <<run, state, catalog, failure>>
ownerVars == <<records, admissionOpen, committed, applied, recovered>>
sequencerVars == <<ingress, pending, pendingReady, appendFailure>>
matcherVars == <<matching, inProgress, pendingResult, results>>
handoffVars == <<pendingPrivate, pendingPublic, privateResults, publicTrades>>
capacityVars == <<acceptedCommands, acceptedBytes, capacityTransitionPending>>
driverVars == <<pc, pausing, progressed, beforeCommands>>
deliveredVars == <<deliveredPrivate, deliveredPublic>>
vars == <<fileVars, lifecycleVars, ownerVars, sequencerVars, matcherVars, handoffVars,
          capacityVars, driverVars, deliveredVars, faults>>

-----------------------------------------------------------------------------
Commands == [key: Keys, body: Bodies]
Message(c, n) == [key |-> c.key, body |-> c.body, sequence |-> n]
CommandOf(m) == [key |-> m.key, body |-> m.body]

\* The bounded queues' tryPush would succeed.
Room(queue, capacity) == Len(queue) < capacity

Update(f, k, value) == [j \in DOMAIN f \cup {k} |-> IF j = k THEN value ELSE f[j]]
NoRecords == [k \in {} |-> <<>>]

\* The prospective frame size of a content: one that cannot be encoded has none.
FrameSize(body) == IF body \in PoisonBodies THEN 0 ELSE FrameBytes[body]

\* The bytes of the frames of the first n commands: each byte is a position in a frame.
FrameCells(commands, n) == UNION {{i} \X (1..FrameSize(commands[i].body)) : i \in 1..n}
Bytes(commands, n) == Cardinality(FrameCells(commands, n))
CommittedBytes(n) == Bytes(journal, n)

\* ExchangeRunController::CommandProcessingPath::processingDrained.
ProcessingDrained ==
  /\ ingress = <<>> /\ matching = <<>> /\ results = <<>> /\ pending = <<>>
  /\ pendingResult = <<>> /\ inProgress = <<>>
  /\ pendingPrivate = <<>> /\ pendingPublic = <<>>

HandoffPending == pendingPrivate # <<>> \/ pendingPublic # <<>>
HandoffQueued == privateResults # <<>> \/ publicTrades # <<>>

\* MUTANT: batches that wait in the handoff queues are overlooked.
ResultHandoffsDrained_ignoresQueues == ~HandoffPending

\* resultHandoffsDrained.
ResultHandoffsDrained == ~HandoffQueued /\ ~HandoffPending

-----------------------------------------------------------------------------
(* What leaves the process and what it starts with.                        *)

\* The queues, slots and counters of a path that is not there or is new.
EmptyPath ==
  /\ ingress' = <<>> /\ pending' = <<>> /\ pendingReady' = FALSE /\ appendFailure' = "NONE"
  /\ matching' = <<>> /\ inProgress' = <<>> /\ pendingResult' = <<>> /\ results' = <<>>
  /\ pendingPrivate' = <<>> /\ pendingPublic' = <<>> /\ privateResults' = <<>> /\ publicTrades' = <<>>
  /\ acceptedCommands' = 0 /\ acceptedBytes' = 0 /\ capacityTransitionPending' = FALSE

NoOwners ==
  /\ records' = NoRecords /\ admissionOpen' = FALSE
  /\ committed' = 0 /\ applied' = <<>> /\ recovered' = 0

\* A run that startupNewRunV1 has just made READY.
Init ==
  /\ journal = <<>> /\ synced = 0 /\ torn = FALSE /\ catalog = "OPEN"
  /\ run = "OWNED" /\ state = "READY" /\ failure = "NONE"
  /\ records = NoRecords /\ admissionOpen = TRUE /\ committed = 0 /\ applied = <<>> /\ recovered = 0
  /\ ingress = <<>> /\ pending = <<>> /\ pendingReady = FALSE /\ appendFailure = "NONE"
  /\ matching = <<>> /\ inProgress = <<>> /\ pendingResult = <<>> /\ results = <<>>
  /\ pendingPrivate = <<>> /\ pendingPublic = <<>> /\ privateResults = <<>> /\ publicTrades = <<>>
  /\ acceptedCommands = 0 /\ acceptedBytes = 0 /\ capacityTransitionPending = FALSE
  /\ pc = "idle" /\ pausing = FALSE /\ progressed = FALSE /\ beforeCommands = 0
  /\ deliveredPrivate = <<>> /\ deliveredPublic = <<>> /\ faults = 0

Fault == faults < MaxFaults /\ faults' = faults + 1

\* A catalog replacement: committed with the given runtime state, or refused,
\* or uncertain, which leaves either snapshot behind and the other runtime state.
Publish(disposition, committedState, failedState) ==
  \/ /\ catalog' = disposition /\ state' = committedState
     /\ UNCHANGED faults
  \/ /\ Fault
     /\ catalog' \in {catalog, disposition} /\ state' = failedState

-----------------------------------------------------------------------------
(* Submission.                                                             *)

\* The frame fits beside everything accepted before it.  A command the writer
\* cannot encode has no prospective size and is not measured.
CapacityAvailable(c) ==
  \/ c.body \in PoisonBodies
  \/ /\ acceptedCommands < MaxRunCommands - committed
     /\ FrameBytes[c.body] <= MaxRunJournalBytes - CommittedBytes(committed) - acceptedBytes

ExhaustsCapacity(c) ==
  /\ c.body \notin PoisonBodies
  /\ \/ committed + acceptedCommands + 1 = MaxRunCommands
     \/ CommittedBytes(committed) + acceptedBytes + FrameBytes[c.body] = MaxRunJournalBytes

\* MUTANT: a command whose result is known is admitted once more.
ReserveDecision_readmitsCompleted(c, capacityAvailable) ==
  IF c.key \in DOMAIN records /\ records[c.key].state # "COMPLETED" THEN "IDENTICAL_IN_FLIGHT"
  ELSE IF ~capacityAvailable THEN "RUN_CAPACITY_REACHED"
  ELSE IF ~admissionOpen THEN "EXCHANGE_RUN_UNAVAILABLE"
  ELSE IF ~Room(ingress, IngressCapacity) THEN "GATEWAY_BUSY"
  ELSE "FIRST_SUBMISSION"

\* MUTANT: only a completed key counts as known.
ReserveDecision_restagesInFlight(c, capacityAvailable) ==
  IF c.key \in DOMAIN records /\ records[c.key].state = "COMPLETED" THEN "IDENTICAL_COMPLETED"
  ELSE IF ~capacityAvailable THEN "RUN_CAPACITY_REACHED"
  ELSE IF ~admissionOpen THEN "EXCHANGE_RUN_UNAVAILABLE"
  ELSE IF ~Room(ingress, IngressCapacity) THEN "GATEWAY_BUSY"
  ELSE "FIRST_SUBMISSION"

\* CommandAdmissionIndex::reserveImpl with a staging queue.
ReserveDecision(c, capacityAvailable) ==
  IF c.key \in DOMAIN records
  THEN IF records[c.key].body # c.body THEN "CONFLICTING_REUSE"
       ELSE IF records[c.key].state # "COMPLETED" THEN "IDENTICAL_IN_FLIGHT"
       ELSE "IDENTICAL_COMPLETED"
  ELSE IF ~capacityAvailable THEN "RUN_CAPACITY_REACHED"
  ELSE IF ~admissionOpen THEN "EXCHANGE_RUN_UNAVAILABLE"
  ELSE IF Cardinality(DOMAIN records) >= MaxRunCommands THEN "ADMISSION_UNAVAILABLE"
  ELSE IF ~Room(ingress, IngressCapacity) THEN "GATEWAY_BUSY"
  ELSE "FIRST_SUBMISSION"

\* The record and the staged command appear together.
Reserve(c) ==
  /\ records' = Update(records, c.key,
                       [body |-> c.body, state |-> "RESERVED", sequence |-> 0, result |-> <<>>])
  /\ ingress' = Append(ingress, c)

\* submitCommandV1.  The decisions not listed leave every variable alone.
Submit(c) ==
  LET measured == state = "READY" /\ ~capacityTransitionPending
      closed == state = "CAPACITY_REACHED" \/ (state = "READY" /\ capacityTransitionPending)
      decision == ReserveDecision(c, IF measured THEN CapacityAvailable(c) ELSE ~closed)
  IN
  /\ pc = "idle"
  /\ run = "INSTALLED"
  /\ \/ /\ decision = "FIRST_SUBMISSION"
        /\ Reserve(c)
        /\ acceptedCommands' = IF measured THEN acceptedCommands + 1 ELSE acceptedCommands
        /\ acceptedBytes' = IF measured /\ c.body \notin PoisonBodies
                            THEN acceptedBytes + FrameBytes[c.body] ELSE acceptedBytes
        /\ capacityTransitionPending' = (capacityTransitionPending \/ (measured /\ ExhaustsCapacity(c)))
        /\ admissionOpen' = (admissionOpen /\ ~(measured /\ ExhaustsCapacity(c)))
     \/ /\ decision = "RUN_CAPACITY_REACHED"
        /\ measured
        /\ capacityTransitionPending' = TRUE
        /\ admissionOpen' = FALSE
        /\ UNCHANGED <<records, ingress, acceptedCommands, acceptedBytes>>
  /\ UNCHANGED <<fileVars, lifecycleVars, committed, applied, recovered, pending, pendingReady,
                 appendFailure, matcherVars, handoffVars, driverVars, deliveredVars, faults>>

-----------------------------------------------------------------------------
(* One advancement: sequence, then match, then dispatch one result.        *)

\* MUTANT: a closed gate stops the advancement too.
MayAdvance_gateOpen == run = "INSTALLED" /\ state = "READY" /\ admissionOpen

\* The precondition of advanceCommandProcessingV1.
MayAdvance == run = "INSTALLED" /\ state = "READY"

\* advanceCommandProcessingV1 is called by the driver or by the loop of a pause.
BeginAdvance ==
  /\ MayAdvance
  /\ \/ pc = "idle" /\ ~pausing
     \/ pc = "draining" /\ ~ProcessingDrained
  /\ pc' = "sequencing"
  /\ progressed' = FALSE
  /\ beforeCommands' = committed
  /\ UNCHANGED <<fileVars, lifecycleVars, ownerVars, sequencerVars, matcherVars, handoffVars,
                 capacityVars, pausing, deliveredVars, faults>>

\* MUTANT: the command is offered before its frame is synchronised, and even
\* when the append failed.
ReadyForMatching_unsynced == pc \in {"sequencing", "syncing"} /\ pending # <<>>

\* Sequencer::processNext has a command whose append and binding succeeded.
ReadyForMatching == pc = "sequencing" /\ pending # <<>> /\ pendingReady

\* Sequencer::handoffPendingCommand with room in the matching queue.
HandoffPendingCommand ==
  /\ ReadyForMatching
  /\ Room(matching, MatchingCapacity)
  /\ matching' = matching \o pending
  /\ pending' = <<>> /\ pendingReady' = FALSE
  /\ progressed' = TRUE
  /\ UNCHANGED <<fileVars, lifecycleVars, ownerVars, ingress, appendFailure, inProgress, pendingResult,
                 results, handoffVars, capacityVars, pc, pausing, beforeCommands, deliveredVars, faults>>

\* Sequencer::processNext takes the next command and the writer writes its frame.
AppendCommand ==
  LET c == Head(ingress)
      full == \/ committed >= MaxRunCommands
              \/ FrameBytes[c.body] > MaxRunJournalBytes - CommittedBytes(committed)
      Fails(why) == appendFailure' = why /\ UNCHANGED <<journal, pc>>
  IN
  /\ pc = "sequencing"
  /\ pending = <<>> /\ ingress # <<>>
  /\ ingress' = Tail(ingress)
  /\ pending' = <<Message(c, committed + 1)>>
  /\ IF c.body \in PoisonBodies THEN Fails("INVALID_COMMAND") /\ UNCHANGED <<torn, faults>>
     ELSE IF full THEN Fails("CAPACITY_REACHED") /\ UNCHANGED <<torn, faults>>
     ELSE \/ journal' = Append(journal, c) /\ pc' = "syncing"
             /\ UNCHANGED <<torn, faults, appendFailure>>
          \/ Fails("IO_FAILURE") /\ Fault /\ UNCHANGED torn
          \/ Fails("RECOVERY_REQUIRED") /\ Fault /\ torn' = TRUE
  /\ UNCHANGED <<synced, lifecycleVars, ownerVars, pendingReady, matcherVars, handoffVars,
                 capacityVars, pausing, progressed, beforeCommands, deliveredVars>>

\* CommandAdmissionIndex::markSequenced would answer SEQUENCED.
CanMarkSequenced(m) ==
  /\ m.key \in DOMAIN records
  /\ records[m.key].body = m.body
  /\ records[m.key].state = "RESERVED"

\* The synchronisation of the frame just written, the writer's counters and
\* the binding of the sequence to the admission record.
SyncFrame ==
  LET m == pending[1]
  IN
  /\ pc = "syncing"
  /\ \/ /\ synced' = Len(journal)
        /\ committed' = committed + 1
        /\ IF CanMarkSequenced(m)
           THEN /\ records' = [records EXCEPT ![m.key].state = "SEQUENCED", ![m.key].sequence = m.sequence]
                /\ pendingReady' = TRUE
                /\ pc' = "sequencing"
                /\ UNCHANGED failure
           ELSE /\ failure' = "ADMISSION_BINDING"
                /\ pc' = "failing"
                /\ UNCHANGED <<records, pendingReady>>
        /\ UNCHANGED <<appendFailure, faults>>
     \/ /\ Fault
        /\ appendFailure' = "RECOVERY_REQUIRED"
        /\ pc' = "sequencing"
        /\ UNCHANGED <<synced, committed, records, pendingReady, failure>>
  /\ UNCHANGED <<journal, torn, run, state, catalog, admissionOpen, applied, recovered, ingress, pending,
                 matcherVars, handoffVars, capacityVars, pausing, progressed, beforeCommands, deliveredVars>>

AppendedCommands == committed - beforeCommands
AppendedBytes == CommittedBytes(committed) - CommittedBytes(beforeCommands)
AccountingFits == AppendedCommands <= acceptedCommands /\ AppendedBytes <= acceptedBytes

\* MUTANT: only commands are accounted for.
AccountJournalProgress_ignoresBytes ==
  /\ acceptedCommands' = IF AccountingFits THEN acceptedCommands - AppendedCommands ELSE acceptedCommands
  /\ UNCHANGED acceptedBytes

\* accountJournalProgress: what was appended is no longer outstanding.
AccountJournalProgress ==
  /\ acceptedCommands' = IF AccountingFits THEN acceptedCommands - AppendedCommands ELSE acceptedCommands
  /\ acceptedBytes' = IF AccountingFits THEN acceptedBytes - AppendedBytes ELSE acceptedBytes

\* Sequencer::advance returns: nothing is left to take, or nothing can be handed over.
SequencerReturns ==
  /\ pc = "sequencing"
  /\ IF pending = <<>> THEN ingress = <<>>
     ELSE ~pendingReady \/ ~Room(matching, MatchingCapacity)
  /\ AccountJournalProgress
  /\ failure' = IF AccountingFits THEN failure ELSE "ACCOUNTING"
  /\ pc' = IF AccountingFits /\ appendFailure = "NONE" THEN "matching" ELSE "failing"
  /\ UNCHANGED <<fileVars, run, state, catalog, ownerVars, sequencerVars, matcherVars, handoffVars,
                 capacityTransitionPending, pausing, progressed, beforeCommands, deliveredVars, faults>>

\* MUTANT: the gate stays as it is.
CloseAdmission_keeps == UNCHANGED admissionOpen

CloseAdmission == admissionOpen' = FALSE

\* closeAdmission and publishFailStopped.  When the path threw, the handler
\* accounts for the journal's progress before that.
FailStop ==
  /\ pc = "failing"
  /\ IF failure = "NONE" THEN UNCHANGED <<acceptedCommands, acceptedBytes>> ELSE AccountJournalProgress
  /\ CloseAdmission
  /\ IF catalog = "OPEN" THEN Publish("FAIL_STOPPED", "FAIL_STOPPED", "UNAVAILABLE")
     ELSE state' = "UNAVAILABLE" /\ UNCHANGED <<catalog, faults>>
  /\ pc' = "idle" /\ pausing' = FALSE
  /\ UNCHANGED <<fileVars, run, failure, records, committed, applied, recovered, sequencerVars, matcherVars,
                 handoffVars, capacityTransitionPending, progressed, beforeCommands, deliveredVars>>

\* MatchingEngine::handoffPendingResult with room in the result queue.
HandoffPendingResult ==
  /\ pc = "matching"
  /\ pendingResult # <<>>
  /\ Room(results, ResultCapacity)
  /\ results' = results \o pendingResult
  /\ pendingResult' = <<>>
  /\ progressed' = TRUE
  /\ UNCHANGED <<fileVars, lifecycleVars, ownerVars, sequencerVars, matching, inProgress, handoffVars,
                 capacityVars, pc, pausing, beforeCommands, deliveredVars, faults>>

\* MUTANT: a new command is taken while a result still waits.
MayTakeCommand_always == matching # <<>>

\* drainQueue pops the next command only when no earlier result waits.
MayTakeCommand == pendingResult = <<>> /\ matching # <<>>

\* One iteration of MatchingEngine::drainQueue.  processCommand may throw, for
\* want of memory if for nothing else: the command then stays in progress.
MatchCommand ==
  LET m == Head(matching)
      result == [key |-> m.key, sequence |-> m.sequence, applied |-> Append(applied, CommandOf(m))]
  IN
  /\ pc = "matching"
  /\ MayTakeCommand
  /\ matching' = Tail(matching)
  /\ \/ /\ applied' = result.applied
        /\ IF Room(results, ResultCapacity)
           THEN results' = Append(results, result) /\ UNCHANGED pendingResult
           ELSE pendingResult' = <<result>> /\ UNCHANGED results
        /\ progressed' = TRUE
        /\ UNCHANGED <<inProgress, failure, pc, faults>>
     \/ /\ Fault
        /\ inProgress' = <<m>>
        /\ failure' = "MATCHING_THREW"
        /\ pc' = "failing"
        /\ UNCHANGED <<applied, results, pendingResult, progressed>>
  /\ UNCHANGED <<fileVars, run, state, catalog, records, admissionOpen, committed, recovered, sequencerVars,
                 handoffVars, capacityVars, pausing, beforeCommands, deliveredVars>>

\* MatchingEngine::advance returns: blocked by a full result queue or out of commands.
MatcherReturns ==
  /\ pc = "matching"
  /\ IF pendingResult = <<>> THEN matching = <<>> ELSE ~Room(results, ResultCapacity)
  /\ pc' = "dispatching"
  /\ UNCHANGED <<fileVars, lifecycleVars, ownerVars, sequencerVars, matcherVars, handoffVars, capacityVars,
                 pausing, progressed, beforeCommands, deliveredVars, faults>>

\* CommandAdmissionIndex::complete would answer COMPLETED.
CanComplete(r) ==
  /\ r.key \in DOMAIN records
  /\ records[r.key].state = "SEQUENCED"
  /\ records[r.key].sequence = r.sequence

HasTrades(r) == Last(r.applied).body \in TradingBodies

\* CommandResultDispatcher::advance: complete the next result unless one is
\* still held, then offer what is held to the two handoff queues.  A result
\* that cannot be completed stays with the consumer, here at the head of results.
DispatchResult ==
  LET takes == ~HandoffPending /\ results # <<>>
      r == Head(results)
      private == IF takes THEN <<r>> ELSE pendingPrivate
      public == IF ~takes THEN pendingPublic ELSE IF HasTrades(r) THEN <<r>> ELSE <<>>
      pushesPrivate == private # <<>> /\ Room(privateResults, PrivateCapacity)
      pushesPublic == public # <<>> /\ Room(publicTrades, PublicCapacity)
  IN
  /\ pc = "dispatching"
  /\ IF takes /\ ~CanComplete(r)
     THEN /\ failure' = "COMPLETION" /\ pc' = "failing"
          /\ UNCHANGED <<records, results, handoffVars, progressed>>
     ELSE /\ IF takes
             THEN /\ records' = [records EXCEPT ![r.key].state = "COMPLETED", ![r.key].result = r.applied]
                  /\ results' = Tail(results)
             ELSE UNCHANGED <<records, results>>
          /\ privateResults' = IF pushesPrivate THEN privateResults \o private ELSE privateResults
          /\ pendingPrivate' = IF pushesPrivate THEN <<>> ELSE private
          /\ publicTrades' = IF pushesPublic THEN publicTrades \o public ELSE publicTrades
          /\ pendingPublic' = IF pushesPublic THEN <<>> ELSE public
          /\ progressed' = (progressed \/ takes \/ pushesPrivate \/ pushesPublic)
          /\ pc' = "returning"
          /\ UNCHANGED failure
  /\ UNCHANGED <<fileVars, run, state, catalog, admissionOpen, committed, applied, recovered, sequencerVars,
                 matching, inProgress, pendingResult, capacityVars, pausing, beforeCommands, deliveredVars, faults>>

\* The end of the cycle publishes CAPACITY_REACHED once nothing is left to drain.
PublishCapacityReached ==
  /\ pc = "returning"
  /\ capacityTransitionPending /\ ProcessingDrained
  /\ IF catalog = "OPEN" THEN Publish("CAPACITY_REACHED", "CAPACITY_REACHED", "UNAVAILABLE")
     ELSE state' = "UNAVAILABLE" /\ UNCHANGED <<catalog, faults>>
  /\ pc' = "idle"
  /\ UNCHANGED <<fileVars, run, failure, ownerVars, sequencerVars, matcherVars, handoffVars, capacityVars,
                 pausing, progressed, beforeCommands, deliveredVars>>

\* The cycle returns to the driver, or to the loop of a pause, which goes on
\* while there is progress, gives up under backpressure and otherwise has stalled.
AdvanceReturns ==
  LET stalled == pausing /\ ~progressed /\ ~HandoffPending /\ ~HandoffQueued
  IN
  /\ pc = "returning"
  /\ ~(capacityTransitionPending /\ ProcessingDrained)
  /\ pc' = IF pausing /\ progressed THEN "draining" ELSE "idle"
  /\ pausing' = (pausing /\ progressed)
  /\ state' = IF stalled THEN "UNAVAILABLE" ELSE state
  /\ failure' = IF stalled THEN "DRAIN_STALLED" ELSE failure
  /\ UNCHANGED <<fileVars, run, catalog, ownerVars, sequencerVars, matcherVars, handoffVars, capacityVars,
                 progressed, beforeCommands, deliveredVars, faults>>

-----------------------------------------------------------------------------
(* Lifecycle.                                                              *)

\* installCommandProcessingV1.
Install ==
  /\ pc = "idle"
  /\ run = "OWNED"
  /\ state \in {"READY", "PAUSED"}
  /\ run' = "INSTALLED"
  /\ EmptyPath
  /\ UNCHANGED <<fileVars, state, catalog, failure, ownerVars, driverVars, deliveredVars, faults>>

\* pauseRunV1: the admission barrier, then the drain loop.
Pause ==
  /\ pc = "idle"
  /\ run = "INSTALLED"
  /\ state = "READY" /\ ~capacityTransitionPending
  /\ CloseAdmission
  /\ pausing' = TRUE
  /\ pc' = "draining"
  /\ UNCHANGED <<fileVars, lifecycleVars, records, committed, applied, recovered, sequencerVars, matcherVars,
                 handoffVars, capacityVars, progressed, beforeCommands, deliveredVars, faults>>

\* The drain loop has ended: PAUSED is published unless a consumer is behind,
\* which leaves the run READY with its gate closed.
PauseReturns ==
  /\ pc = "draining"
  /\ ProcessingDrained
  /\ IF ~ResultHandoffsDrained THEN UNCHANGED <<state, catalog, faults>>
     ELSE IF catalog = "OPEN" THEN Publish("PAUSED", "PAUSED", "UNAVAILABLE")
     ELSE state' = "UNAVAILABLE" /\ UNCHANGED <<catalog, faults>>
  /\ pc' = "idle" /\ pausing' = FALSE
  /\ UNCHANGED <<fileVars, run, failure, ownerVars, sequencerVars, matcherVars, handoffVars, capacityVars,
                 progressed, beforeCommands, deliveredVars>>

\* resumeRunV1.  A failed or uncertain replacement keeps the run PAUSED.
Resume ==
  /\ pc = "idle"
  /\ run # "NONE"
  /\ state = "PAUSED" /\ catalog = "PAUSED"
  /\ committed < MaxRunCommands /\ CommittedBytes(committed) < MaxRunJournalBytes
  /\ Publish("OPEN", "READY", "PAUSED")
  /\ admissionOpen' = (state' = "READY")
  /\ UNCHANGED <<fileVars, run, failure, records, committed, applied, recovered, sequencerVars, matcherVars,
                 handoffVars, capacityVars, driverVars, deliveredVars>>

\* No two frames of the journal carry the same key; else the admission index
\* cannot be reconstructed.
DistinctKeys(commands) ==
  \A i, j \in DOMAIN commands : i # j => commands[i].key # commands[j].key

\* prepareRunJournalV1: an incomplete tail is cut off and the file
\* synchronised; a journal without one is taken as it is.
RepairTail ==
  /\ torn' = FALSE
  /\ synced' = IF torn THEN Len(journal) ELSE synced
  /\ UNCHANGED journal

\* MUTANT: recovered sequences count from zero.
RecoveredRecord_fromZero(i) ==
  [body |-> journal[i].body, state |-> "COMPLETED", sequence |-> i - 1, result |-> SubSeq(journal, 1, i)]

\* reconstructCommandAdmissionIndex: the record of the i-th command of the journal.
RecoveredRecord(i) ==
  [body |-> journal[i].body, state |-> "COMPLETED", sequence |-> i, result |-> SubSeq(journal, 1, i)]

\* recoverRunV1: the writer stands at the end of the journal, the book has
\* replayed it and every command in it is COMPLETED.
RecoverOwners ==
  LET Position(k) == CHOOSE i \in DOMAIN journal : journal[i].key = k
  IN
  /\ committed' = Len(journal)
  /\ applied' = journal
  /\ recovered' = Len(journal)
  /\ admissionOpen' = FALSE
  /\ records' = [k \in {journal[i].key : i \in DOMAIN journal} |-> RecoveredRecord(Position(k))]

\* The recovered run is installed only when the catalog says PAUSED for certain.
PublishRecovered ==
  /\ Publish("PAUSED", "PAUSED", "UNAVAILABLE")
  /\ RepairTail
  /\ IF state' = "PAUSED" THEN run' = "OWNED" /\ RecoverOwners
     ELSE run' = "NONE" /\ NoOwners

\* A journal that cannot be read, repaired or replayed.  The failure may come
\* before the truncation, between it and its synchronisation, or after both.
RecoveryFails ==
  /\ \/ ~DistinctKeys(journal) /\ RepairTail /\ UNCHANGED faults
     \/ /\ Fault
        /\ RepairTail \/ UNCHANGED fileVars \/ (torn' = FALSE /\ UNCHANGED <<journal, synced>>)
  /\ run' = "NONE" /\ NoOwners

\* startupExistingRunV1 of a controller that owns no run.  A catalog that
\* cannot be loaded or asks for an explicit operation leaves it UNAVAILABLE.
StartupExisting ==
  LET recovers == catalog \in {"OPEN", "PAUSED"}
  IN
  /\ pc = "idle"
  /\ run = "NONE"
  /\ \/ recovers /\ DistinctKeys(journal) /\ PublishRecovered
     \/ recovers /\ RecoveryFails /\ state' = "RECOVERY_FAILED" /\ UNCHANGED catalog
     \/ /\ \/ ~recovers /\ UNCHANGED faults
           \/ Fault
        /\ state' = "UNAVAILABLE"
        /\ UNCHANGED <<fileVars, run, catalog, ownerVars>>
  /\ EmptyPath
  /\ failure' = "NONE"
  /\ UNCHANGED <<driverVars, deliveredVars>>

\* recoverFailedRunV1, by the controller that fail-stopped or by a new one.
\* A failed publication of RECOVERY_FAILED is told apart from a failed
\* recovery, so that one step has one fault.
RecoverFailed ==
  /\ pc = "idle"
  /\ catalog \in {"FAIL_STOPPED", "RECOVERY_FAILED"}
  /\ IF run = "NONE" THEN state \in {"UNAVAILABLE", "RECOVERY_FAILED"}
     ELSE state = "FAIL_STOPPED" /\ catalog = "FAIL_STOPPED" /\ ~HandoffQueued
  /\ \/ DistinctKeys(journal) /\ PublishRecovered
     \/ /\ RecoveryFails
        /\ state' \in {"RECOVERY_FAILED"} \cup (IF catalog = "FAIL_STOPPED" THEN {"UNAVAILABLE"} ELSE {})
        /\ catalog' \in IF state' = "UNAVAILABLE" THEN {"FAIL_STOPPED", "RECOVERY_FAILED"} ELSE {"RECOVERY_FAILED"}
  /\ EmptyPath
  /\ failure' = "NONE"
  /\ UNCHANGED <<driverVars, deliveredVars>>

-----------------------------------------------------------------------------
(* The consumers, and the end of the process.                              *)

\* tryPopPrivateResultBatchV1.
PopPrivate ==
  /\ privateResults # <<>>
  /\ deliveredPrivate' = Append(deliveredPrivate, Head(privateResults))
  /\ privateResults' = Tail(privateResults)
  /\ UNCHANGED <<fileVars, lifecycleVars, ownerVars, sequencerVars, matcherVars, pendingPrivate,
                 pendingPublic, publicTrades, capacityVars, driverVars, deliveredPublic, faults>>

\* tryPopPublicTradeBatchV1.
PopPublic ==
  /\ publicTrades # <<>>
  /\ deliveredPublic' = Append(deliveredPublic, Head(publicTrades))
  /\ publicTrades' = Tail(publicTrades)
  /\ UNCHANGED <<fileVars, lifecycleVars, ownerVars, sequencerVars, matcherVars, pendingPrivate,
                 pendingPublic, privateResults, capacityVars, driverVars, deliveredPrivate, faults>>

\* The process ends at any point; a new one finds the files.  When the machine
\* goes down with it, frames that were never synchronised may be gone or cut.
Crash ==
  /\ Fault
  /\ run # "NONE"
  /\ \/ UNCHANGED fileVars
     \/ /\ PowerLoss
        /\ \E n \in synced..Len(journal) :
             /\ journal' = SubSeq(journal, 1, n)
             /\ torn' \in IF torn \/ n < Len(journal) THEN BOOLEAN ELSE {FALSE}
        /\ UNCHANGED synced
  /\ run' = "NONE" /\ state' = "UNAVAILABLE" /\ failure' = "NONE"
  /\ NoOwners /\ EmptyPath
  /\ pc' = "idle" /\ pausing' = FALSE /\ progressed' = FALSE /\ beforeCommands' = 0
  /\ UNCHANGED <<catalog, deliveredVars>>

Advance ==
  \/ BeginAdvance \/ HandoffPendingCommand \/ AppendCommand \/ SyncFrame \/ SequencerReturns
  \/ FailStop \/ HandoffPendingResult \/ MatchCommand \/ MatcherReturns \/ DispatchResult
  \/ PublishCapacityReached \/ AdvanceReturns \/ PauseReturns

Next ==
  \/ \E c \in Commands : Submit(c)
  \/ Advance
  \/ Install \/ Pause \/ Resume \/ StartupExisting \/ RecoverFailed
  \/ PopPrivate \/ PopPublic
  \/ Crash

Spec == Init /\ [][Next]_vars

\* The driver keeps calling advanceCommandProcessingV1, every call returns, and
\* the consumers keep popping.  Submissions and lifecycle calls owe nothing.
FairSpec == Spec /\ WF_vars(Advance) /\ WF_vars(PopPrivate) /\ WF_vars(PopPublic)

-----------------------------------------------------------------------------
(* Properties.                                                             *)

Messages == [key: Keys, body: Bodies, sequence: Nat]
Results == [key: Keys, sequence: Nat, applied: Seq(Commands)]
Records == [body: Bodies, state: {"RESERVED", "SEQUENCED", "COMPLETED"}, sequence: Nat,
            result: Seq(Commands)]

\* Every variable holds a value of its kind, no queue exceeds its capacity and
\* no slot holds more than one element.
TypeOK ==
  /\ journal \in Seq(Commands) /\ synced \in 0..Len(journal) /\ torn \in BOOLEAN
  /\ catalog \in {"OPEN", "PAUSED", "CAPACITY_REACHED", "FAIL_STOPPED", "RECOVERY_FAILED"}
  /\ run \in {"NONE", "OWNED", "INSTALLED"}
  /\ state \in {"UNAVAILABLE", "READY", "PAUSED", "CAPACITY_REACHED", "FAIL_STOPPED", "RECOVERY_FAILED"}
  /\ failure \in {"NONE", "MATCHING_THREW", "ACCOUNTING", "ADMISSION_BINDING", "COMPLETION", "DRAIN_STALLED"}
  /\ DOMAIN records \subseteq Keys /\ records \in [DOMAIN records -> Records]
  /\ admissionOpen \in BOOLEAN /\ committed \in 0..Len(journal) /\ recovered \in 0..committed
  /\ applied \in Seq(Commands)
  /\ ingress \in Seq(Commands) /\ Len(ingress) <= IngressCapacity
  /\ matching \in Seq(Messages) /\ Len(matching) <= MatchingCapacity
  /\ results \in Seq(Results) /\ Len(results) <= ResultCapacity
  /\ privateResults \in Seq(Results) /\ Len(privateResults) <= PrivateCapacity
  /\ publicTrades \in Seq(Results) /\ Len(publicTrades) <= PublicCapacity
  /\ \A slot \in {pending, inProgress} : slot \in Seq(Messages) /\ Len(slot) <= 1
  /\ \A slot \in {pendingResult, pendingPrivate, pendingPublic} : slot \in Seq(Results) /\ Len(slot) <= 1
  /\ pendingReady \in BOOLEAN
  /\ appendFailure \in {"NONE", "INVALID_COMMAND", "CAPACITY_REACHED", "IO_FAILURE", "RECOVERY_REQUIRED"}
  /\ acceptedCommands \in Nat /\ acceptedBytes \in Nat /\ capacityTransitionPending \in BOOLEAN
  /\ pc \in {"idle", "sequencing", "syncing", "failing", "matching", "dispatching", "returning", "draining"}
  /\ pausing \in BOOLEAN /\ progressed \in BOOLEAN /\ beforeCommands \in Nat
  /\ deliveredPrivate \in Seq(Results) /\ deliveredPublic \in Seq(Results)
  /\ faults \in 0..MaxFaults

\* Nothing but a throwing matcher makes the path fail: admission binding,
\* completion and capacity accounting never disagree with the queues, and a
\* pause that finds no progress finds a consumer that is behind.
NoInvariantException == failure \in {"NONE", "MATCHING_THREW"}

\* The admission index and the journal tell the same story about every key:
\* what is sequenced or completed is the frame of that sequence, its result
\* is the replay of the journal up to it, what is only reserved is not
\* committed, and every committed frame is indexed.  A writer never stands
\* behind an incomplete frame unless its append failed.
IndexMatchesJournal ==
  run # "NONE" =>
    /\ \A k \in DOMAIN records :
         IF records[k].state = "RESERVED"
         THEN \A i \in 1..committed : journal[i].key # k
         ELSE /\ records[k].sequence \in 1..committed
              /\ journal[records[k].sequence] = [key |-> k, body |-> records[k].body]
              /\ records[k].state = "COMPLETED" =>
                   records[k].result = SubSeq(journal, 1, records[k].sequence)
    /\ \A i \in 1..committed : journal[i].key \in DOMAIN records
    /\ torn => appendFailure = "RECOVERY_REQUIRED"

Sequences(queue) == [i \in DOMAIN queue |-> queue[i].sequence]
CompletedCount == Cardinality({k \in DOMAIN records : records[k].state = "COMPLETED"})

\* Read from right to left, the results and commands between the journal and
\* completion are exactly the committed sequences not yet completed, in order
\* and without gap or repetition, whatever queue is full; and no queue or slot
\* holds more than it was made for.
PipelineIsFifo ==
  /\ TypeOK
  /\ Sequences(results \o pendingResult \o inProgress \o matching \o (IF pendingReady THEN pending ELSE <<>>))
       = [i \in 1..(committed - CompletedCount) |-> CompletedCount + i]

\* The matcher works on synchronised frames only: a command handed to it, waiting
\* or in progress, stands in the journal at its sequence and within what is
\* synchronised; and the book is the replay of a prefix of the journal that is
\* synchronised, unless recovery alone produced it from what it found in the
\* file. Sequencer::processNext hands over only what the writer committed.
DurableBeforeMatching ==
  run # "NONE" =>
    /\ LET handed == inProgress \o matching
       IN  \A i \in 1..Len(handed) : /\ handed[i].sequence \in 1..synced
                                    /\ journal[handed[i].sequence] = CommandOf(handed[i])
    /\ applied = SubSeq(journal, 1, Len(applied))
    /\ Len(applied) >= recovered
    /\ Len(applied) > recovered => Len(applied) <= synced

\* A run that reports PAUSED or CAPACITY_REACHED has completed every command it
\* accepted, and a pause discards no result: when the run is PAUSED the
\* consumers hold the private result of every command processed since the last
\* recovery, and the public one of every command that traded.
PauseDeliversAll ==
  /\ run # "NONE" /\ state \in {"PAUSED", "CAPACITY_REACHED"} =>
       \A k \in DOMAIN records : records[k].state = "COMPLETED"
  /\ run # "NONE" /\ state = "PAUSED" =>
       \A n \in (recovered + 1)..committed :
         /\ \E i \in DOMAIN deliveredPrivate : deliveredPrivate[i].sequence = n
         /\ journal[n].body \in TradingBodies =>
              \E i \in DOMAIN deliveredPublic : deliveredPublic[i].sequence = n

\* Admission is open only in a READY run that is neither pausing nor running
\* out of capacity, and a run is READY only while its catalog says OPEN.
GateMatchesState ==
  /\ admissionOpen => state = "READY" /\ ~pausing /\ ~capacityTransitionPending
  /\ state = "READY" => catalog = "OPEN"

\* Capacity is reserved at admission: the outstanding commands and bytes are
\* those of the staged commands, and the journal never refuses an
\* accepted command for want of room.
CapacityReserved ==
  /\ appendFailure # "CAPACITY_REACHED"
  /\ run = "INSTALLED" /\ state = "READY" /\ pc = "idle" =>
       /\ acceptedCommands = Len(ingress)
       /\ acceptedBytes = Bytes(ingress, Len(ingress))
       /\ Cardinality(DOMAIN records) = committed + acceptedCommands

\* What a client can be told: the result of a completed command has a durable frame.
CompletedIsDurable ==
  run # "NONE" =>
    \A k \in DOMAIN records : records[k].state = "COMPLETED" => records[k].sequence <= synced

\* While a run is READY and its consumers pop, an accepted command is completed
\* and a run that has no capacity left says so, unless it leaves READY first.
ReadyWorkEnds ==
  /\ \A k \in Keys :
       (k \in DOMAIN records /\ state = "READY") ~>
         (state # "READY" \/ (k \in DOMAIN records /\ records[k].state = "COMPLETED"))
  /\ capacityTransitionPending ~> ~(capacityTransitionPending /\ state = "READY")

LongestDelivered(channel) == IF channel = <<>> THEN <<>> ELSE Last(channel).applied

Log == INSTANCE CommandLog WITH
         Channels <- {"private", "public"}, KeyOf <- LAMBDA c : c.key,
         log <- journal,
         told <- [private |-> LongestDelivered(deliveredPrivate), public |-> LongestDelivered(deliveredPublic)]

\* The run is a command log: a command is journaled at most once per key,
\* across retransmissions, failures, stops and recoveries, and every batch a
\* consumer pops is the replay of a longer prefix of the journal than the one
\* before, which no later failure of the process or the machine takes back.
ImplementsCommandLog == Log!LogSpec

=============================================================================
