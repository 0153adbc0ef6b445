---------------------------- MODULE RunLifecycle ----------------------------
(***************************************************************************)
(* The life of exchange runs: the installation catalog, the journal files  *)
(* beside it, and the ExchangeRunController that starts, recovers, pauses, *)
(* resumes, exhausts, fail-stops and stops runs, over stops of the process *)
(* and of the machine.                                                     *)
(*                                                                         *)
(* Catalog and journals are entries of one directory.  rename, create and  *)
(* unlink change what the next reader sees; they survive a power loss only *)
(* after the directory was synchronised.  What a run's journal holds is    *)
(* CommandPipeline's business: here a journal is there or not.  Run 0      *)
(* stands for "no run".                                                    *)
(***************************************************************************)
EXTENDS Integers, FiniteSets

CONSTANTS
  MaxRuns,        \* bound of the model: run identifiers
  MaxGeneration,  \* bound of the model: generation at which no run is begun or resumed any more
  MaxFaults       \* bound of the model: I/O failures and stops in a behaviour

ASSUME LifecycleAssumption ==
  /\ MaxRuns \in Nat \ {0}
  /\ MaxGeneration \in Nat
  /\ MaxFaults \in Nat

VARIABLES
  \* the directory
  catalog,      \* the snapshot a reader loads; generation 0 is a missing catalog
  durable,      \* the snapshots of which one is left after a power loss
  files,        \* runs whose journal file a reader finds
  syncedFiles,  \* the journal files at the last synchronisation of the directory
  full,         \* runs whose journal has reached a capacity limit
  \* the controller
  state, owned, installed,    \* state_, the run of run_, commandProcessing_
  capacityTransitionPending,
  view,                       \* the run of retainedStoppedRunView_
  \* the operation in progress
  pc, runId, snapshot, replaced,
  \* history and environment
  created,   \* runs for which a journal file was ever created
  reported,  \* lifecycle outcomes reported to the operator
  refused,   \* a replacement was refused as a conflict or as invalid
  faults

directoryVars == <<catalog, durable, files, syncedFiles>>
controllerVars == <<state, owned, installed, capacityTransitionPending, view>>
operationVars == <<pc, runId, snapshot, replaced>>
historyVars == <<created, reported>>
vars == <<directoryVars, full, controllerVars, operationVars, historyVars, refused, faults>>

-----------------------------------------------------------------------------
NoRun == 0
RunIds == 1..MaxRuns
Dispositions == {"OPEN", "PAUSED", "CAPACITY_REACHED", "FAIL_STOPPED", "RECOVERY_FAILED"}
Missing == [generation |-> 0, lastReserved |-> NoRun, active |-> NoRun,
            disposition |-> "NONE", retained |-> NoRun]

Init ==
  /\ catalog = Missing /\ durable = {Missing}
  /\ files = {} /\ syncedFiles = {} /\ full = {}
  /\ state = "UNAVAILABLE" /\ owned = NoRun /\ installed = FALSE
  /\ capacityTransitionPending = FALSE /\ view = NoRun
  /\ pc = "idle" /\ runId = NoRun /\ snapshot = Missing /\ replaced = NoRun
  /\ created = {} /\ reported = {} /\ refused = FALSE /\ faults = 0

Fault == faults < MaxFaults /\ faults' = faults + 1

\* validateSnapshot.
ValidSnapshot(c) ==
  /\ c.generation # 0
  /\ (c.active # NoRun) = (c.disposition # "NONE")
  /\ c.active # NoRun => c.active # c.retained
  /\ c.active <= c.lastReserved /\ c.retained <= c.lastReserved

\* The replacement is valid and follows on what the directory holds.
CanReplace(next) == ValidSnapshot(next) /\ next.generation = catalog.generation + 1

\* MUTANT: COMMITTED is answered after the rename.
Committed_onRename(next) ==
  /\ CanReplace(next)
  /\ catalog' = next /\ durable' = durable \cup {next}
  /\ UNCHANGED <<files, syncedFiles, refused, faults>>

\* replaceRunCatalogV1WithHooks answers COMMITTED: the directory has been
\* synchronised after the rename.
Committed(next) ==
  /\ CanReplace(next)
  /\ catalog' = next /\ durable' = {next} /\ syncedFiles' = files
  /\ UNCHANGED <<files, refused, faults>>

\* It answers anything else: refused, failed before the rename, or uncertain
\* after it.  A catalog that cannot be loaded beforehand counts as a failure.
NotCommitted(next) ==
  /\ \/ ~CanReplace(next) /\ refused' = TRUE
        /\ UNCHANGED <<catalog, durable, faults>>
     \/ CanReplace(next) /\ Fault
        /\ \/ UNCHANGED <<catalog, durable>>
           \/ catalog' \in {catalog, next} /\ durable' = durable \cup {next}
        /\ UNCHANGED refused
  /\ UNCHANGED <<files, syncedFiles>>

\* The catalog with the active run's disposition replaced.
WithDisposition(c, disposition) ==
  [c EXCEPT !.generation = @ + 1, !.disposition = disposition]

Report(outcome, run) == reported' = reported \cup {[outcome |-> outcome, run |-> run]}

\* Runtime state after a publication of the given disposition of the owned run.
Becomes(newState) ==
  /\ state' = newState
  /\ UNCHANGED <<owned, installed, view>>

-----------------------------------------------------------------------------
(* startupNewRunV1: reserve an identifier, create the journal, activate.   *)

\* MUTANT: the identifier is derived from the runs the catalog selects.
NextRunId_fromSelected == IF catalog.active > catalog.retained THEN catalog.active + 1 ELSE catalog.retained + 1

NextRunId == catalog.lastReserved + 1

\* The checks of startupNewRunV1.
MayStartNewRun == pc = "idle" /\ owned = NoRun /\ catalog.active = NoRun

\* hasJournalLikeEntry: journals without a catalog stop the reservation.
NoJournalEvidence == catalog = Missing => files = {}

\* reserveNextExchangeRunId.
ReserveRunId ==
  LET next == [catalog EXCEPT !.generation = @ + 1, !.lastReserved = NextRunId]
  IN
  /\ MayStartNewRun /\ NoJournalEvidence
  /\ NextRunId \in RunIds /\ catalog.generation < MaxGeneration
  /\ \/ Committed(next) /\ pc' = "reserved" /\ runId' = NextRunId
     \/ NotCommitted(next) /\ UNCHANGED <<pc, runId>>
  /\ UNCHANGED <<full, controllerVars, snapshot, replaced, historyVars>>

\* createEncodedRunJournalV1 answers CREATED: file and directory are
\* synchronised.  The file is created exclusively.
JournalCreated ==
  /\ runId \notin files
  /\ files' = files \cup {runId} /\ created' = created \cup {runId}
  /\ syncedFiles' = files' /\ durable' = {catalog}
  /\ UNCHANGED faults

\* It fails, and may leave the file behind, unsynchronised.
JournalNotCreated ==
  /\ \/ runId \in files /\ UNCHANGED <<files, created, faults>>
     \/ runId \notin files /\ Fault /\ UNCHANGED <<files, created>>
     \/ runId \notin files /\ Fault /\ files' = files \cup {runId} /\ created' = created \cup {runId}
  /\ UNCHANGED <<syncedFiles, durable>>

\* prepareNewRunJournalV1 after the reservation.
CreateJournal ==
  /\ pc = "reserved"
  /\ \/ JournalCreated /\ pc' = "created" /\ UNCHANGED runId
     \/ JournalNotCreated /\ pc' = "idle" /\ runId' = NoRun
  /\ UNCHANGED <<catalog, full, controllerVars, snapshot, replaced, reported, refused>>

\* The checks of activatePreparedNewRunV1.
MayActivate == catalog.lastReserved = runId /\ catalog.active = NoRun

\* startNewRunV1 after the preparation: the empty run state is constructed and
\* the run is activated; the controller owns it once that is certain.
Activate ==
  LET next == [catalog EXCEPT !.generation = @ + 1, !.active = runId, !.disposition = "OPEN"]
  IN
  /\ pc = "created"
  /\ \/ MayActivate /\ Committed(next) /\ state' = "READY" /\ owned' = runId /\ Report("READY", runId)
     \/ MayActivate /\ NotCommitted(next) /\ UNCHANGED <<state, owned, reported>>
     \/ ~MayActivate /\ UNCHANGED <<directoryVars, refused, faults, state, owned, reported>>
     \/ Fault /\ UNCHANGED <<directoryVars, refused, state, owned, reported>>
  /\ pc' = "idle" /\ runId' = NoRun
  /\ UNCHANGED <<full, installed, capacityTransitionPending, view, snapshot, replaced, created>>

-----------------------------------------------------------------------------
(* Existing runs.                                                          *)

\* A fail-stopped run is released before it is recovered.
Released == IF state = "FAIL_STOPPED" THEN NoRun ELSE owned

\* The recovered run is owned once its catalog says PAUSED for certain.
PublishRecovered ==
  LET next == WithDisposition(catalog, "PAUSED")
  IN
  \/ /\ Committed(next)
     /\ state' = "PAUSED" /\ owned' = catalog.active
     /\ Report("PAUSED", catalog.active)
  \/ /\ NotCommitted(next)
     /\ state' = "UNAVAILABLE" /\ owned' = Released
     /\ UNCHANGED reported

\* startupExistingRunV1.
StartupExisting ==
  LET recovers == catalog.disposition \in {"OPEN", "PAUSED"}
      Unchanged == UNCHANGED <<directoryVars, owned, reported, refused>>
  IN
  /\ pc = "idle" /\ owned = NoRun
  /\ \/ recovers /\ catalog.active \in files /\ PublishRecovered
     \/ recovers /\ catalog.active \notin files /\ state' = "RECOVERY_FAILED" /\ Unchanged /\ UNCHANGED faults
     \/ recovers /\ Fault /\ state' = "RECOVERY_FAILED" /\ Unchanged
     \/ ~recovers /\ state' = "UNAVAILABLE" /\ Unchanged /\ UNCHANGED faults
     \/ Fault /\ state' = "UNAVAILABLE" /\ Unchanged
  /\ UNCHANGED <<full, installed, capacityTransitionPending, view, operationVars, created>>

\* recoverFailedRunV1.  A journal that does not recover is published as such
\* once; the path of a fail-stopped run is gone in every case.
RecoverFailed ==
  LET next == WithDisposition(catalog, "RECOVERY_FAILED")
  IN
  /\ pc = "idle"
  /\ \/ state = "FAIL_STOPPED" /\ catalog.active = owned /\ catalog.disposition = "FAIL_STOPPED"
     \/ /\ state \in {"UNAVAILABLE", "RECOVERY_FAILED"} /\ ~installed
        /\ catalog.disposition \in {"FAIL_STOPPED", "RECOVERY_FAILED"}
  /\ \/ catalog.active \in files /\ PublishRecovered
     \/ /\ catalog.disposition = "RECOVERY_FAILED"
        /\ state' = "RECOVERY_FAILED" /\ owned' = Released
        /\ UNCHANGED <<directoryVars, reported, refused, faults>>
     \/ /\ catalog.disposition = "FAIL_STOPPED"
        /\ \/ Committed(next) /\ state' = "RECOVERY_FAILED"
           \/ NotCommitted(next) /\ state' = "UNAVAILABLE"
        /\ owned' = Released
        /\ UNCHANGED reported
  /\ installed' = FALSE /\ capacityTransitionPending' = FALSE
  /\ UNCHANGED <<full, view, operationVars, created>>

\* installCommandProcessingV1.
Install ==
  /\ pc = "idle"
  /\ owned # NoRun /\ ~installed /\ state \in {"READY", "PAUSED"}
  /\ installed' = TRUE /\ capacityTransitionPending' = FALSE
  /\ UNCHANGED <<directoryVars, full, state, owned, view, operationVars, historyVars, refused, faults>>

\* The run's journal is exhausted, or the next command does not fit in it.
ReachCapacity ==
  /\ pc = "idle"
  /\ state = "READY" /\ installed /\ ~capacityTransitionPending
  /\ capacityTransitionPending' = TRUE
  /\ full' \in {full, full \cup {owned}}
  /\ UNCHANGED <<directoryVars, state, owned, installed, view, operationVars, historyVars, refused, faults>>

\* MUTANT: an uncertain publication leaves the run as it was.
PublishOwned_keepsState(disposition) ==
  LET next == WithDisposition(catalog, disposition)
  IN
  IF catalog.active = owned /\ catalog.disposition = "OPEN"
  THEN \/ Committed(next) /\ Becomes(disposition) /\ Report(disposition, owned)
       \/ NotCommitted(next) /\ Becomes(state) /\ UNCHANGED reported
  ELSE Becomes("UNAVAILABLE") /\ UNCHANGED <<directoryVars, reported, refused, faults>>

\* A publication of a disposition of the owned run by the running path.
PublishOwned(disposition) ==
  LET next == WithDisposition(catalog, disposition)
  IN
  IF catalog.active = owned /\ catalog.disposition = "OPEN"
  THEN \/ Committed(next) /\ Becomes(disposition) /\ Report(disposition, owned)
       \/ NotCommitted(next) /\ Becomes("UNAVAILABLE") /\ UNCHANGED reported
  ELSE Becomes("UNAVAILABLE") /\ UNCHANGED <<directoryVars, reported, refused, faults>>

\* The drained end of advanceCommandProcessingV1.
PublishCapacityReached ==
  /\ pc = "idle"
  /\ state = "READY" /\ installed /\ capacityTransitionPending
  /\ PublishOwned("CAPACITY_REACHED")
  /\ UNCHANGED <<full, capacityTransitionPending, operationVars, created>>

\* publishFailStopped, in an advancement of the driver or of a draining stop.
FailStop ==
  /\ pc \in {"idle", "stopPausing"}
  /\ state = "READY" /\ installed
  /\ PublishOwned("FAIL_STOPPED")
  /\ pc' = "idle" /\ snapshot' = Missing /\ replaced' = NoRun
  /\ UNCHANGED <<full, capacityTransitionPending, runId, created>>

\* pauseRunV1 once its drain has ended.
Pause ==
  /\ pc = "idle"
  /\ state = "READY" /\ installed /\ ~capacityTransitionPending
  /\ PublishOwned("PAUSED")
  /\ UNCHANGED <<full, capacityTransitionPending, operationVars, created>>

\* resumeRunV1.
Resume ==
  LET next == WithDisposition(catalog, "OPEN")
  IN
  /\ pc = "idle"
  /\ state = "PAUSED"
  /\ catalog.active = owned /\ catalog.disposition = "PAUSED"
  /\ owned \notin full
  /\ catalog.generation < MaxGeneration
  /\ \/ Committed(next) /\ Becomes("READY") /\ Report("READY", owned)
     \/ NotCommitted(next) /\ Becomes("PAUSED") /\ UNCHANGED reported
  /\ UNCHANGED <<full, capacityTransitionPending, operationVars, created>>

-----------------------------------------------------------------------------
(* stopRunV1 and the retained stopped run.                                 *)

RequiredDisposition ==
  [READY |-> "OPEN", PAUSED |-> "PAUSED", CAPACITY_REACHED |-> "CAPACITY_REACHED"]

Confirmed(confirmation) == catalog.retained # NoRun => confirmation = catalog.retained

\* The catalog is loaded and validated once, before anything changes.
BeginStop(confirmation) ==
  /\ pc = "idle"
  /\ state \in DOMAIN RequiredDisposition
  /\ catalog.active = owned /\ catalog.disposition = RequiredDisposition[state]
  /\ Confirmed(confirmation)
  /\ state = "READY" => installed /\ ~capacityTransitionPending
  /\ snapshot' = catalog /\ replaced' = catalog.retained
  /\ pc' = IF state = "READY" THEN "stopPausing" ELSE "stopPublishing"
  /\ UNCHANGED <<directoryVars, full, controllerVars, runId, historyVars, refused, faults>>

\* MUTANT: the generation that the pause published is not counted.
PausedCopy_sameGeneration(c) == [c EXCEPT !.disposition = "PAUSED"]

\* The loaded copy follows what the pause has published.
PausedCopy(c) == WithDisposition(c, "PAUSED")

\* A READY run is paused first.  Backpressure of the result handoffs ends the
\* stop and leaves the run as it is.
StopPauses ==
  /\ pc = "stopPausing"
  /\ \/ /\ PublishOwned("PAUSED")
        /\ IF state' = "PAUSED" THEN pc' = "stopPublishing" /\ snapshot' = PausedCopy(snapshot) /\ UNCHANGED replaced
           ELSE pc' = "idle" /\ snapshot' = Missing /\ replaced' = NoRun
     \/ /\ pc' = "idle" /\ snapshot' = Missing /\ replaced' = NoRun
        /\ UNCHANGED <<directoryVars, state, owned, installed, view, reported, refused, faults>>
  /\ UNCHANGED <<full, capacityTransitionPending, runId, created>>

\* MUTANT: the cached view of the replaced run is kept.
DropView_keeps == UNCHANGED view

DropView == view' = NoRun

\* The stop snapshot.  Once it is committed the owners are released.
StopPublishes ==
  LET next == [snapshot EXCEPT !.generation = @ + 1, !.active = NoRun, !.disposition = "NONE", !.retained = owned]
  IN
  /\ pc = "stopPublishing"
  /\ \/ /\ Committed(next)
        /\ state' = "STOPPED" /\ owned' = NoRun /\ installed' = FALSE
        /\ capacityTransitionPending' = FALSE
        /\ DropView
        /\ Report("STOPPED", owned)
        /\ pc' = IF replaced = NoRun THEN "idle" ELSE "removing"
        /\ UNCHANGED replaced
     \/ /\ NotCommitted(next)
        /\ Becomes("UNAVAILABLE")
        /\ pc' = "idle" /\ replaced' = NoRun
        /\ UNCHANGED <<capacityTransitionPending, reported>>
  /\ snapshot' = Missing
  /\ UNCHANGED <<full, runId, created>>

\* removeStoppedJournal: unlink, then synchronise the directory.
RemoveReplaced ==
  /\ pc = "removing"
  /\ \/ files' = files \ {replaced} /\ syncedFiles' = files' /\ durable' = {catalog} /\ UNCHANGED faults
     \/ Fault /\ files' \in {files, files \ {replaced}} /\ UNCHANGED <<syncedFiles, durable>>
  /\ pc' = "idle" /\ replaced' = NoRun
  /\ UNCHANGED <<catalog, full, controllerVars, runId, snapshot, historyVars, refused>>

\* lookupCompletedResultV1 of a run that is not owned: the retained run is
\* reconstructed from its journal and kept as a view.
LookupRetained(run) ==
  /\ pc = "idle"
  /\ run # owned
  /\ catalog.retained = run /\ view # run
  /\ run \in files
  /\ view' = run
  /\ UNCHANGED <<directoryVars, full, state, owned, installed, capacityTransitionPending, operationVars,
                 historyVars, refused, faults>>

-----------------------------------------------------------------------------
\* The process ends between any two steps.  When the machine goes down with
\* it, one of the snapshots that may have reached the disk is left, and files
\* created or removed since the last synchronisation are there or not.
Crash ==
  /\ Fault
  /\ \/ UNCHANGED directoryVars
     \/ /\ catalog' \in durable /\ durable' = {catalog'}
        /\ \E changed \in SUBSET ((files \ syncedFiles) \cup (syncedFiles \ files)) :
             files' = (files \ changed) \cup (syncedFiles \cap changed)
        /\ syncedFiles' = files'
  /\ state' = "UNAVAILABLE" /\ owned' = NoRun /\ installed' = FALSE
  /\ capacityTransitionPending' = FALSE /\ view' = NoRun
  /\ pc' = "idle" /\ runId' = NoRun /\ snapshot' = Missing /\ replaced' = NoRun
  /\ UNCHANGED <<full, historyVars, refused>>

\* What an operator calls and what then runs to its end.
Operation ==
  \/ ReserveRunId \/ CreateJournal \/ Activate
  \/ StartupExisting \/ RecoverFailed \/ Install
  \/ Pause \/ Resume
  \/ \E confirmation \in RunIds \cup {NoRun} : BeginStop(confirmation)
  \/ StopPauses \/ StopPublishes \/ RemoveReplaced

Next ==
  \/ Operation
  \/ ReachCapacity \/ PublishCapacityReached \/ FailStop
  \/ \E run \in RunIds : LookupRetained(run)
  \/ Crash

Spec == Init /\ [][Next]_vars

\* An operator who always calls some operation that would change something,
\* and operations that run to their end.
FairSpec == Spec /\ WF_vars(Operation)

-----------------------------------------------------------------------------
\* Properties.

Snapshots == [generation : Nat, lastReserved : Nat, active : Nat,
              disposition : Dispositions \cup {"NONE"}, retained : Nat]

\* Every snapshot that may be found after a stop.
Selectable == durable \cup {catalog}

\* Variables stay in their types, the locals of an operation have values only
\* while it runs, a processing path exists only over an owned run, and a run
\* that failed to recover or was stopped is not owned.
TypeOK ==
  /\ Selectable \subseteq Snapshots
  /\ files \subseteq created /\ syncedFiles \subseteq created /\ created \subseteq RunIds
  /\ full \subseteq created
  /\ state \in {"UNAVAILABLE", "READY", "PAUSED", "CAPACITY_REACHED", "FAIL_STOPPED", "RECOVERY_FAILED", "STOPPED"}
  /\ owned \in created \cup {NoRun} /\ view \in created \cup {NoRun}
  /\ installed \in BOOLEAN /\ capacityTransitionPending \in BOOLEAN
  /\ capacityTransitionPending => installed
  /\ installed => owned # NoRun
  /\ state \in {"RECOVERY_FAILED", "STOPPED"} => owned = NoRun
  /\ state \in {"READY", "PAUSED", "CAPACITY_REACHED", "FAIL_STOPPED"} => owned # NoRun
  /\ pc \in {"idle", "reserved", "created", "stopPausing", "stopPublishing", "removing"}
  /\ runId \in RunIds \cup {NoRun} /\ (runId # NoRun) = (pc \in {"reserved", "created"})
  /\ snapshot \in Snapshots /\ (snapshot # Missing) = (pc \in {"stopPausing", "stopPublishing"})
  /\ replaced \in created \cup {NoRun}
  /\ replaced # NoRun => pc \in {"stopPausing", "stopPublishing", "removing"}
  /\ refused \in BOOLEAN
  /\ faults \in 0..MaxFaults

\* Whatever snapshot a power loss leaves, the journals of the active and of
\* the retained run it selects are on the disk: a run is activated only after
\* its journal is durable, and a replaced journal is unlinked only after the
\* catalog that drops it is.
SelectedJournalsSurvive ==
  \A c \in Selectable : ({c.active, c.retained} \ {NoRun}) \subseteq (files \cap syncedFiles)

\* The identifier handed to the creation of a journal was never used for one
\* before, whatever failed, was deleted, or was lost in between.
RunIdsNotReused == pc = "reserved" => runId \notin created

\* Every snapshot the controller offers is valid and follows on the catalog,
\* also the one that a stop derives from a copy loaded before its own pause.
NoReplacementRefused == ~refused

\* A running or halted run is what the catalog says, on the disk too.  Only a
\* paused run may be ahead in the catalog, when its resumption is uncertain.
\* What the controller owns goes with its state.
StateMatchesCatalog ==
  /\ TypeOK
  /\ state \in {"READY", "CAPACITY_REACHED", "FAIL_STOPPED", "PAUSED"} => \A c \in Selectable : c.active = owned
  /\ state \in {"CAPACITY_REACHED", "FAIL_STOPPED"} => \A c \in Selectable : c.disposition = state
  /\ state = "READY" => \A c \in Selectable : c.disposition = "OPEN"
  /\ state = "PAUSED" => \A c \in Selectable : c.disposition \in {"PAUSED", "OPEN"}

\* A cached view is of a run that some selectable snapshot still retains.
ViewIsRetained == view # NoRun => \E c \in Selectable : c.retained = view

\* A lifecycle operation reported as done holds after a power loss: a stopped
\* run is never active again, and an exhausted run never active as anything
\* but exhausted.
ReportedIsDurable ==
  \A r \in reported, c \in Selectable :
    c.active = r.run => /\ r.outcome # "STOPPED"
                        /\ r.outcome = "CAPACITY_REACHED" => c.disposition = "CAPACITY_REACHED"

\* A restarted process that finds an exhausted run eventually ends it: such a
\* run must be stopped before another one is created.
CapacityReachedEnds ==
  (catalog.disposition = "CAPACITY_REACHED" /\ owned = NoRun) ~> (catalog.disposition # "CAPACITY_REACHED")
=============================================================================
