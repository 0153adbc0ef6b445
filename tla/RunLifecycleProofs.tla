------------------------- MODULE RunLifecycleProofs -------------------------
(***************************************************************************)
(* Proofs about catalog, journals and controller, for any number of runs,  *)
(* generations and faults.                                                 *)
(***************************************************************************)
EXTENDS RunLifecycle, TLAPS

-----------------------------------------------------------------------------
(* The inductive invariant.                                                *)

States == {"UNAVAILABLE", "READY", "PAUSED", "CAPACITY_REACHED", "FAIL_STOPPED", "RECOVERY_FAILED", "STOPPED"}

\* The states in which the controller vouches for the run it owns.
Vouching == {"READY", "PAUSED", "CAPACITY_REACHED", "FAIL_STOPPED"}

\* The runs a snapshot selects.
Selects(c) == {c.active, c.retained} \ {NoRun}

\* A snapshot that a power loss may leave is valid, knows of every run that has
\* or had a journal, and selects journals that survive the same power loss.
Sound(c) ==
  /\ c \in Snapshots
  /\ c = Missing \/ ValidSnapshot(c)
  /\ \A run \in created : run <= c.lastReserved
  /\ Selects(c) \subseteq files /\ Selects(c) \subseteq syncedFiles

Directory ==
  /\ files \subseteq created /\ syncedFiles \subseteq created /\ created \subseteq RunIds
  /\ full \subseteq created
  /\ catalog \in durable
  /\ \A c \in durable : Sound(c)

\* What was reported of a run is true of every snapshot in which it is active.
Reports ==
  /\ \A r \in reported : r.run \in created
  /\ \A r \in reported, c \in durable :
       c.active = r.run => /\ r.outcome # "STOPPED"
                           /\ r.outcome = "CAPACITY_REACHED" => c.disposition = "CAPACITY_REACHED"

\* The controller and the run it owns.
Controller ==
  /\ state \in States
  /\ owned \in created \cup {NoRun}
  /\ installed \in BOOLEAN /\ capacityTransitionPending \in BOOLEAN
  /\ capacityTransitionPending => installed
  /\ installed => owned # NoRun
  /\ state \in {"RECOVERY_FAILED", "STOPPED"} => owned = NoRun
  /\ state \in Vouching => owned # NoRun

\* What the controller vouches for is what every snapshot says.
Vouched ==
  /\ state \in Vouching => \A c \in durable : c.active = owned
  /\ state \in {"CAPACITY_REACHED", "FAIL_STOPPED"} => \A c \in durable : c.disposition = state
  /\ state = "READY" => \A c \in durable : c.disposition = "OPEN"
  /\ state = "PAUSED" => \A c \in durable : c.disposition \in {"PAUSED", "OPEN"}

\* A controller that lost track of its own run owns it until the process ends,
\* and offers no operation that would replace the catalog.
Stuck == state = "UNAVAILABLE" /\ owned # NoRun

StuckIsSafe ==
  Stuck /\ ~installed => \A c \in durable : c.disposition \notin {"FAIL_STOPPED", "RECOVERY_FAILED"}

View ==
  /\ view \in created \cup {NoRun}
  /\ view # NoRun => \/ view = catalog.retained
                     \/ Stuck /\ \E c \in durable : c.retained = view

\* The locals of an operation, and what holds between its steps.
Locals ==
  /\ pc \in {"idle", "reserved", "created", "stopPausing", "stopPublishing", "removing"}
  /\ runId \in RunIds \cup {NoRun} /\ (runId # NoRun) = (pc \in {"reserved", "created"})
  /\ snapshot \in Snapshots /\ (snapshot # Missing) = (pc \in {"stopPausing", "stopPublishing"})
  /\ replaced \in created \cup {NoRun}
  /\ replaced # NoRun => pc \in {"stopPausing", "stopPublishing", "removing"}
  /\ refused \in BOOLEAN
  /\ faults \in 0..MaxFaults

Starting ==
  /\ pc \in {"reserved", "created"} =>
       owned = NoRun /\ \A c \in durable : c.lastReserved = runId /\ c.active = NoRun
  /\ pc = "reserved" => runId \notin created
  /\ pc = "created" => /\ runId \in files /\ runId \in syncedFiles
                       /\ \A c \in durable : c.retained # runId
                       /\ \A r \in reported : r.run # runId

Stopping ==
  /\ pc = "stopPausing" => state = "READY" /\ installed
  /\ pc = "stopPublishing" => state \in {"PAUSED", "CAPACITY_REACHED"}
  /\ pc \in {"stopPausing", "stopPublishing"} => snapshot = catalog /\ replaced = catalog.retained
  /\ pc = "removing" => /\ state = "STOPPED" /\ replaced # NoRun
                        /\ \A c \in durable : c.active # replaced /\ c.retained # replaced

IInv ==
  /\ Directory /\ Reports /\ Controller /\ Vouched /\ StuckIsSafe /\ View
  /\ Locals /\ Starting /\ Stopping
  /\ ~refused

-----------------------------------------------------------------------------
(* Replacements of the catalog.                                            *)

\* The fields of a snapshot whose disposition is replaced.
LEMMA WithDispositionFields ==
  ASSUME NEW c \in Snapshots, NEW d \in Dispositions
  PROVE  /\ WithDisposition(c, d) \in Snapshots
         /\ WithDisposition(c, d).generation = c.generation + 1
         /\ WithDisposition(c, d).lastReserved = c.lastReserved
         /\ WithDisposition(c, d).active = c.active
         /\ WithDisposition(c, d).disposition = d
         /\ WithDisposition(c, d).retained = c.retained
         /\ Selects(WithDisposition(c, d)) = Selects(c)
         /\ (c = Missing \/ ValidSnapshot(c)) /\ c.active # NoRun => ValidSnapshot(WithDisposition(c, d))
  <1>. DEFINE following == [c EXCEPT !.generation = @ + 1]
  <1>1. /\ WithDisposition(c, d) \in Snapshots
        /\ WithDisposition(c, d).generation = c.generation + 1
        /\ WithDisposition(c, d).lastReserved = c.lastReserved
        /\ WithDisposition(c, d).active = c.active
        /\ WithDisposition(c, d).disposition = d
        /\ WithDisposition(c, d).retained = c.retained
    <2>1. /\ following \in Snapshots /\ following.generation = c.generation + 1
          /\ following.lastReserved = c.lastReserved /\ following.active = c.active
          /\ following.retained = c.retained
      BY DEF Snapshots
    <2>2. WithDisposition(c, d) = [following EXCEPT !.disposition = d]
      BY DEF WithDisposition
    <2>. HIDE DEF following
    <2>. QED  BY <2>1, <2>2 DEF Snapshots
  <1>2. c.generation \in Nat /\ c.generation + 1 # 0 /\ d # "NONE" /\ Missing.active = NoRun
    BY DEF Snapshots, Dispositions, Missing
  <1>. QED  BY <1>1, <1>2 DEF Selects, ValidSnapshot

\* A committed replacement leaves one snapshot, and synchronises the journals.
LEMMA CommittedDirectory ==
  ASSUME Directory, NEW n \in Snapshots, Committed(n),
         n.lastReserved >= catalog.lastReserved, Selects(n) \subseteq files,
         UNCHANGED <<full, created>>
  PROVE  /\ Directory' /\ catalog' = n /\ durable' = {n} /\ syncedFiles' = files
         /\ UNCHANGED <<files, refused, faults>>
  <1>1. /\ catalog' = n /\ durable' = {n} /\ syncedFiles' = files /\ ValidSnapshot(n)
        /\ UNCHANGED <<files, refused, faults>>
    BY DEF Committed, CanReplace
  <1>2. \A run \in created : run <= n.lastReserved
    <2>1. catalog \in Snapshots /\ \A run \in created : run <= catalog.lastReserved /\ run \in Nat
      BY DEF Directory, Sound, RunIds
    <2>. QED  BY <2>1 DEF Snapshots
  <1>3. Sound(n)'
    BY <1>1, <1>2 DEF Sound, Selects, NoRun
  <1>. QED  BY <1>1, <1>3 DEF Directory, RunIds

\* A valid replacement that is not committed may have reached the disk or not.
LEMMA NotCommittedDirectory ==
  ASSUME Directory, NEW n \in Snapshots, NotCommitted(n), ValidSnapshot(n),
         n.generation = catalog.generation + 1,
         n.lastReserved >= catalog.lastReserved,
         Selects(n) \subseteq files, Selects(n) \subseteq syncedFiles,
         UNCHANGED <<full, created>>
  PROVE  /\ Directory' /\ catalog' \in {catalog, n} /\ catalog \in durable'
         /\ durable \subseteq durable' /\ durable' \subseteq durable \cup {n}
         /\ Fault
         /\ UNCHANGED <<files, syncedFiles, refused>>
  <1>1. /\ catalog' \in {catalog, n} /\ durable' \in {durable, durable \cup {n}} /\ catalog' \in durable'
        /\ Fault /\ UNCHANGED <<files, syncedFiles, refused>>
    BY DEF NotCommitted, CanReplace, Directory
  <1>2. \A run \in created : run <= n.lastReserved
    <2>1. catalog \in Snapshots /\ \A run \in created : run <= catalog.lastReserved /\ run \in Nat
      BY DEF Directory, Sound, RunIds
    <2>. QED  BY <2>1 DEF Snapshots
  <1>3. \A c \in durable' : Sound(c)'
    BY <1>1, <1>2 DEF Sound, Selects, NoRun, Directory
  <1>. QED  BY <1>1, <1>3 DEF Directory, RunIds

\* The snapshots that reserve an identifier, activate a run and end it.
Reserved(c) == [c EXCEPT !.generation = @ + 1, !.lastReserved = c.lastReserved + 1]
Activated(c, run) == [c EXCEPT !.generation = @ + 1, !.active = run, !.disposition = "OPEN"]
Ended(c, run) == [c EXCEPT !.generation = @ + 1, !.active = NoRun, !.disposition = "NONE", !.retained = run]

\* The fields of the snapshot that reserves an identifier.
LEMMA ReservedFields ==
  ASSUME NEW c \in Snapshots
  PROVE  /\ Reserved(c) \in Snapshots
         /\ Reserved(c).generation = c.generation + 1
         /\ Reserved(c).lastReserved = c.lastReserved + 1
         /\ Reserved(c).active = c.active
         /\ Reserved(c).disposition = c.disposition
         /\ Reserved(c).retained = c.retained
         /\ Selects(Reserved(c)) = Selects(c)
         /\ c = Missing \/ ValidSnapshot(c) => ValidSnapshot(Reserved(c))
  <1>. DEFINE following == [c EXCEPT !.generation = @ + 1]
              n == Reserved(c)
  <1>1. /\ n \in Snapshots
        /\ n.generation = c.generation + 1 /\ n.lastReserved = c.lastReserved + 1
        /\ n.active = c.active /\ n.disposition = c.disposition /\ n.retained = c.retained
    <2>1. /\ following \in Snapshots /\ following.generation = c.generation + 1
          /\ following.disposition = c.disposition /\ following.active = c.active
          /\ following.retained = c.retained
      BY DEF Snapshots
    <2>2. n = [following EXCEPT !.lastReserved = c.lastReserved + 1]
      BY DEF Reserved
    <2>3. c.lastReserved + 1 \in Nat
      BY DEF Snapshots
    <2>. HIDE DEF following, n
    <2>. QED  BY <2>1, <2>2, <2>3 DEF Snapshots
  <1>2. c.generation \in Nat /\ c.lastReserved \in Nat /\ c.active \in Nat /\ c.retained \in Nat
    BY DEF Snapshots
  <1>3. Missing.active = 0 /\ Missing.disposition = "NONE" /\ Missing.retained = 0
    BY DEF Missing, NoRun
  <1>. QED  BY <1>1, <1>2, <1>3 DEF Selects, ValidSnapshot, NoRun

\* The fields of the snapshot that activates a run.
LEMMA ActivatedFields ==
  ASSUME NEW c \in Snapshots, NEW run \in Nat
  PROVE  /\ Activated(c, run) \in Snapshots
         /\ Activated(c, run).generation = c.generation + 1
         /\ Activated(c, run).lastReserved = c.lastReserved
         /\ Activated(c, run).active = run
         /\ Activated(c, run).disposition = "OPEN"
         /\ Activated(c, run).retained = c.retained
         /\ (c = Missing \/ ValidSnapshot(c)) /\ run # NoRun /\ run # c.retained /\ run <= c.lastReserved
              => ValidSnapshot(Activated(c, run))
  <1>. DEFINE following == [c EXCEPT !.generation = @ + 1]
              active == [following EXCEPT !.active = run]
              n == Activated(c, run)
  <1>1. /\ n \in Snapshots
        /\ n.generation = c.generation + 1 /\ n.lastReserved = c.lastReserved
        /\ n.active = run /\ n.disposition = "OPEN" /\ n.retained = c.retained
    <2>1. /\ following \in Snapshots /\ following.generation = c.generation + 1
          /\ following.lastReserved = c.lastReserved /\ following.retained = c.retained
      BY DEF Snapshots
    <2>2. n = [active EXCEPT !.disposition = "OPEN"]
      BY DEF Activated
    <2>. HIDE DEF following, n
    <2>3. /\ active \in Snapshots /\ active.generation = c.generation + 1 /\ active.active = run
          /\ active.lastReserved = c.lastReserved /\ active.retained = c.retained
      BY <2>1 DEF Snapshots
    <2>. HIDE DEF active
    <2>. QED  BY <2>2, <2>3 DEF Snapshots, Dispositions
  <1>2. c.generation \in Nat /\ c.lastReserved \in Nat /\ c.retained \in Nat
    BY DEF Snapshots
  <1>3. Missing.retained = 0 /\ Missing.lastReserved = 0
    BY DEF Missing, NoRun
  <1>. QED  BY <1>1, <1>2, <1>3 DEF ValidSnapshot, NoRun

\* The fields of the snapshot that ends a run.
LEMMA EndedFields ==
  ASSUME NEW c \in Snapshots, NEW run \in Nat
  PROVE  /\ Ended(c, run) \in Snapshots
         /\ Ended(c, run).generation = c.generation + 1
         /\ Ended(c, run).lastReserved = c.lastReserved
         /\ Ended(c, run).active = NoRun
         /\ Ended(c, run).disposition = "NONE"
         /\ Ended(c, run).retained = run
         /\ run <= c.lastReserved => ValidSnapshot(Ended(c, run))
  <1>. DEFINE following == [c EXCEPT !.generation = @ + 1]
              inactive == [following EXCEPT !.active = NoRun]
              ended == [inactive EXCEPT !.disposition = "NONE"]
              n == Ended(c, run)
  <1>1. /\ n \in Snapshots
        /\ n.generation = c.generation + 1 /\ n.lastReserved = c.lastReserved
        /\ n.active = NoRun /\ n.disposition = "NONE" /\ n.retained = run
    <2>1. /\ following \in Snapshots /\ following.generation = c.generation + 1
          /\ following.lastReserved = c.lastReserved
      BY DEF Snapshots
    <2>2. n = [ended EXCEPT !.retained = run]
      BY DEF Ended
    <2>. HIDE DEF following, n
    <2>3. /\ inactive \in Snapshots /\ inactive.generation = c.generation + 1 /\ inactive.active = NoRun
          /\ inactive.lastReserved = c.lastReserved
      BY <2>1 DEF Snapshots, NoRun
    <2>. HIDE DEF inactive
    <2>4. /\ ended \in Snapshots /\ ended.generation = c.generation + 1 /\ ended.active = NoRun
          /\ ended.lastReserved = c.lastReserved /\ ended.disposition = "NONE"
      BY <2>3 DEF Snapshots
    <2>. HIDE DEF ended
    <2>. QED  BY <2>2, <2>4 DEF Snapshots
  <1>2. c.generation \in Nat /\ c.lastReserved \in Nat
    BY DEF Snapshots
  <1>. QED  BY <1>1, <1>2 DEF ValidSnapshot, NoRun

\* What the invariant says of the catalog, as one of the durable snapshots.
LEMMA CatalogFacts ==
  ASSUME IInv
  PROVE  /\ catalog \in Snapshots /\ catalog \in durable
         /\ catalog = Missing \/ ValidSnapshot(catalog)
         /\ Selects(catalog) \subseteq files /\ Selects(catalog) \subseteq syncedFiles
         /\ \A run \in created : run <= catalog.lastReserved /\ run \in Nat /\ run \in RunIds
         /\ catalog.generation \in Nat /\ catalog.lastReserved \in Nat
         /\ catalog.active \in created \cup {NoRun} /\ catalog.retained \in created \cup {NoRun}
         /\ (catalog.active # NoRun) = (catalog.disposition # "NONE")
  <1>1. Directory /\ Sound(catalog)
    BY DEF IInv, Directory
  <1>2. Missing.active = NoRun /\ Missing.disposition = "NONE"
    BY DEF Missing
  <1>. QED  BY <1>1, <1>2 DEF Directory, Sound, RunIds, Selects, Snapshots, ValidSnapshot

-----------------------------------------------------------------------------
(* One lemma per action.                                                   *)

\* A reserved identifier is above that of every journal there ever was.
LEMMA ReserveRunIdPreserves ==
  ASSUME IInv, ReserveRunId
  PROVE  IInv'
  <1>. DEFINE next == [catalog EXCEPT !.generation = @ + 1, !.lastReserved = NextRunId]
  <1>1. /\ pc = "idle" /\ owned = NoRun /\ catalog.active = NoRun /\ NextRunId \in RunIds
        /\ \/ Committed(next) /\ pc' = "reserved" /\ runId' = NextRunId
           \/ NotCommitted(next) /\ UNCHANGED <<pc, runId>>
        /\ UNCHANGED <<full, controllerVars, snapshot, replaced, historyVars>>
    BY DEF ReserveRunId, MayStartNewRun
  <1>2. /\ next \in Snapshots /\ ValidSnapshot(next) /\ Selects(next) = Selects(catalog)
        /\ next.generation = catalog.generation + 1 /\ next.lastReserved = NextRunId
        /\ NextRunId = catalog.lastReserved + 1
        /\ next.active = NoRun /\ next.disposition = catalog.disposition /\ next.retained = catalog.retained
    <2>1. next = Reserved(catalog)
      BY DEF NextRunId, Reserved
    <2>. HIDE DEF next
    <2>. QED  BY <1>1, <2>1, CatalogFacts, ReservedFields DEF NextRunId
  <1>. HIDE DEF next
  <1>3. UNCHANGED <<full, created>> /\ catalog.lastReserved \in Nat
        /\ next.lastReserved >= catalog.lastReserved /\ Directory
    BY <1>1, <1>2, CatalogFacts DEF historyVars, IInv
  <1>4. CASE Committed(next) /\ pc' = "reserved" /\ runId' = NextRunId
    <2>1. /\ Directory' /\ catalog' = next /\ durable' = {next}
          /\ UNCHANGED <<files, refused, faults>>
      BY <1>2, <1>3, <1>4, CatalogFacts, CommittedDirectory
    <2>2. Reports'
      BY <1>1, <1>2, <2>1, CatalogFacts DEF IInv, Reports, historyVars, NoRun, RunIds
    <2>3. Controller' /\ Vouched' /\ StuckIsSafe'
      BY <1>1 DEF IInv, Controller, Vouched, StuckIsSafe, Stuck, Vouching, controllerVars, historyVars
    <2>4. View'
      BY <1>1, <1>2, <2>1 DEF IInv, View, Stuck, controllerVars, historyVars
    <2>5. Locals'
      BY <1>1, <1>2, <1>4, <2>1 DEF IInv, Locals, RunIds, NoRun, historyVars
    <2>6. Starting'
      BY <1>1, <1>2, <1>4, <2>1, CatalogFacts DEF Starting, controllerVars, historyVars
    <2>7. Stopping'
      BY <1>4 DEF Stopping
    <2>. QED  BY <2>1, <2>2, <2>3, <2>4, <2>5, <2>6, <2>7 DEF IInv
  <1>5. CASE NotCommitted(next) /\ UNCHANGED <<pc, runId>>
    <2>1. /\ Directory' /\ catalog' \in {catalog, next}
          /\ durable' \subseteq durable \cup {next} /\ Fault
          /\ UNCHANGED <<files, syncedFiles, refused>>
      BY <1>2, <1>3, <1>5, CatalogFacts, NotCommittedDirectory
    <2>2. Reports'
      BY <1>1, <1>2, <2>1, CatalogFacts DEF IInv, Reports, historyVars, NoRun, RunIds
    <2>3. Controller' /\ Vouched' /\ StuckIsSafe'
      BY <1>1 DEF IInv, Controller, Vouched, StuckIsSafe, Stuck, Vouching, controllerVars, historyVars
    <2>4. View'
      BY <1>1, <1>2, <2>1 DEF IInv, View, Stuck, controllerVars, historyVars
    <2>5. Locals'
      BY <1>1, <1>5, <2>1, LifecycleAssumption DEF IInv, Locals, Fault, historyVars
    <2>6. Starting' /\ Stopping'
      BY <1>1, <1>5 DEF Starting, Stopping
    <2>. QED  BY <2>1, <2>2, <2>3, <2>4, <2>5, <2>6 DEF IInv
  <1>. QED  BY <1>1, <1>4, <1>5

\* A journal is created under an identifier that no snapshot selects.
LEMMA CreateJournalPreserves ==
  ASSUME IInv, CreateJournal
  PROVE  IInv'
  <1>1. /\ pc = "reserved" /\ owned = NoRun /\ runId \in RunIds /\ runId # NoRun /\ runId \notin created
        /\ \A c \in durable : c.lastReserved = runId /\ c.active = NoRun
    BY DEF CreateJournal, IInv, Starting, Locals
  <1>2. UNCHANGED <<catalog, full, controllerVars, snapshot, replaced, reported, refused>>
    BY DEF CreateJournal
  <1>3. /\ files' \in {files, files \cup {runId}} /\ created' \in {created, created \cup {runId}}
        /\ files \subseteq created /\ syncedFiles \subseteq created
        /\ files' \subseteq created' /\ syncedFiles' \in {syncedFiles, files'} /\ durable' \in {durable, {catalog}}
        /\ faults' \in 0..MaxFaults
    BY LifecycleAssumption DEF CreateJournal, JournalCreated, JournalNotCreated, Fault, IInv, Directory, Locals
  <1>4. \A c \in durable' : c \in durable /\ Sound(c)
    BY <1>3 DEF IInv, Directory
  <1>5. \A c \in durable' : Sound(c)'
    <2>. SUFFICES ASSUME NEW c \in durable' PROVE Sound(c)'
      OBVIOUS
    <2>1. Sound(c) /\ c \in durable /\ c.lastReserved = runId /\ runId \in Nat
      BY <1>1, <1>4 DEF RunIds
    <2>2. \A run \in created' : run <= c.lastReserved
      BY <1>3, <2>1 DEF Sound
    <2>3. Selects(c) \subseteq files' /\ Selects(c) \subseteq syncedFiles'
      BY <1>3, <2>1 DEF Sound
    <2>. QED  BY <2>1, <2>2, <2>3 DEF Sound
  <1>6. Directory'
    BY <1>1, <1>2, <1>3, <1>5 DEF IInv, Directory, RunIds
  <1>7. Reports'
    BY <1>2, <1>3, <1>4 DEF IInv, Reports
  <1>8. Controller' /\ Vouched' /\ StuckIsSafe'
    BY <1>1, <1>2, <1>3 DEF IInv, Controller, Vouched, StuckIsSafe, Stuck, Vouching, controllerVars
  <1>9. View'
    BY <1>1, <1>2, <1>3 DEF IInv, View, Stuck, controllerVars
  <1>10. CASE JournalCreated /\ pc' = "created" /\ UNCHANGED runId
    <2>1. Locals'
      BY <1>1, <1>2, <1>3, <1>10 DEF IInv, Locals
    <2>2. \A c \in durable' : c.retained # runId
      BY <1>1, <1>3, <1>4 DEF Sound, Selects
    <2>3. \A r \in reported' : r.run # runId
      BY <1>1, <1>2 DEF IInv, Reports
    <2>4. Starting' /\ Stopping'
      BY <1>1, <1>2, <1>4, <1>10, <2>2, <2>3 DEF Starting, Stopping, JournalCreated, controllerVars
    <2>. QED  BY <1>2, <1>6, <1>7, <1>8, <1>9, <2>1, <2>4 DEF IInv
  <1>11. CASE JournalNotCreated /\ pc' = "idle" /\ runId' = NoRun
    <2>1. Locals'
      BY <1>1, <1>2, <1>3, <1>11 DEF IInv, Locals, NoRun, RunIds
    <2>2. Starting' /\ Stopping'
      BY <1>11 DEF Starting, Stopping
    <2>. QED  BY <1>2, <1>6, <1>7, <1>8, <1>9, <2>1, <2>2 DEF IInv
  <1>. QED  BY <1>10, <1>11 DEF CreateJournal

\* A run is activated when its journal is durable and nothing was reported of it.
LEMMA ActivatePreserves ==
  ASSUME IInv, Activate
  PROVE  IInv'
  <1>. DEFINE next == [catalog EXCEPT !.generation = @ + 1, !.active = runId, !.disposition = "OPEN"]
  <1>1. /\ pc = "created" /\ owned = NoRun /\ runId \in RunIds /\ runId # NoRun /\ runId \in Nat
        /\ runId \in files /\ runId \in syncedFiles /\ runId \in created
        /\ \A c \in durable : c.lastReserved = runId /\ c.active = NoRun /\ c.retained # runId
        /\ \A r \in reported : r.run # runId
        /\ state \notin Vouching /\ ~installed
    BY DEF Activate, IInv, Starting, Locals, Directory, RunIds, Controller
  <1>2. /\ pc' = "idle" /\ runId' = NoRun
        /\ UNCHANGED <<full, installed, capacityTransitionPending, view, snapshot, replaced, created>>
    BY DEF Activate
  <1>3. /\ next \in Snapshots /\ ValidSnapshot(next)
        /\ next.generation = catalog.generation + 1 /\ next.lastReserved = catalog.lastReserved
        /\ next.active = runId /\ next.disposition = "OPEN" /\ next.retained = catalog.retained
    <2>1. next = Activated(catalog, runId)
      BY DEF Activated
    <2>2. catalog.lastReserved = runId /\ catalog.retained # runId
      BY <1>1, CatalogFacts
    <2>. HIDE DEF next
    <2>. QED  BY <1>1, <2>1, <2>2, CatalogFacts, ActivatedFields
  <1>4. \/ Committed(next) /\ state' = "READY" /\ owned' = runId /\ Report("READY", runId)
        \/ NotCommitted(next) /\ UNCHANGED <<state, owned, reported>>
        \/ UNCHANGED <<directoryVars, refused, state, owned, reported>> /\ (UNCHANGED faults \/ Fault)
    BY DEF Activate
  <1>. HIDE DEF next
  <1>5. /\ Selects(next) \subseteq files /\ Selects(next) \subseteq syncedFiles /\ Directory
        /\ next.lastReserved >= catalog.lastReserved /\ UNCHANGED <<full, created>>
    BY <1>1, <1>2, <1>3, CatalogFacts DEF Selects, IInv
  <1>6. Starting' /\ Stopping'
    BY <1>2 DEF Starting, Stopping
  <1>7. CASE Committed(next) /\ state' = "READY" /\ owned' = runId /\ Report("READY", runId)
    <2>1. /\ Directory' /\ catalog' = next /\ durable' = {next} /\ UNCHANGED <<files, refused, faults>>
      BY <1>3, <1>5, <1>7, CommittedDirectory
    <2>2. Reports'
      BY <1>1, <1>2, <1>3, <1>7, <2>1 DEF IInv, Reports, Report
    <2>3. Controller' /\ Vouched' /\ StuckIsSafe'
      BY <1>1, <1>2, <1>3, <1>7, <2>1 DEF IInv, Controller, Vouched, StuckIsSafe, Stuck, Vouching, States
    <2>4. View'
      BY <1>1, <1>2, <1>3, <2>1 DEF IInv, View, Stuck
    <2>5. Locals'
      BY <1>1, <1>2, <2>1 DEF IInv, Locals, RunIds, NoRun
    <2>. QED  BY <1>6, <2>1, <2>2, <2>3, <2>4, <2>5 DEF IInv
  <1>8. CASE NotCommitted(next) /\ UNCHANGED <<state, owned, reported>>
    <2>1. /\ Directory' /\ catalog' \in {catalog, next} /\ durable' \subseteq durable \cup {next}
          /\ Fault /\ UNCHANGED <<files, syncedFiles, refused>>
      BY <1>3, <1>5, <1>8, NotCommittedDirectory
    <2>2. Reports'
      BY <1>1, <1>2, <1>3, <1>8, <2>1 DEF IInv, Reports
    <2>3. Controller' /\ Vouched' /\ StuckIsSafe'
      BY <1>1, <1>2, <1>8 DEF IInv, Controller, Vouched, StuckIsSafe, Stuck, Vouching
    <2>4. View'
      BY <1>1, <1>2, <1>3, <1>8, <2>1 DEF IInv, View, Stuck
    <2>5. Locals'
      BY <1>1, <1>2, <2>1, LifecycleAssumption DEF IInv, Locals, RunIds, NoRun, Fault
    <2>. QED  BY <1>6, <2>1, <2>2, <2>3, <2>4, <2>5 DEF IInv
  <1>9. CASE UNCHANGED <<directoryVars, refused, state, owned, reported>> /\ (UNCHANGED faults \/ Fault)
    <2>1. Directory' /\ Reports' /\ Controller' /\ Vouched' /\ StuckIsSafe' /\ View'
      BY <1>2, <1>9 DEF IInv, Directory, Sound, Selects, Reports, Controller, Vouched, StuckIsSafe, Stuck, View, directoryVars
    <2>2. Locals'
      BY <1>1, <1>2, <1>9, LifecycleAssumption DEF IInv, Locals, RunIds, NoRun, Fault
    <2>. QED  BY <1>6, <1>9, <2>1, <2>2 DEF IInv
  <1>. QED  BY <1>4, <1>7, <1>8, <1>9

\* A controller that gives up its run, with the catalog of an active run kept
\* or replaced by one that differs in the disposition.
LEMMA RelinquishPreserves ==
  ASSUME IInv, pc = "idle", ~Stuck,
         owned' = NoRun, installed' = FALSE, capacityTransitionPending' = FALSE,
         state' \in {"UNAVAILABLE", "RECOVERY_FAILED"},
         Directory', faults' \in 0..MaxFaults,
         catalog'.retained = catalog.retained,
         \A c \in durable' : c \in durable \/ (c.active = catalog.active /\ catalog.disposition # "CAPACITY_REACHED"),
         UNCHANGED <<full, view, operationVars, created, reported, refused>>
  PROVE  IInv'
  <1>1. Reports'
    BY CatalogFacts DEF IInv, Reports
  <1>2. Controller' /\ Vouched' /\ StuckIsSafe'
    BY DEF Controller, Vouched, StuckIsSafe, Stuck, Vouching, States
  <1>3. View'
    BY DEF IInv, View
  <1>4. Locals'
    BY DEF IInv, Locals, operationVars
  <1>5. Starting' /\ Stopping'
    BY DEF Starting, Stopping, operationVars
  <1>. QED  BY <1>1, <1>2, <1>3, <1>4, <1>5 DEF IInv

\* A recovered run is owned as PAUSED, or not at all.
LEMMA PublishRecoveredPreserves ==
  ASSUME IInv, pc = "idle", ~Stuck, Released = NoRun, PublishRecovered,
         catalog.active # NoRun, catalog.disposition # "CAPACITY_REACHED",
         installed' = FALSE, capacityTransitionPending' = FALSE,
         UNCHANGED <<full, view, operationVars, created>>
  PROVE  IInv'
  <1>. DEFINE next == WithDisposition(catalog, "PAUSED")
  <1>1. /\ next \in Snapshots /\ ValidSnapshot(next) /\ Selects(next) = Selects(catalog)
        /\ next.generation = catalog.generation + 1 /\ next.lastReserved = catalog.lastReserved
        /\ next.active = catalog.active /\ next.disposition = "PAUSED" /\ next.retained = catalog.retained
    BY CatalogFacts, WithDispositionFields DEF Dispositions
  <1>2. \/ Committed(next) /\ state' = "PAUSED" /\ owned' = catalog.active /\ Report("PAUSED", catalog.active)
        \/ NotCommitted(next) /\ state' = "UNAVAILABLE" /\ owned' = NoRun /\ UNCHANGED reported
    BY DEF PublishRecovered
  <1>. HIDE DEF next
  <1>3. Directory /\ next.lastReserved >= catalog.lastReserved /\ UNCHANGED <<full, created>>
    BY <1>1, CatalogFacts DEF IInv
  <1>4. CASE Committed(next) /\ state' = "PAUSED" /\ owned' = catalog.active /\ Report("PAUSED", catalog.active)
    <2>1. /\ Directory' /\ catalog' = next /\ durable' = {next} /\ UNCHANGED <<files, refused, faults>>
      BY <1>1, <1>3, <1>4, CatalogFacts, CommittedDirectory
    <2>2. Reports'
      BY <1>1, <1>4, <2>1, CatalogFacts DEF IInv, Reports, Report
    <2>3. Controller' /\ Vouched' /\ StuckIsSafe'
      BY <1>1, <1>4, <2>1, CatalogFacts DEF Controller, Vouched, StuckIsSafe, Stuck, Vouching, States
    <2>4. View'
      BY <1>1, <2>1 DEF IInv, View
    <2>5. Locals'
      BY <2>1 DEF IInv, Locals, operationVars
    <2>6. Starting' /\ Stopping'
      BY DEF Starting, Stopping, operationVars
    <2>. QED  BY <2>1, <2>2, <2>3, <2>4, <2>5, <2>6 DEF IInv
  <1>5. CASE NotCommitted(next) /\ state' = "UNAVAILABLE" /\ owned' = NoRun /\ UNCHANGED reported
    <2>1. /\ Directory' /\ catalog' \in {catalog, next} /\ durable' \subseteq durable \cup {next}
          /\ Fault /\ UNCHANGED refused
      BY <1>1, <1>3, <1>5, CatalogFacts, NotCommittedDirectory
    <2>2. faults' \in 0..MaxFaults
      BY <2>1, LifecycleAssumption DEF IInv, Locals, Fault
    <2>. QED  BY <1>1, <1>5, <2>1, <2>2, RelinquishPreserves
  <1>. QED  BY <1>2, <1>4, <1>5

\* A process that owns nothing starts with what the catalog selects.
LEMMA StartupExistingPreserves ==
  ASSUME IInv, StartupExisting
  PROVE  IInv'
  <1>1. /\ pc = "idle" /\ owned = NoRun /\ ~Stuck /\ Released = NoRun
        /\ installed' = FALSE /\ capacityTransitionPending' = FALSE
        /\ UNCHANGED <<full, view, operationVars, created>>
    BY DEF StartupExisting, IInv, Controller, Stuck, Released
  <1>2. CASE catalog.disposition \in {"OPEN", "PAUSED"} /\ PublishRecovered
    <2>1. catalog.active # NoRun /\ catalog.disposition # "CAPACITY_REACHED"
      BY <1>2, CatalogFacts
    <2>. QED  BY <1>1, <1>2, <2>1, PublishRecoveredPreserves
  <1>3. CASE /\ state' \in {"UNAVAILABLE", "RECOVERY_FAILED"} /\ (UNCHANGED faults \/ Fault)
             /\ UNCHANGED <<directoryVars, owned, reported, refused>>
    <2>1. Directory' /\ faults' \in 0..MaxFaults
      BY <1>1, <1>3, LifecycleAssumption DEF IInv, Directory, Sound, directoryVars, Locals, Fault
    <2>2. /\ owned' = NoRun /\ catalog'.retained = catalog.retained
          /\ UNCHANGED durable
          /\ state' \in {"UNAVAILABLE", "RECOVERY_FAILED"}
          /\ UNCHANGED <<full, view, operationVars, created, reported, refused>>
      BY <1>1, <1>3 DEF directoryVars
    <2>. QED  BY <1>1, <2>1, <2>2, RelinquishPreserves
  <1>. QED  BY <1>2, <1>3 DEF StartupExisting

\* A run that failed is recovered from its journal; its old path is gone.
LEMMA RecoverFailedPreserves ==
  ASSUME IInv, RecoverFailed
  PROVE  IInv'
  <1>. DEFINE next == WithDisposition(catalog, "RECOVERY_FAILED")
  <1>1. /\ pc = "idle" /\ installed' = FALSE /\ capacityTransitionPending' = FALSE
        /\ catalog.disposition \in {"FAIL_STOPPED", "RECOVERY_FAILED"}
        /\ UNCHANGED <<full, view, operationVars, created>>
    BY DEF RecoverFailed
  <1>2. ~Stuck /\ Released = NoRun
    BY CatalogFacts DEF RecoverFailed, IInv, Controller, StuckIsSafe, Stuck, Released
  <1>3. /\ catalog.active # NoRun /\ catalog.disposition # "CAPACITY_REACHED"
    BY <1>1, CatalogFacts
  <1>4. /\ next \in Snapshots /\ ValidSnapshot(next) /\ Selects(next) = Selects(catalog)
        /\ next.generation = catalog.generation + 1 /\ next.lastReserved = catalog.lastReserved
        /\ next.active = catalog.active /\ next.retained = catalog.retained
    BY <1>3, CatalogFacts, WithDispositionFields DEF Dispositions
  <1>5. \/ PublishRecovered
        \/ /\ \/ UNCHANGED <<directoryVars, refused, faults>>
              \/ Committed(next)
              \/ NotCommitted(next)
           /\ state' \in {"UNAVAILABLE", "RECOVERY_FAILED"} /\ owned' = NoRun /\ UNCHANGED reported
    BY <1>2 DEF RecoverFailed
  <1>. HIDE DEF next
  <1>6. /\ Directory /\ next.lastReserved >= catalog.lastReserved /\ UNCHANGED <<full, created>>
        /\ faults \in 0..MaxFaults
    BY <1>1, <1>4, CatalogFacts DEF IInv, Locals
  <1>7. CASE PublishRecovered
    BY <1>1, <1>2, <1>3, <1>7, PublishRecoveredPreserves
  <1>8. CASE state' \in {"UNAVAILABLE", "RECOVERY_FAILED"} /\ owned' = NoRun /\ UNCHANGED reported
    <2>1. CASE UNCHANGED <<directoryVars, refused, faults>>
      <3>1. Directory'
        BY <1>1, <2>1 DEF IInv, Directory, Sound, directoryVars
      <3>. QED  BY <1>1, <1>2, <1>6, <1>8, <2>1, <3>1, RelinquishPreserves DEF directoryVars
    <2>2. CASE Committed(next)
      <3>1. /\ Directory' /\ catalog' = next /\ durable' = {next} /\ UNCHANGED <<refused, faults>>
        BY <1>4, <1>6, <2>2, CatalogFacts, CommittedDirectory
      <3>. QED  BY <1>1, <1>2, <1>3, <1>4, <1>6, <1>8, <3>1, RelinquishPreserves
    <2>3. CASE NotCommitted(next)
      <3>1. /\ Directory' /\ catalog' \in {catalog, next} /\ durable' \subseteq durable \cup {next}
            /\ Fault /\ UNCHANGED refused
        BY <1>4, <1>6, <2>3, CatalogFacts, NotCommittedDirectory
      <3>2. faults' \in 0..MaxFaults
        BY <1>6, <3>1, LifecycleAssumption DEF Fault
      <3>. QED  BY <1>1, <1>2, <1>3, <1>4, <1>8, <3>1, <3>2, RelinquishPreserves
    <2>. QED  BY <1>3, <1>5, <1>7, <1>8, <2>1, <2>2, <2>3
  <1>. QED  BY <1>5, <1>7, <1>8

\* Between operations there are no locals.
LEMMA IdleLocals ==
  ASSUME pc' = "idle", runId' = NoRun, snapshot' = Missing, replaced' = NoRun,
         refused' = FALSE, faults' \in 0..MaxFaults
  PROVE  Locals' /\ Starting' /\ Stopping'
  <1>1. Missing \in Snapshots
    BY DEF Missing, Snapshots, NoRun
  <1>2. Locals'
    <2>1. (runId' # NoRun) = (pc' \in {"reserved", "created"})
      OBVIOUS
    <2>2. snapshot' \in Snapshots /\ (snapshot' # Missing) = (pc' \in {"stopPausing", "stopPublishing"})
      BY <1>1
    <2>3. refused' \in BOOLEAN
      OBVIOUS
    <2>. QED  BY <2>1, <2>2, <2>3 DEF Locals
  <1>3. Starting' /\ Stopping'
    BY DEF Starting, Stopping
  <1>. QED  BY <1>2, <1>3

\* The locals of an operation that is not running.
LEMMA IdleFacts ==
  ASSUME IInv, pc = "idle"
  PROVE  runId = NoRun /\ snapshot = Missing /\ replaced = NoRun /\ refused = FALSE /\ faults \in 0..MaxFaults
  BY DEF IInv, Locals

\* A processing path is installed over an owned run.
LEMMA InstallPreserves ==
  ASSUME IInv, Install
  PROVE  IInv'
  <1>1. Directory' /\ Reports' /\ Controller' /\ Vouched' /\ View'
    BY DEF Install, IInv, Directory, Sound, Reports, Controller, Vouched, View, Stuck, directoryVars, historyVars
  <1>2. StuckIsSafe'
    BY DEF Install, StuckIsSafe, Stuck
  <1>3. Locals' /\ Starting' /\ Stopping' /\ ~refused'
    BY IdleFacts, IdleLocals DEF Install, operationVars, IInv
  <1>. QED  BY <1>1, <1>2, <1>3 DEF IInv

\* Reaching the capacity of a journal changes nothing in the directory.
LEMMA ReachCapacityPreserves ==
  ASSUME IInv, ReachCapacity
  PROVE  IInv'
  <1>1. full' \subseteq created
    BY DEF ReachCapacity, IInv, Directory, Controller, Vouching
  <1>2. Directory' /\ Reports' /\ Controller' /\ Vouched' /\ View'
    BY <1>1 DEF ReachCapacity, IInv, Directory, Sound, Reports, Controller, Vouched, View, Stuck, directoryVars, historyVars
  <1>3. StuckIsSafe'
    BY DEF ReachCapacity, StuckIsSafe, Stuck
  <1>4. Locals' /\ Starting' /\ Stopping' /\ ~refused'
    BY IdleFacts, IdleLocals DEF ReachCapacity, operationVars, IInv
  <1>. QED  BY <1>2, <1>3, <1>4 DEF IInv

\* A running run is replaced in the catalog by what it becomes, or the
\* controller no longer vouches for it.
LEMMA PublishOwnedPreserves ==
  ASSUME IInv, state = "READY", installed,
         NEW d \in {"PAUSED", "CAPACITY_REACHED", "FAIL_STOPPED"}, PublishOwned(d),
         UNCHANGED <<full, capacityTransitionPending, created>>
  PROVE  /\ Directory' /\ Reports' /\ Controller' /\ Vouched' /\ StuckIsSafe' /\ View'
         /\ refused' = FALSE /\ faults' \in 0..MaxFaults
         /\ UNCHANGED installed
         /\ \/ state' = d /\ catalog' = WithDisposition(catalog, d) /\ durable' = {catalog'}
            \/ state' = "UNAVAILABLE"
  <1>. DEFINE next == WithDisposition(catalog, d)
  <1>1. /\ \A c \in durable : c.active = owned /\ c.disposition = "OPEN"
        /\ catalog.active = owned /\ catalog.disposition = "OPEN" /\ owned # NoRun
        /\ refused = FALSE /\ faults \in 0..MaxFaults
    BY CatalogFacts DEF IInv, Vouched, Vouching, Controller, Locals
  <1>2. /\ next \in Snapshots /\ ValidSnapshot(next) /\ Selects(next) = Selects(catalog)
        /\ next.generation = catalog.generation + 1 /\ next.lastReserved = catalog.lastReserved
        /\ next.active = owned /\ next.disposition = d /\ next.retained = catalog.retained
    BY <1>1, CatalogFacts, WithDispositionFields DEF Dispositions
  <1>3. /\ UNCHANGED <<owned, installed, view>>
        /\ \/ Committed(next) /\ state' = d /\ Report(d, owned)
           \/ NotCommitted(next) /\ state' = "UNAVAILABLE" /\ UNCHANGED reported
    BY <1>1 DEF PublishOwned, Becomes
  <1>. HIDE DEF next
  <1>4. Directory /\ next.lastReserved >= catalog.lastReserved
    BY <1>2, CatalogFacts DEF IInv
  <1>5. CASE Committed(next) /\ state' = d /\ Report(d, owned)
    <2>1. /\ Directory' /\ catalog' = next /\ durable' = {next} /\ UNCHANGED <<refused, faults>>
      BY <1>2, <1>4, <1>5, CatalogFacts, CommittedDirectory
    <2>2. Reports'
      BY <1>1, <1>2, <1>5, <2>1, CatalogFacts DEF IInv, Reports, Report
    <2>3. Controller'
      BY <1>1, <1>3, <1>5 DEF IInv, Controller, Vouching, States
    <2>4. Vouched' /\ StuckIsSafe'
      BY <1>2, <1>3, <1>5, <2>1 DEF Vouched, Vouching, StuckIsSafe, Stuck
    <2>5. View'
      BY <1>2, <1>3, <2>1 DEF IInv, View, Stuck
    <2>. QED  BY <1>1, <1>3, <1>5, <2>1, <2>2, <2>3, <2>4, <2>5 DEF next
  <1>6. CASE NotCommitted(next) /\ state' = "UNAVAILABLE" /\ UNCHANGED reported
    <2>1. /\ Directory' /\ catalog' \in {catalog, next} /\ durable' \subseteq durable \cup {next}
          /\ Fault /\ UNCHANGED refused
      BY <1>2, <1>4, <1>6, CatalogFacts, NotCommittedDirectory
    <2>2. Reports'
      BY <1>1, <1>2, <1>6, <2>1, CatalogFacts DEF IInv, Reports
    <2>3. Controller' /\ Vouched' /\ StuckIsSafe'
      BY <1>1, <1>3, <1>6 DEF IInv, Controller, Vouched, Vouching, States, StuckIsSafe, Stuck
    <2>4. View'
      BY <1>2, <1>3, <2>1 DEF IInv, View, Stuck
    <2>5. faults' \in 0..MaxFaults
      BY <1>1, <2>1, LifecycleAssumption DEF Fault
    <2>. QED  BY <1>1, <1>3, <1>6, <2>1, <2>2, <2>3, <2>4, <2>5
  <1>. QED  BY <1>3, <1>5, <1>6

\* Publication of CAPACITY_REACHED for the owned run.
LEMMA PublishCapacityReachedPreserves ==
  ASSUME IInv, PublishCapacityReached
  PROVE  IInv'
  <1>1. /\ pc = "idle" /\ state = "READY" /\ installed /\ PublishOwned("CAPACITY_REACHED")
        /\ UNCHANGED <<full, capacityTransitionPending, operationVars, created>>
    BY DEF PublishCapacityReached
  <1>2. /\ Directory' /\ Reports' /\ Controller' /\ Vouched' /\ StuckIsSafe' /\ View'
        /\ refused' = FALSE /\ faults' \in 0..MaxFaults
    BY <1>1, PublishOwnedPreserves
  <1>3. Locals' /\ Starting' /\ Stopping'
    BY <1>1, <1>2, IdleFacts, IdleLocals DEF operationVars
  <1>. QED  BY <1>2, <1>3 DEF IInv

\* Fail-stop, also in the middle of a stop, publishes for the owned run.
LEMMA FailStopPreserves ==
  ASSUME IInv, FailStop
  PROVE  IInv'
  <1>1. /\ pc \in {"idle", "stopPausing"} /\ state = "READY" /\ installed /\ PublishOwned("FAIL_STOPPED")
        /\ pc' = "idle" /\ snapshot' = Missing /\ replaced' = NoRun
        /\ UNCHANGED <<full, capacityTransitionPending, runId, created>>
    BY DEF FailStop
  <1>2. /\ Directory' /\ Reports' /\ Controller' /\ Vouched' /\ StuckIsSafe' /\ View'
        /\ refused' = FALSE /\ faults' \in 0..MaxFaults
    BY <1>1, PublishOwnedPreserves
  <1>3. runId' = NoRun
    BY <1>1 DEF IInv, Locals
  <1>4. Locals' /\ Starting' /\ Stopping'
    BY <1>1, <1>2, <1>3, IdleLocals
  <1>. QED  BY <1>2, <1>4 DEF IInv

\* Publication of PAUSED for the owned run.
LEMMA PausePreserves ==
  ASSUME IInv, Pause
  PROVE  IInv'
  <1>1. /\ pc = "idle" /\ state = "READY" /\ installed /\ PublishOwned("PAUSED")
        /\ UNCHANGED <<full, capacityTransitionPending, operationVars, created>>
    BY DEF Pause
  <1>2. /\ Directory' /\ Reports' /\ Controller' /\ Vouched' /\ StuckIsSafe' /\ View'
        /\ refused' = FALSE /\ faults' \in 0..MaxFaults
    BY <1>1, PublishOwnedPreserves
  <1>3. Locals' /\ Starting' /\ Stopping'
    BY <1>1, <1>2, IdleFacts, IdleLocals DEF operationVars
  <1>. QED  BY <1>2, <1>3 DEF IInv

\* A resumption that is uncertain leaves the run paused.
LEMMA ResumePreserves ==
  ASSUME IInv, Resume
  PROVE  IInv'
  <1>. DEFINE next == WithDisposition(catalog, "OPEN")
  <1>1. /\ pc = "idle" /\ state = "PAUSED" /\ catalog.active = owned /\ catalog.disposition = "PAUSED"
        /\ owned # NoRun /\ \A c \in durable : c.active = owned /\ c.disposition \in {"PAUSED", "OPEN"}
    BY DEF Resume, IInv, Controller, Vouched, Vouching
  <1>2. /\ next \in Snapshots /\ ValidSnapshot(next) /\ Selects(next) = Selects(catalog)
        /\ next.generation = catalog.generation + 1 /\ next.lastReserved = catalog.lastReserved
        /\ next.active = owned /\ next.disposition = "OPEN" /\ next.retained = catalog.retained
    BY <1>1, CatalogFacts, WithDispositionFields DEF Dispositions
  <1>3. /\ UNCHANGED <<owned, installed, view, full, capacityTransitionPending, operationVars, created>>
        /\ \/ Committed(next) /\ state' = "READY" /\ Report("READY", owned)
           \/ NotCommitted(next) /\ state' = "PAUSED" /\ UNCHANGED reported
    BY DEF Resume, Becomes
  <1>. HIDE DEF next
  <1>4. Directory /\ next.lastReserved >= catalog.lastReserved /\ UNCHANGED <<full, created>>
    BY <1>2, <1>3, CatalogFacts DEF IInv
  <1>5. CASE Committed(next) /\ state' = "READY" /\ Report("READY", owned)
    <2>1. /\ Directory' /\ catalog' = next /\ durable' = {next} /\ UNCHANGED <<refused, faults>>
      BY <1>2, <1>4, <1>5, CatalogFacts, CommittedDirectory
    <2>2. Reports'
      BY <1>1, <1>2, <1>3, <1>5, <2>1, CatalogFacts DEF IInv, Reports, Report, Controller
    <2>3. Controller' /\ Vouched' /\ StuckIsSafe'
      BY <1>1, <1>2, <1>3, <1>5, <2>1 DEF IInv, Controller, Vouched, Vouching, States, StuckIsSafe, Stuck
    <2>4. View'
      BY <1>1, <1>2, <1>3, <2>1 DEF IInv, View, Stuck
    <2>5. Locals' /\ Starting' /\ Stopping'
      BY <1>1, <1>3, <2>1, IdleFacts, IdleLocals DEF operationVars
    <2>. QED  BY <2>1, <2>2, <2>3, <2>4, <2>5 DEF IInv
  <1>6. CASE NotCommitted(next) /\ state' = "PAUSED" /\ UNCHANGED reported
    <2>1. /\ Directory' /\ catalog' \in {catalog, next} /\ durable' \subseteq durable \cup {next}
          /\ Fault /\ UNCHANGED refused
      BY <1>2, <1>4, <1>6, CatalogFacts, NotCommittedDirectory
    <2>2. Reports'
      BY <1>1, <1>2, <1>3, <1>6, <2>1, CatalogFacts DEF IInv, Reports
    <2>3. Controller' /\ Vouched' /\ StuckIsSafe'
      BY <1>1, <1>2, <1>3, <1>6, <2>1 DEF IInv, Controller, Vouched, Vouching, States, StuckIsSafe, Stuck
    <2>4. View'
      BY <1>1, <1>2, <1>3, <2>1 DEF IInv, View, Stuck
    <2>5. faults' \in 0..MaxFaults
      BY <1>1, <2>1, IdleFacts, LifecycleAssumption DEF Fault
    <2>6. Locals' /\ Starting' /\ Stopping'
      BY <1>1, <1>3, <2>1, <2>5, IdleFacts, IdleLocals DEF operationVars
    <2>. QED  BY <2>1, <2>2, <2>3, <2>4, <2>6 DEF IInv
  <1>. QED  BY <1>3, <1>5, <1>6

\* A stop works on a copy of the catalog.
LEMMA BeginStopPreserves ==
  ASSUME IInv, NEW confirmation, BeginStop(confirmation)
  PROVE  IInv'
  <1>1. /\ pc = "idle" /\ state \in {"READY", "PAUSED", "CAPACITY_REACHED"} /\ catalog.active = owned
        /\ state = "READY" => installed
        /\ snapshot' = catalog /\ replaced' = catalog.retained
        /\ pc' = IF state = "READY" THEN "stopPausing" ELSE "stopPublishing"
        /\ UNCHANGED <<directoryVars, full, controllerVars, runId, historyVars, refused, faults>>
    BY DEF BeginStop, RequiredDisposition
  <1>2. Directory' /\ Reports' /\ Controller' /\ Vouched' /\ StuckIsSafe' /\ View'
    BY <1>1 DEF IInv, Directory, Sound, Reports, Controller, Vouched, View, Stuck, StuckIsSafe,
                directoryVars, controllerVars, historyVars
  <1>3. catalog # Missing
    BY <1>1 DEF IInv, Controller, Vouching, Missing
  <1>4. Locals'
    BY <1>1, <1>3, CatalogFacts DEF IInv, Locals, historyVars
  <1>5. Starting' /\ Stopping'
    BY <1>1 DEF Starting, Stopping, controllerVars, directoryVars
  <1>. QED  BY <1>1, <1>2, <1>4, <1>5 DEF IInv

\* The copy follows the pause that the stop publishes.
LEMMA StopPausesPreserves ==
  ASSUME IInv, StopPauses
  PROVE  IInv'
  <1>1. /\ pc = "stopPausing" /\ state = "READY" /\ installed /\ snapshot = catalog /\ replaced = catalog.retained
        /\ runId = NoRun /\ refused = FALSE /\ faults \in 0..MaxFaults
        /\ UNCHANGED <<full, capacityTransitionPending, runId, created>>
    BY DEF StopPauses, IInv, Stopping, Locals
  <1>2. CASE /\ PublishOwned("PAUSED")
             /\ IF state' = "PAUSED" THEN pc' = "stopPublishing" /\ snapshot' = PausedCopy(snapshot) /\ UNCHANGED replaced
                ELSE pc' = "idle" /\ snapshot' = Missing /\ replaced' = NoRun
    <2>1. /\ Directory' /\ Reports' /\ Controller' /\ Vouched' /\ StuckIsSafe' /\ View'
          /\ refused' = FALSE /\ faults' \in 0..MaxFaults
          /\ \/ state' = "PAUSED" /\ catalog' = WithDisposition(catalog, "PAUSED")
             \/ state' = "UNAVAILABLE"
      BY <1>1, <1>2, PublishOwnedPreserves
    <2>2. CASE state' = "PAUSED"
      <3>1. /\ catalog' = WithDisposition(catalog, "PAUSED") /\ catalog' \in Snapshots
            /\ catalog'.retained = catalog.retained /\ catalog'.active = owned /\ owned # NoRun
        BY <1>1, <2>1, <2>2, CatalogFacts, WithDispositionFields DEF Dispositions, IInv, Vouched, Controller, Vouching
      <3>2. pc' = "stopPublishing" /\ snapshot' = catalog' /\ UNCHANGED replaced
        BY <1>1, <1>2, <2>2, <3>1 DEF PausedCopy
      <3>3. snapshot' # Missing
        BY <3>1, <3>2 DEF Missing
      <3>4. refused' \in BOOLEAN
        BY <2>1
      <3>5. Locals'
        BY <1>1, <2>1, <3>1, <3>2, <3>3, <3>4, CatalogFacts DEF Locals
      <3>6. Starting' /\ Stopping'
        BY <1>1, <2>2, <3>1, <3>2 DEF Starting, Stopping
      <3>. QED  BY <2>1, <3>5, <3>6 DEF IInv
    <2>3. CASE state' = "UNAVAILABLE"
      <3>1. Locals' /\ Starting' /\ Stopping'
        BY <1>1, <1>2, <2>1, <2>3, IdleLocals
      <3>. QED  BY <2>1, <3>1 DEF IInv
    <2>. QED  BY <2>1, <2>2, <2>3
  <1>3. CASE /\ pc' = "idle" /\ snapshot' = Missing /\ replaced' = NoRun
             /\ UNCHANGED <<directoryVars, state, owned, installed, view, reported, refused, faults>>
    <2>1. Directory' /\ Reports' /\ Controller' /\ Vouched' /\ StuckIsSafe' /\ View'
      BY <1>1, <1>3 DEF IInv, Directory, Sound, Reports, Controller, Vouched, View, Stuck, StuckIsSafe, directoryVars
    <2>2. Locals' /\ Starting' /\ Stopping'
      BY <1>1, <1>3, IdleLocals
    <2>. QED  BY <1>1, <1>3, <2>1, <2>2 DEF IInv
  <1>. QED  BY <1>2, <1>3 DEF StopPauses

\* The snapshot that ends a run retains it and drops the one it replaces.
LEMMA StopPublishesPreserves ==
  ASSUME IInv, StopPublishes
  PROVE  IInv'
  <1>. DEFINE next == [snapshot EXCEPT !.generation = @ + 1, !.active = NoRun, !.disposition = "NONE", !.retained = owned]
  <1>1. /\ pc = "stopPublishing" /\ state \in {"PAUSED", "CAPACITY_REACHED"}
        /\ snapshot = catalog /\ replaced = catalog.retained
        /\ runId = NoRun /\ refused = FALSE /\ faults \in 0..MaxFaults
        /\ snapshot' = Missing /\ UNCHANGED <<full, runId, created>>
    BY DEF StopPublishes, IInv, Stopping, Locals
  <1>2. /\ owned \in created /\ owned # NoRun /\ catalog.active = owned
        /\ \A c \in durable : c.active = owned /\ c.disposition \in {"PAUSED", "OPEN", "CAPACITY_REACHED"}
    BY <1>1, CatalogFacts DEF IInv, Controller, Vouched, Vouching
  <1>3. /\ owned \in Nat /\ owned <= catalog.lastReserved /\ owned # catalog.retained
        /\ owned \in files /\ owned \in syncedFiles
    BY <1>2, CatalogFacts DEF ValidSnapshot, Missing, Selects
  <1>4. /\ next \in Snapshots /\ ValidSnapshot(next)
        /\ next.generation = catalog.generation + 1 /\ next.lastReserved = catalog.lastReserved
        /\ next.active = NoRun /\ next.disposition = "NONE" /\ next.retained = owned
    <2>1. next = Ended(catalog, owned)
      BY <1>1 DEF Ended
    <2>. HIDE DEF next
    <2>. QED  BY <1>3, <2>1, CatalogFacts, EndedFields
  <1>5. \/ /\ Committed(next)
           /\ state' = "STOPPED" /\ owned' = NoRun /\ installed' = FALSE
           /\ capacityTransitionPending' = FALSE /\ view' = NoRun
           /\ Report("STOPPED", owned)
           /\ pc' = IF replaced = NoRun THEN "idle" ELSE "removing"
           /\ UNCHANGED replaced
        \/ /\ NotCommitted(next) /\ state' = "UNAVAILABLE" /\ UNCHANGED <<owned, installed, view>>
           /\ pc' = "idle" /\ replaced' = NoRun
           /\ UNCHANGED <<capacityTransitionPending, reported>>
    BY DEF StopPublishes, DropView, Becomes
  <1>. HIDE DEF next
  <1>6. /\ Directory /\ next.lastReserved >= catalog.lastReserved
        /\ Selects(next) \subseteq files /\ Selects(next) \subseteq syncedFiles
    BY <1>3, <1>4, CatalogFacts DEF IInv, Selects
  <1>7. CASE /\ Committed(next)
             /\ state' = "STOPPED" /\ owned' = NoRun /\ installed' = FALSE
             /\ capacityTransitionPending' = FALSE /\ view' = NoRun
             /\ Report("STOPPED", owned)
             /\ pc' = IF replaced = NoRun THEN "idle" ELSE "removing"
             /\ UNCHANGED replaced
    <2>1. /\ Directory' /\ catalog' = next /\ durable' = {next} /\ UNCHANGED <<refused, faults>>
      BY <1>1, <1>4, <1>6, <1>7, CommittedDirectory
    <2>2. \A r \in reported' : r.run \in created'
      BY <1>1, <1>2, <1>7 DEF IInv, Reports, Report
    <2>3. Reports'
      BY <1>1, <1>4, <2>1, <2>2, CatalogFacts DEF Reports, RunIds, NoRun
    <2>4. Controller' /\ Vouched' /\ StuckIsSafe' /\ View'
      BY <1>7 DEF Controller, Vouched, Vouching, States, StuckIsSafe, Stuck, View
    <2>5. Missing \in Snapshots
      BY DEF Missing, Snapshots, NoRun
    <2>6. Locals'
      BY <1>1, <1>7, <2>1, <2>5 DEF IInv, Locals
    <2>7. Starting' /\ Stopping'
      BY <1>1, <1>3, <1>4, <1>7, <2>1 DEF Starting, Stopping
    <2>. QED  BY <1>1, <2>1, <2>3, <2>4, <2>6, <2>7 DEF IInv
  <1>8. CASE /\ NotCommitted(next) /\ state' = "UNAVAILABLE" /\ UNCHANGED <<owned, installed, view>>
             /\ pc' = "idle" /\ replaced' = NoRun
             /\ UNCHANGED <<capacityTransitionPending, reported>>
    <2>1. /\ Directory' /\ catalog' \in {catalog, next} /\ durable' \subseteq durable \cup {next}
          /\ catalog \in durable' /\ Fault /\ UNCHANGED refused
      BY <1>1, <1>4, <1>6, <1>8, NotCommittedDirectory
    <2>2. Reports'
      BY <1>1, <1>4, <1>8, <2>1, CatalogFacts DEF IInv, Reports, RunIds, NoRun
    <2>3. Controller' /\ Vouched' /\ StuckIsSafe'
      BY <1>1, <1>2, <1>4, <1>8, <2>1 DEF IInv, Controller, Vouched, Vouching, States, StuckIsSafe, Stuck
    <2>4. View'
      BY <1>1, <1>2, <1>8, <2>1 DEF IInv, View, Stuck
    <2>5. faults' \in 0..MaxFaults
      BY <1>1, <2>1, LifecycleAssumption DEF Fault
    <2>6. Locals' /\ Starting' /\ Stopping'
      BY <1>1, <1>8, <2>1, <2>5, IdleLocals
    <2>. QED  BY <1>1, <2>1, <2>2, <2>3, <2>4, <2>6 DEF IInv
  <1>. QED  BY <1>5, <1>7, <1>8

\* No snapshot selects the journal that is removed.
LEMMA RemoveReplacedPreserves ==
  ASSUME IInv, RemoveReplaced
  PROVE  IInv'
  <1>1. /\ pc = "removing" /\ state = "STOPPED" /\ runId = NoRun /\ snapshot = Missing /\ refused = FALSE
        /\ replaced # NoRun /\ \A c \in durable : c.active # replaced /\ c.retained # replaced
        /\ pc' = "idle" /\ replaced' = NoRun
        /\ UNCHANGED <<catalog, full, controllerVars, runId, snapshot, historyVars, refused>>
    BY DEF RemoveReplaced, IInv, Stopping, Locals
  <1>2. /\ files' \in {files, files \ {replaced}} /\ syncedFiles' \in {syncedFiles, files'}
        /\ durable' \in {durable, {catalog}} /\ faults' \in 0..MaxFaults
    BY LifecycleAssumption DEF RemoveReplaced, Fault, IInv, Locals
  <1>3. \A c \in durable' : c \in durable /\ Sound(c)
    BY <1>2 DEF IInv, Directory
  <1>4. \A c \in durable' : Sound(c)'
    BY <1>1, <1>2, <1>3 DEF Sound, Selects, historyVars
  <1>5. Directory'
    BY <1>1, <1>2, <1>4 DEF IInv, Directory, historyVars
  <1>6. Reports'
    BY <1>1, <1>3 DEF IInv, Reports, historyVars
  <1>7. Controller' /\ Vouched' /\ StuckIsSafe' /\ View'
    BY <1>1 DEF IInv, Controller, Vouched, Vouching, StuckIsSafe, Stuck, View, controllerVars, historyVars
  <1>8. Locals' /\ Starting' /\ Stopping'
    BY <1>1, <1>2, IdleLocals
  <1>. QED  BY <1>1, <1>5, <1>6, <1>7, <1>8 DEF IInv

\* A view is taken of the run the catalog retains.
LEMMA LookupRetainedPreserves ==
  ASSUME IInv, NEW run, LookupRetained(run)
  PROVE  IInv'
  <1>1. /\ pc = "idle" /\ catalog.retained = run /\ run \in files /\ view' = run
        /\ UNCHANGED <<directoryVars, full, state, owned, installed, capacityTransitionPending, operationVars,
                       historyVars, refused, faults>>
    BY DEF LookupRetained
  <1>2. Directory' /\ Reports' /\ Controller' /\ Vouched' /\ StuckIsSafe'
    BY <1>1 DEF IInv, Directory, Sound, Reports, Controller, Vouched, Stuck, StuckIsSafe, directoryVars, historyVars
  <1>3. View'
    BY <1>1 DEF IInv, View, Directory, directoryVars, historyVars
  <1>4. Locals' /\ Starting' /\ Stopping'
    BY <1>1, IdleFacts, IdleLocals DEF operationVars
  <1>. QED  BY <1>1, <1>2, <1>3, <1>4 DEF IInv

\* Whatever is left of the directory was already sound.
LEMMA CrashPreserves ==
  ASSUME IInv, Crash
  PROVE  IInv'
  <1>1. /\ state' = "UNAVAILABLE" /\ owned' = NoRun /\ installed' = FALSE
        /\ capacityTransitionPending' = FALSE /\ view' = NoRun
        /\ pc' = "idle" /\ runId' = NoRun /\ snapshot' = Missing /\ replaced' = NoRun
        /\ UNCHANGED <<full, created, reported, refused>>
    BY DEF Crash, historyVars
  <1>2. refused' = FALSE /\ faults' \in 0..MaxFaults
    BY <1>1, LifecycleAssumption DEF Crash, Fault, IInv, Locals
  <1>3. Directory' /\ \A c \in durable' : c \in durable
    <2>1. CASE UNCHANGED directoryVars
      BY <1>1, <2>1 DEF IInv, Directory, Sound, directoryVars
    <2>2. CASE /\ catalog' \in durable /\ durable' = {catalog'}
               /\ \E changed \in SUBSET ((files \ syncedFiles) \cup (syncedFiles \ files)) :
                    files' = (files \ changed) \cup (syncedFiles \cap changed)
               /\ syncedFiles' = files'
      <3>1. /\ \A run : run \in files /\ run \in syncedFiles => run \in files'
            /\ files' \subseteq files \cup syncedFiles
        BY <2>2
      <3>2. Sound(catalog')
        BY <2>2 DEF IInv, Directory
      <3>3. Sound(catalog)'
        BY <1>1, <2>2, <3>1, <3>2 DEF Sound
      <3>. QED  BY <1>1, <2>2, <3>1, <3>3 DEF IInv, Directory
    <2>. QED  BY <2>1, <2>2 DEF Crash
  <1>4. Reports'
    BY <1>1, <1>3 DEF IInv, Reports
  <1>5. Controller' /\ Vouched' /\ StuckIsSafe' /\ View'
    BY <1>1 DEF Controller, Vouched, Vouching, States, StuckIsSafe, Stuck, View
  <1>6. Locals' /\ Starting' /\ Stopping'
    BY <1>1, <1>2, IdleLocals
  <1>. QED  BY <1>2, <1>3, <1>4, <1>5, <1>6 DEF IInv

-----------------------------------------------------------------------------
(* The theorems.                                                           *)

\* The inductive invariant holds in every reachable state: directory, catalog
\* and controller agree at every step of every operation and after every stop.
THEOREM Invariance == Spec => []IInv
  <1>1. Init => IInv
    <2>. SUFFICES ASSUME Init PROVE IInv
      OBVIOUS
    <2>1. Missing \in Snapshots /\ Selects(Missing) = {}
      BY DEF Missing, Snapshots, NoRun, Selects
    <2>2. Directory /\ Reports
      BY <2>1 DEF Init, Directory, Sound, Reports
    <2>3. Controller /\ Vouched /\ StuckIsSafe /\ View
      BY DEF Init, Controller, Vouched, Vouching, States, StuckIsSafe, Stuck, View
    <2>4. Locals
      <3>1. (runId # NoRun) = (pc \in {"reserved", "created"})
        BY DEF Init
      <3>2. (snapshot # Missing) = (pc \in {"stopPausing", "stopPublishing"})
        BY DEF Init
      <3>3. refused \in BOOLEAN
        BY DEF Init
      <3>4. faults \in 0..MaxFaults
        BY LifecycleAssumption DEF Init
      <3>. QED  BY <2>1, <3>1, <3>2, <3>3, <3>4 DEF Init, Locals
    <2>5. Starting /\ Stopping /\ ~refused
      BY DEF Init, Starting, Stopping
    <2>. QED  BY <2>2, <2>3, <2>4, <2>5 DEF IInv
  <1>2. IInv /\ [Next]_vars => IInv'
    <2>. SUFFICES ASSUME IInv, [Next]_vars PROVE IInv'
      OBVIOUS
    <2>1. CASE ReserveRunId  BY <2>1, ReserveRunIdPreserves
    <2>2. CASE CreateJournal  BY <2>2, CreateJournalPreserves
    <2>3. CASE Activate  BY <2>3, ActivatePreserves
    <2>4. CASE StartupExisting  BY <2>4, StartupExistingPreserves
    <2>5. CASE RecoverFailed  BY <2>5, RecoverFailedPreserves
    <2>6. CASE Install  BY <2>6, InstallPreserves
    <2>7. CASE Pause  BY <2>7, PausePreserves
    <2>8. CASE Resume  BY <2>8, ResumePreserves
    <2>9. CASE \E confirmation \in RunIds \cup {NoRun} : BeginStop(confirmation)
      BY <2>9, BeginStopPreserves
    <2>10. CASE StopPauses  BY <2>10, StopPausesPreserves
    <2>11. CASE StopPublishes  BY <2>11, StopPublishesPreserves
    <2>12. CASE RemoveReplaced  BY <2>12, RemoveReplacedPreserves
    <2>13. CASE ReachCapacity  BY <2>13, ReachCapacityPreserves
    <2>14. CASE PublishCapacityReached  BY <2>14, PublishCapacityReachedPreserves
    <2>15. CASE FailStop  BY <2>15, FailStopPreserves
    <2>16. CASE \E run \in RunIds : LookupRetained(run)
      BY <2>16, LookupRetainedPreserves
    <2>17. CASE Crash  BY <2>17, CrashPreserves
    <2>18. CASE UNCHANGED vars
      BY <2>18 DEF IInv, Directory, Sound, Reports, Controller, Vouched, StuckIsSafe, Stuck, View, Locals,
                   Starting, Stopping, vars, directoryVars, controllerVars, operationVars, historyVars
    <2>. QED
      BY <2>1, <2>2, <2>3, <2>4, <2>5, <2>6, <2>7, <2>8, <2>9, <2>10, <2>11, <2>12, <2>13, <2>14,
         <2>15, <2>16, <2>17, <2>18 DEF Next, Operation
  <1>. QED  BY <1>1, <1>2, PTL DEF Spec

\* The catalog is one of the snapshots a power loss may leave.
LEMMA SelectableIsDurable ==
  ASSUME IInv
  PROVE  Selectable = durable
  BY DEF IInv, Directory, Selectable

\* The journals of the runs that any selectable snapshot names are on the disk,
\* for any number of runs and faults: activation waits for the durable journal,
\* removal for the durable catalog.
THEOREM JournalsSurvive == Spec => []SelectedJournalsSurvive
  <1>1. IInv => SelectedJournalsSurvive
    BY SelectableIsDurable DEF IInv, Directory, Sound, Selects, SelectedJournalsSurvive
  <1>. QED  BY <1>1, Invariance, PTL

\* The exclusive creation of a journal never meets an earlier journal of the
\* same identifier.
THEOREM IdentifiersAreFresh == Spec => []RunIdsNotReused
  <1>1. IInv => RunIdsNotReused
    BY DEF IInv, Starting, RunIdsNotReused
  <1>. QED  BY <1>1, Invariance, PTL

\* replaceRunCatalogV1 never refuses what the controller offers.
THEOREM ReplacementsFollow == Spec => []NoReplacementRefused
  <1>1. IInv => NoReplacementRefused
    BY DEF IInv, NoReplacementRefused
  <1>. QED  BY <1>1, Invariance, PTL

\* The state the controller answers with is what the catalog says, on the disk
\* too, and what the controller owns goes with it.
THEOREM StateIsVouched == Spec => []StateMatchesCatalog
  <1>1. IInv => StateMatchesCatalog
    <2>. SUFFICES ASSUME IInv PROVE StateMatchesCatalog
      OBVIOUS
    <2>1. TypeOK
      <3>1. Selectable \subseteq Snapshots
        BY SelectableIsDurable DEF IInv, Directory, Sound
      <3>2. view \in created \cup {NoRun}
        BY DEF IInv, View
      <3>. QED
        BY <3>1, <3>2 DEF IInv, Directory, Controller, Locals, States, Vouching, TypeOK
    <2>. QED  BY <2>1, SelectableIsDurable DEF IInv, Vouched, Vouching, StateMatchesCatalog
  <1>. QED  BY <1>1, Invariance, PTL

\* The cached view of a stopped run is dropped before its run is replaced.
THEOREM ViewsAreRetained == Spec => []ViewIsRetained
  <1>1. IInv => ViewIsRetained
    BY SelectableIsDurable DEF IInv, Directory, View, ViewIsRetained
  <1>. QED  BY <1>1, Invariance, PTL

\* A stop or an exhaustion that was reported is never undone by a power loss.
THEOREM ReportsAreDurable == Spec => []ReportedIsDurable
  <1>1. IInv => ReportedIsDurable
    BY SelectableIsDurable DEF IInv, Reports, ReportedIsDurable
  <1>. QED  BY <1>1, Invariance, PTL

=============================================================================
