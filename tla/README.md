# Verification of the Financial Exchange

TLA+ specifications of the exchange's core, checked with TLC and, where it pays,
proved with TLAPS. Paths below are relative to the repository (`src/`).
`PROJECT.json` gives the source lines behind every definition, the hazards the
properties aim at, and the mutant that shows each property can fail.

## 1. The system

One trading venue for one configured instrument (SPY), organised as *runs*. A run
is an append-only journal of sequenced commands; everything else about it (the
book, the admission index, the results) is a deterministic replay of that journal.
An installation *catalog* says which run is active, with which disposition, and
which stopped run is retained.

| Component | State | Operations | Hard because |
|---|---|---|---|
| **Matching state** (`matching_engine/src/matching_engine.cpp`) | two maps of price levels with FIFO queues and a cached aggregate; index of active orders | `processBuyOrder`, `processSellOrder`, `processCancel` | plan made before, execution after; three structures kept equal over fills, partial fills and cancels; unsigned limits |
| **Admission index** (`core/admission`) | key -> RESERVED / SEQUENCED / COMPLETED, gate | `reserveAndStage`, `markSequenced`, `complete` | retransmission in every state, also over a restart |
| **Sequencer** (`sequencer/`) | pending command, ready flag, append failure | `advance` | full matching queue; failed append |
| **Journal writer** (`core/storage/src/run_journal_writer.cpp`) | offset, committed count, failed flag | `append` = write + synchronise | partial write, uncertain synchronisation |
| **Matching worker, result dispatcher, handoff queues** | in-progress command, pending result, pending private and public batch, bounded queues | `advance`, `tryPop...` | four bounded queues and five pending slots; slow consumers |
| **Run controller, processing** (`controller_command_processing.cpp`) | run state, outstanding commands and bytes, capacity transition | submit, advance, pause, recover failed | gate, drain, capacity, fail-stop at every point of the cycle |
| **Run controller, lifecycle** (`exchange_run_controller.cpp`, `start_new_run.cpp`) | run state, owned run, retained view | start new, start existing, resume, stop, lookup | several durable steps per operation; uncertain outcomes; crash between any two |
| **Catalog** (`run_catalog_storage.cpp`, `exchange_run_id_reservation.cpp`, `new_run_activation.cpp`) | snapshot with generation | load, replace, reserve, activate | rename visible before it is durable |
| **Journal reader and recovery** (`run_journal_reader.cpp`, `run_journal_recovery.cpp`, `recovered_run.cpp`, `run_journal_replay.cpp`, `command_admission_recovery.cpp`) | descriptor with its position, commands read so far | read, cut the tail, synchronise, seek, replay, rebuild index | cut frame or damaged frame; frames that were never synchronised; a stop inside the repair |
| **Bus** (`core/bus`) | ring, count of writes, reader cursors, cached minimum | write, read, register | lock-free, cached minimum cursor |
| **FIX executable** (`core/exchange`, `core/fix`, `core/shared_queue`) | session, FIX, sequencer, matcher and completion threads over bounded queues | parse, reserve, sequence, match, complete | many threads, one index, queues that refuse; decimal arithmetic at 2^64 |
| **HTTPS static server** (`core/application/src/https_static_server.cpp`) | table of sessions, one outstanding accept; per session one operation and a timer | start, accept, handshake, read, write, TLS shutdown, stop | handlers that run after what they refer to has changed; few places and silent peers |
| **Event gateway** (`core/application`) and result projections (`matching_engine/src/*_projection.cpp`) | connection table, per-connection queues and byte counts, one retained batch and one latched failure per input | register, disconnect, pop, advance public, advance private | eviction while iterating; counts apart from queues; a stuck input stops the venue |

**Interaction.** In the controller path everything but the two handoff consumers
runs on one driving thread: `submitCommandV1` reserves a key and stages the
command; `advanceCommandProcessingV1` lets the sequencer append, synchronise and
bind staged commands, the matcher apply them, and the dispatcher complete one
result and offer it to the consumers. Lifecycle calls are made between
advancements; pause and stop drain by advancing themselves. Catalog and journals
share a directory, and each catalog replacement and journal creation synchronises it.
The FIX executable is the older path: the same index, sequencer and matcher on threads
of their own, without journal and controller. The HTTPS server shares nothing with the
rest.

**What makes each part correct.** The book is never crossed, index and book agree,
fills respect price-time priority, quantity is conserved and limits hold. A key is
journaled once; nothing is matched or delivered before it is durable; the pipeline
is a FIFO without loss or repetition; PAUSED and CAPACITY_REACHED are reported only
when all accepted work is complete. An identifier never names two journals, a
catalog that can be found after a power loss never selects a journal that cannot,
and the controller's state never contradicts the disk. A journal is refused as corrupt
only if its bytes changed, and a writer knows exactly the file it writes to. A price or
quantity is the number its text denotes or is rejected. Each connection is counted as
long as it is open, and none stays for ever with a silent peer.

## 2. Modules

| Module | Models | Grain |
|---|---|---|
| `MatchingState` | the order book | one step plans and admits an order, one step per trade, one step disposes of the remainder; a cancel is one step; a `logic_error` is phase `"failed"` |
| `MatchingStateProofs` | theorems about it | |
| `CommandPipeline` | one run from submission to delivered result, with its journal and recovery | `advanceCommandProcessingV1` is cut at its file operations and at every command it moves, so that a stop may fall between any two |
| `CommandPipelineProofs` | theorems about it, among them that it implements `CommandLog` | |
| `RunLifecycle` | runs, catalog, journal files and controller over many runs | one step per durable operation of a lifecycle call |
| `RunLifecycleProofs` | theorems about it | |
| `Bus` | the multicast ring | every load or store another thread can see; filling and copying a slot take time |
| `BusProofs` | theorems about it | |
| `EventGateway` | projections, dispatcher, handoff queues and application event gateway | one step per call: they share one thread |
| `EventGatewayProofs` | theorems about it | |
| `CommandLog` | abstract: what a journal promises to those who are told of it | extend, tell, lose |
| `JournalFile` | one journal as bytes: writer, reader, preparation | one step per system call or accepted frame |
| `JournalFileProofs` | theorems about it, among them that it implements `CommandLog` | |
| `FixParser` | the numeric conversions of FIX fields and settings | operators |
| `FixPipeline` | the threaded executable | what a thread does up to its next operation on shared state |
| `FixPipelineProofs` | theorems about it | |
| `HttpsServer` | accept loop and sessions | one step per handler, one per completion |
| `HttpsServerProofs` | theorems about it | |
| `MC...` | instances for TLC | |

*MatchingState.* `orderBooks` and `activeOrders` are the two containers of
`MatchingState`; `remaining` and `plan` are the locals of `processOrder`; `events`
and `result` are what it returns. `BeginOrder` is `processOrder` up to the loop,
`MatchOrder` one iteration of `matchBuyOrder`/`matchSellOrder` with `executeTrade`
and `removeFilledOrder`, `FinishOrder` the rest with `addOrder`, `ProcessCancel` the
whole of `processCancel`. Every `throw` of these handlers is a `Throw`. The
instrument is left out of the keys: there is one, and each has its own levels.
`planMatches` is the recursive function `PlanWalk` over `Makers`, the enumeration of the
eligible nodes in the order of the code's two loops (the n-th is the one with n - 1
before it). Sums of quantities are numbers of units, sets of pairs of an index and a unit:
definitions that need no RECURSIVE operator, so that they can be reasoned about.

*CommandPipeline.* Each queue, pending slot and counter of `CommandProcessingPath`,
`Sequencer`, `MatchingEngine` and `CommandResultDispatcher` is a variable; an
optional is a sequence of at most one element. A result is represented by the
sequence of commands applied up to and including its own, which determines it.
`AppendCommand` and `SyncFrame` are the two halves of `RunJournalWriterV1::append`
around the only point where the disk matters; `SyncFrame` includes the writer's
counters and `markSequenced`. `Submit` lists only the decisions that change
something. The files (`journal`, `synced`, `torn`, `catalog`) survive `Crash`; with
`PowerLoss`, frames beyond `synced` may be missing or cut. `Bytes`, the sum of the frame
lengths of a prefix, is the number of its cells, a position within a frame each: a sum
that needs no recursion, so that it can be reasoned about.

*RunLifecycle.* `catalog` is what a reader of the directory loads, `durable` the
snapshots of which a power loss leaves one, `files` and `syncedFiles` the journal
entries likewise. `Committed` and `NotCommitted` are the outcomes of
`replaceRunCatalogV1`. `ReserveRunId`, `CreateJournal` and `Activate` are the three
durable steps of `startupNewRunV1`; `BeginStop`, `StopPauses`, `StopPublishes` and
`RemoveReplaced` those of `stopRunV1`. `Install` to `Resume`, `StartupExisting` and
`RecoverFailed` are the calls of the same names. The content of journals is
`CommandPipeline`'s; that a journal is full, that an advancement
fails or that a recovery fails is a free choice here.

*Bus.* A message is its number among the successful writes. `BeginWrite`,
`ScanCursor`, `EndScan`, `EndFill` and `Publish` are `writeImpl` with
`recomputeMinimumCursor`; `RegisterCursor` uses the same scan; `BeginRead`,
`CopySlot` and `StoreCursor` are `read`. A slot is `Partial` while it is assigned. The
registering thread is the writer's (`reader_cursors_` is not synchronised). Loads
return the latest value: each thread's decision depends on one foreign value at a
time, and an older value of it is what an earlier load would have returned.

*EventGateway.* `DispatchResult` is `CommandResultDispatcher::advance` with a new
result, `RetryHandoff` with one that waits; here the queues count events and trades,
as in the code. `registerConnection`, `disconnect`, `tryPopOutbound`,
`advancePublic` and `advancePrivate` are the gateway's calls; the refusing outcomes
change nothing. A message is the record of what it tells; its length is a sum over
its elements, and the least outbound capacity is the code's formula over the same
sizes. The loops of the projections and of the routing are recursive functions
(`Concatenated`, `Total`, `RoutePrivate`); the broadcast of `advancePublic`, where what
becomes of one connection does not depend on the others, is said of each at once. What a
connection is owed (`Owed`) is a set of entries of the routing history, and the message
for an entry the one at its rank (`Rank`). Failures of an input (`failPublic`, `failPrivate`) keep the batch, as in the
code; that they are never reached with what the dispatcher produces is a result.
`FailStop`, `RecoverFailed`, `StopRun` and `StartRun` are the lifecycle as far as it
touches the handoffs: bindings outlive the run they name. `results`, `routed`,
`lost`, `since` and `received` are history.

*CommandLog.* The log grows at its end by commands with new keys; a channel is told
longer and longer prefixes; a failure may take back the end of the log but nothing
anyone was told. Two modules implement it (`ImplementsCommandLog` in each):
`CommandPipeline` with the journal of a run as the log and its two consumers as
channels, keys being admission keys; `JournalFile` with the complete frames of the file
as the log and the caller of `append` as channel, keys being sequences. The first shows
exactly-once and that nothing delivered is lost over the controller's recoveries, the
second that the file operations below it keep what was acknowledged.

*JournalFile.* `file` is what a reader sees, `stable` what the last synchronisation
covered, both sequences of cells; a cell stands for the bytes one check looks at (two
of envelope, then the payload). `BeginAppend`, `WriteSome`, `WriteFails`, `SyncFails`
and `SyncFrame` are `append`; `OpenReadWrite` to `MakeWriter` are
`prepareRunJournalV1` with `readJournal`, whose verdict on the bytes behind the last
valid frame is `LoadOutcome`, check by check in the code's order; `PrepareFails` is
`closeAfterFailure`. `Stop` and `PowerLoss` may come at any point, inside the
preparation too, `Damage` while no process has the file open. The run may also find the journal of another run in its place.

*FixParser.* A text is a sequence of digits, points and other characters.
`parseUnsignedWhole`, `parsePriceTicks`, `parseQuantityUnits`, `extractTargetOrderId`
and `parseConfiguredClientId` compute modulo `MaxUint + 1` as the code does modulo
2^64; `Number`, `Multiple` and `Identifier` are the reference, in unbounded arithmetic. The loops
are recursive functions on the number of characters read.

*FixPipeline.* `FromApp` is the session thread from parsing to `reserveAndStage`, which
holds the index's mutex over reservation and push. The other actions are the loops of
`FixTask`, `Sequencer`, `MatchingEngine` and `AdmissionCompletionConsumer`; each queue,
pending slot and sequence is a variable. An exception that leaves a thread sets
`terminated`. The bus is the number of messages its reader has not read.

*HttpsServer.* A session has one outstanding operation (`op`), its outcome once it is
queued (`outcome`), a timer (`armed`) and perhaps an expiry whose handler is queued
(`expired`). `HandleOutcome` and `HandleExpiry` are the handlers; `onHandshake`,
`onRead`, `onWrite`, `stop` and the rest keep their names. `Leave` is what the server
does when a handler has stopped its session (`sessionClosed`).

`CommandPipeline` and `RunLifecycle` meet at the dispositions: `CommandPipeline` checks when a publication
may happen, `RunLifecycle` what publications do to the disk over many runs. `CommandPipeline`
takes an append as a write and a synchronisation and a cut frame as a flag; `JournalFile`
justifies that.

## 3. Runs

| Run | Instance | States | Shows |
|---|---|---|---|
| `order_book` | 2 clients, prices 1..2, quantities 1..3, level limit 3, 2 events, 4 commands | 145,011 | the invariants of the book and `PriceTimePriority`; `PlanIsExact`: plan, trades and events agree and fit the batch |
| `pipeline` | 5 keys, 3 contents, journal of 5 commands / 6 bytes, queues of 1 and 2, 2 faults | 685,148 | order, durability, drains, gates, capacity, and that it implements `CommandLog` |
| `pipeline_liveness` | 3 keys, 3 commands / 5 bytes, 1 fault | 90,659 | `ReadyWorkEnds`: accepted commands complete, capacity transitions end |
| `lifecycle` | 3 runs, generation 10, 3 faults | 460,161 | identifiers, journals, catalog and state agree on disk and in memory |
| `bus` | 3 readers, 2 slots, 5 writes | 82,957 | no race, ordered delivery; a reader that was not overtaken reads every message |
| `gateway` | 3 handles, 2 clients, limit 2, 2 runs, 2 results of 1 or 2 events | 719,173 | exact accounting, complete and private delivery, eviction only with a backlog |
| `gateway_liveness` | 2 handles, 2 clients, limit 1, 2 results | 100,065 | every result is routed although no client has to read |
| `journal` | 3 contents, 3 commands / 12 cells, 1 damaged cell | 153,654 | only changed bytes are refused; the writer knows its file; implements `CommandLog` |
| `fix_pipeline` | 4 sessions of 2 clients and nobody, 2 identifiers, queues of 1; 8-bit numbers, texts up to 4 characters, 8 configurations | 55,408 | order, no exception, completion; exact conversions |
| `https` | 2 connections, 3 session objects, 3 kinds of request | 71,731 | table and accept loop stay right; sessions end |
| `pipeline_completed_durable` | 2 keys, 1 stop | violation | finding 1 |
| `lifecycle_capacity` | 2 runs, 1 stop | violation | finding 2 |

**Why these bounds.** *Book*: two prices give a better and a worse level on each
side; quantity 3 against a level limit of 3 gives exact fills, partial fills,
remainders and refused remainders; two events with up to three makers make the batch
limit bind with and without a terminal event; four commands allow three resting
orders and the order that meets them. *Pipeline*: with all downstream queues of one place, five commands
fill every queue and pending slot at once; frames of one and two bytes against six
reach the byte limit exactly, by excess, and before the command limit; one content
cannot be encoded; two faults allow a failure in recovery after the failure that
made it necessary. *Lifecycle*: three runs, so that a stop replaces a retained run
and a later one can begin; three faults, so that an uncertain replacement can be
followed by a failed operation and a power loss. *Bus*: five writes wrap a ring of two
twice. A cursor registered after a slot was reused blocks the writer for good and reads
nothing; `EveryMessageRead` is stated for readers that were not overtaken, as the
executable's are, which registers before the first write.
*Gateway*: the shapes of `MCSamples` are those the projections tell apart (self trades
only, trade and owned event, mixed trades, owned event alone), for each client; at the
least capacity the longest message fills a queue alone and two owned events overflow
it by one byte; three handles for two places meet the limit, replacement and bindings
of an old run; the queues hold one worst-case result, so that the second has to wait.
*Journal*: the header takes two cells and frames four or three, so that twelve cells are
met by excess (three orders), exactly (an order and two cancels make twelve) and never
(three cancels, which meet the command limit instead); damage may strike
header, envelope or payload. *FIX*: one place per queue blocks every stage behind every
other; two sessions share a client, so that the same key is submitted from two threads
with two contents; the index has room for three keys of four. `instrument` is chosen at the start and never changes. Eight bits put the
overflow of products and sums within reach of texts of four characters; the
configurations include the largest maximum, ticks that do not divide a scale, and three
that the parser must refuse. *HTTPS*: two connections reach the limit; the third object
is a stopped session that still waits for its last handlers while its place is used again.
Symmetry is used for clients, handles and keys, which the code only compares, and only in runs without liveness.

**Deadlock.** The book's model cannot stop before its bound (`Exhausted`), and a journal can always be
opened or stopped. The others may: the
gateway ends with its last run and its last connection, the bus stops at its bound, the executable's index
is full for good (it never forgets a key), an HTTPS server that was stopped is not started again, and a controller that is UNAVAILABLE with a path installed refuses everything until the
process restarts, and restarts are bounded by `MaxFaults`.

**Fairness.** Of `CommandPipeline`: the driver keeps advancing (`advanceCommandProcessingV1` must be
called for anything to happen), each call returns, and the consumers keep popping;
submission, lifecycle calls and faults owe nothing. Of `EventGateway`: the thread keeps
advancing the controller and both inputs, as `docs/architecture.md` requires of the
composition ("continues consuming both handoffs"); clients owe nothing, and a run may
fail or stop. Of `Bus`: a reader's loop keeps
calling `read`; the writer owes nothing. Of `FixPipeline`: each thread's loop goes on and
a push that found its queue full is tried again; counterparties, and the reading of the
bus, owe nothing. Of `HttpsServer`: queued handlers run and time passes; peers owe
nothing, so a session's end rests on its timers. Of `RunLifecycle`: the operator
always calls some operation that would change something; this makes the violation
of `CapacityReachedEnds` a statement about the code, since no such operation exists.

## 4. Findings

1. **A completed command may have a frame that nothing made durable**
   (`run_journal_recovery.cpp:178`). If the process stops between the write and the
   synchronisation of a frame, the next one finds a complete frame, replays it and
   answers its command as completed. Recovery synchronises the file only after
   cutting a tail. A power loss can take the command back after the client was told.
   `docs/exchange-rules.md:718-719` ties external commitment to the durable write.
   What consumers *pop* is never lost (`ImplementsCommandLog`): recovered results are
   not redelivered, and the first new append synchronises all before it.
2. **An exhausted run cannot be left after a restart** (`exchange_run_controller.cpp:77`).
   Each operation refuses a catalog that says CAPACITY_REACHED with no run owned, so
   no run can be stopped or started and no completed result looked up, although
   `docs/exchange-rules.md:61-63` promises both.

## 5. Proofs

`MatchingStateProofs` holds, for every value of the constants that satisfies
`ConstantsAssumption` (the limits are natural numbers, a command may have at least one
event, 4096 in the code; `Clients` is arbitrary):

* `Invariance`: `Spec => []IInv`, and from it `TypeCorrect`, `IndexConsistency`,
  `QueueOrder`, `NeverCrossed`, `AggregateCapacity`;
* `PriorityOfFills`: the action property `PriceTimePriority`;
* `Accountability`: `Spec => [](IInv /\ Accounting)`, and from it `NeverThrows`,
  `ExactAggregates`, `Conservation` and `ExactPlan`. With these every property of the run
  `order_book` is proved.

`IInv == TypeOK /\ BookInv /\ SequencesInUse`. None of the parts is inductive alone.
`IndexMatchesBook` needs `TimePriority`: that a filled or cancelled order has *one*
node follows from the strict order of identifiers within a level and from the index
entry naming the level. `TimePriority` needs `SequencesInUse` (all active orders are
older than the command in progress). `BookUncrossed` needs `IndexMatchesBook` (an
active order's level exists, so an empty `Crossing` set says something about all
orders) and that `FinishOrder` rests a remainder only when nothing crosses.
`PriceTimePriority` then follows from the choice of the best level and of its first
node, turned from nodes into orders by `NodesAreUnique` and `OrderHasNode`.

The argument goes by the three ways a book changes: `RemoveNode` (fill or cancel),
`ShrinkFront` (partial fill), `PushNode` (rest), each shown to preserve `BookInv`
whatever the caller; then one lemma per action. This part does not assume that the
engine never throws: `Throw` preserves `IInv`.

That it never does is part of the second invariant, `Accounting`. `NoLogicError` is far from
inductive. The checks of `executeTrade` and `removeFilledOrder` need `AggregateIsExact`
and the index; that of `processOrder` after the loop compares the remainder with the one
that was planned on a book that the loop has changed since. `PlanFollows` bridges the
loop: at every iteration the plan is what is left to do on the present book
(`PlannedFor`), its executions those already made and those to come. `PlanAfterTrade` shows a trade to
keep that: the order that is filled is the first of all eligible ones (`FrontIsFirst`),
and either it goes, which moves all others by its quantity (`FirstIsFilled`), or it
suffices and no other was planned (`FirstIsEnough`). That `planMatches` starts like this
is `PlanMatchesDepth`: the makers are listed by rank without gap or repetition
(`MakersListed`), and the walk past the first n of them has the closed form by depth
(`PlanWalkByDepth`). This is an induction, made with the finite-set theorems instead of an
induction rule: `CountingUp` shows that a set which holds 0 and the successor of each of its
members below n contains 0..n. Sums behave as sums by `TotalWithout` and its relatives,
bijections between sets of units.

`BusProofs` holds for any readers, any size of the ring, any number of writes and any
time of registration (`BusAssumption`): `RaceFreedom`, `OrderedDelivery`,
`CachedMinimum` and `TypeCorrect`. The invariant adds what the writer knows at each
point: during a scan the minimum is below every cursor loaded so far (`ScanInv`), while
a slot is reused every registered cursor has passed its old message (`SlotIsFree`); and
what a reader may rely on: its message is within the last `Size` writes
(`ReadInWindow`), all of which stand in their slots (`RingHolds`). The arithmetic is one
lemma, `SlotsDiffer`: messages less than `Size` apart have different slots.

`CommandPipelineProofs` holds for any keys, contents, capacities and limits that satisfy
`PipelineAssumption` and any number of faults: all safety invariants of the run
`pipeline` (`NoInvariantException`, `GateMatchesState`, `DurableBeforeMatching`,
`IndexMatchesJournal`, `CapacityReserved`, `PauseDeliversAll`, `PipelineIsFifo`) and the
refinement, `RunIsCommandLog`: `Spec => ImplementsCommandLog`. The argument is about four
positions in the journal: what was completed (`Done`), matched (`Matched`), committed and
written, each at most the next. `Path` says that queues and slots, joined in the order of
the code's stages, are the commands or results between two of these positions; `Index`
that the records are those of the committed and the staged commands, COMPLETED up to
`Done`, SEQUENCED up to the committed count and RESERVED beyond; `File` what a stop finds;
`PrivateDelivery` and `PublicDelivery` that a consumer was told a prefix of what is
synchronised and that what waits for it follows that prefix; `Capacity` that the counters
are the staged commands and their bytes, or those of the current cycle before the
sequencer returned; `Slots` and `Control` which slots can be full at which point of the
cycle and in which state of the run. `Blocked` is needed for `DRAIN_STALLED` alone: a
cycle of a pause that made no progress is held up by a consumer, so that a pause is never
reported as stalled for another reason. There is one lemma per action. Steps that only
move a command use `HeadMoves`, `SlotMoves` and their like (the path is the same sequence afterwards);
steps that only change states use `DataKeeps` or `QuietKeeps`; a stop and the two ways to
recover use `NoRunPreserves` and `RecoveredPreserves`, which need nothing but what `File`
says of the disk. For the refinement `AppendCommand` is `Extend`, `PopPrivate` and
`PopPublic` are `Tell`, `Crash` is `Lose`, and the rest stutters; that a pop tells a
longer prefix is `ToldUpTo`, that a power loss takes back nothing that was told is
`ToldFrom`. `DurableBeforeMatching` speaks of what the matcher holds or has matched and takes
three parts together: `Path` places it between `Matched` and the committed count,
`PrivateDelivery` puts `Matched` at or above what recovery replayed, and `File` says that whatever
is committed beyond that is synchronised. TLC checked the invariant on an instance of 30,561 states first.

`JournalFileProofs` holds for any contents, frame lengths, header length and limits that
satisfy `JournalAssumption`, any lengths of the partial writes and any amount of damage:
`WriterKnows` and `CorruptIsDamaged` (the two invariants of the run `journal`) and the
refinement `FileIsCommandLog`. The invariant says that there is a *plan*, a sequence of
commands numbered from one with the places where their frames end, of which the contents
of the file are the cells up to some point (`LaidOut`), a changed cell included; that
`stable` has a plan too; that a plan of the expected run respects both limits, its
unfinished last command included (`Fits`); and that both contents hold what was
acknowledged, as the same cells (`Acknowledged`). The process follows the plan: what it
has read or written is its beginning and undamaged (`Known`), position and counters stand
at the end of it (`Counted`), a tail that is cut holds no complete frame, and the frame
being written is the plan's last (`AtEnd`). The plans are bound in the invariant, since no variable of
the code holds them: an append that begins replaces the plan by the commands of the
file and the new one (`Extended`, `BeginFrame`), a
synchronisation or a power loss makes both plans one. `OnlyDamageIsCorrupt` rests on
`Verdict`: of an undamaged journal that fits, the loop of `readJournal` never calls a
frame or a cut corrupt. For the refinement the write that completes a frame is `Extend`,
`SyncFrame` is `Tell`, `PowerLoss` is `Lose`; it needs one more invariant,
`StableBegins`: what was synchronised last has no complete frame that the file has not,
or a power loss could bring back a frame that the log had lost. That a power loss keeps
what was acknowledged is `AcknowledgedIsCommon`. `FramesIn` picks the frames of a file by
the increasing enumeration of their last cells, not with `SelectSeq`, of which nothing
could be proved; that there is one such enumeration is `OneEnumeration`, by counting and
without induction. TLC checked the invariant on an instance of 32,825 states first.

`RunLifecycleProofs` holds for any number of runs, generations and faults: all six
invariants of the run `lifecycle`. The invariant speaks of *every* snapshot a power loss
may leave, not of the visible one: each is `Sound` (valid, above every identifier in use,
selecting journals whose directory entries are durable), what was reported of a run holds
in each (`Reports`), and so does what the controller says of its run (`Vouched`). The
controller that lost track of its own publication is the difficult case: it is `Stuck`
and offers nothing that would replace the catalog. The one operation that might,
`recoverFailedRunV1`, needs a snapshot that says so, which `StuckIsSafe` excludes. `Starting` and
`Stopping` say what holds between the durable steps of the two long operations, the
copy of the snapshot that a stop works from included.

`FixPipelineProofs` holds for any sessions, messages, configurations and capacities:
`PathIsAdmitted` and `NoThreadThrows`. `PathIsAdmitted` alone is not inductive: it needs
`RecordsFollowPath`, by which the record of the n-th admitted command tells how far it has
come. The command that has its sequence and not yet its binding
(`markSequenced` runs after the assignment) is between the two ranges. From the same
invariant none of the exceptions of sequencer and consumer can be raised.
`ExactFields` is `ConversionsAreExact` for texts of any length over any of the characters, any
width of the integers and any configuration whose fields have that width
(`ParserAssumption`). The loops of the conversions are recursive functions; each lemma of the
form `...Is` gives such a loop its closed form in terms of `Number` and `TenTo`, the
number of a text and the power of ten in unbounded arithmetic: `DigitLoopIs`,
`PowerOfTenIs`, `ScaledFractionIs`. In them lies that nothing wraps. `NumberCat` splits a text
at the point, `Shape` shows the tests of the code to be those of `IsDecimal`. That the
scaled fraction is the fraction is `FractionKept`; that one with a digit beyond the scale is no
multiple of any tick, so that rejecting it is right, is `FractionLost`. Induction is on sets of
numbers (`CountingUp`), existence of a recursive function on a finite interval
`RecursionExists`; multiplication and division have a few lemmas of their own, since the
prover's arithmetic is linear.

`HttpsServerProofs` holds for any objects, requests and limit: `ConnectionsAccounted`,
which is inductive with types and `IdleBeforeStart`. Handlers that run after `stop` are
the reason for its form: a stopped session may have an operation, a timer or a handler
left, and none of them changes the table.

`EventGatewayProofs` holds for any connections, clients, commands, capacities and sizes
that satisfy `GatewayAssumption`, and for any events that a command may have
(`SampleAssumption`): `NothingIsMissed` is `Spec => []NothingMissed`, `EvictionsAreDue` the
action property `OnlyBackloggedEvicted`. Three parts lead there.

* *What a message tells.* `ConcatenatedLists` and `SinglesListed` say which element of which list
  stands where in the output of an appending loop. From it `PublicProjection` and
  `PrivateProjection` compare the projections with their references: every event the client
  may know of, in each of its roles, once and in order, and no other.
  `PlansAreRecipients` shows the recipients to be exactly the clients concerned, each once.
* *What fits.* `ViewsFit` bounds a private message: an event is told twice only as two trades,
  and one owned event costs at most two trades and a comma, which is the static assertion on the sizes. So any
  message is within `MinOutboundCapacity` (`Sendable`), a connection with an empty queue
  has room for it, and a byte count is never found broken (`OfferIsSound`).
* *What routing does.* `Delivered` is what either channel makes of a table: it stays `Sound`, each
  connection that is left was sent the message it is owed or left alone, none without a
  backlog is gone. `PublicRouting` gets it from the closed form, `PrivateRouting` by
  induction on the recipients (`Partly`, `RouteOneKeeps`), where it matters that no two connections
  have the same client and run.

The invariant says that results are numbered within their run (`Numbered`, so that an
identifier names one result), that only projections of results are in the queues
(`BatchesInv`), that the table is sound (`TableInv`) and that every connection in it is
`CaughtUp`. A routed batch adds one entry and at most one message (`CaughtUpGrows`), a pop moves a
message from the queue to the socket (`CaughtUpMoves`), a new result changes nothing that
was routed (`CaughtUpStays`). Since only projections arrive, an input could fail only where the
serialiser refuses one; that it does not is part of the liveness run.

**Only model-checked.** Liveness under fairness is TLC's throughout. All invariants and
action properties of the passing runs are proved. `TypeOK` of
`MatchingState` and of `HttpsServer` is proved and not part of a run; `PipelineIsFifo` and
`StateMatchesCatalog` include the types of their modules.

## 6. Abstractions and what is not modelled

* `CommandPipeline`'s queue capacities count batches; the code's private and public queues count records
  and take a batch whole or not at all, as `EventGateway` has it. Whether a result holds a trade is a property
  of the command's content instead of the book.
* A power loss keeps a prefix of the unsynchronised frames, perhaps with a cut one.
  In `JournalFile` it leaves the
  synchronised contents, or those and an in-order part of what was done since; a file
  system that reorders writes within a frame would leave a damaged frame instead.
* In `JournalFile` a changed cell is always noticed by the check that covers it: the
  CRC is taken to be perfect, and damage to a length field to break its agreement with
  the record type. Field layouts and the polynomial are left to the golden-byte tests. A
  missing file and one shorter than its header only refuse and are left out.
* Temporary file, write, synchronisation and rename of a catalog replacement are one
  step with the outcomes unchanged / visible / durable.
* Submissions that change nothing (duplicates, conflicts, refusals) are stuttering.
* Generation and identifier exhaustion at 2^64 and unusable paths only refuse a call
  and are left out. One controller works on a directory at a time, as the code assumes.
* `EventGateway` leaves out prices, quantities and sides, which the projections copy,
  and takes every element of a kind to have the same length; in the code lengths vary
  below the maxima that the capacity is computed from.
* `FixPipeline`: fields that are only looked up or compared (symbol, side, order type,
  time in force) are one flag that is tested first; a message with several faults may be counted under
  another rejection than the code's; duplicates and rejections are answered without a change of state and are
  stuttering; statistics are left out. Loads and stores of the queues are atomic, as
  `boost::lockfree` makes them. QuickFIX itself is external.
* `HttpsServer`: one thread runs the `io_context`, as the class requires; handlers that are
  queued run in any order; a queued expiry cannot be cancelled, and two of one session are one, since
  the second finds it stopped. A request carries the
  verdict of the lookup of its target; decoding and resolution of paths, headers, bodies
  and MIME types are left out. Steps inside a composed read or write are Boost's.
* Three failures are in the models without a property, since nothing promises otherwise:
  a stop that ends between the catalog commit and the deletion leaks a journal file
  (`controller_command_processing.cpp:771`); results that are pending when a failed run
  is recovered are found by lookup only (`:419`); one failed accept closes the HTTPS
  acceptor for good (`https_static_server.cpp:575`).
* `std::bad_alloc` is modelled as an exception of the matcher only. Where a projection throws after
  completion (`controller_command_processing.cpp:41`), the prospective frame cannot be sized
  (`run_journal_writer.cpp:122`) or the broadcast stops half way
  (`application_event_gateway.cpp:225`), allocation is taken to succeed.
* Not modelled: JSON text beyond its length, byte layouts, the polynomial of the
  checksum, statistics, `backend/`, the front end, the `engine/` stub and the telemetry
  configuration, which hold no logic of the venue.

## 7. What is left

All components but those of section 6 are modelled and checked, and every safety property
of the passing runs is proved. Liveness rests on TLC alone. The lemmas on induction and on
queues (`CountingUp`, `RecursionExists`, `HeadMoves` and a few more) stand in each module
that uses them.
