----------------------------- MODULE FixPipeline -----------------------------
(***************************************************************************)
(* The exchange executable: FIX sessions, the FixTask worker, the          *)
(* sequencer without a journal, the matching engine and the completion     *)
(* consumer, each on its own thread, connected by bounded queues and by    *)
(* the shared CommandAdmissionIndex.                                       *)
(*                                                                         *)
(* A step is what a thread does up to its next operation on shared state.  *)
(* An exception that leaves a thread ends the process.  An optional value  *)
(* is a sequence of at most one element.                                   *)
(***************************************************************************)
EXTENDS FixParser

CONSTANTS
  Sessions,           \* FIX sessions
  ClientOf,           \* ClientIdentityResolver: sessions to clients
  Messages,           \* FIX messages a counterparty may send, again and again
  AdmissionCapacity,  \* COMMAND_ADMISSION_CAPACITY
  MaxSequence,        \* the largest CommandSequence
  StagingCapacity, IngressCapacity, MatchingCapacity, ResultCapacity, BusSize

ASSUME FixPipelineAssumption ==
  /\ DOMAIN ClientOf \subseteq Sessions
  /\ {AdmissionCapacity, StagingCapacity, IngressCapacity, MatchingCapacity, ResultCapacity, BusSize}
       \subseteq Nat \ {0}
  /\ MaxSequence \in Nat /\ MaxSequence >= AdmissionCapacity

VARIABLES
  instrument,       \* the configuration of the Symbol the executable was built with
  records,          \* CommandAdmissionIndex
  staging, ingress, matching, results,  \* the queues
  pendingStaged,    \* FixTask::pendingStagedCommand_
  pendingCommand, pendingReady, lastAssignedSequence,  \* Sequencer
  inProgress, pendingResult,                           \* MatchingEngine
  pendingBatch,     \* AdmissionCompletionConsumer
  busBacklog,       \* messages in the bus that the FixTask has not read
  terminated,       \* an exception left a thread
  admitted          \* history: the keys of first submissions

fixVars == <<staging, pendingStaged>>
sequencerVars == <<ingress, pendingCommand, pendingReady, lastAssignedSequence>>
matcherVars == <<matching, inProgress, pendingResult>>
completionVars == <<results, pendingBatch>>
vars == <<instrument, records, fixVars, sequencerVars, matcherVars, completionVars, busBacklog, terminated, admitted>>

Room(queue, capacity) == Len(queue) < capacity

Init ==
  /\ instrument \in Configurations
  /\ records = [key \in {} |-> {}]
  /\ staging = <<>> /\ ingress = <<>> /\ matching = <<>> /\ results = <<>>
  /\ pendingStaged = <<>>
  /\ pendingCommand = <<>> /\ pendingReady = FALSE /\ lastAssignedSequence = 0
  /\ inProgress = <<>> /\ pendingResult = <<>> /\ pendingBatch = <<>>
  /\ busBacklog = 0 /\ terminated = FALSE /\ admitted = <<>>

-----------------------------------------------------------------------------
(* QuickFIX session threads.                                               *)

\* parseFixMessage: the command of a message, or why there is none.  `wellFormed`
\* stands for the fields that are only looked up or compared: Symbol, OrdType,
\* Side, TimeInForce, ExpireTime and ClOrdID.
parseFixMessage(message, session, configuration) ==
  LET quantity == parseQuantityUnits(message.quantity, configuration)
      price == parsePriceTicks(message.price, configuration)
      target == extractTargetOrderId(message.target)
      Failed(why) == [failure |-> why]
      Command(body) == [failure |-> 0, key |-> <<ClientOf[session], message.id>>, body |-> body]
  IN
  IF session \notin DOMAIN ClientOf \/ ~message.wellFormed THEN Failed(Rejected)
  ELSE IF message.type = "F"
       THEN IF target = Rejected THEN Failed(Rejected) ELSE Command([type |-> "F", target |-> target])
  ELSE IF quantity = Rejected THEN Failed(Rejected)
  ELSE IF price \in {Rejected, Internal} THEN Failed(price)
  ELSE Command([type |-> "D", quantity |-> quantity, price |-> price])

isProcessableMessageType(type) == type \in {"D", "F"}

\* reserveAndStage, which holds the index's mutex from the lookup of the key to
\* the push: the record and the staged command appear together or not at all.
ReserveAndStage(command) ==
  /\ command.key \notin DOMAIN records
  /\ Cardinality(DOMAIN records) < AdmissionCapacity
  /\ Room(staging, StagingCapacity)
  /\ records' = [key \in DOMAIN records \cup {command.key} |->
                   IF key = command.key THEN [body |-> command.body, state |-> "RESERVED", sequence |-> 0]
                   ELSE records[key]]
  /\ staging' = Append(staging, [key |-> command.key, body |-> command.body])
  /\ admitted' = Append(admitted, command.key)

\* What the parser makes of every message; it depends on nothing else.
Parsed == [session \in Sessions, message \in Messages, configuration \in Configurations |->
             parseFixMessage(message, session, configuration)]

\* FixTask::fromApp.  Whatever is not a first submission is counted and
\* answered from the index; it changes nothing here.
FromApp(session, message) ==
  /\ isProcessableMessageType(message.type)
  /\ LET command == Parsed[session, message, instrument]
     IN command.failure = 0 /\ ReserveAndStage(command)
  /\ UNCHANGED <<pendingStaged, sequencerVars, matcherVars, completionVars, busBacklog, terminated>>

-----------------------------------------------------------------------------
(* FixTask::run.                                                           *)

PopStaged ==
  /\ pendingStaged = <<>> /\ staging # <<>>
  /\ pendingStaged' = <<Head(staging)>>
  /\ staging' = Tail(staging)
  /\ UNCHANGED <<records, sequencerVars, matcherVars, completionVars, busBacklog, terminated, admitted>>

\* MUTANT: a command that finds the queue full is given up.
ForwardStaged_drops ==
  /\ pendingStaged # <<>>
  /\ ingress' = IF Room(ingress, IngressCapacity) THEN ingress \o pendingStaged ELSE ingress
  /\ pendingStaged' = <<>>
  /\ UNCHANGED <<records, staging, pendingCommand, pendingReady, lastAssignedSequence, matcherVars,
                 completionVars, busBacklog, terminated, admitted>>

\* processNextStagedCommand keeps the command until the queue takes it.
ForwardStaged ==
  /\ pendingStaged # <<>>
  /\ Room(ingress, IngressCapacity)
  /\ ingress' = ingress \o pendingStaged
  /\ pendingStaged' = <<>>
  /\ UNCHANGED <<records, staging, pendingCommand, pendingReady, lastAssignedSequence, matcherVars,
                 completionVars, busBacklog, terminated, admitted>>

\* What the matching engine multicasts is read and dropped.
ReadBus ==
  /\ busBacklog > 0
  /\ busBacklog' = busBacklog - 1
  /\ UNCHANGED <<records, fixVars, sequencerVars, matcherVars, completionVars, terminated, admitted>>

-----------------------------------------------------------------------------
(* Sequencer::run without a journal writer.                                *)

\* processNext takes the next command and gives it the next sequence, or throws
\* when there is none left.
TakeCommand ==
  /\ pendingCommand = <<>> /\ ingress # <<>>
  /\ IF lastAssignedSequence = MaxSequence
     THEN terminated' = TRUE /\ UNCHANGED <<sequencerVars>>
     ELSE LET c == Head(ingress)
          IN /\ ingress' = Tail(ingress)
             /\ lastAssignedSequence' = lastAssignedSequence + 1
             /\ pendingCommand' = <<[key |-> c.key, body |-> c.body, sequence |-> lastAssignedSequence + 1]>>
             /\ UNCHANGED <<pendingReady, terminated>>
  /\ UNCHANGED <<records, fixVars, matcherVars, completionVars, busBacklog, admitted>>

\* markSequenced answers SEQUENCED; anything else makes the sequencer throw.
MarkSequenced ==
  LET c == pendingCommand[1]
      binds == /\ c.key \in DOMAIN records
               /\ records[c.key].body = c.body
               /\ records[c.key].state = "RESERVED"
  IN
  /\ pendingCommand # <<>> /\ ~pendingReady
  /\ IF binds
     THEN /\ records' = [records EXCEPT ![c.key].state = "SEQUENCED", ![c.key].sequence = c.sequence]
          /\ pendingReady' = TRUE
          /\ UNCHANGED terminated
     ELSE terminated' = TRUE /\ UNCHANGED <<records, pendingReady>>
  /\ UNCHANGED <<fixVars, ingress, pendingCommand, lastAssignedSequence, matcherVars, completionVars,
                 busBacklog, admitted>>

\* MUTANT: the command is handed over before it is bound in the index.
MayHandOff_unbound == pendingCommand # <<>>

MayHandOff == pendingCommand # <<>> /\ pendingReady

HandoffPendingCommand ==
  /\ MayHandOff
  /\ Room(matching, MatchingCapacity)
  /\ matching' = matching \o pendingCommand
  /\ pendingCommand' = <<>> /\ pendingReady' = FALSE
  /\ UNCHANGED <<records, fixVars, ingress, lastAssignedSequence, inProgress, pendingResult, completionVars,
                 busBacklog, terminated, admitted>>

-----------------------------------------------------------------------------
(* MatchingEngine::run.                                                    *)

\* MUTANT: the next command is taken while a result still waits.
MayTakeMatching_always == inProgress = <<>> /\ matching # <<>>

MayTakeMatching == inProgress = <<>> /\ pendingResult = <<>> /\ matching # <<>>

PopMatching ==
  /\ MayTakeMatching
  /\ inProgress' = <<Head(matching)>>
  /\ matching' = Tail(matching)
  /\ UNCHANGED <<records, fixVars, sequencerVars, pendingResult, completionVars, busBacklog, terminated, admitted>>

\* processCommand, then send, which drops the message when the bus is full.
ProcessCommand ==
  /\ inProgress # <<>>
  /\ busBacklog' = IF busBacklog < BusSize THEN busBacklog + 1 ELSE busBacklog
  /\ pendingResult' = inProgress
  /\ inProgress' = <<>>
  /\ UNCHANGED <<records, fixVars, sequencerVars, matching, completionVars, terminated, admitted>>

\* The result of the command just processed, or the one that found the queue full.
HandoffResult ==
  /\ pendingResult # <<>>
  /\ Room(results, ResultCapacity)
  /\ results' = results \o pendingResult
  /\ pendingResult' = <<>>
  /\ UNCHANGED <<records, fixVars, sequencerVars, matching, inProgress, pendingBatch, busBacklog, terminated,
                 admitted>>

-----------------------------------------------------------------------------
(* AdmissionCompletionConsumer::run.                                       *)

PopResult ==
  /\ pendingBatch = <<>> /\ results # <<>>
  /\ pendingBatch' = <<Head(results)>>
  /\ results' = Tail(results)
  /\ UNCHANGED <<records, fixVars, sequencerVars, matcherVars, busBacklog, terminated, admitted>>

\* complete answers COMPLETED; anything else makes the consumer throw.
Complete ==
  LET r == pendingBatch[1]
      completes == /\ r.key \in DOMAIN records
                   /\ records[r.key].state = "SEQUENCED"
                   /\ records[r.key].sequence = r.sequence
  IN
  /\ pendingBatch # <<>>
  /\ IF completes
     THEN /\ records' = [records EXCEPT ![r.key].state = "COMPLETED"]
          /\ pendingBatch' = <<>>
          /\ UNCHANGED terminated
     ELSE terminated' = TRUE /\ UNCHANGED <<records, pendingBatch>>
  /\ UNCHANGED <<fixVars, sequencerVars, matcherVars, results, busBacklog, admitted>>

FixTaskStep == PopStaged \/ ForwardStaged
SequencerStep == TakeCommand \/ MarkSequenced \/ HandoffPendingCommand
MatcherStep == PopMatching \/ ProcessCommand \/ HandoffResult
CompletionStep == PopResult \/ Complete

\* No thread has thrown; the configuration is what it was.
Running == ~terminated /\ UNCHANGED instrument

Next ==
  \/ \E session \in Sessions, message \in Messages : Running /\ FromApp(session, message)
  \/ Running /\ PopStaged
  \/ Running /\ ForwardStaged
  \/ Running /\ ReadBus
  \/ Running /\ TakeCommand
  \/ Running /\ MarkSequenced
  \/ Running /\ HandoffPendingCommand
  \/ Running /\ PopMatching
  \/ Running /\ ProcessCommand
  \/ Running /\ HandoffResult
  \/ Running /\ PopResult
  \/ Running /\ Complete

Spec == Init /\ [][Next]_vars

\* Every thread's loop goes on for ever and never blocks: a push that finds its
\* queue full is tried again.  Counterparties and the reading of the bus owe nothing.
FairSpec ==
  /\ Spec
  /\ WF_vars(Running /\ FixTaskStep) /\ WF_vars(Running /\ SequencerStep)
  /\ WF_vars(Running /\ MatcherStep) /\ WF_vars(Running /\ CompletionStep)

-----------------------------------------------------------------------------
(* Properties.                                                             *)

\* Whether the conversions are exact with each configuration.
Exact == [configuration \in Configurations |-> ExactConversions(configuration)]

\* Whatever text a counterparty sends, it is converted to exactly the number it
\* denotes or rejected: a price iff it is a multiple of the tick between one
\* tick and the maximum, a quantity iff it is a multiple of the lot, whatever
\* zeros the text has at either end, and no product or sum of the conversion
\* wraps.  A configuration that could make one wrap is reported as such for
\* every text of the right shape.
ConversionsAreExact == Exact[instrument]

Completed == {key \in DOMAIN records : records[key].state = "COMPLETED"}

\* Everything between completion and admission, the oldest first.
Sequenced == pendingBatch \o results \o pendingResult \o inProgress \o matching \o pendingCommand
Unsequenced == ingress \o pendingStaged \o staging

\* No thread throws, whatever the interleaving: the record of a command is
\* reserved when the sequencer binds it, sequenced when its result is completed
\* by another thread, and sequences do not run out before admissions do.
NoThreadThrows == ~terminated

\* At every moment the queues, the pending slots of the threads and the index
\* hold each first submission exactly once and in the order in which the index
\* admitted it, although sessions race for it: the n-th admitted command has
\* sequence n, and the commands completed are the first ones admitted.
PathIsAdmitted ==
  LET done == Cardinality(Completed)
      path == Sequenced \o Unsequenced
  IN  /\ Len(path) = Len(admitted) - done
      /\ \A n \in 1..done : admitted[n] \in Completed /\ records[admitted[n]].sequence = n
      /\ \A i \in DOMAIN path :
           path[i].key = admitted[done + i] /\ path[i].body = records[path[i].key].body
      /\ \A i \in DOMAIN Sequenced : Sequenced[i].sequence = done + i

\* Every command the index admitted is completed, although every queue can be
\* full and nobody reads the multicast bus.
AdmittedCompletes ==
  \A key \in {<<ClientOf[session], message.id>> : session \in DOMAIN ClientOf, message \in Messages} :
    (key \in DOMAIN records) ~> (key \in Completed)

=============================================================================
