---------------------------- MODULE EventGateway ----------------------------
(***************************************************************************)
(* From the authoritative result of a command to the bytes queued for each *)
(* browser connection: the two projections, the controller's result        *)
(* dispatcher with its handoff queues, and the application event gateway.  *)
(*                                                                         *)
(* One thread drives the controller and the gateway, so every call is one  *)
(* step; the order of the calls is free.  A connection that is never read  *)
(* is evicted and does not slow anyone else.                               *)
(*                                                                         *)
(* A trade keeps its two clients.  Rested, cancelled and rejected events   *)
(* are projected and serialised alike and are one kind, owned by a client. *)
(* Prices, quantities and sides are left out.  A serialised message is the *)
(* record of what it tells and a number of bytes.                          *)
(***************************************************************************)
EXTENDS Integers, FiniteSets, Sequences, SequencesExt

CONSTANTS
  Handles,              \* ConnectionHandle
  Clients,              \* ClientId
  MaximumConnections,
  MaxEventsPerCommand,  \* MAX_AUTHORITATIVE_EVENTS_PER_COMMAND
  PrivateCapacity,      \* of the private handoff queue, in events
  PublicCapacity,       \* of the public handoff queue, in trades
  EnvelopeBytes, CorrelationBytes, PrivateTradeBytes, OwnedEventBytes, PublicTradeBytes,
  SpareBytes,           \* outbound capacity beyond the least the constructor accepts
  Samples,              \* the commands, with their events, that a behaviour may hold
  MaxRuns, MaxCommands  \* bounds of the model: runs, and results over all of them

\* The last conjunct is the static assertions on the sizes of events.
ASSUME GatewayAssumption ==
  /\ IsFiniteSet(Handles) /\ IsFiniteSet(Clients)
  /\ {MaximumConnections, MaxEventsPerCommand, MaxRuns} \subseteq Nat \ {0}
  /\ {EnvelopeBytes, CorrelationBytes, PrivateTradeBytes, OwnedEventBytes, PublicTradeBytes} \subseteq Nat \ {0}
  /\ {SpareBytes, MaxCommands} \subseteq Nat
  /\ PrivateCapacity \in Nat /\ PrivateCapacity >= 2 * MaxEventsPerCommand
  /\ PublicCapacity \in Nat /\ PublicCapacity >= MaxEventsPerCommand
  /\ OwnedEventBytes <= 2 * PrivateTradeBytes + 1

VARIABLES
  \* the controller
  run,      \* the run it owns, or the next one when it owns none
  state,    \* "READY", "FAIL_STOPPED", or "NONE" when no run is owned
  pendingPrivateResults, pendingPublicTrades,  \* CommandResultDispatcher
  privateResults, publicTrades,                \* the handoff queues
  \* the gateway
  connections,
  pendingPrivate, pendingPublic,   \* a batch that was popped and not routed
  privateFailure, publicFailure,
  \* history
  results,   \* the authoritative results in the order of their completion
  routed,    \* what the gateway routed: positions in results, with the channel
  lost,      \* positions whose handoff a failed run abandoned
  since,     \* length of routed when a connection was registered
  received   \* what a connection's socket has taken

controllerVars == <<run, state>>
handoffVars == <<pendingPrivateResults, pendingPublicTrades, privateResults, publicTrades>>
inputVars == <<pendingPrivate, pendingPublic, privateFailure, publicFailure>>
historyVars == <<results, routed, lost>>
socketVars == <<since, received>>
vars == <<controllerVars, handoffVars, connections, inputVars, historyVars, socketVars>>

-----------------------------------------------------------------------------
(* Loops, as recursive functions on the number of passes.                  *)

\* The elements of all lists, one list after the other: a loop that appends.
Concatenated(lists) ==
  LET output[n \in 0..Len(lists)] == IF n = 0 THEN <<>> ELSE output[n - 1] \o lists[n]
  IN  output[Len(lists)]

\* The sum of a sequence of numbers: a loop that adds up.
Total(numbers) ==
  LET sum[n \in 0..Len(numbers)] == IF n = 0 THEN 0 ELSE sum[n - 1] + numbers[n]
  IN  sum[Len(numbers)]

-----------------------------------------------------------------------------
(* Authoritative results and their projections.                            *)

TradeEvents(taker) == [maker: Clients, taker: {taker}]
OwnedEvent(client) == [owner |-> client]
IsTrade(event) == "maker" \in DOMAIN event

\* What the matcher emits for a command: trades of its client as taker, and
\* at most one event that client owns, with at least one event in all.
EventLists(client) ==
  {trades \o own : trades \in BoundedSeq(TradeEvents(client), MaxEventsPerCommand),
                   own \in {<<>>, <<OwnedEvent(client)>>}}

AuthoritativeResults ==
  UNION {[client: {client}, events: {list \in EventLists(client) : Len(list) \in 1..MaxEventsPerCommand}] :
           client \in Clients}

ASSUME SampleAssumption == Samples \subseteq AuthoritativeResults

EventId(r, i) == [run |-> r.run, sequence |-> r.sequence, index |-> i]

\* projectPublicTrades.
projectPublicTrades(r) ==
  Concatenated([i \in DOMAIN r.events |-> IF IsTrade(r.events[i]) THEN <<EventId(r, i)>> ELSE <<>>])

\* appendProjectedEvent: what a client is told of an event, twice when it
\* traded with itself.
ProjectedEvents(r, i, client) ==
  LET event == r.events[i]
      view(role) == <<[id |-> EventId(r, i), role |-> role]>>
  IN  IF IsTrade(event)
      THEN (IF event.maker = client THEN view("MAKER") ELSE <<>>)
             \o (IF event.taker = client THEN view("TAKER") ELSE <<>>)
      ELSE IF event.owner = client THEN <<[id |-> EventId(r, i), role |-> "OWNER", owner |-> client]>> ELSE <<>>

AffectedRecipients(event) ==
  IF ~IsTrade(event) THEN <<event.owner>>
  ELSE IF event.maker = event.taker THEN <<event.maker>> ELSE <<event.maker, event.taker>>

\* Recipients in the order in which the events first name them.
RecipientPlans(r) ==
  LET named == Concatenated([i \in DOMAIN r.events |-> AffectedRecipients(r.events[i])])
  IN  Concatenated([k \in DOMAIN named |->
                      IF \E j \in 1..(k - 1) : named[j] = named[k] THEN <<>> ELSE <<named[k]>>])

RecipientResult(r, client) ==
  [recipient |-> client,
   correlation |-> IF client = r.client THEN <<[run |-> r.run, sequence |-> r.sequence, client |-> client]>> ELSE <<>>,
   privateResult |-> Concatenated([i \in DOMAIN r.events |-> ProjectedEvents(r, i, client)])]

\* projectPrivateResults.
projectPrivateResults(r) ==
  LET plans == RecipientPlans(r) IN [k \in DOMAIN plans |-> RecipientResult(r, plans[k])]

-----------------------------------------------------------------------------
(* The dispatcher and the handoff queues.                                  *)

PrivateEventCount(batch) == Total([k \in DOMAIN batch |-> Len(batch[k].privateResult)])
QueuedEventCount == Total([k \in DOMAIN privateResults |-> PrivateEventCount(privateResults[k])])
QueuedRecordCount == Total([k \in DOMAIN publicTrades |-> Len(publicTrades[k])])

HandoffsDrained ==
  /\ pendingPrivateResults = <<>> /\ pendingPublicTrades = <<>>
  /\ privateResults = <<>> /\ publicTrades = <<>>

\* The part of CommandResultDispatcher::advance behind the projections: each
\* list goes to its queue when it fits and stays otherwise.
HandOff(private, public) ==
  LET pushesPrivate == private # <<>> /\ PrivateEventCount(private) <= PrivateCapacity - QueuedEventCount
      pushesPublic == public # <<>> /\ Len(public) <= PublicCapacity - QueuedRecordCount
  IN  /\ privateResults' = IF pushesPrivate THEN Append(privateResults, private) ELSE privateResults
      /\ pendingPrivateResults' = IF pushesPrivate THEN <<>> ELSE private
      /\ publicTrades' = IF pushesPublic THEN Append(publicTrades, public) ELSE publicTrades
      /\ pendingPublicTrades' = IF pushesPublic THEN <<>> ELSE public

CommandCount == Cardinality({n \in DOMAIN results : results[n].run = run})

\* advance takes the next completed result, projects it and hands it off.
DispatchResult(sample) ==
  LET r == [run |-> run, sequence |-> CommandCount + 1, client |-> sample.client, events |-> sample.events]
  IN  /\ state = "READY" /\ Len(results) < MaxCommands
      /\ pendingPrivateResults = <<>> /\ pendingPublicTrades = <<>>
      /\ results' = Append(results, r)
      /\ HandOff(projectPrivateResults(r), projectPublicTrades(r))
      /\ UNCHANGED <<controllerVars, connections, inputVars, routed, lost, socketVars>>

\* advance with a result whose handoff is still pending.
RetryHandoff ==
  /\ state = "READY"
  /\ pendingPrivateResults # <<>> \/ pendingPublicTrades # <<>>
  /\ HandOff(pendingPrivateResults, pendingPublicTrades)
  /\ UNCHANGED <<controllerVars, connections, inputVars, historyVars, socketVars>>

\* The run is fail-stopped: advancing returns at once from now on, so what
\* the dispatcher holds is not handed off any more.
FailStop ==
  /\ state = "READY" /\ state' = "FAIL_STOPPED"
  /\ lost' = IF pendingPrivateResults # <<>> \/ pendingPublicTrades # <<>> THEN lost \cup {Len(results)} ELSE lost
  /\ UNCHANGED <<run, handoffVars, connections, inputVars, results, routed, socketVars>>

\* recoverFailedRunV1 destroys the path, dispatcher included, once both
\* queues are empty, and rebuilds the run under the same identifier.  A
\* recovery that fails leaves no run behind until one succeeds.
RecoverFailed ==
  /\ state = "FAIL_STOPPED" /\ privateResults = <<>> /\ publicTrades = <<>>
  /\ pendingPrivateResults' = <<>> /\ pendingPublicTrades' = <<>>
  /\ state' \in {"READY", "NONE"}
  /\ UNCHANGED <<run, privateResults, publicTrades, connections, inputVars, historyVars, socketVars>>

\* stopRunV1, which requires drained handoffs.  Bindings of the gateway stay.
StopRun ==
  /\ state = "READY" /\ HandoffsDrained /\ run < MaxRuns
  /\ state' = "NONE" /\ run' = run + 1
  /\ UNCHANGED <<handoffVars, connections, inputVars, historyVars, socketVars>>

\* startupNewRunV1 or a later recovery.
StartRun ==
  /\ state = "NONE" /\ state' = "READY"
  /\ UNCHANGED <<run, handoffVars, connections, inputVars, historyVars, socketVars>>

-----------------------------------------------------------------------------
(* Messages and their size.                                                *)

PublicMessage(batch) == [type |-> "publicTrades", run |-> batch[1].run, trades |-> batch]

PrivateMessage(recipient) ==
  [type |-> "privateResult", run |-> recipient.privateResult[1].id.run, recipient |-> recipient.recipient,
   correlation |-> recipient.correlation, events |-> recipient.privateResult]

\* serializePublicTradesV1 accepts the batch.
PublicTradesAreValid(batch) ==
  /\ batch # <<>>
  /\ \A i \in DOMAIN batch : batch[i].run = batch[1].run /\ batch[i].sequence = batch[1].sequence

\* serializePrivateResultV1 accepts the recipient's part of a batch, which is not empty.
PrivateResultIsValid(recipient) ==
  LET events == recipient.privateResult
      first == events[1].id
  IN  /\ \A i \in DOMAIN events :
           /\ events[i].id.run = first.run /\ events[i].id.sequence = first.sequence
           /\ events[i].role = "OWNER" => events[i].owner = recipient.recipient
      /\ \A k \in DOMAIN recipient.correlation :
           recipient.correlation[k] = [run |-> first.run, sequence |-> first.sequence, client |-> recipient.recipient]

EventBytes(event) == IF event.role = "OWNER" THEN OwnedEventBytes ELSE PrivateTradeBytes

\* The length of the serialised text: envelope, elements and the commas between them.
MessageBytes(m) ==
  IF m.type = "publicTrades"
  THEN EnvelopeBytes + PublicTradeBytes * Len(m.trades) + (Len(m.trades) - 1)
  ELSE EnvelopeBytes + CorrelationBytes * Len(m.correlation)
         + Total([i \in DOMAIN m.events |-> EventBytes(m.events[i])]) + (Len(m.events) - 1)

QueuedBytes(outbound) == Total([i \in DOMAIN outbound |-> MessageBytes(outbound[i])])

\* MUTANT: the doubling of a trade with oneself is not counted.
MaxPrivateEvents_single == MaxEventsPerCommand

\* MAX_PRIVATE_EVENTS_PER_COMMAND.
MaxPrivateEvents == 2 * MaxEventsPerCommand

MaxPrivateMessageBytes ==
  EnvelopeBytes + CorrelationBytes + MaxPrivateEvents * PrivateTradeBytes + (MaxPrivateEvents - 1)

MaxPublicMessageBytes ==
  EnvelopeBytes + MaxEventsPerCommand * PublicTradeBytes + (MaxEventsPerCommand - 1)

\* MIN_OUTBOUND_CAPACITY, below which the constructor throws.
MinOutboundCapacity ==
  IF MaxPrivateMessageBytes > MaxPublicMessageBytes THEN MaxPrivateMessageBytes ELSE MaxPublicMessageBytes

OutboundCapacity == MinOutboundCapacity + SpareBytes

-----------------------------------------------------------------------------
(* The connection table.                                                   *)

findConnection(table, handle) == SelectInSeq(table, LAMBDA c : c.handle = handle)

findBinding(table, client, r) == SelectInSeq(table, LAMBDA c : c.client = client /\ c.run = r)

NewConnection(handle, client) ==
  [handle |-> handle, client |-> client, run |-> run, outbound |-> <<>>, queuedBytes |-> 0]

Init ==
  /\ run = 1 /\ state = "NONE"
  /\ pendingPrivateResults = <<>> /\ pendingPublicTrades = <<>>
  /\ privateResults = <<>> /\ publicTrades = <<>>
  /\ connections = <<>>
  /\ pendingPrivate = <<>> /\ pendingPublic = <<>>
  /\ privateFailure = "NONE" /\ publicFailure = "NONE"
  /\ results = <<>> /\ routed = <<>> /\ lost = {}
  /\ since = [h \in Handles |-> 0] /\ received = [h \in Handles |-> <<>>]

\* A connection that is not in the table has no history.
Forget(f, none) == [h \in Handles |-> IF findConnection(connections', h) = 0 THEN none ELSE f[h]]

\* registerConnection: a binding of the same client and run is replaced in its
\* place, a new one is appended while there is room.  The refusals change nothing.
registerConnection(handle, client) ==
  LET replaced == findBinding(connections, client, run)
  IN  /\ state # "NONE"
      /\ findConnection(connections, handle) = 0
      /\ replaced # 0 \/ Len(connections) < MaximumConnections
      /\ connections' = IF replaced # 0 THEN ReplaceAt(connections, replaced, NewConnection(handle, client))
                        ELSE Append(connections, NewConnection(handle, client))
      /\ since' = Forget([since EXCEPT ![handle] = Len(routed)], 0)
      /\ received' = Forget([received EXCEPT ![handle] = <<>>], <<>>)
      /\ UNCHANGED <<controllerVars, handoffVars, inputVars, historyVars>>

disconnect(handle) ==
  LET i == findConnection(connections, handle)
  IN  /\ i # 0
      /\ connections' = RemoveAt(connections, i)
      /\ since' = Forget(since, 0) /\ received' = Forget(received, <<>>)
      /\ UNCHANGED <<controllerVars, handoffVars, inputVars, historyVars>>

Popped(c) ==
  [c EXCEPT !.outbound = Tail(c.outbound), !.queuedBytes = c.queuedBytes - MessageBytes(Head(c.outbound))]

\* tryPopOutbound, without the logic_error: TableIsSound shows the count to be exact.
tryPopOutbound(handle) ==
  LET i == findConnection(connections, handle)
  IN  /\ i # 0
      /\ connections[i].outbound # <<>>
      /\ received' = [received EXCEPT ![handle] = Append(received[handle], Head(connections[i].outbound))]
      /\ connections' = ReplaceAt(connections, i, Popped(connections[i]))
      /\ UNCHANGED <<controllerVars, handoffVars, inputVars, historyVars, since>>

-----------------------------------------------------------------------------
(* Routing.                                                                *)

\* MUTANT: a connection without room fails the input instead of being evicted.
enqueueCapacity_fails(c, m) ==
  IF MessageBytes(m) > OutboundCapacity - c.queuedBytes THEN "INVARIANT_FAILURE" ELSE "FITS"

enqueueCapacity(c, m) ==
  CASE c.queuedBytes > OutboundCapacity -> "INVARIANT_FAILURE"
    [] c.queuedBytes <= OutboundCapacity /\ MessageBytes(m) > OutboundCapacity - c.queuedBytes -> "SLOW_CONSUMER"
    [] OTHER -> "FITS"

Pushed(c, m) ==
  [c EXCEPT !.outbound = Append(c.outbound, m), !.queuedBytes = c.queuedBytes + MessageBytes(m)]

\* MUTANT: the iteration steps over the connection behind an erased one.
RoutePublic_skipsBehindErased(m) ==
  LET erased(k) == connections[k].run = m.run /\ enqueueCapacity(connections[k], m) = "SLOW_CONSUMER"
      outcome(k) == IF connections[k].run # m.run \/ (k > 1 /\ erased(k - 1)) THEN <<connections[k]>>
                    ELSE IF erased(k) THEN <<>> ELSE <<Pushed(connections[k], m)>>
  IN  [table |-> Concatenated([k \in DOMAIN connections |-> outcome(k)]), broken |-> FALSE]

\* The broadcast loop of advancePublic: what becomes of each connection of
\* the message's run.  It returns where a byte count is found broken.
RoutePublic(m) ==
  LET verdict(k) == IF connections[k].run = m.run THEN enqueueCapacity(connections[k], m) ELSE "PASSED"
      stopped(k) == \E j \in 1..k : verdict(j) = "INVARIANT_FAILURE"
      outcome(k) == CASE ~stopped(k) /\ verdict(k) = "FITS" -> <<Pushed(connections[k], m)>>
                      [] ~stopped(k) /\ verdict(k) = "SLOW_CONSUMER" -> <<>>
                      [] OTHER -> <<connections[k]>>
  IN  [table |-> Concatenated([k \in DOMAIN connections |-> outcome(k)]), broken |-> stopped(Len(connections))]

\* One pass of the loop of advancePrivate: a recipient's message to the one
\* connection bound to it and to the run, if there is one.
RouteOne(routing, m) ==
  LET i == findBinding(routing.table, m.recipient, m.run)
      c == routing.table[i]
      verdict == enqueueCapacity(c, m)
  IN  IF routing.broken \/ i = 0 THEN routing
      ELSE [broken |-> verdict = "INVARIANT_FAILURE",
            table |-> CASE verdict = "FITS" -> ReplaceAt(routing.table, i, Pushed(c, m))
                        [] verdict = "SLOW_CONSUMER" -> RemoveAt(routing.table, i)
                        [] OTHER -> routing.table]

\* The routing loop of advancePrivate.
RoutePrivate(messages) ==
  LET routing[n \in 0..Len(messages)] ==
        IF n = 0 THEN [table |-> connections, broken |-> FALSE] ELSE RouteOne(routing[n - 1], messages[n])
  IN  routing[Len(messages)]

\* The first recipient of a batch that the serialising loop refuses, and why.
PrivateRefusal(batch) ==
  LET identity(k) == [run |-> batch[k].privateResult[1].id.run, sequence |-> batch[k].privateResult[1].id.sequence]
      refusal(k) ==
        IF batch[k].privateResult = <<>> \/ \E j \in 1..(k - 1) : batch[j].recipient = batch[k].recipient
        THEN "RECIPIENT_INVARIANT"
        ELSE IF identity(k) # identity(1) THEN "RUN_IDENTITY_INVARIANT"
        ELSE IF PrivateResultIsValid(batch[k]) THEN "NONE" ELSE "SERIALIZATION_FAILED"
      first == SelectInSeq([k \in DOMAIN batch |-> k], LAMBDA k : refusal(k) # "NONE")
  IN  IF batch = <<>> THEN "RECIPIENT_INVARIANT" ELSE IF first = 0 THEN "NONE" ELSE refusal(first)

Position(id) == CHOOSE n \in DOMAIN results : results[n].run = id.run /\ results[n].sequence = id.sequence

\* Routes a batch that was popped now: the table changes, the histories
\* follow, and a failure keeps the batch.
Deliver(routing, channel, id) ==
  /\ connections' = routing.table
  /\ routed' = IF routing.broken THEN routed ELSE Append(routed, [channel |-> channel, position |-> Position(id)])
  /\ since' = Forget(since, 0) /\ received' = Forget(received, <<>>)

\* The pop at the beginning of each advance.  A batch stays pending only
\* together with a failure, so there is none when a batch is popped.
PopPublic == publicFailure = "NONE" /\ publicTrades # <<>> /\ publicTrades' = Tail(publicTrades)
PopPrivate == privateFailure = "NONE" /\ privateResults # <<>> /\ privateResults' = Tail(privateResults)

\* advancePublic.
advancePublic ==
  /\ PopPublic
  /\ LET batch == Head(publicTrades)
         routing == RoutePublic(PublicMessage(batch))
     IN  IF PublicTradesAreValid(batch)
         THEN /\ Deliver(routing, "public", batch[1])
              /\ publicFailure' = IF routing.broken THEN "BYTE_ACCOUNTING_INVARIANT" ELSE "NONE"
              /\ pendingPublic' = IF routing.broken THEN batch ELSE <<>>
         ELSE /\ publicFailure' = "SERIALIZATION_FAILED" /\ pendingPublic' = batch
              /\ UNCHANGED <<connections, routed, socketVars>>
  /\ UNCHANGED <<controllerVars, pendingPrivateResults, pendingPublicTrades, privateResults,
                 pendingPrivate, privateFailure, results, lost>>

\* advancePrivate: everything is serialised before anything is routed.
advancePrivate ==
  /\ PopPrivate
  /\ LET batch == Head(privateResults)
         routing == RoutePrivate([k \in DOMAIN batch |-> PrivateMessage(batch[k])])
         refusal == PrivateRefusal(batch)
     IN  IF refusal = "NONE"
         THEN /\ Deliver(routing, "private", batch[1].privateResult[1].id)
              /\ privateFailure' = IF routing.broken THEN "BYTE_ACCOUNTING_INVARIANT" ELSE "NONE"
              /\ pendingPrivate' = IF routing.broken THEN batch ELSE <<>>
         ELSE /\ privateFailure' = refusal /\ pendingPrivate' = batch
              /\ UNCHANGED <<connections, routed, socketVars>>
  /\ UNCHANGED <<controllerVars, pendingPrivateResults, pendingPublicTrades, publicTrades,
                 pendingPublic, publicFailure, results, lost>>

Next ==
  \/ \E sample \in Samples : DispatchResult(sample)
  \/ RetryHandoff \/ FailStop \/ RecoverFailed \/ StopRun \/ StartRun
  \/ \E handle \in Handles, client \in Clients : registerConnection(handle, client)
  \/ \E handle \in Handles : disconnect(handle)
  \/ \E handle \in Handles : tryPopOutbound(handle)
  \/ advancePublic \/ advancePrivate

Spec == Init /\ [][Next]_vars

\* The thread keeps advancing the controller and both inputs of the gateway;
\* no client has to read.  Only the two advances take a batch from its queue,
\* so fairness of the pop is fairness of the advance.
FairSpec == Spec /\ WF_vars(RetryHandoff) /\ WF_publicTrades(PopPublic) /\ WF_privateResults(PopPrivate)

-----------------------------------------------------------------------------
(* Properties.                                                             *)

\* The connection table is sound: at most the configured number of
\* connections, each with its own handle and its own client and run, and a
\* byte count that is exactly what is queued and within the capacity.
TableIsSound ==
  /\ Len(connections) <= MaximumConnections
  /\ \A i, j \in DOMAIN connections :
       \/ connections[i].handle = connections[j].handle
       \/ connections[i].client = connections[j].client /\ connections[i].run = connections[j].run
       => i = j
  /\ \A i \in DOMAIN connections :
       LET c == connections[i]
       IN  c.run <= run /\ c.queuedBytes = QueuedBytes(c.outbound) /\ c.queuedBytes <= OutboundCapacity

Concerns(event, client) == IF IsTrade(event) THEN client \in {event.maker, event.taker} ELSE client = event.owner

\* Reference: what a client may know of a result, as pairs of event and role.
PrivateKnowledge(r, client) ==
  {<<i, "MAKER">> : i \in {n \in DOMAIN r.events : IsTrade(r.events[n]) /\ r.events[n].maker = client}}
    \cup {<<i, "TAKER">> : i \in {n \in DOMAIN r.events : IsTrade(r.events[n]) /\ r.events[n].taker = client}}
    \cup {<<i, "OWNER">> : i \in {n \in DOMAIN r.events : ~IsTrade(r.events[n]) /\ r.events[n].owner = client}}

PublicKnowledge(r) == {i \in DOMAIN r.events : IsTrade(r.events[i])}

\* The entries of the routing history that a connection should have been sent.
Owed(c) ==
  {n \in (since[c.handle] + 1)..Len(routed) :
     LET r == results[routed[n].position]
     IN  /\ r.run = c.run
         /\ routed[n].channel = "private" => \E i \in DOMAIN r.events : Concerns(r.events[i], c.client)}

\* The place of an entry among those that are owed.
Rank(n, owed) == Cardinality({k \in owed : k <= n})

TellsPublic(m, r) ==
  /\ m.type = "publicTrades" /\ m.run = r.run
  /\ {m.trades[i].index : i \in DOMAIN m.trades} = PublicKnowledge(r)
  /\ \A i \in DOMAIN m.trades :
       /\ m.trades[i].run = r.run /\ m.trades[i].sequence = r.sequence
       /\ i > 1 => m.trades[i - 1].index < m.trades[i].index

TellsPrivate(m, r, client) ==
  /\ m.type = "privateResult" /\ m.run = r.run /\ m.recipient = client
  /\ (m.correlation # <<>>) <=> (client = r.client)
  /\ {<<m.events[i].id.index, m.events[i].role>> : i \in DOMAIN m.events} = PrivateKnowledge(r, client)
  /\ Len(m.events) = Cardinality(PrivateKnowledge(r, client))
  /\ \A i \in DOMAIN m.events :
       /\ m.events[i].id.run = r.run /\ m.events[i].id.sequence = r.sequence
       /\ i > 1 => m.events[i - 1].id.index <= m.events[i].id.index

\* A connection that is still in the table missed nothing: what its socket has
\* taken and what is queued is, one message for one batch and in the order of
\* routing, every public batch of its run and every private result that
\* concerns its client since it was registered, telling all that client may
\* know of the command and nothing else.  The table it stands in is sound, so
\* that the two queues and counts the gateway decides on are those of its client.
NothingMissed ==
  /\ TableIsSound
  /\ \A k \in DOMAIN connections :
       LET c == connections[k]
           sent == received[c.handle] \o c.outbound
       IN  /\ Len(sent) = Cardinality(Owed(c))
           /\ \A n \in Owed(c) :
                LET m == sent[Rank(n, Owed(c))]
                    r == results[routed[n].position]
                IN  IF routed[n].channel = "public" THEN TellsPublic(m, r) ELSE TellsPrivate(m, r, c.client)

\* Routing evicts only a connection with a backlog: one whose socket has taken
\* everything so far has room for any message a command can produce, a command
\* that trades with itself as often as it may included.
OnlyBackloggedEvicted ==
  [][routed' # routed =>
       \A i \in DOMAIN connections :
         connections[i].outbound = <<>> => findConnection(connections', connections[i].handle) # 0]_vars

\* Every result reaches its end of the gateway on each channel it has
\* something for, in whatever way clients read or do not read, unless the run
\* failed while its handoff was pending.  In particular no input ever fails.
ResultsAreRouted ==
  \A n \in 1..MaxCommands :
    (n \in DOMAIN results) ~>
      \/ n \in lost
      \/ /\ n \in DOMAIN results
         /\ \A channel \in {"private"} \cup (IF PublicKnowledge(results[n]) = {} THEN {} ELSE {"public"}) :
              \E i \in DOMAIN routed : routed[i] = [channel |-> channel, position |-> n]
=============================================================================
