---------------------------- MODULE MatchingState ----------------------------
(***************************************************************************)
(* The single-writer order book of matching_engine/: MatchingState and the *)
(* command handlers that change it.  The only configured instrument is     *)
(* SPY, so a price level is identified by its side and its price.          *)
(*                                                                         *)
(* A command is one call of processMessage.  It runs on one thread and is  *)
(* atomic for everybody else; it is split here where the code loops: one   *)
(* step plans and admits the order, one step is one iteration of the       *)
(* matching loop, one step disposes of the remainder.  A std::logic_error  *)
(* is the phase "failed".                                                  *)
(***************************************************************************)
EXTENDS Integers, FiniteSets, Sequences, SequencesExt, FiniteSetsExt

CONSTANTS
  Clients,                 \* client identities
  MaxPrice,                \* InstrumentConfiguration::maxPrice
  MaxOrderQuantity,        \* InstrumentConfiguration::maxOrderQuantity
  MaxPriceLevelAggregate,  \* InstrumentConfiguration::maxPriceLevelAggregate
  MaxEventsPerCommand,     \* MAX_EVENTS_PER_COMMAND
  MaxCommands              \* bound of the model: commands in one run

ASSUME ConstantsAssumption ==
  /\ MaxPrice \in Nat
  /\ MaxOrderQuantity \in Nat
  /\ MaxPriceLevelAggregate \in Nat
  /\ MaxEventsPerCommand \in Nat \ {0}
  /\ MaxCommands \in Nat

VARIABLES
  orderBooks,    \* price level -> [totalQuantity, orders]; a missing level is not in the domain
  activeOrders,  \* OrderId -> [owner, side, price, remainingQuantity]
  sequence,      \* globalSequenceNumber of the last command taken
  phase,         \* "idle", "matching" (inside processOrder) or "failed" (logic_error)
  message,       \* the command in progress, or the last one
  remaining,     \* processOrder's local: quantity not yet executed
  plan,          \* processOrder's local: MatchPlan
  events,        \* events of the command in progress, or of the last one
  result         \* ProcessingResult of the last command

vars == <<orderBooks, activeOrders, sequence, phase, message, remaining, plan, events, result>>
bookVars == <<orderBooks, activeOrders>>

-----------------------------------------------------------------------------
Sides == {"BUY", "SELL"}
Prices == 1..MaxPrice
Quantities == 1..MaxOrderQuantity
OrderIds == 1..MaxCommands

NewOrders == [type: Sides, clientId: Clients, price: Prices,
              quantity: Quantities, tif: {"GTC", "IOC"}]
Cancels == [type: {"CANCEL"}, clientId: Clients, targetOrderId: OrderIds]
NoMessage == [type |-> "NONE"]

LevelKeys == [side: Sides, price: Prices]
OrderNodes == [orderId: OrderIds, owner: Clients, remainingQuantity: Nat]
PriceLevels == [totalQuantity: Nat, orders: Seq(OrderNodes)]
ActiveOrders == [owner: Clients, side: Sides, price: Prices, remainingQuantity: Nat]

Trades == [kind: {"Trade"}, makerOrderId: OrderIds, takerOrderId: OrderIds,
           executionPrice: Prices, executionQuantity: Nat,
           makerRemainingQuantity: Nat, takerRemainingQuantity: Nat]
Resteds == [kind: {"OrderRested"}, orderId: OrderIds, quantity: Nat]
Cancelleds == [kind: {"OrderCancelled"}, orderId: OrderIds, quantity: Nat,
               reason: {"CLIENT_REQUESTED", "IOC_REMAINDER"}]
Rejecteds == [kind: {"CommandRejected"}, orderId: OrderIds,
              reason: {"ORDER_NOT_ACTIVE", "NOT_OWNER", "BOOK_CAPACITY_EXCEEDED"}]
Events == Trades \cup Resteds \cup Cancelleds \cup Rejecteds

Opposite(side) == IF side = "BUY" THEN "SELL" ELSE "BUY"

\* std::min of two quantities.
Lesser(a, b) == IF a <= b THEN a ELSE b

-----------------------------------------------------------------------------
(* The book: lookups.                                                      *)

\* MUTANT: prices that meet exactly do not trade.
Crossing_strict(m) ==
  {k \in DOMAIN orderBooks :
     /\ k.side = Opposite(m.type)
     /\ IF m.type = "BUY" THEN k.price < m.price ELSE k.price > m.price}

\* Levels the incoming order m may trade with.
Crossing(m) ==
  {k \in DOMAIN orderBooks :
     /\ k.side = Opposite(m.type)
     /\ IF m.type = "BUY" THEN k.price <= m.price ELSE k.price >= m.price}

\* MUTANT: both sides are walked in ascending price order.
NoWorse_ascending(k, j) == k.price <= j.price

\* Level k comes no later than level j when the levels of its side are walked:
\* the map's comparator, descending for bids and ascending for asks.
NoWorse(k, j) == IF k.side = "SELL" THEN k.price <= j.price ELSE k.price >= j.price

OwnLevel(m) == [side |-> m.type, price |-> m.price]

\* The nodes of the eligible levels from the best price on, each level front to back.
Makers(m) ==
  LET places == UNION {{k} \X DOMAIN orderBooks[k].orders : k \in Crossing(m)}
      Before(p, q) == IF p[1] = q[1] THEN p[2] < q[2] ELSE NoWorse(p[1], q[1])
      Rank(p) == Cardinality({q \in places : Before(q, p)}) + 1
      Place(n) == CHOOSE p \in places : Rank(p) = n
  IN [n \in 1..Cardinality(places) |-> orderBooks[Place(n)[1]].orders[Place(n)[2]]]

\* One step of the plan's walk: nothing happens once the order is filled.
\* meetsZero records the throw on a zero-quantity node.
PlanVisit(p, node) ==
  IF p.remainder = 0 THEN p
  ELSE [remainder |-> p.remainder - Lesser(p.remainder, node.remainingQuantity),
        executionCount |-> p.executionCount + 1,
        meetsZero |-> p.meetsZero \/ node.remainingQuantity = 0]

\* The plan once an order of the given quantity has been walked past the makers.
PlanWalk(quantity, makers) ==
  LET after[n \in 0..Len(makers)] ==
        IF n = 0 THEN [remainder |-> quantity, executionCount |-> 0, meetsZero |-> FALSE]
        ELSE PlanVisit(after[n - 1], makers[n])
  IN after[Len(makers)]

\* MUTANT: the plan also counts the nodes behind the one that fills the order.
planMatches_countsAll(m) ==
  [PlanWalk(m.quantity, Makers(m)) EXCEPT !.executionCount = Len(Makers(m))]

\* The mutation-free walk that predicts what matching will do.
planMatches(m) == PlanWalk(m.quantity, Makers(m))

\* MUTANT: the level's present aggregate is forgotten.
canAddOrder_ignoresAggregate(m, quantity) == quantity <= MaxPriceLevelAggregate

\* The remainder fits in the aggregate of the level it would join.
canAddOrder(m, quantity) ==
  LET aggregate == IF OwnLevel(m) \in DOMAIN orderBooks
                   THEN orderBooks[OwnLevel(m)].totalQuantity ELSE 0
  IN \/ quantity = 0
     \/ /\ aggregate <= MaxPriceLevelAggregate
        /\ quantity <= MaxPriceLevelAggregate - aggregate

plannedEventCount(p) == p.executionCount + (IF p.remainder > 0 THEN 1 ELSE 0)

ExceedsBatch(p) == plannedEventCount(p) > MaxEventsPerCommand

\* MUTANT: a level stays behind when its last order leaves.
SetLevel_keepsEmpty(k, level) ==
  orderBooks' = [j \in DOMAIN orderBooks \cup {k} |-> IF j = k THEN level ELSE orderBooks[j]]

\* The books with level k holding the given content; an emptied level is erased.
SetLevel(k, level) ==
  orderBooks' = IF level.orders = <<>>
                THEN [j \in DOMAIN orderBooks \ {k} |-> orderBooks[j]]
                ELSE [j \in DOMAIN orderBooks \cup {k} |-> IF j = k THEN level ELSE orderBooks[j]]

SetActive(id, order) ==
  activeOrders' = [j \in DOMAIN activeOrders \cup {id} |-> IF j = id THEN order ELSE activeOrders[j]]

\* MUTANT: the index keeps an order that has left the book.
Deactivate_keeps(id) == UNCHANGED activeOrders

Deactivate(id) ==
  activeOrders' = [j \in DOMAIN activeOrders \ {id} |-> activeOrders[j]]

\* A std::logic_error leaves the handler; nobody looks at the rest of the state again.
Throw ==
  /\ phase' = "failed"
  /\ UNCHANGED <<orderBooks, activeOrders, message, remaining, plan, events, result>>

-----------------------------------------------------------------------------
(* Handlers.                                                               *)

Init ==
  /\ orderBooks = [k \in {} |-> 0]
  /\ activeOrders = [o \in {} |-> 0]
  /\ sequence = 0
  /\ phase = "idle"
  /\ message = NoMessage
  /\ remaining = 0
  /\ plan = [remainder |-> 0, executionCount |-> 0, meetsZero |-> FALSE]
  /\ events = <<>>
  /\ result = "APPLIED"

\* The command ends without touching the book, with one CommandRejected.
Reject(m, orderId, reason, outcome) ==
  /\ events' = <<[kind |-> "CommandRejected", orderId |-> orderId, reason |-> reason]>>
  /\ result' = outcome
  /\ phase' = "idle"
  /\ message' = m
  /\ UNCHANGED <<orderBooks, activeOrders, remaining, plan>>

\* processBuyOrder / processSellOrder up to the matching loop: the order's
\* OrderId is its sequence number, the plan is made on the untouched book and
\* decides whether the command may change anything.
BeginOrder(m) ==
  LET orderId == sequence + 1
      p == planMatches(m)
  IN
  /\ phase = "idle"
  /\ sequence < MaxCommands
  /\ sequence' = orderId
  /\ IF orderId \in DOMAIN activeOrders \/ p.meetsZero
     THEN Throw
     ELSE IF \/ ExceedsBatch(p)
             \/ m.tif = "GTC" /\ ~canAddOrder(m, p.remainder)
     THEN Reject(m, orderId, "BOOK_CAPACITY_EXCEEDED", "BOOK_CAPACITY_EXCEEDED")
     ELSE /\ phase' = "matching"
          /\ message' = m
          /\ plan' = p
          /\ remaining' = m.quantity
          /\ events' = <<>>
          /\ UNCHANGED <<orderBooks, activeOrders, result>>

\* What executeTrade verifies before it changes anything.
MakerIsConsistent(k, tradeQuantity) ==
  LET maker == Head(orderBooks[k].orders)
  IN /\ maker.orderId \in DOMAIN activeOrders
     /\ activeOrders[maker.orderId] =
          [owner |-> maker.owner, side |-> k.side, price |-> k.price,
           remainingQuantity |-> maker.remainingQuantity]
     /\ tradeQuantity # 0
     /\ tradeQuantity <= orderBooks[k].totalQuantity

\* removeFilledOrder's check: the level that loses its last order has no aggregate left.
FilledLevelIsEmpty(k, tradeQuantity) ==
  Len(orderBooks[k].orders) = 1 => orderBooks[k].totalQuantity = tradeQuantity

\* executeTrade and removeFilledOrder on level k.
executeTrade(k) ==
  LET level == orderBooks[k]
      maker == Head(level.orders)
      tradeQuantity == Lesser(remaining, maker.remainingQuantity)
      makerRemaining == maker.remainingQuantity - tradeQuantity
      total == level.totalQuantity - tradeQuantity
  IN
  IF \/ level.orders = <<>>
     \/ ~MakerIsConsistent(k, tradeQuantity)
     \/ makerRemaining = 0 /\ ~FilledLevelIsEmpty(k, tradeQuantity)
  THEN Throw
  ELSE
    /\ events' = Append(events,
         [kind |-> "Trade", makerOrderId |-> maker.orderId, takerOrderId |-> sequence,
          executionPrice |-> k.price, executionQuantity |-> tradeQuantity,
          makerRemainingQuantity |-> makerRemaining,
          takerRemainingQuantity |-> remaining - tradeQuantity])
    /\ remaining' = remaining - tradeQuantity
    /\ IF makerRemaining = 0
       THEN /\ SetLevel(k, [totalQuantity |-> total, orders |-> Tail(level.orders)])
            /\ Deactivate(maker.orderId)
       ELSE /\ SetLevel(k, [totalQuantity |-> total,
                            orders |-> [level.orders EXCEPT ![1].remainingQuantity = makerRemaining]])
            /\ SetActive(maker.orderId,
                         [activeOrders[maker.orderId] EXCEPT !.remainingQuantity = makerRemaining])
    /\ UNCHANGED <<phase, message, plan, result>>

\* One iteration of matchBuyOrder / matchSellOrder: the best eligible level.
MatchOrder ==
  /\ phase = "matching"
  /\ remaining > 0
  /\ \E k \in Crossing(message) :
       /\ \A j \in Crossing(message) : NoWorse(k, j)
       /\ executeTrade(k)
  /\ UNCHANGED sequence

\* MUTANT: the newcomer goes to the front of the queue.
Enqueue_front(level, node) ==
  [totalQuantity |-> level.totalQuantity + node.remainingQuantity,
   orders |-> <<node>> \o level.orders]

\* The level with the node pushed to the back of its queue.
Enqueue(level, node) ==
  [totalQuantity |-> level.totalQuantity + node.remainingQuantity,
   orders |-> Append(level.orders, node)]

\* addOrder: the remainder joins the back of its level's queue and the index.
addOrder(m, orderId, quantity) ==
  LET k == OwnLevel(m)
      level == IF k \in DOMAIN orderBooks THEN orderBooks[k]
               ELSE [totalQuantity |-> 0, orders |-> <<>>]
      node == [orderId |-> orderId, owner |-> m.clientId, remainingQuantity |-> quantity]
  IN
  /\ SetLevel(k, Enqueue(level, node))
  /\ SetActive(orderId, [owner |-> m.clientId, side |-> m.type, price |-> m.price,
                         remainingQuantity |-> quantity])

\* MUTANT: the terminal event reports the order's original quantity.
Terminal_originalQuantity(m, quantity) ==
  IF quantity = 0 THEN <<>>
  ELSE IF m.tif = "GTC"
  THEN <<[kind |-> "OrderRested", orderId |-> sequence, quantity |-> m.quantity]>>
  ELSE <<[kind |-> "OrderCancelled", orderId |-> sequence, quantity |-> m.quantity,
          reason |-> "IOC_REMAINDER"]>>

\* The event that disposes of the remainder, if there is one.
Terminal(m, quantity) ==
  IF quantity = 0 THEN <<>>
  ELSE IF m.tif = "GTC"
  THEN <<[kind |-> "OrderRested", orderId |-> sequence, quantity |-> quantity]>>
  ELSE <<[kind |-> "OrderCancelled", orderId |-> sequence, quantity |-> quantity,
          reason |-> "IOC_REMAINDER"]>>

\* The rest of processOrder once the matching loop has ended.
FinishOrder ==
  LET rests == message.tif = "GTC" /\ remaining > 0
      terminal == Terminal(message, remaining)
  IN
  /\ phase = "matching"
  /\ remaining = 0 \/ Crossing(message) = {}
  /\ IF \/ remaining # plan.remainder
        \/ Len(events) # plan.executionCount
        \/ rests /\ sequence \in DOMAIN activeOrders
        \/ rests /\ ~canAddOrder(message, remaining)
        \/ Len(events) + Len(terminal) # plannedEventCount(plan)
     THEN Throw
     ELSE /\ IF rests THEN addOrder(message, sequence, remaining) ELSE UNCHANGED bookVars
          /\ events' = events \o terminal
          /\ result' = "APPLIED"
          /\ phase' = "idle"
          /\ UNCHANGED <<message, remaining, plan>>
  /\ UNCHANGED sequence

\* What removeCancelledOrder verifies of the stored node at position i of level k.
CancelTargetIsConsistent(id, k, i) ==
  LET level == orderBooks[k]
      order == activeOrders[id]
  IN /\ level.orders[i] = [orderId |-> id, owner |-> order.owner,
                           remainingQuantity |-> order.remainingQuantity]
     /\ IF Len(level.orders) = 1
        THEN level.totalQuantity = order.remainingQuantity
        ELSE level.totalQuantity > order.remainingQuantity

\* MUTANT: the cancelled quantity stays in the level's aggregate.
WithoutNode_keepsAggregate(level, i) ==
  [totalQuantity |-> level.totalQuantity, orders |-> RemoveAt(level.orders, i)]

\* The level without the node at position i.
WithoutNode(level, i) ==
  [totalQuantity |-> level.totalQuantity - level.orders[i].remainingQuantity,
   orders |-> RemoveAt(level.orders, i)]

\* removeCancelledOrder: the order leaves the book and the index.
removeCancelledOrder(m, id) ==
  LET order == activeOrders[id]
      k == [side |-> order.side, price |-> order.price]
      Position(i) == orderBooks[k].orders[i].orderId = id
  IN
  IF \/ order.remainingQuantity = 0
     \/ k \notin DOMAIN orderBooks
     \/ ~ \E i \in DOMAIN orderBooks[k].orders : Position(i) /\ CancelTargetIsConsistent(id, k, i)
  THEN Throw
  ELSE \E i \in DOMAIN orderBooks[k].orders :
    /\ Position(i)
    /\ SetLevel(k, WithoutNode(orderBooks[k], i))
    /\ Deactivate(id)
    /\ events' = <<[kind |-> "OrderCancelled", orderId |-> id,
                    quantity |-> order.remainingQuantity, reason |-> "CLIENT_REQUESTED"]>>
    /\ result' = "APPLIED"
    /\ message' = m
    /\ UNCHANGED <<phase, remaining, plan>>

\* The whole of processCancel.
ProcessCancel(m) ==
  LET id == m.targetOrderId
  IN
  /\ phase = "idle"
  /\ sequence < MaxCommands
  /\ sequence' = sequence + 1
  /\ IF id \notin DOMAIN activeOrders
     THEN Reject(m, id, "ORDER_NOT_ACTIVE", "APPLIED")
     ELSE IF activeOrders[id].owner # m.clientId
     THEN Reject(m, id, "NOT_OWNER", "APPLIED")
     ELSE removeCancelledOrder(m, id)

\* The run has processed as many commands as the model allows.
Exhausted ==
  /\ phase = "idle"
  /\ sequence = MaxCommands
  /\ UNCHANGED vars

Next ==
  \/ \E m \in NewOrders : BeginOrder(m)
  \/ \E m \in Cancels : ProcessCancel(m)
  \/ MatchOrder
  \/ FinishOrder
  \/ Exhausted

Spec == Init /\ [][Next]_vars

-----------------------------------------------------------------------------
(* Properties.                                                             *)

\* Every variable holds a value of its kind.  plan is left out: it is a local
\* that is only compared, and PlanIsExact says what it holds.
TypeOK ==
  /\ DOMAIN orderBooks \subseteq LevelKeys
  /\ \A k \in DOMAIN orderBooks : orderBooks[k] \in PriceLevels
  /\ DOMAIN activeOrders \subseteq OrderIds
  /\ \A o \in DOMAIN activeOrders : activeOrders[o] \in ActiveOrders
  /\ sequence \in 0..MaxCommands
  /\ phase \in {"idle", "matching", "failed"}
  /\ message \in NewOrders \cup Cancels \cup {NoMessage}
  /\ phase = "matching" => message \in NewOrders
  /\ remaining \in Nat
  /\ events \in Seq(Events)
  /\ result \in {"APPLIED", "BOOK_CAPACITY_EXCEEDED"}

\* No command can make the engine throw: the plan predicts the execution, the
\* index agrees with the book at every trade and cancellation, a level's
\* aggregate is never short of the quantity taken from it.  A throw
\* would fail-stop the run, and again at each replay of its journal.
NoLogicError == phase # "failed"

\* MatchingState::invariantsHold without its arithmetic: the index and the
\* books describe the same orders.  Every node has its index entry, every
\* entry has its node, no two nodes carry the same OrderId, no node is empty
\* of quantity and no level is empty of nodes.
IndexMatchesBook ==
  /\ \A k \in DOMAIN orderBooks :
       /\ orderBooks[k].orders # <<>>
       /\ \A i \in DOMAIN orderBooks[k].orders :
            LET node == orderBooks[k].orders[i]
            IN /\ node.remainingQuantity > 0
               /\ node.orderId \in DOMAIN activeOrders
               /\ activeOrders[node.orderId] =
                    [owner |-> node.owner, side |-> k.side, price |-> k.price,
                     remainingQuantity |-> node.remainingQuantity]
  /\ \A o \in DOMAIN activeOrders :
       LET k == [side |-> activeOrders[o].side, price |-> activeOrders[o].price]
       IN /\ k \in DOMAIN orderBooks
          /\ \E i \in DOMAIN orderBooks[k].orders : orderBooks[k].orders[i].orderId = o

\* Within a level orders stand in the order of their OrderIds, which is the
\* order in which their commands were sequenced; hence no two nodes of the
\* level are the same order.
TimePriority ==
  \A k \in DOMAIN orderBooks :
    \A i, j \in DOMAIN orderBooks[k].orders :
      i < j => orderBooks[k].orders[i].orderId < orderBooks[k].orders[j].orderId

\* The book is never crossed or locked, not even between two trades of one
\* command: every resting bid is priced below every resting ask.
BookUncrossed ==
  \A b, a \in DOMAIN activeOrders :
    activeOrders[b].side = "BUY" /\ activeOrders[a].side = "SELL"
      => activeOrders[b].price < activeOrders[a].price

\* The sum of the values of a function, as the number of the units they hold.
Units(amounts) == UNION {{x} \X (1..amounts[x]) : x \in DOMAIN amounts}
Total(amounts) == Cardinality(Units(amounts))

RestingQuantity(orders) == Total([i \in DOMAIN orders |-> orders[i].remainingQuantity])

\* A level's cached totalQuantity is the sum over its orders through every
\* fill, partial fill and cancellation.
AggregateIsExact ==
  \A k \in DOMAIN orderBooks : orderBooks[k].totalQuantity = RestingQuantity(orderBooks[k].orders)

\* A level's aggregate never exceeds the instrument's maximum, however the
\* orders that joined it were filled on arrival.
AggregateBounded ==
  \A k \in DOMAIN orderBooks : orderBooks[k].totalQuantity <= MaxPriceLevelAggregate

\* The part of the order's quantity that an event disposes of.
Disposed(e) == CASE e.kind = "Trade" -> e.executionQuantity
                 [] e.kind = "CommandRejected" -> 0
                 [] OTHER -> e.quantity

Executed(es) == Total([i \in DOMAIN es |-> Disposed(es[i])])

\* An order's quantity is accounted for exactly by its events: what was
\* executed, rested and cancelled adds up to what was ordered, and while it is
\* being matched the difference is what remains.
QuantityConserved ==
  message.type \in Sides /\ phase # "failed" =>
    \/ phase = "matching" /\ Executed(events) + remaining = message.quantity
    \/ phase = "idle" /\ result = "APPLIED" /\ Executed(events) = message.quantity
    \/ phase = "idle" /\ result = "BOOK_CAPACITY_EXCEEDED" /\ Executed(events) = 0

\* Order x is filled before order o of the same side.
Ahead(x, o) ==
  /\ activeOrders[x].side = activeOrders[o].side
  /\ \/ NoWorse(activeOrders[x], activeOrders[o]) /\ activeOrders[x].price # activeOrders[o].price
     \/ activeOrders[x].price = activeOrders[o].price /\ x < o

\* Quantity of a set of active orders, computed on the index alone.
Depth(orders) == Total([o \in orders |-> activeOrders[o].remainingQuantity])
DepthAhead(o) == Depth({x \in DOMAIN activeOrders : Ahead(x, o)})

\* The active orders that m may trade with.
Eligible(m) ==
  {o \in DOMAIN activeOrders :
     [side |-> activeOrders[o].side, price |-> activeOrders[o].price] \in Crossing(m)}

\* The plan by depth: the remainder is what the eligible depth cannot fill, an
\* eligible order executes when the depth ahead of it is less than the quantity.
PlanByDepth(m, quantity) ==
  [remainder |-> quantity - Lesser(quantity, Depth(Eligible(m))),
   executionCount |-> Cardinality({o \in Eligible(m) : DepthAhead(o) < quantity}),
   meetsZero |-> FALSE]

\* planMatches agrees, on every reachable book and for every order that could
\* come next, with the definition by depth.  Decisions taken on the plan hold for
\* the execution that follows it: no batch has more events than it may have,
\* the terminal one included.
PlanIsExact ==
  /\ Len(events) <= MaxEventsPerCommand
  /\ phase = "idle" => \A m \in NewOrders : planMatches(m) = PlanByDepth(m, m.quantity)

\* Order o loses quantity to a trade in this step.
Fills(o) ==
  /\ phase = "matching"
  /\ \/ o \notin DOMAIN activeOrders'
     \/ activeOrders'[o].remainingQuantity # activeOrders[o].remainingQuantity

\* Price-time priority: a resting order is filled only when no other order of
\* its side has a better price, or the same price and an earlier sequence.
PriceTimePriority ==
  [][\A o \in DOMAIN activeOrders : Fills(o) =>
       \A other \in DOMAIN activeOrders :
         activeOrders[other].side = activeOrders[o].side =>
           /\ NoWorse(activeOrders[o], activeOrders[other])
           /\ activeOrders[other].price = activeOrders[o].price => o <= other]_vars
=============================================================================
