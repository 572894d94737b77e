-------------------------- MODULE SupplyAllocation --------------------------
(***************************************************************************)
(* The supply arithmetic of an analysis: how a component shortage falls on *)
(* the production orders.  Two calculations live side by side in the code, *)
(* the exposure calculator (a running balance that goes negative) and the  *)
(* allocation the response options are predicted with (an order takes what *)
(* is there and leaves nothing negative behind).                           *)
(*                                                                         *)
(* An order's component demand is its quantity times the bill of material; *)
(* each order serves at most one customer line.  Money is an integer       *)
(* amount.                                                                 *)
(***************************************************************************)
EXTENDS Integers, Sequences, FiniteSets, FiniteSetsExt, SequencesExt

\* ProductionOrder; its customer line goes by customer_order_id
Order == [id : Nat, customer : STRING, due : Nat, priority : 1..5, demand : Nat \ {0},
          revenue : Nat, margin : Nat]

\* customer_order_id is None
NoCustomer == ""

\* TimedQuantity: a receipt or a transfer that arrives on a date
Supply == [source : STRING, date : Nat, quantity : Nat \ {0}]

\* The sum of what a function with a finite domain gives
SumOf(f) == MapThenSumSet(LAMBDA x : f[x], DOMAIN f)

TotalOf(supplies) == SumOf([s \in supplies |-> s.quantity])
DemandOf(orders) == SumOf([o \in orders |-> o.demand])
RevenueOf(orders) == SumOf([o \in orders |-> o.revenue])
MarginOf(orders) == SumOf([o \in orders |-> o.margin])

\* calculate_usable_inventory: a position never counts as negative stock
CalculatorUsable(position) ==
    Max({0, position.on_hand - position.quality_hold - position.protected_allocation})

\* OperationalSnapshot.usable_inventory: the same difference, not clamped
UsableInventory(position) ==
    position.on_hand - position.quality_hold - position.protected_allocation

-----------------------------------------------------------------------------
(* services/exposure/calculator.py *)

Before(o, p) == o.due < p.due \/ (o.due = p.due /\ o.id < p.id)

\* project_inventory: the balance at the end of each day something happens on
ProjectInventory(usable, supplies, orders) ==
    [day \in {s.date : s \in supplies} \union {o.due : o \in orders} |->
        usable + TotalOf({s \in supplies : s.date <= day})
               - DemandOf({o \in orders : o.due <= day})]

\* calculate_exposure, the loop over the days: what an order finds when its turn comes
AffectedOrders(usable, supplies, orders) ==
    {o \in orders : usable + TotalOf({s \in supplies : s.date <= o.due})
                           - DemandOf({p \in orders : Before(p, o)}) < o.demand}

CalculateExposure(usable, supplies, orders) ==
    LET balance == ProjectInventory(usable, supplies, orders)
        stockouts == {day \in DOMAIN balance : balance[day] < 0}
        affected == AffectedOrders(usable, supplies, orders)
    IN  [first_stockout |-> IF stockouts = {} THEN -1 ELSE Min(stockouts),
         shortage |-> IF stockouts = {} THEN 0
                      ELSE -Min({balance[day] : day \in DOMAIN balance}),
         affected |-> {o.id : o \in affected},
         revenue_at_risk |-> RevenueOf(affected),
         margin_at_risk |-> MarginOf(affected)]

-----------------------------------------------------------------------------
(* services/analysis/exposure.py: allocation in the caller's order *)

\* Mutant: a supply is received again by every order due after it.
ReceivedNowAgain(acc, supplies, order) == {s \in supplies : s.date <= order.due}

\* The supplies the loop adds when it comes to this order
ReceivedNow(acc, supplies, order) ==
    {s \in supplies : s.date <= order.due /\ s.date \notin acc.received}

AllocateOrder(acc, supplies, order) ==
    LET now == ReceivedNow(acc, supplies, order)
        available == acc.available + TotalOf(now)
        allocated == Min({available, order.demand})
    IN  [available |-> available - allocated,
         received |-> acc.received \union {s.date : s \in now},
         allocated |-> [id \in DOMAIN acc.allocated \union {order.id} |->
                           IF id = order.id THEN allocated ELSE acc.allocated[id]]]

\* The loop's variables after each order
AllocationTurns(starting, supplies, ordered) ==
    LET turn[k \in 0 .. Len(ordered)] ==
            IF k = 0 THEN [available |-> starting, received |-> {}, allocated |-> <<>>]
            ELSE AllocateOrder(turn[k - 1], supplies, ordered[k])
    IN  turn

AllocateComponentSupply(starting, supplies, ordered) ==
    AllocationTurns(starting, supplies, ordered)[Len(ordered)].allocated

\* sorted by a key: an order stands behind as many as have a smaller one
Sorted(orders, precedes) ==
    [i \in 1 .. Cardinality(orders) |->
        CHOOSE o \in orders : Cardinality({p \in orders : <<p, o>> \in precedes}) = i - 1]

MoreImportant(o, p) ==
    o.priority < p.priority \/ (o.priority = p.priority /\ o.id < p.id)

ByDueDate(orders) ==
    Sorted(orders, {pair \in orders \X orders : Before(pair[1], pair[2])})
ByPriority(orders) ==
    Sorted(orders, {pair \in orders \X orders : MoreImportant(pair[1], pair[2])})

-----------------------------------------------------------------------------
(* services/analysis/options.py: _calculate_intervention_outcome *)

\* percentages are floor-divided
InterventionOutcome(starting, orders, supplies, resequence, cost) ==
    LET ordered == IF resequence THEN ByPriority(orders) ELSE ByDueDate(orders)
        got == AllocateComponentSupply(starting, supplies, ordered)
        protected == {o \in orders : got[o.id] = o.demand}
        missed == orders \ protected
    IN  [uncovered_part_demand |-> SumOf([o \in orders |-> o.demand - got[o.id]]),
         otif_loss_percentage |->
            (100 * Cardinality(missed)) \div Cardinality(orders),
         revenue_at_risk |-> RevenueOf(missed),
         margin_at_risk |-> MarginOf(missed),
         response_cost |-> cost,
         protected |-> {o.id : o \in protected}]
=============================================================================
