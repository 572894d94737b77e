------------------------- MODULE MCResponseAnalysis -------------------------
(* Instance of ResponseAnalysis for TLC: the RL-001 case and its neighbours.  *)
(* Each evidence item is healthy or has one thing wrong with it.              *)
EXTENDS ResponseAnalysis

Lines == <<"co1", "co2", "co3">>

PO(i, due, priority, demand, revenue, margin) ==
    [id |-> i, customer |-> Lines[i], due |-> due, priority |-> priority, demand |-> demand,
     revenue |-> revenue, margin |-> margin]

MCOrders ==
    { {PO(1, 5, 3, 5000, 375000, 125000), PO(2, 8, 1, 5800, 580000, 203000)},
      {PO(1, 5, 3, 2500, 375000, 125000), PO(2, 8, 1, 5800, 580000, 203000)},
      {PO(1, 5, 1, 4200, 30000, 10000), PO(2, 5, 1, 2800, 40000, 15000),
       PO(3, 7, 1, 900, 90000, 20000)},
      {PO(1, 7, 1, 2100, 300000, 10000), PO(2, 4, 2, 2000, 40000, 15000),
       [PO(3, 4, 5, 700, 20000, 5000) EXCEPT !.customer = NoCustomer]} }

Position(onHand, hold, protected) ==
    [on_hand |-> onHand, quality_hold |-> hold, protected_allocation |-> protected]

Offers == {NoOffer, [due |-> 6, quantity |-> 3000, unit_cost |-> 7],
                    [due |-> 4, quantity |-> 4000, unit_cost |-> 6]}

Transfers == {[arrival |-> 5, quantity |-> 1500, unit_cost |-> c, cross_plant |-> TRUE] :
                 c \in {1, 15}}

\* The customer orders match in all but the last set: a line is missing there,
\* or is there twice.
MCSnapshots ==
    [orders : MCOrders, customer_lines : {Lines},
     inventory : {Position(4500, 200, 300), Position(200, 300, 0)},
     source : {Position(1800, 0, 300), Position(1700, 0, 300)}, expedite : Offers,
     transfer : Transfers, beta : {"pending", "approved"}, recovery_known : {FALSE}]
    \union
    [orders : MCOrders, customer_lines : {<<"co1", "co3">>, <<"co1", "co2", "co2">>},
     inventory : {Position(4500, 200, 300)}, source : {Position(1800, 0, 300)},
     expedite : Offers, transfer : Transfers, beta : {"pending"}, recovery_known : {FALSE}]

Fabric(id, scope) ==
    [id |-> id, kind |-> "operational_fact", scope |-> scope, system |-> "fabric",
     mode |-> "live", required |-> TRUE, source_time |-> 1, retrieved_at |-> 12,
     for_this_analysis |-> TRUE, healthy |-> TRUE, effective_at |-> 0, expires_at |-> 30,
     uncertainty |-> "certain", citation |-> TRUE, metadata |-> TRUE]

Faults(item) ==
    {[item EXCEPT !.retrieved_at = 9], [item EXCEPT !.retrieved_at = 16],
     [item EXCEPT !.retrieved_at = Never], [item EXCEPT !.source_time = 14],
     [item EXCEPT !.for_this_analysis = FALSE], [item EXCEPT !.healthy = FALSE],
     [item EXCEPT !.expires_at = 3], [item EXCEPT !.effective_at = 4],
     [item EXCEPT !.required = FALSE], [item EXCEPT !.mode = "fallback"],
     [item EXCEPT !.system = "work_iq"], [item EXCEPT !.uncertainty = "conflicted"],
     [item EXCEPT !.scope = {"operational_date"}]}

Alpha == Fabric("alpha", Quantified)
DalTransfer == Fabric("transfer", Quantified)
Qualification == Fabric("beta", {"qualification_state"})

Sound(items, conflicts, resolutions, scope) ==
    [items |-> items, conflicts |-> conflicts, resolutions |-> resolutions,
     required_scope |-> scope]

Actor(persona, roles) == [persona |-> persona, roles |-> roles, entra |-> TRUE]

\* Alpha and the transfer disagree; Alex may say which governs, Jordan may not.
Dispute == [id |-> "dispute", ids |-> {"alpha", "transfer"}, scope |-> {"operational_date"},
            relevant |-> TRUE]
Ruling(actor) == [conflict |-> "dispute", governing |-> "alpha", actor |-> actor]

MCBundles ==
    {Sound({Alpha, DalTransfer, Qualification}, {}, {}, {})}
    \union {Sound({f, DalTransfer, Qualification}, {}, {}, {}) : f \in Faults(Alpha)}
    \union {Sound({Alpha, DalTransfer}, {}, {}, {"qualification_state"}),
            Sound({Alpha, Qualification}, {}, {}, {})}
    \union {Sound({Alpha, DalTransfer, Qualification}, {Dispute}, r, {}) :
              r \in { {}, {Ruling(Actor("alex", {"material_planner"}))},
                      {Ruling(Actor("jordan", {"quality_approver"}))} }}

MCContexts ==
    [started : {10}, recorded : {13, 18}, scenario : {3, 20}, mode : {"live"},
     corpus : {"demo_corpus"}, workflow : {"legacy", "independent"}]
=============================================================================
