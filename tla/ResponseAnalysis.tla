-------------------------- MODULE ResponseAnalysis --------------------------
(***************************************************************************)
(* One analysis from its inputs to the actions of the decision taken on    *)
(* it: analyze_case (options, evidence, standing authorizations, ranking), *)
(* DecisionPolicy on the result, and the action planner.  Each stage is a  *)
(* step of the pipeline; what the code computes in one expression is an    *)
(* operator of SupplyAllocation or EvidencePolicy.                         *)
(***************************************************************************)
EXTENDS SupplyAllocation, EvidencePolicy

CONSTANTS Snapshots,       \* operational snapshots
          Bundles,         \* evidence with conflicts and resolutions
          Contexts,        \* clock readings, runtime mode, corpus, workflow
          NoOffer,         \* alpha_expedite is None
          NoOutcome,       \* predicted is None
          NoOption         \* no recommendation, nothing selected

\* Evidence and clock readings are well-formed, as their Pydantic models are.
ASSUME InputAssumption ==
    /\ \A b \in Bundles : b.items \subseteq EvidenceItem
    /\ \A ctx \in Contexts : ctx.started \in Nat /\ ctx.scenario \in Nat
    /\ RetrievalWindow \in Nat

\* So are the snapshots: there are orders, told apart by their identifiers, and
\* what is offered has a quantity.  No bound on the stock: positions may be over-held.
\* Nothing ties the customer lines to those the production orders name.
ASSUME SnapshotAssumption ==
    \A s \in Snapshots :
        /\ s.orders \subseteq Order /\ IsFiniteSet(s.orders) /\ s.orders # {}
        /\ \A o, p \in s.orders : o.id = p.id => o = p
        /\ s.customer_lines \in Seq(STRING)
        /\ \A position \in {s.inventory, s.source} :
              /\ position.on_hand \in Nat /\ position.quality_hold \in Nat
              /\ position.protected_allocation \in Nat
        /\ s.expedite # NoOffer =>
              /\ s.expedite.due \in Nat /\ s.expedite.quantity \in Nat \ {0}
              /\ s.expedite.unit_cost \in Nat
        /\ s.transfer.arrival \in Nat /\ s.transfer.quantity \in Nat \ {0}
        /\ s.transfer.unit_cost \in Nat

OptionIds == {"no_mitigation", "expedite", "transfer", "resequence", "beta", "combined"}

\* The order of the option identifiers, RL-OPTION-BETA first
IdOrder == [o \in OptionIds |-> CASE o = "beta" -> 1 [] o = "combined" -> 2
              [] o = "expedite" -> 3 [] o = "no_mitigation" -> 4
              [] o = "resequence" -> 5 [] o = "transfer" -> 6]

VARIABLES pc, snapshot, bundle, at,
          options,      \* response options by id
          validation,   \* EvidenceValidation
          approvals,    \* ApprovalSatisfaction records
          material,     \* what the material hash is taken of
          eligible,     \* ids that entered the ranking
          remaining,    \* ids not eliminated yet
          comparator,   \* the stage the ranking is at
          selected,     \* the option of an accepted decision
          actions       \* planned action kinds, in order

vars == <<pc, snapshot, bundle, at, options, validation, approvals, material,
          eligible, remaining, comparator, selected, actions>>

Stages == {"evaluate", "validate", "authorize", "quality", "rank", "decide", "plan",
           "done", "refused"}

-----------------------------------------------------------------------------
(* services/analysis/options.py *)

ApprovalBurden(roles) == Cardinality(roles \ {"response_approver"})

ExecutionRisk(unconfirmed, movements, changes, coordinated) ==
    2 * unconfirmed + movements + changes + Max({0, coordinated - 1})

OptionRoles(finance, quality) ==
    {"material_planner"} \union {r \in {"finance_approver"} : finance}
                         \union {r \in {"quality_approver"} : quality}

RequiresFinance(cost) == cost > 20000

AlphaReceipt(s) ==
    IF s.expedite = NoOffer THEN {}
    ELSE {[source |-> "alpha", date |-> s.expedite.due, quantity |-> s.expedite.quantity]}

DallasTransfer(s) ==
    {[source |-> "transfer", date |-> s.transfer.arrival, quantity |-> s.transfer.quantity]}

ExpediteCost(s) ==
    IF s.expedite = NoOffer THEN 0 ELSE s.expedite.quantity * s.expedite.unit_cost
TransferCost(s) == s.transfer.quantity * s.transfer.unit_cost

Unconfirmed(s) == IF s.recovery_known THEN 0 ELSE 1
Movements(s) == IF s.transfer.cross_plant THEN 1 ELSE 0

TransferAvailable(s) == UsableInventory(s.source) >= s.transfer.quantity
ResequenceAvailable(s) == ByPriority(s.orders) # ByDueDate(s.orders)

\* _option_outcomes
Outcome(s, supplies, resequence, cost) ==
    InterventionOutcome(UsableInventory(s.inventory), s.orders, supplies, resequence, cost)

Requirement(id, scope) == [evidence |-> id, scope |-> scope]
Quantified == {"operational_quantity", "operational_date"}

AlphaEvidence(s) ==
    {Requirement(id, Quantified) : id \in {e \in {"alpha"} : s.expedite # NoOffer}}

NoMitigation(s) ==
    [kind |-> "no_mitigation", active |-> FALSE, executable |-> FALSE,
     predicted |-> Outcome(s, {}, FALSE, 0), roles |-> {}, codes |-> {},
     requires |-> {}, burden |-> 0, risk |-> 0]

Expedite(s) ==
    LET roles == OptionRoles(RequiresFinance(ExpediteCost(s)), FALSE)
    IN  [kind |-> "expedite", active |-> TRUE, executable |-> s.expedite # NoOffer,
         predicted |-> Outcome(s, AlphaReceipt(s), FALSE, ExpediteCost(s)),
         roles |-> roles, requires |-> AlphaEvidence(s),
         codes |-> {c \in {"ALPHA_PARTIAL_SHIPMENT_UNAVAILABLE"} : s.expedite = NoOffer},
         burden |-> ApprovalBurden(roles),
         risk |-> ExecutionRisk(Unconfirmed(s), 0, 0, 1)]

Transfer(s) ==
    [kind |-> "transfer", active |-> TRUE, executable |-> TransferAvailable(s),
     predicted |-> Outcome(s, DallasTransfer(s), FALSE, TransferCost(s)),
     roles |-> OptionRoles(FALSE, FALSE), requires |-> {Requirement("transfer", Quantified)},
     codes |-> {c \in {"TRANSFER_INVENTORY_UNAVAILABLE"} : ~TransferAvailable(s)},
     burden |-> 1, risk |-> ExecutionRisk(0, Movements(s), 0, 1)]

Resequence(s) ==
    [kind |-> "resequence", active |-> TRUE, executable |-> ResequenceAvailable(s),
     predicted |-> Outcome(s, {}, TRUE, 0), roles |-> OptionRoles(FALSE, FALSE),
     requires |-> {},
     codes |-> {c \in {"RESEQUENCE_NOT_APPLICABLE"} : ~ResequenceAvailable(s)},
     burden |-> 1, risk |-> ExecutionRisk(0, 0, 1, 1)]

Beta(s) ==
    LET approved == s.beta = "approved"
        roles == OptionRoles(FALSE, TRUE)
    IN  [kind |-> "alternate_source", active |-> TRUE, executable |-> approved,
         predicted |-> IF approved THEN Outcome(s, {}, FALSE, 0) ELSE NoOutcome,
         roles |-> roles, requires |-> {Requirement("beta", {"qualification_state"})},
         codes |-> {c \in {"QUALITY_QUALIFICATION_PENDING"} : ~approved},
         burden |-> ApprovalBurden(roles), risk |-> ExecutionRisk(Unconfirmed(s), 0, 0, 1)]

Combined(s) ==
    LET cost == ExpediteCost(s) + TransferCost(s)
        roles == OptionRoles(RequiresFinance(cost), FALSE)
        codes == Expedite(s).codes \union Transfer(s).codes \union Resequence(s).codes
    IN  [kind |-> "combined", active |-> TRUE, executable |-> codes = {},
         predicted |-> Outcome(s, AlphaReceipt(s) \union DallasTransfer(s), TRUE, cost),
         roles |-> roles, codes |-> codes,
         requires |-> AlphaEvidence(s) \union {Requirement("transfer", Quantified)},
         burden |-> ApprovalBurden(roles),
         risk |-> ExecutionRisk(Unconfirmed(s), Movements(s), 1, 3)]

ResponseOptions(s) ==
    [o \in OptionIds |-> CASE o = "no_mitigation" -> NoMitigation(s)
       [] o = "expedite" -> Expedite(s)      [] o = "transfer" -> Transfer(s)
       [] o = "resequence" -> Resequence(s)  [] o = "beta" -> Beta(s)
       [] o = "combined" -> Combined(s)]

-----------------------------------------------------------------------------
(* services/analysis/service.py: what evidence and authorizations do to an option *)

\* The evidence codes one requirement adds
RequirementCodes(requirement, valid) ==
    IF requirement.evidence \notin DOMAIN valid.items THEN {"REQUIRED_EVIDENCE_MISSING"}
    ELSE LET v == valid.items[requirement.evidence]
             conflicted == v.uncertainty = "conflicted"
         IN  v.codes
             \union {c \in {"EVIDENCE_CONFLICT_UNRESOLVED"} : conflicted}
             \union {c \in {"AUTHORITY_SCOPE_MISMATCH"} : ~(requirement.scope \subseteq v.scope)}
             \union {c \in {"REQUIRED_EVIDENCE_NOT_AUTHORITATIVE"} :
                        ~v.authoritative /\ v.codes = {} /\ ~conflicted}

\* _apply_evidence_feasibility
EvidenceFeasibility(option, valid) ==
    LET codes == option.codes
                 \union {c \in valid.global_codes : option.active}
                 \union UNION {RequirementCodes(r, valid) : r \in option.requires}
    IN  [option EXCEPT !.codes = codes, !.executable = @ /\ codes = {}]

\* StandingAuthorization.taylor_rl001: the one authorization the callers pass.
\* Scenario day zero is 0 and a day is one unit of the scenario clock.
Taylor == [id |-> "taylor", persona |-> "taylor", role |-> "finance_approver",
           kinds |-> {"expedite", "combined"}, maximum_cost |-> 25000,
           corpora |-> {"demo_corpus"}, from |-> 0, through |-> 14]

\* standing_authorizations_for: Finance decides for itself in the new workflow
StandingAuthorizations(ctx) == {a \in {Taylor} : ctx.workflow = "legacy" \/ a.role # "finance_approver"}

\* StandingAuthorization.permits.  The target is made from the option and the
\* case themselves, so its cost, time and side effects (none) are theirs.
Permits(authorization, option, ctx) ==
    /\ option.predicted # NoOutcome
    /\ option.kind \in authorization.kinds
    /\ ctx.corpus \in authorization.corpora
    /\ option.predicted.response_cost <= authorization.maximum_cost
    /\ authorization.from <= ctx.scenario /\ ctx.scenario <= authorization.through

\* evaluate_approval_satisfaction for every option
Satisfactions(opts, ctx) ==
    LET granted == {p \in OptionIds \X StandingAuthorizations(ctx) :
            /\ p[2].role \in opts[p[1]].roles \ {"response_approver"}
            /\ p[2].role = "quality_approver" => p[2].persona = "jordan"
            /\ Permits(p[2], opts[p[1]], ctx)}
    IN  {[option |-> p[1], authorization |-> p[2].id, persona |-> p[2].persona,
          role |-> p[2].role] : p \in granted}

\* _apply_quality_approval_feasibility
QualityFeasibility(o, option, granted) ==
    IF /\ option.executable /\ "quality_approver" \in option.roles
       /\ ~\E g \in granted : g.option = o /\ g.role = "quality_approver"
    THEN [option EXCEPT !.executable = FALSE,
                        !.codes = @ \union {"QUALITY_APPROVAL_UNSATISFIED"}]
    ELSE option

-----------------------------------------------------------------------------
(* services/analysis/ranking.py *)

Comparators == << [name |-> "uncovered_part_demand", threshold |-> 500],
                  [name |-> "otif_loss_percentage", threshold |-> 10],
                  [name |-> "revenue_at_risk", threshold |-> 50000],
                  [name |-> "margin_at_risk", threshold |-> 25000],
                  [name |-> "response_cost", threshold |-> 10000],
                  [name |-> "burden", threshold |-> 0],
                  [name |-> "risk", threshold |-> 0],
                  [name |-> "option_id", threshold |-> 0] >>

\* _numeric_value; the last comparator is the identifier itself
Value(o, option, name) ==
    CASE name = "option_id" -> IdOrder[o]
      [] name \in {"burden", "risk"} -> option[name]
      [] OTHER -> option.predicted[name]

Feasible(option) ==
    option.active /\ option.executable /\ option.predicted # NoOutcome /\ option.codes = {}

\* Mutant: higher is better.
RetainedHighest(ids, opts, c) ==
    {o \in ids : \A p \in ids :
        Value(o, opts[o], c.name) + c.threshold >= Value(p, opts[p], c.name)}

Retained(ids, opts, c) ==
    LET best == Min({Value(o, opts[o], c.name) : o \in ids})
    IN  {o \in ids : Value(o, opts[o], c.name) <= best + c.threshold}

Recommended == IF remaining = {} THEN NoOption
               ELSE CHOOSE o \in remaining : \A p \in remaining : IdOrder[o] <= IdOrder[p]

-----------------------------------------------------------------------------
(* data/domain/analysis.py: the part of an analysis its material hash covers *)

\* AnalysisEvidenceMaterial.from_evidence: no trace of when it was retrieved
EvidenceMaterial(item, v) ==
    [id |-> item.id, kind |-> item.kind, scope |-> item.scope, system |-> item.system,
     source_time |-> item.source_time, effective_at |-> item.effective_at,
     expires_at |-> item.expires_at, citation |-> item.citation,
     metadata |-> item.metadata, mode |-> item.mode, required |-> item.required,
     uncertainty |-> item.uncertainty, validation |-> v]

AnalysisMaterial(b, ctx, valid, opts, granted, ranking) ==
    [mode |-> ctx.mode, corpus |-> ctx.corpus, scenario |-> ctx.scenario,
     workflow |-> ctx.workflow, snapshot |-> snapshot,
     required_scope |-> b.required_scope, standing |-> StandingAuthorizations(ctx),
     evidence |-> {EvidenceMaterial(item, valid.items[item.id]) : item \in b.items},
     conflicts |-> b.conflicts, resolutions |-> b.resolutions,
     validation |-> valid, options |-> opts, approvals |-> granted,
     ranking |-> ranking]

-----------------------------------------------------------------------------
(* services/decisions/service.py: DecisionPolicy on the current analysis *)

\* _revalidate_existing_satisfactions: exactly one for each remaining role
SatisfactionsHold(o, option, granted, ctx) ==
    \A role \in option.roles \ ({"material_planner", "response_approver"}
                   \union {r \in {"finance_approver"} : ctx.workflow = "independent"}) :
        Cardinality({g \in granted : g.option = o /\ g.role = role}) = 1

\* _selected_option, then the satisfactions.  Alex and the currency of the
\* analysis are ProposalFlow's subject.
DecisionAuthorized(o, opts, granted, ids, valid, ctx) ==
    /\ Feasible(opts[o])
    /\ o \in ids
    /\ \A r \in opts[o].requires : r.evidence \in DOMAIN valid.items
    /\ SatisfactionsHold(o, opts[o], granted, ctx)

-----------------------------------------------------------------------------
(* services/execution/planner.py *)

ActionKindsByOption ==
    [expedite |-> <<"prepare_draft", "coordinate_expedite", "update_status">>,
     transfer |-> <<"prepare_draft", "transfer_inventory", "update_status">>,
     resequence |-> <<"prepare_draft", "resequence_production", "update_status">>,
     combined |-> <<"prepare_draft", "coordinate_expedite", "transfer_inventory",
                    "resequence_production", "update_status">>]

\* The production orders a resequencing is for: those whose customers the
\* option protects or, if there are none, the most important ones.
ResequencedFor(option, s) ==
    LET linked == {o \in s.orders : o.customer # NoCustomer}
        protected == {o \in linked : o.id \in option.predicted.protected}
    IN  IF protected # {} THEN protected
        ELSE {o \in linked : \A p \in linked : o.priority <= p.priority}

\* The rows of customer_orders that are lines of these production orders
CustomerRows(orders, s) ==
    {i \in DOMAIN s.customer_lines : s.customer_lines[i] \in {o.customer : o \in orders}}

\* _action_display raises for an expedite the snapshot does not offer, and for
\* a resequencing that does not find as many customer orders as it names.
ActionBuilds(kind, option, s) ==
    /\ kind = "coordinate_expedite" => s.expedite # NoOffer
    /\ kind = "resequence_production" =>
          LET orders == ResequencedFor(option, s)
          IN  Cardinality(CustomerRows(orders, s)) = Cardinality(orders)

\* plan_actions, FALSE where it raises
Plannable(option, s) ==
    /\ option.executable
    /\ option.kind \in DOMAIN ActionKindsByOption
    /\ \A i \in DOMAIN ActionKindsByOption[option.kind] :
          ActionBuilds(ActionKindsByOption[option.kind][i], option, s)

-----------------------------------------------------------------------------
(* The pipeline *)

Init == /\ pc = "evaluate"
        /\ snapshot \in Snapshots /\ bundle \in Bundles /\ at \in Contexts
        /\ options = <<>> /\ validation = <<>> /\ material = <<>> /\ actions = <<>>
        /\ approvals = {} /\ eligible = {} /\ remaining = {}
        /\ comparator = 1 /\ selected = NoOption

Evaluate == /\ pc = "evaluate"
            /\ options' = ResponseOptions(snapshot)
            /\ pc' = "validate"
            /\ UNCHANGED <<snapshot, bundle, at, validation, approvals, material,
                           eligible, remaining, comparator, selected, actions>>

\* A PolicyViolation leaves the analysis unmade.
Refuse == /\ pc = "validate"
          /\ PolicyViolation(bundle, at)
          /\ pc' = "refused"
          /\ UNCHANGED <<snapshot, bundle, at, options, validation, approvals, material,
                         eligible, remaining, comparator, selected, actions>>

Validate == /\ pc = "validate"
            /\ ~PolicyViolation(bundle, at)
            /\ validation' = ValidateRequiredEvidence(bundle, at)
            /\ options' = [o \in OptionIds |-> EvidenceFeasibility(options[o], validation')]
            /\ pc' = "authorize"
            /\ UNCHANGED <<snapshot, bundle, at, approvals, material, eligible,
                           remaining, comparator, selected, actions>>

Authorize == /\ pc = "authorize"
             /\ approvals' = Satisfactions(options, at)
             /\ options' = [o \in OptionIds |-> QualityFeasibility(o, options[o], approvals')]
             /\ pc' = "quality"
             /\ UNCHANGED <<snapshot, bundle, at, validation, material, eligible,
                            remaining, comparator, selected, actions>>

StartRanking == /\ pc = "quality"
                /\ eligible' = {o \in OptionIds : Feasible(options[o])}
                /\ remaining' = eligible'
                /\ comparator' = 1
                /\ pc' = IF eligible' = {} THEN "decide" ELSE "rank"
                /\ UNCHANGED <<snapshot, bundle, at, options, validation, approvals,
                               material, selected, actions>>

\* One comparator stage.  The loop ends once one option is left, which the
\* identifier makes sure of.
Rank == /\ pc = "rank"
        /\ remaining' = Retained(remaining, options, Comparators[comparator])
        /\ comparator' = comparator + 1
        /\ pc' = IF Cardinality(remaining') = 1 \/ comparator = Len(Comparators)
                 THEN "decide" ELSE "rank"
        /\ UNCHANGED <<snapshot, bundle, at, options, validation, approvals, material,
                       eligible, selected, actions>>

\* The version is hashed and stored; then Alex selects an option of it.
Decide(o) ==
    /\ pc = "decide"
    /\ material' = AnalysisMaterial(bundle, at, validation, options, approvals, Recommended)
    /\ IF DecisionAuthorized(o, options, approvals, eligible, validation, at)
       THEN selected' = o /\ pc' = "plan"
       ELSE selected' = NoOption /\ pc' = "done"
    /\ UNCHANGED <<snapshot, bundle, at, options, validation, approvals, eligible,
                   remaining, comparator, actions>>

Plan == /\ pc = "plan"
        /\ pc' = "done"
        /\ actions' = IF Plannable(options[selected], snapshot)
                      THEN ActionKindsByOption[options[selected].kind] ELSE <<>>
        /\ UNCHANGED <<snapshot, bundle, at, options, validation, approvals, material,
                       eligible, remaining, comparator, selected>>

Next == \/ Evaluate \/ Refuse \/ Validate \/ Authorize \/ StartRanking \/ Rank
        \/ \E o \in OptionIds : Decide(o)
        \/ Plan

Spec == Init /\ [][Next]_vars

-----------------------------------------------------------------------------
(* Properties *)

\* What may carry an option, said of the inputs alone: the item is required
\* material of its scope, retrieved for this analysis inside the window, valid
\* on the scenario's day and not in an unresolved conflict.
Carries(item, scope) ==
    /\ item.required /\ item.kind # "contextual_evidence"
    /\ item.mode = at.mode /\ scope \subseteq item.scope
    /\ item.for_this_analysis /\ item.healthy
    /\ item.source_time # Never /\ item.retrieved_at # Never
    /\ item.source_time <= item.retrieved_at
    /\ item.retrieved_at \in at.started .. at.started + RetrievalWindow
    /\ item.effective_at = Never \/ item.effective_at <= at.scenario
    /\ item.expires_at = Never \/ at.scenario < item.expires_at
    /\ item.uncertainty # "conflicted"
    /\ \A c \in bundle.conflicts : c.relevant /\ item.id \in c.ids =>
          \E r \in bundle.resolutions :
             r.conflict = c.id /\ r.actor.entra /\ "agent" \notin r.actor.roles
             /\ \E role \in r.actor.roles : \A s \in c.scope : role \in ScopeResolverRoles(s)

\* Every option the decision can select rests on evidence that carries it,
\* through validation, feasibility, approval and ranking.
DecidedOnCarryingEvidence ==
    selected # NoOption =>
        \A r \in options[selected].requires :
            \E item \in bundle.items : item.id = r.evidence /\ Carries(item, r.scope)

\* Each production order that names a customer line is the only one to name
\* it, and the snapshot has that line once.
CustomersMatch(s) ==
    \A o \in s.orders : o.customer # NoCustomer =>
        /\ \A p \in s.orders : p.customer = o.customer => p = o
        /\ \E i \in DOMAIN s.customer_lines : \A j \in DOMAIN s.customer_lines :
              s.customer_lines[j] = o.customer <=> j = i

Unmatched(o) == options[o].kind \in {"resequence", "combined"} /\ ~CustomersMatch(snapshot)

\* Whatever gets into the ranking can be planned, and whatever is selected is,
\* with one exception that neither the analysis nor the decision looks for: a
\* resequencing for customers that the customer orders do not match one to one.
EligibleOptionsArePlannable ==
    /\ \A o \in eligible : Plannable(options[o], snapshot) \/ Unmatched(o)
    /\ pc = "done" /\ selected # NoOption => actions # <<>> \/ Unmatched(selected)

\* Premium freight above the threshold is spent on a standing authorization
\* only within its cost and its days, and never in the independent-finance
\* workflow.  (What a transfer costs asks for nobody, in the legacy workflow.)
StandingAuthorizationCovers ==
    /\ selected # NoOption /\ at.workflow = "legacy"
       /\ options[selected].kind \in {"expedite", "combined"}
       /\ options[selected].predicted.response_cost > 20000 =>
          /\ options[selected].predicted.response_cost <= Taylor.maximum_cost
          /\ at.scenario \in Taylor.from .. Taylor.through
    /\ at.workflow = "independent" => \A g \in approvals : g.role # "finance_approver"

\* A selection stands: evidence carries it to the end, the planner has actions
\* for it wherever the customer orders match, and premium freight above the
\* threshold is within the standing authorization.
SelectionStands ==
    DecidedOnCarryingEvidence /\ EligibleOptionsArePlannable /\ StandingAuthorizationCovers

\* An option no worse than the recommendation on the comparators before one
\* beats it there by no more than the threshold: the chain of eliminations,
\* each against a different best, never loses the better option.
RecommendationNotBeaten ==
    pc = "decide" /\ eligible # {} =>
        LET value(o, i) == Value(o, options[o], Comparators[i].name)
        IN  /\ Cardinality(remaining) = 1
            /\ \A o \in eligible, i \in DOMAIN Comparators :
                  (\A j \in 1 .. i - 1 : value(o, j) <= value(Recommended, j)) =>
                      value(Recommended, i) <= value(o, i) + Comparators[i].threshold

\* Total coverage in closed form: the most the orders in this sequence can
\* take when the stock of the j-th turn bounds all turns up to it.
GreedyUncovered(starting, supplies, ordered) ==
    LET demand(k) == SumOf([i \in 1..k |-> ordered[i].demand])
        stock(j) == starting + TotalOf({s \in supplies :
                                          \E i \in 1..j : s.date <= ordered[i].due})
        n == Len(ordered)
    IN  demand(n) - Min({demand(n)} \union {stock(j) + demand(n) - demand(j) : j \in 1..n})

\* The loop that hands supply to orders leaves exactly the shortage the
\* closed form gives, when it goes by due dates.
AllocationIsGreedy ==
    pc = "validate" =>
        options["expedite"].predicted.uncovered_part_demand =
            GreedyUncovered(UsableInventory(snapshot.inventory), AlphaReceipt(snapshot),
                            ByDueDate(snapshot.orders))

\* The supplies an option is predicted with
SuppliesOf(o) == (IF o \in {"expedite", "combined"} THEN AlphaReceipt(snapshot) ELSE {})
                     \union (IF o \in {"transfer", "combined"} THEN DallasTransfer(snapshot) ELSE {})

\* What an option protects can be delivered on time: on no day have the orders
\* due by then more demand than the stock and what has arrived by then.
DeliverableOnTime(o) ==
    LET kept == {order \in snapshot.orders : order.id \in options[o].predicted.protected}
    IN  \A day \in {order.due : order \in kept} :
            DemandOf({order \in kept : order.due <= day})
                <= Max({0, UsableInventory(snapshot.inventory)})
                     + TotalOf({s \in SuppliesOf(o) : s.date <= day})

InDueOrder(ordered) == \A i, j \in DOMAIN ordered : i < j => ordered[i].due <= ordered[j].due

\* Protection is delivery on time, as CONTEXT.md defines a protected customer
\* order, except where the sequence goes back in due dates and supplies arrive
\* meanwhile: there the code protects orders whose supply comes too late.
ProtectionIsPunctual ==
    pc = "validate" =>
        /\ \A o \in {"no_mitigation", "expedite", "transfer", "resequence"} : DeliverableOnTime(o)
        /\ InDueOrder(ByPriority(snapshot.orders)) => DeliverableOnTime("combined")

\* Adding supply never takes the protection of an order away.
SupplyNeverHurts ==
    pc = "validate" =>
        /\ \A o \in {"expedite", "transfer"} :
              options["no_mitigation"].predicted.protected
                  \subseteq options[o].predicted.protected
        /\ options["resequence"].predicted.protected
               \subseteq options["combined"].predicted.protected

\* The exposure calculator and the baseline option disagree only one way, as
\* long as no stock is over-held: an order the calculator leaves alone is
\* protected in the baseline, and the deepest balance is no worse than the
\* demand the baseline leaves uncovered.
CalculatorCoversBaseline ==
    pc = "validate" =>
        LET exposure == CalculateExposure(CalculatorUsable(snapshot.inventory), {},
                                          snapshot.orders)
            baseline == options["no_mitigation"].predicted
        IN  UsableInventory(snapshot.inventory) >= 0 =>
            /\ {o.id : o \in snapshot.orders} \ exposure.affected \subseteq baseline.protected
            /\ exposure.shortage <= baseline.uncovered_part_demand
            /\ baseline.revenue_at_risk <= exposure.revenue_at_risk

\* The supply arithmetic agrees with its reference definitions: the shortage
\* is the one the closed form gives, protection is delivery on time in due
\* order, more supply protects no fewer orders, and the calculator errs on the
\* side of caution.
ExposureMatchesReference ==
    AllocationIsGreedy /\ ProtectionIsPunctual /\ SupplyNeverHurts /\ CalculatorCoversBaseline
=============================================================================
