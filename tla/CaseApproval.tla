---------------------------- MODULE CaseApproval ----------------------------
(***************************************************************************)
(* What the independent-finance workflow promises for one case, with every *)
(* command taking effect in a single step against the present state: a     *)
(* proposal is submitted, Finance settles it, the planner decides, a new   *)
(* analysis invalidates both, and execution is planned.  There are no      *)
(* requests, no generation counter and no stale read here; ProposalFlow    *)
(* shows that the code's read-then-compare-and-swap transactions implement *)
(* this specification.                                                     *)
(***************************************************************************)
EXTENDS Naturals, Sequences

CONSTANTS Analyses,      \* Analysis Version identities
          SelectionIds,  \* proposal selections, one per submission key
          DecisionIds,   \* decisions, one per finalization key
          Options,       \* executable mitigation options
          Cost,          \* evaluated response cost of each option
          Threshold,     \* Finance approval threshold
          None           \* absent identity (SQL NULL)

VARIABLES analysis,      \* case_projection.current_analysis_id
          selection,     \* case_projection.current_selection_id
          decision,      \* case_projection.current_decision_id
          status,        \* case_projection.status
          analyses,      \* analysis_versions
          selections,    \* case_proposal_selections
          reviews,       \* finance_review_revisions, oldest revision first
          decisions,     \* decisions
          outbox         \* outbox_events: delivery state of each decision's event

caseVars == <<analysis, selection, decision, status,
              analyses, selections, reviews, decisions, outbox>>

CaseStatus == {"open", "awaiting_decision", "decision_rejected",
               "action_planning", "executing", "reanalysis_required"}
ReviewStatus == {"pending", "approved", "rejected", "superseded"}
OutboxState == {"absent", "pending", "processed", "stale"}

RequiresFinanceApproval(o) == Cost[o] > Threshold

\* The status of the newest revision of a review journal.
LatestStatus(revs) == IF revs = <<>> THEN "absent" ELSE revs[Len(revs)]

ClearedByFinance(s) ==
    RequiresFinanceApproval(selections[s].option)
        => LatestStatus(reviews[s]) = "approved"

AlreadyApproved(s) ==
    \E d \in DecisionIds : /\ decisions[d] # None
                           /\ decisions[d].kind = "approved"
                           /\ decisions[d].selection = s

\* The approval d was given for the case as it is now.
ApprovalCurrent(d) ==
    /\ decision = d
    /\ decisions[d] # None
    /\ decisions[d].kind = "approved"
    /\ decisions[d].analysis = analysis
    /\ decisions[d].selection = selection
    /\ decisions[d].revision = Len(reviews[selection])
    /\ ClearedByFinance(selection)

\* The review of the proposal that stops being current is closed.
Retire(rs) ==
    [s \in SelectionIds |-> IF s = selection /\ rs[s] # <<>>
                            THEN Append(rs[s], "superseded") ELSE rs[s]]

Init ==
    /\ analysis = None /\ selection = None /\ decision = None
    /\ status = "open"
    /\ analyses = {}
    /\ selections = [s \in SelectionIds |-> None]
    /\ reviews = [s \in SelectionIds |-> <<>>]
    /\ decisions = [d \in DecisionIds |-> None]
    /\ outbox = [d \in DecisionIds |-> "absent"]

Submit(s, o) ==
    /\ analysis # None
    /\ selections[s] = None
    /\ selections' = [selections EXCEPT ![s] = [analysis |-> analysis, option |-> o]]
    /\ reviews' = [Retire(reviews) EXCEPT
                     ![s] = IF RequiresFinanceApproval(o) THEN <<"pending">> ELSE @]
    /\ selection' = s
    /\ UNCHANGED <<analysis, decision, status, analyses, decisions, outbox>>

Resolve(verdict) ==
    /\ selection # None
    /\ LatestStatus(reviews[selection]) = "pending"
    /\ reviews' = [reviews EXCEPT ![selection] = Append(@, verdict)]
    /\ UNCHANGED <<analysis, selection, decision, status,
                   analyses, selections, decisions, outbox>>

Approve(d) ==
    /\ selection # None
    /\ decisions[d] = None
    /\ ClearedByFinance(selection)
    /\ ~AlreadyApproved(selection)
    /\ decisions' = [decisions EXCEPT ![d] =
                       [kind |-> "approved", analysis |-> analysis,
                        selection |-> selection, revision |-> Len(reviews[selection])]]
    /\ outbox' = [outbox EXCEPT ![d] = "pending"]
    /\ decision' = d
    /\ status' = "action_planning"
    /\ UNCHANGED <<analysis, selection, analyses, selections, reviews>>

Reject(d) ==
    /\ analysis # None
    /\ decisions[d] = None
    /\ selection # None => ~AlreadyApproved(selection)
    /\ decisions' = [decisions EXCEPT ![d] =
                       [kind |-> "rejected", analysis |-> analysis,
                        selection |-> None, revision |-> 0]]
    /\ reviews' = Retire(reviews)
    /\ selection' = None
    /\ decision' = d
    /\ status' = "decision_rejected"
    /\ UNCHANGED <<analysis, analyses, selections, outbox>>

Reanalyse(a) ==
    /\ a \notin analyses
    /\ analyses' = analyses \union {a}
    /\ analysis' = a
    /\ selection' = None
    /\ reviews' = Retire(reviews)
    /\ status' = IF decision # None /\ analysis # None
                 THEN "reanalysis_required" ELSE "awaiting_decision"
    /\ UNCHANGED <<decision, selections, decisions, outbox>>

\* Execution is planned only under an approval that is still current.
Plan(d) ==
    /\ outbox[d] = "pending"
    /\ ApprovalCurrent(d)
    /\ outbox' = [outbox EXCEPT ![d] = "processed"]
    /\ status' = "executing"
    /\ UNCHANGED <<analysis, selection, decision,
                   analyses, selections, reviews, decisions>>

\* A recorded planning failure puts a currently approved case back to planning.
PlanningFailed(d) ==
    /\ outbox[d] = "pending"
    /\ ApprovalCurrent(d)
    /\ status' = "action_planning"
    /\ UNCHANGED <<analysis, selection, decision,
                   analyses, selections, reviews, decisions, outbox>>

\* An event may be retired for good.  Requiring ~ApprovalCurrent(d) here would
\* be the intent, but the code does not keep to it (RetiredEventsWereStale).
RetireEvent(d) ==
    /\ outbox[d] = "pending"
    /\ outbox' = [outbox EXCEPT ![d] = "stale"]
    /\ UNCHANGED <<analysis, selection, decision, status,
                   analyses, selections, reviews, decisions>>

Next ==
    \/ \E s \in SelectionIds, o \in Options : Submit(s, o)
    \/ \E verdict \in {"approved", "rejected"} : Resolve(verdict)
    \/ \E d \in DecisionIds : \/ Approve(d) \/ Reject(d)
                              \/ Plan(d) \/ PlanningFailed(d) \/ RetireEvent(d)
    \/ \E a \in Analyses : Reanalyse(a)

Spec == Init /\ [][Next]_caseVars
=============================================================================
