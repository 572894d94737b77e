----------------------------- MODULE LegacyCase -----------------------------
(***************************************************************************)
(* One case of the legacy workflow: the fallback analysis service, the     *)
(* decision service and the planning worker.                               *)
(*                                                                         *)
(* Nothing here is a compare-and-swap.  The analysis service saves the     *)
(* analysis and overwrites the case's status in two transactions; record   *)
(* reads before its first write and then commits; a worker's failure is    *)
(* recorded in a transaction of its own.  What keeps the ledger sound is   *)
(* the unique idempotency key, the outbox event written with its decision  *)
(* and the update of the event with the actions.                           *)
(*                                                                         *)
(* A worker is the polling loop of a runtime while that runs, and a retry  *)
(* request otherwise.  An exception that leaves _process_outbox ends the   *)
(* loop, not the process.                                                  *)
(***************************************************************************)
EXTENDS Naturals, Sequences

CONSTANTS Analyzers,        \* requests for an analysis
          Deciders,         \* requests to record a decision
          Workers,          \* runtimes and retry requests
          Keys,             \* idempotency keys
          Materials,        \* material hashes
          Unmet,            \* materials whose option lacks a prerequisite approval
          MaxAnalyses, MaxDecisions,
          MaxFaults         \* bound: analyses and plannings that fail

ASSUME LegacyAssumption ==
    /\ MaxAnalyses \in Nat /\ MaxDecisions \in Nat /\ MaxFaults \in Nat
    /\ 0 \notin Materials /\ Keys # {} /\ Unmet \subseteq Materials

Kinds == {"approved", "rejected"}
EventStates == {"absent", "open", "failed", "processed"}
CaseStatus == {"open", "awaiting_decision", "decision_rejected", "action_planning",
               "executing", "reanalysis_required"}

VARIABLES projection,   \* case_projection: status and the current records
          analyses,     \* analysis_versions: the material hash of each
          decisions,    \* decisions, in the order of their insertion
          events,       \* outbox_events: the planning event of each decision
          planned,      \* decisions with execution actions
          asked,        \* where each analysis request stands
          requests,     \* where each decision request stands
          workers,      \* the decision whose planning just failed, or 0
          polling,      \* workers whose RuntimeProgression._loop_task runs
          faults

vars == <<projection, analyses, decisions, events, planned, asked, requests, workers, polling, faults>>

Decision == [analysis : Nat, hash : Materials, kind : Kinds, key : Keys]
Request == [pc : {"idle", "begun", "looked", "read", "answered", "refused"},
            analysis : Nat, kind : Kinds, key : Keys, answer : Nat]

TypeOK ==
    /\ projection \in [status : CaseStatus, analysis : Nat, hash : Materials \union {0},
                       decision : Nat]
    /\ analyses \in Seq(Materials)
    /\ decisions \in Seq(Decision)
    /\ events \in Seq(EventStates) /\ Len(events) = Len(decisions)
    /\ planned \subseteq 1 .. Len(decisions)
    /\ asked \in [Analyzers -> {"idle", "begun", "saved"}]
    /\ requests \in [Deciders -> Request]
    /\ workers \in [Workers -> 0 .. Len(decisions)]
    /\ polling \in SUBSET Workers
    /\ faults \in Nat

Init ==
    /\ projection = [status |-> "open", analysis |-> 0, hash |-> 0, decision |-> 0]
    /\ analyses = <<>> /\ decisions = <<>> /\ events = <<>> /\ planned = {}
    /\ asked = [a \in Analyzers |-> "idle"]
    /\ requests = [r \in Deciders |-> [pc |-> "idle", analysis |-> 0, kind |-> "approved",
                                       key |-> CHOOSE key \in Keys : TRUE, answer |-> 0]]
    /\ workers = [w \in Workers |-> 0]
    /\ polling = {}
    /\ faults = 0

-----------------------------------------------------------------------------
(* FallbackAnalysisApplicationService.create *)

AnalyzeBegin(a) ==
    /\ asked[a] = "idle" /\ Len(analyses) < MaxAnalyses
    /\ asked' = [asked EXCEPT ![a] = "begun"]
    /\ UNCHANGED <<projection, analyses, decisions, events, planned, requests, workers, polling, faults>>

\* save_analysis: a changed material after a decision asks for reanalysis
SaveAnalysis(a, hash) ==
    /\ asked[a] = "begun"
    /\ asked' = [asked EXCEPT ![a] = "saved"]
    /\ analyses' = Append(analyses, hash)
    /\ projection' = [projection EXCEPT
          !.analysis = Len(analyses) + 1, !.hash = hash,
          !.status = IF projection.decision # 0 /\ projection.hash \notin {0, hash}
                     THEN "reanalysis_required" ELSE @]
    /\ UNCHANGED <<decisions, events, planned, requests, workers, polling, faults>>

\* save_case_projection overwrites whatever the status is by now
SaveCaseProjection(a) ==
    /\ asked[a] = "saved"
    /\ asked' = [asked EXCEPT ![a] = "idle"]
    /\ projection' = [projection EXCEPT !.status = "awaiting_decision"]
    /\ UNCHANGED <<analyses, decisions, events, planned, requests, workers, polling, faults>>

AnalyzeFails(a) ==
    /\ asked[a] # "idle" /\ faults < MaxFaults
    /\ asked' = [asked EXCEPT ![a] = "idle"]
    /\ faults' = faults + 1
    /\ UNCHANGED <<projection, analyses, decisions, events, planned, requests, workers, polling>>

-----------------------------------------------------------------------------
(* DecisionService.record *)

\* What a decision is checked against whenever it is read.
RequireAnalysisLineage(d) == /\ decisions[d].analysis \in 1 .. Len(analyses)
                             /\ decisions[d].hash = analyses[decisions[d].analysis]
RequireDerivedSatisfactions(d) == decisions[d].kind = "approved" => decisions[d].hash \notin Unmet
RequireOutboxCardinality(d) == decisions[d].kind = "approved" <=> events[d] # "absent"
DecisionFromRow(d) == /\ RequireAnalysisLineage(d) /\ RequireDerivedSatisfactions(d)
                      /\ RequireOutboxCardinality(d)

Keyed(key) == {d \in 1 .. Len(decisions) : decisions[d].key = key}

\* The fingerprint covers everything the request asks for.
SameRequest(r, d) == /\ decisions[d].analysis = requests[r].analysis
                     /\ decisions[d].kind = requests[r].kind
                     /\ decisions[d].key = requests[r].key

\* _return_existing
ReturnExisting(r, d) ==
    requests' = [requests EXCEPT
        ![r].pc = IF DecisionFromRow(d) /\ SameRequest(r, d)
                  THEN "answered" ELSE "refused",
        ![r].answer = d]

DecideBegin(r, kind, key) ==
    /\ requests[r].pc = "idle"
    /\ Len(analyses) > 0
    /\ \E n \in 1 .. Len(analyses) :
          requests' = [requests EXCEPT ![r] = [pc |-> "begun", analysis |-> n, kind |-> kind,
                                               key |-> key, answer |-> 0]]
    /\ UNCHANGED <<projection, analyses, decisions, events, planned, asked, workers, polling, faults>>

\* get_by_idempotency_key
DecideLookup(r) ==
    /\ requests[r].pc = "begun"
    /\ \/ Keyed(requests[r].key) = {} /\ requests' = [requests EXCEPT ![r].pc = "looked"]
       \/ \E d \in Keyed(requests[r].key) : ReturnExisting(r, d)
    /\ UNCHANGED <<projection, analyses, decisions, events, planned, asked, workers, polling, faults>>

RequireCurrentAnalysis(r) == /\ projection.analysis = requests[r].analysis
                             /\ projection.hash = analyses[requests[r].analysis]

\* _revalidate_existing_satisfactions; a rejection needs none
RevalidateSatisfactions(r) == requests[r].kind = "approved" => projection.hash \notin Unmet

\* authorize_and_materialize; the policy may refuse for other reasons too, the
\* actor's roles or the option among them
DecideRead(r) ==
    /\ requests[r].pc = "looked"
    /\ \/ /\ RequireCurrentAnalysis(r) /\ RevalidateSatisfactions(r)
          /\ requests' = [requests EXCEPT ![r].pc = "read"]
       \/ requests' = [requests EXCEPT ![r].pc = "refused"]
    /\ UNCHANGED <<projection, analyses, decisions, events, planned, asked, workers, polling, faults>>

\* Mutant: the key is not unique, as if only the lookup guarded it.
InsertAnyway(r) == TRUE

\* The unique idempotency key of the decisions table
KeyFree(r) == Keyed(requests[r].key) = {}

\* Mutant: a rejection leaves the pointer to the earlier decision.
SetDecisionUnlessRejected(d, kind) ==
    [projection EXCEPT
        !.decision = IF kind = "approved" THEN d ELSE @,
        !.status = IF kind = "approved" THEN "action_planning" ELSE "decision_rejected"]

\* set_current_decision and mark_rejected
SetDecisionProjection(d, kind) ==
    [projection EXCEPT
        !.decision = d,
        !.status = IF kind = "approved" THEN "action_planning" ELSE "decision_rejected"]

\* Insert the decision, its event and the projection in one transaction
DecideCommit(r) ==
    LET q == requests[r]
        d == Len(decisions) + 1
    IN  /\ q.pc = "read" /\ Len(decisions) < MaxDecisions /\ KeyFree(r)
        /\ decisions' = Append(decisions, [analysis |-> q.analysis,
                           hash |-> analyses[q.analysis], kind |-> q.kind, key |-> q.key])
        /\ events' = Append(events, IF q.kind = "approved" THEN "open" ELSE "absent")
        /\ projection' = SetDecisionProjection(d, q.kind)
        /\ requests' = [requests EXCEPT ![r].pc = "answered", ![r].answer = d]
        /\ UNCHANGED <<analyses, planned, asked, workers, polling, faults>>

\* IntegrityError: somebody else committed this key since the lookup
DecideConflict(r) ==
    /\ requests[r].pc = "read"
    /\ \E d \in Keyed(requests[r].key) : ReturnExisting(r, d)
    /\ UNCHANGED <<projection, analyses, decisions, events, planned, asked, workers, polling, faults>>

-----------------------------------------------------------------------------
(* ActionPlanningWorker: the claim's update takes the row until the commit *)

\* The runtime takes events that never failed, a retry request one that did.
Attempts(w) == IF w \in polling THEN "open" ELSE "failed"

\* Mutant: the oldest unprocessed event is taken, or none.
OldestOnly(w, d) ==
    /\ events[d] = Attempts(w)
    /\ \A e \in 1 .. d - 1 : events[e] \in {"absent", "processed"}

\* _claim_outbox: an unprocessed event, whatever became of the others.
Claimable(w, d) == events[d] = Attempts(w)

Plan(w, d) ==
    /\ workers[w] = 0 /\ Claimable(w, d) /\ DecisionFromRow(d)
    /\ events' = [events EXCEPT ![d] = "processed"]
    /\ planned' = planned \union {d}
    /\ projection' = [projection EXCEPT !.status = "executing"]
    /\ UNCHANGED <<analyses, decisions, asked, requests, workers, polling, faults>>

\* Planning raises: the transaction, and with it the claim, is rolled back
PlanFails(w, d) ==
    /\ workers[w] = 0 /\ Claimable(w, d) /\ faults < MaxFaults
    /\ workers' = [workers EXCEPT ![w] = d]
    /\ faults' = faults + 1
    /\ UNCHANGED <<projection, analyses, decisions, events, planned, asked, requests, polling>>

\* Mutant: the failure is written over an event that was processed meanwhile.
RecordFailureBlind(w) == TRUE

\* record_outbox_failure updates unprocessed events only
Unprocessed(w) == events[workers[w]] # "processed"

\* _recover_failure; there is no row to update when another worker has planned
\* the event meanwhile, and RecordNotFound ends the loop that called the worker.
Recover(w) ==
    /\ workers[w] # 0
    /\ workers' = [workers EXCEPT ![w] = 0]
    /\ IF Unprocessed(w)
       THEN /\ events' = [events EXCEPT ![workers[w]] = "failed"]
            /\ projection' = [projection EXCEPT !.status = "action_planning"]
            /\ UNCHANGED polling
       ELSE /\ polling' = polling \ {w}
            /\ UNCHANGED <<events, projection>>
    /\ UNCHANGED <<analyses, decisions, planned, asked, requests, faults>>

\* The loop ends over an exception before the claim, after the commit or in the
\* recovery, or with its process; the failure may not have been recorded.
LoopEnds(w) ==
    /\ polling' = polling \ {w}
    /\ workers' = [workers EXCEPT ![w] = 0]
    /\ UNCHANGED <<projection, analyses, decisions, events, planned, asked, requests, faults>>

\* The process starts, for the first time or again.
StartLoop(w) ==
    /\ w \notin polling /\ workers[w] = 0
    /\ polling' = polling \union {w}
    /\ UNCHANGED <<projection, analyses, decisions, events, planned, asked, requests, workers,
                   faults>>

Next ==
    \/ \E a \in Analyzers : \/ AnalyzeBegin(a) \/ SaveCaseProjection(a) \/ AnalyzeFails(a)
                            \/ \E hash \in Materials : SaveAnalysis(a, hash)
    \/ \E r \in Deciders : \/ \E kind \in Kinds, key \in Keys : DecideBegin(r, kind, key)
                           \/ DecideLookup(r) \/ DecideRead(r) \/ DecideCommit(r)
                           \/ DecideConflict(r)
    \/ \E w \in Workers : \/ \E d \in 1 .. Len(decisions) : Plan(w, d) \/ PlanFails(w, d)
                          \/ Recover(w) \/ StartLoop(w) \/ LoopEnds(w)

Spec == Init /\ [][Next]_vars

\* A loop that runs polls for events that were never attempted, and a recovery
\* that has begun goes on.  Loops may end and stay so; only that processes are
\* restarted for ever is excluded.
FairSpec ==
    /\ Spec
    /\ \A w \in Workers :
          /\ WF_vars(Recover(w))
          /\ WF_vars(w \in polling /\ \E d \in 1 .. Len(decisions) : Plan(w, d))
    /\ <>[][\A w \in Workers : ~StartLoop(w)]_vars

-----------------------------------------------------------------------------
(* Properties *)

\* A key stands for one decision: however the lookup, the insert and the
\* recovery from a lost race interleave, no second decision is recorded under
\* it and whoever is answered gets the decision asked for, which reads back
\* whatever has been analysed, decided and planned since.
KeyDecidesOnce ==
    /\ \A d, e \in 1 .. Len(decisions) : decisions[d].key = decisions[e].key => d = e
    /\ \A r \in Deciders : requests[r].pc = "answered" =>
          /\ requests[r].answer \in 1 .. Len(decisions)
          /\ SameRequest(r, requests[r].answer)
          /\ DecisionFromRow(requests[r].answer)

\* Actions exist exactly for the decisions whose event is processed: no
\* failure that is recorded late reopens a decision that has been planned.
PlannedIffProcessed ==
    \A d \in 1 .. Len(decisions) : d \in planned <=> events[d] = "processed"

\* Although four writers overwrite the status blindly, what it claims has
\* happened: a rejected case has a rejection as its latest decision, an
\* executing one has planned actions, one that is being planned an approval
\* and one that awaits a decision an analysis.
StatusHasCause ==
    /\ projection.decision = Len(decisions)
    /\ projection.status = "decision_rejected" => decisions[projection.decision].kind = "rejected"
    /\ projection.status = "executing" => planned # {}
    /\ projection.status = "action_planning" =>
          \E d \in 1 .. Len(decisions) : decisions[d].kind = "approved"
    /\ projection.status \in {"awaiting_decision", "reanalysis_required"} => analyses # <<>>

\* An approval is not forgotten while any runtime's loop polls: its event is
\* planned or shows the failure a user can retry, also when other processes
\* die or their loops end over an event somebody else has planned.
ApprovalSettles ==
    \A d \in 1 .. MaxDecisions :
        (d \in DOMAIN events /\ events[d] = "open")
            ~> \/ d \in DOMAIN events /\ events[d] \in {"failed", "processed"}
               \/ polling = {}
=============================================================================
