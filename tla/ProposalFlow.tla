---------------------------- MODULE ProposalFlow ----------------------------
(***************************************************************************)
(* The independent-finance workflow of one case as the code runs it:       *)
(* concurrent requests of Alex (submit, finalize), Taylor (resolve), the   *)
(* analysis writer and the action-planning workers share one               *)
(* case_projection row and its append-only journals.                       *)
(*                                                                         *)
(* The SELECTs a unit of work issues before its first write run in no      *)
(* common snapshot (pysqlite opens the transaction at the first write; SQL *)
(* Server reads committed data), so each is a step of its own.  From the   *)
(* first write on, locks make the transaction atomic: its commit is one    *)
(* step, whose first conjunct is the compare-and-swap on the token.        *)
(*                                                                         *)
(* A request that raises, is refused or whose process dies has no effect   *)
(* on the database: Abort.  An idempotent replay only reads, so it is an   *)
(* Abort too; a submission key names at most one selection and a           *)
(* finalization key at most one decision, and they are identified here.    *)
(*                                                                         *)
(* A worker is the polling loop of a runtime while that loop runs, and the *)
(* thread of a retry request otherwise.  The loop catches only the timeout *)
(* it sleeps with: an exception that escapes the worker ends it, and the   *)
(* process lives on without one.                                           *)
(***************************************************************************)
EXTENDS Naturals, Sequences

CONSTANTS Handlers,      \* requests and workers that run at the same time
          Workers,       \* the action-planning workers among them
          Analyses,      \* Analysis Version identities
          SelectionIds,  \* proposal selections, one per submission key
          DecisionIds,   \* decisions, one per finalization key
          Options,       \* executable mitigation options
          Cost,          \* evaluated response cost of each option
          Threshold,     \* Finance approval threshold
          MaxAttempts,   \* bound: recorded planning failures of one event
          None           \* absent identity (SQL NULL)

ASSUME CostAssumption == Cost \in [Options -> Nat] /\ Threshold \in Nat
ASSUME MaxAttemptsAssumption == MaxAttempts \in Nat
ASSUME WorkersAssumption == Workers \subseteq Handlers
ASSUME NoneAssumption ==
    None \notin Analyses \union SelectionIds \union DecisionIds \union Options

VARIABLES generation,    \* case_projection.proposal_generation
          analysis,      \* case_projection.current_analysis_id
          selection,     \* case_projection.current_selection_id
          decision,      \* case_projection.current_decision_id
          status,        \* case_projection.status
          analyses,      \* analysis_versions
          selections,    \* case_proposal_selections
          reviews,       \* finance_review_revisions, oldest revision first
          decisions,     \* decisions
          outbox,        \* outbox_events: delivery state per decision
          attempts,      \* outbox_events.attempt_count; last_error is set iff > 0
          req,           \* what each handler is doing and what it has read
          loop           \* RuntimeProgression._loop_task of each worker

dbVars == <<generation, analysis, selection, decision, status,
            analyses, selections, reviews, decisions, outbox, attempts>>
vars == <<dbVars, req, loop>>

CaseStatus == {"open", "awaiting_decision", "decision_rejected",
               "action_planning", "executing", "reanalysis_required"}
ReviewStatus == {"pending", "approved", "rejected", "superseded"}
OutboxState == {"absent", "pending", "processed", "stale"}
Verdicts == {"approved", "rejected"}

\* ended: by an exception, in a process that still serves requests.
LoopState == {"down", "running", "ended"}

ProposalToken == [generation : Nat,
                  analysis : Analyses \union {None},
                  selection : SelectionIds \union {None}]

Selection == [analysis : Analyses, option : Options]

Decision == [kind : Verdicts,
             analysis : Analyses,
             selection : SelectionIds \union {None},
             revision : Nat]

ASSUME RowAssumption == None \notin Selection \union Decision

\* arg: the selection, decision or analysis the command is about; pick: the
\* option submitted, the verdict given, or the error to be recorded; token and
\* revs: the projection token and the current review's revisions it has read;
\* seen: the attempt_count read by failure recovery.
Request == [op : {"none", "submit", "resolve", "finalize", "analyze",
                  "plan", "recover", "record"},
            phase : {"idle", "begun", "token", "read", "checked"},
            arg : Analyses \union SelectionIds \union DecisionIds \union {None},
            pick : Options \union Verdicts \union {"error", "stale"} \union {None},
            token : ProposalToken,
            revs : Seq(ReviewStatus),
            seen : Nat]

NoToken == [generation |-> 0, analysis |-> None, selection |-> None]
NoRequest == [op |-> "none", phase |-> "idle", arg |-> None, pick |-> None,
              token |-> NoToken, revs |-> <<>>, seen |-> 0]

-----------------------------------------------------------------------------
(* Policy and state helpers *)

RequiresFinanceApproval(o) == Cost[o] > Threshold

\* The status of the newest revision of a review journal.
LatestStatus(revs) == IF revs = <<>> THEN "absent" ELSE revs[Len(revs)]

Token == [generation |-> generation, analysis |-> analysis, selection |-> selection]

\* FinanceDecisionService._already_approved
AlreadyApproved(s) ==
    \E d \in DecisionIds : /\ decisions[d] # None
                           /\ decisions[d].kind = "approved"
                           /\ decisions[d].selection = s

\* Mutant: anything but a rejection is taken for Finance's approval.
EvidenceUnlessRejected(r) ==
    /\ r.token.selection # None
    /\ RequiresFinanceApproval(selections[r.token.selection].option)
           => LatestStatus(r.revs) # "rejected"

\* FinanceDecisionService._evidence: what a handler read clears the proposal.
EvidenceSuffices(r) ==
    /\ r.token.selection # None
    /\ RequiresFinanceApproval(selections[r.token.selection].option)
           => LatestStatus(r.revs) = "approved"

\* check_execution_current, on the state a handler has read.
DecisionMatches(r, d) ==
    /\ decisions[d] # None
    /\ decisions[d].kind = "approved"
    /\ decision = d
    /\ analysis = decisions[d].analysis
    /\ r.token.analysis = decisions[d].analysis
    /\ r.token.selection = decisions[d].selection
    /\ Len(r.revs) = decisions[d].revision
    /\ r.revs # <<>> => LatestStatus(r.revs) = "approved"

\* The claiming UPDATE holds the event's row until its transaction ends.
RowFree(h, d) ==
    \A g \in Handlers \ {h} : ~(req[g].op = "plan" /\ req[g].arg = d)

-----------------------------------------------------------------------------
(* Steps shared by all commands *)

Begin(h, op, arg, pick) ==
    /\ req[h].phase = "idle"
    /\ req' = [req EXCEPT ![h] = [op |-> op, phase |-> "begun", arg |-> arg,
                                  pick |-> pick, token |-> Token, revs |-> <<>>,
                                  seen |-> 0]]
    /\ UNCHANGED <<dbVars, loop>>

\* get_state, first read of the token.  A human's command carries the token
\* of the page it was issued from and is refused when that has changed.
ReadToken(h) ==
    /\ req[h].phase = "begun"
    /\ req[h].op \in {"submit", "resolve", "finalize", "analyze", "plan"}
    /\ req[h].op \in {"submit", "resolve", "finalize"} => req[h].token = Token
    /\ req' = [req EXCEPT ![h].phase = "token", ![h].token = Token]
    /\ UNCHANGED <<dbVars, loop>>

\* get_state, the rest: the newest review revision, and the token once more.
ReadReview(h) ==
    /\ req[h].phase = "token"
    /\ req[h].token = Token
    /\ req' = [req EXCEPT ![h].phase = "read",
                          ![h].revs = IF selection = None THEN <<>>
                                      ELSE reviews[selection]]
    /\ UNCHANGED <<dbVars, loop>>

Abort(h) ==
    /\ req[h].phase # "idle"
    /\ req' = [req EXCEPT ![h] = NoRequest]
    /\ UNCHANGED <<dbVars, loop>>

Done(h) == req' = [req EXCEPT ![h] = NoRequest] /\ UNCHANGED loop

\* An exception escapes the unit of work: it ends the loop, if a loop ran it.
Escape(h) ==
    /\ req' = [req EXCEPT ![h] = NoRequest]
    /\ loop' = [loop EXCEPT ![h] = IF @ = "running" THEN "ended" ELSE @]

\* Mutant: a guard that moves no pointer does not count as a write.
CasPointersOnly(h, newAnalysis, newSelection) ==
    /\ req[h].token = Token
    /\ generation' = IF newAnalysis = analysis /\ newSelection = selection
                     THEN generation ELSE generation + 1
    /\ analysis' = newAnalysis
    /\ selection' = newSelection

\* _cas_projection: every write to the case goes through the token it was
\* computed from and moves the generation on.
CasProjection(h, newAnalysis, newSelection) ==
    /\ req[h].token = Token
    /\ generation' = generation + 1
    /\ analysis' = newAnalysis
    /\ selection' = newSelection

\* _supersede and withdraw_current append to the review they have read; the
\* append is refused on a revision conflict and on a closed review.
CanSupersede(h) ==
    req[h].revs # <<>> =>
        /\ LatestStatus(req[h].revs) # "superseded"
        /\ Len(reviews[req[h].token.selection]) = Len(req[h].revs)

\* Mutant: only a review that still waits for Taylor is closed.
SupersedePending(h, rs) ==
    [s \in SelectionIds |->
        IF s = req[h].token.selection /\ LatestStatus(req[h].revs) = "pending"
        THEN Append(rs[s], "superseded") ELSE rs[s]]

\* Mutant: the newest revision is overwritten instead of followed by another.
SupersedeInPlace(h, rs) ==
    [s \in SelectionIds |-> IF s = req[h].token.selection /\ req[h].revs # <<>>
                            THEN [rs[s] EXCEPT ![Len(rs[s])] = "superseded"] ELSE rs[s]]

Supersede(h, rs) ==
    [s \in SelectionIds |-> IF s = req[h].token.selection /\ req[h].revs # <<>>
                            THEN Append(rs[s], "superseded") ELSE rs[s]]

-----------------------------------------------------------------------------
(* Alex submits a proposal: FinanceService.submit, publish *)

SubmitBegin(h, s, o) == selections[s] = None /\ Begin(h, "submit", s, o)

Publish(h) ==
    LET s == req[h].arg
        o == req[h].pick
    IN  /\ req[h].op = "submit" /\ req[h].phase = "read"
        /\ req[h].token.analysis # None
        /\ selections[s] = None
        /\ CasProjection(h, analysis, s)
        /\ CanSupersede(h)
        /\ selections' = [selections EXCEPT ![s] =
                            [analysis |-> req[h].token.analysis, option |-> o]]
        /\ reviews' = [Supersede(h, reviews) EXCEPT
                         ![s] = IF RequiresFinanceApproval(o) THEN <<"pending">> ELSE @]
        /\ UNCHANGED <<decision, status, analyses, decisions, outbox, attempts>>
        /\ Done(h)

-----------------------------------------------------------------------------
(* Taylor settles a review: FinanceService.resolve, guard_current, append *)

ResolveBegin(h, s, verdict) == reviews[s] # <<>> /\ Begin(h, "resolve", s, verdict)

ResolveCommit(h) ==
    LET s == req[h].arg
    IN  /\ req[h].op = "resolve" /\ req[h].phase = "read"
        /\ req[h].token.selection = s
        /\ LatestStatus(req[h].revs) = "pending"
        /\ CasProjection(h, analysis, selection)
        /\ Len(reviews[s]) = Len(req[h].revs)
        /\ reviews' = [reviews EXCEPT ![s] = Append(@, req[h].pick)]
        /\ UNCHANGED <<decision, status, analyses, selections, decisions,
                       outbox, attempts>>
        /\ Done(h)

-----------------------------------------------------------------------------
(* Alex decides: FinanceDecisionService.finalize *)

FinalizeBegin(h, d, kind) == decisions[d] = None /\ Begin(h, "finalize", d, kind)

\* Mutant: the decisions already taken are not looked at.
FinalizeCheckForgetful(h) ==
    /\ req[h].op = "finalize" /\ req[h].phase = "read"
    /\ req[h].token.analysis # None
    /\ req[h].token.analysis = analysis
    /\ req[h].pick = "approved" => EvidenceSuffices(req[h])
    /\ req' = [req EXCEPT ![h].phase = "checked"]
    /\ UNCHANGED <<dbVars, loop>>

FinalizeCheck(h) ==
    /\ req[h].op = "finalize" /\ req[h].phase = "read"
    /\ req[h].token.analysis # None
    /\ req[h].token.analysis = analysis
    /\ req[h].pick = "approved" => EvidenceSuffices(req[h])
    /\ req[h].token.selection # None => ~AlreadyApproved(req[h].token.selection)
    /\ req' = [req EXCEPT ![h].phase = "checked"]
    /\ UNCHANGED <<dbVars, loop>>

Approve(h) ==
    LET d == req[h].arg
    IN  /\ req[h].op = "finalize" /\ req[h].phase = "checked"
        /\ req[h].pick = "approved"
        /\ CasProjection(h, analysis, selection)
        /\ decisions[d] = None
        /\ decisions' = [decisions EXCEPT ![d] =
                           [kind |-> "approved", analysis |-> req[h].token.analysis,
                            selection |-> req[h].token.selection,
                            revision |-> Len(req[h].revs)]]
        /\ outbox' = [outbox EXCEPT ![d] = "pending"]
        /\ decision' = d
        /\ status' = "action_planning"
        /\ UNCHANGED <<analyses, selections, reviews, attempts>>
        /\ Done(h)

\* A rejection withdraws the current proposal, if there is one.
Reject(h) ==
    LET d == req[h].arg
    IN  /\ req[h].op = "finalize" /\ req[h].phase = "checked"
        /\ req[h].pick = "rejected"
        /\ CasProjection(h, analysis, None)
        /\ CanSupersede(h)
        /\ decisions[d] = None
        /\ decisions' = [decisions EXCEPT ![d] =
                           [kind |-> "rejected", analysis |-> req[h].token.analysis,
                            selection |-> None, revision |-> 0]]
        /\ reviews' = Supersede(h, reviews)
        /\ decision' = d
        /\ status' = "decision_rejected"
        /\ UNCHANGED <<analyses, selections, outbox, attempts>>
        /\ Done(h)

-----------------------------------------------------------------------------
(* A finished analysis is saved: SqlAlchemyStore._save_analysis_connection *)

AnalyzeBegin(h, a) == a \notin analyses /\ Begin(h, "analyze", a, None)

SaveAnalysis(h) ==
    LET a == req[h].arg
    IN  /\ req[h].op = "analyze" /\ req[h].phase = "read"
        /\ a \notin analyses
        /\ CasProjection(h, a, None)
        /\ CanSupersede(h)
        /\ analyses' = analyses \union {a}
        /\ status' = IF decision # None /\ analysis # None
                     THEN "reanalysis_required" ELSE "awaiting_decision"
        /\ reviews' = Supersede(h, reviews)
        /\ UNCHANGED <<decision, selections, decisions, outbox, attempts>>
        /\ Done(h)

-----------------------------------------------------------------------------
(* Action planning: ActionPlanningWorker._process_outbox *)

\* Mutant: the loop looks only at cases still in action planning.
ClaimWhilePlanning(h, d) ==
    /\ loop[h] = "running"
    /\ outbox[d] = "pending" /\ attempts[d] = 0
    /\ status = "action_planning"
    /\ RowFree(h, d)
    /\ Begin(h, "plan", d, None)

\* The polling loop takes events that never failed.
ClaimUnattempted(h, d) ==
    /\ loop[h] = "running"
    /\ outbox[d] = "pending" /\ attempts[d] = 0
    /\ RowFree(h, d)
    /\ Begin(h, "plan", d, None)

\* The retry route takes the event of a decision whose planning failed.
RetryPlanning(h, d) ==
    /\ loop[h] # "running"
    /\ outbox[d] = "pending" /\ attempts[d] > 0
    /\ RowFree(h, d)
    /\ Begin(h, "plan", d, None)

ExecutionCheck(h) ==
    /\ req[h].op \in {"plan", "recover"} /\ req[h].phase = "read"
    /\ DecisionMatches(req[h], req[h].arg)
    /\ req[h].token = Token
    /\ req' = [req EXCEPT ![h].phase = "checked"]
    /\ UNCHANGED <<dbVars, loop>>

\* Mutant: the check before the transaction is taken to be enough.
PlanCommitUnguarded(h) ==
    LET d == req[h].arg
    IN  /\ req[h].op = "plan" /\ req[h].phase = "checked"
        /\ outbox[d] = "pending"
        /\ outbox' = [outbox EXCEPT ![d] = "processed"]
        /\ status' = "executing"
        /\ UNCHANGED <<generation, analysis, selection, decision, analyses, selections,
                       reviews, decisions, attempts>>
        /\ Done(h)

\* Actions inserted, event processed and case status set in one transaction.
PlanCommit(h) ==
    LET d == req[h].arg
    IN  /\ req[h].op = "plan" /\ req[h].phase = "checked"
        /\ CasProjection(h, analysis, selection)
        /\ outbox[d] = "pending"
        /\ outbox' = [outbox EXCEPT ![d] = "processed"]
        /\ status' = "executing"
        /\ UNCHANGED <<decision, analyses, selections, reviews, decisions, attempts>>
        /\ Done(h)

\* A failed unit of work is followed by another about the same event.
FollowUp(h, op, pick) ==
    [NoRequest EXCEPT !.op = op, !.phase = "begun", !.arg = req[h].arg, !.pick = pick]

\* A planner or database error rolls the claim back and starts recovery.
PlanError(h) ==
    /\ req[h].op = "plan"
    /\ attempts[req[h].arg] < MaxAttempts
    /\ req' = [req EXCEPT ![h] = FollowUp(h, "recover", None)]
    /\ UNCHANGED <<dbVars, loop>>

RecoverBegin(h) ==
    /\ req[h].op = "recover" /\ req[h].phase = "begun"
    /\ outbox[req[h].arg] = "pending"
    /\ req' = [req EXCEPT ![h].phase = "token", ![h].token = Token,
                          ![h].seen = attempts[req[h].arg]]
    /\ UNCHANGED <<dbVars, loop>>

\* Mutant: the failure is recorded as the legacy workflow does, with no guard.
RecoverCommitBlind(h) ==
    LET d == req[h].arg
    IN  /\ req[h].op = "recover" /\ req[h].phase = "checked"
        /\ attempts[d] < MaxAttempts
        /\ attempts' = [attempts EXCEPT ![d] = @ + 1]
        /\ status' = "action_planning"
        /\ UNCHANGED <<generation, analysis, selection, decision, analyses, selections,
                       reviews, decisions, outbox>>
        /\ Done(h)

RecoverCommit(h) ==
    LET d == req[h].arg
    IN  /\ req[h].op = "recover" /\ req[h].phase = "checked"
        /\ CasProjection(h, analysis, selection)
        /\ RowFree(h, d)
        /\ outbox[d] = "pending" /\ attempts[d] = req[h].seen
        /\ attempts[d] < MaxAttempts
        /\ attempts' = [attempts EXCEPT ![d] = @ + 1]
        /\ status' = "action_planning"
        /\ UNCHANGED <<decision, analyses, selections, reviews, decisions, outbox>>
        /\ Done(h)

\* ExecutionProposalStale, from any of the three places that raise it.
ProposalStale(h) ==
    /\ req[h].op \in {"plan", "recover"}
    /\ \/ req[h].phase \in {"token", "checked"} /\ req[h].token # Token
       \/ /\ req[h].phase = "read"
          /\ ~(DecisionMatches(req[h], req[h].arg) /\ req[h].token = Token)
    /\ req' = [req EXCEPT ![h] = FollowUp(h, "record", "stale")]
    /\ UNCHANGED <<dbVars, loop>>

RecoverError(h) ==
    /\ req[h].op = "recover"
    /\ attempts[req[h].arg] < MaxAttempts
    /\ req' = [req EXCEPT ![h] = FollowUp(h, "record", "error")]
    /\ UNCHANGED <<dbVars, loop>>

\* After a stale proposal the worker returns, after any other error that
\* _event_only_failure was to record _recover_failure raises it again.
AfterRecord(h) == IF req[h].pick = "error" THEN Escape(h) ELSE Done(h)

\* _event_only_failure: the case is left alone; a stale event is never claimed again.
RecordFailure(h) ==
    LET d == req[h].arg
    IN  /\ req[h].op = "record"
        /\ RowFree(h, d)
        /\ outbox[d] = "pending"
        /\ req[h].pick = "error" => attempts[d] < MaxAttempts
        /\ attempts' = [attempts EXCEPT ![d] = @ + 1]
        /\ outbox' = IF req[h].pick = "stale" THEN [outbox EXCEPT ![d] = "stale"]
                     ELSE outbox
        /\ UNCHANGED <<generation, analysis, selection, decision, status,
                       analyses, selections, reviews, decisions>>
        /\ AfterRecord(h)

\* The event was settled meanwhile: there is nothing to commit.
NothingToRecord(h) ==
    /\ req[h].op \in {"recover", "record"}
    /\ \/ req[h].phase = "begun" /\ outbox[req[h].arg] # "pending"
       \/ /\ req[h].phase = "checked"
          /\ outbox[req[h].arg] # "pending" \/ attempts[req[h].arg] # req[h].seen
    /\ AfterRecord(h)
    /\ UNCHANGED dbVars

-----------------------------------------------------------------------------
(* The loop that polls: RuntimeProgression *)

\* The process starts, for the first time or again.
StartLoop(h) ==
    /\ loop[h] # "running" /\ req[h].phase = "idle"
    /\ loop' = [loop EXCEPT ![h] = "running"]
    /\ UNCHANGED <<dbVars, req>>

\* The process stops or dies, whatever it is doing.
StopProcess(h) ==
    /\ loop' = [loop EXCEPT ![h] = "down"]
    /\ req' = [req EXCEPT ![h] = NoRequest]
    /\ UNCHANGED dbVars

\* An exception before the claim, after the plan is committed, from the query
\* of the playbacks, or from a transaction of the recovery itself: nothing on
\* its way up to _run catches it.
LoopFails(h) ==
    /\ req[h].phase = "idle" \/ req[h].op \in {"recover", "record"}
    /\ Escape(h)
    /\ UNCHANGED dbVars

-----------------------------------------------------------------------------
Init ==
    /\ generation = 0
    /\ analysis = None /\ selection = None /\ decision = None
    /\ status = "open"
    /\ analyses = {}
    /\ selections = [s \in SelectionIds |-> None]
    /\ reviews = [s \in SelectionIds |-> <<>>]
    /\ decisions = [d \in DecisionIds |-> None]
    /\ outbox = [d \in DecisionIds |-> "absent"]
    /\ attempts = [d \in DecisionIds |-> 0]
    /\ req = [h \in Handlers |-> NoRequest]
    /\ loop = [h \in Workers |-> "down"]

BeginRequest(h) ==
    \/ \E s \in SelectionIds, o \in Options : SubmitBegin(h, s, o)
    \/ \E s \in SelectionIds, v \in Verdicts : ResolveBegin(h, s, v)
    \/ \E d \in DecisionIds, k \in Verdicts : FinalizeBegin(h, d, k)
    \/ \E a \in Analyses : AnalyzeBegin(h, a)

RequestStep(h) ==
    \/ FinalizeCheck(h)
    \/ Publish(h) \/ ResolveCommit(h) \/ Approve(h) \/ Reject(h) \/ SaveAnalysis(h)

WorkerStep(h) ==
    \/ \E d \in DecisionIds : ClaimUnattempted(h, d)
    \/ ExecutionCheck(h) \/ PlanCommit(h) \/ ProposalStale(h)
    \/ RecoverBegin(h) \/ RecoverCommit(h) \/ RecordFailure(h) \/ NothingToRecord(h)

WorkerFault(h) == PlanError(h) \/ RecoverError(h)

LoopStep(h) == StartLoop(h) \/ StopProcess(h) \/ LoopFails(h)

Next ==
    \/ \E h \in Handlers : ReadToken(h) \/ ReadReview(h)
    \/ \E h \in Handlers \ Workers : BeginRequest(h) \/ RequestStep(h) \/ Abort(h)
    \/ \E h \in Workers : \/ WorkerStep(h) \/ WorkerFault(h) \/ LoopStep(h)
                          \/ \E d \in DecisionIds : RetryPlanning(h, d)

Spec == Init /\ [][Next]_vars

\* A loop that runs polls, and a unit of work that is under way goes on.  That
\* a loop keeps running, or that anybody restarts a process, is not assumed,
\* only that processes are not restarted again and again for ever.
FairSpec ==
    /\ Spec
    /\ \A h \in Workers : WF_vars(WorkerStep(h) \/ ReadToken(h) \/ ReadReview(h))
    /\ <>[][\A h \in Workers : ~StartLoop(h)]_vars

-----------------------------------------------------------------------------
(* Properties *)

TypeOK ==
    /\ generation \in Nat
    /\ analysis \in Analyses \union {None}
    /\ selection \in SelectionIds \union {None}
    /\ decision \in DecisionIds \union {None}
    /\ status \in CaseStatus
    /\ analyses \in SUBSET Analyses
    /\ selections \in [SelectionIds -> Selection \union {None}]
    /\ reviews \in [SelectionIds -> Seq(ReviewStatus)]
    /\ decisions \in [DecisionIds -> Decision \union {None}]
    /\ outbox \in [DecisionIds -> OutboxState]
    /\ attempts \in [DecisionIds -> Nat]
    /\ req \in [Handlers -> Request]
    /\ loop \in [Workers -> LoopState]

\* A command names what its operation works on.
RequestsMatch ==
    \A h \in Handlers :
        /\ req[h].op = "submit" => req[h].arg \in SelectionIds /\ req[h].pick \in Options
        /\ req[h].op = "resolve" => req[h].arg \in SelectionIds /\ req[h].pick \in Verdicts
        /\ req[h].op = "finalize" =>
             /\ req[h].arg \in DecisionIds /\ req[h].pick \in Verdicts
             /\ req[h].phase = "checked" => req[h].token.analysis # None
        /\ req[h].op = "analyze" => req[h].arg \in Analyses
        /\ req[h].op \in {"plan", "recover", "record"} => req[h].arg \in DecisionIds

\* Four eyes: an approved decision names a recorded selection of its own
\* analysis, and when the cost exceeds the threshold, the exact review
\* revision in which Taylor approved it.  Finance and the planner act in
\* separate requests, and FinanceDecisionService reads the review long
\* before it writes the decision.
ApprovalBacked ==
    \A d \in DecisionIds :
        decisions[d] # None /\ decisions[d].kind = "approved" =>
            LET s == decisions[d].selection
            IN  /\ s # None
                /\ selections[s] # None
                /\ selections[s].analysis = decisions[d].analysis
                /\ IF RequiresFinanceApproval(selections[s].option)
                   THEN /\ decisions[d].revision \in 1..Len(reviews[s])
                        /\ reviews[s][decisions[d].revision] = "approved"
                   ELSE decisions[d].revision = 0

\* A selection is approved at most once, although _already_approved scans
\* the decisions before the transaction takes its first lock.
OneApprovalPerSelection ==
    \A d, e \in DecisionIds :
        /\ decisions[d] # None /\ decisions[d].kind = "approved"
        /\ decisions[e] # None /\ decisions[e].kind = "approved"
        /\ decisions[d].selection = decisions[e].selection
        => d = e

\* A Finance review is closed exactly when its proposal stops being the
\* current one, whoever replaced it: publish, withdraw_current and
\* _save_analysis_connection close it in the transaction that moves the
\* pointer, so Taylor's queue never holds a dead request.
SupersededIffReplaced ==
    \A s \in SelectionIds :
        reviews[s] # <<>> =>
            (LatestStatus(reviews[s]) = "superseded" <=> selection # s)

CurrentReviews == IF selection = None THEN <<>> ELSE reviews[selection]

\* The approval d was given for the case as it is now.
ApprovalCurrent(d) ==
    /\ decision = d
    /\ decisions[d] # None
    /\ decisions[d].kind = "approved"
    /\ decisions[d].analysis = analysis
    /\ decisions[d].selection = selection
    /\ decisions[d].revision = Len(CurrentReviews)
    /\ CurrentReviews # <<>> => LatestStatus(CurrentReviews) = "approved"

\* What a request relies on at its commit, besides the token itself.
ReadsHold(r) ==
    /\ r.revs = CurrentReviews
    /\ r.phase = "checked" /\ r.op = "finalize" =>
         /\ selection # None => ~AlreadyApproved(selection)
         /\ r.pick = "approved" => EvidenceSuffices(r)
    /\ r.phase = "checked" /\ r.op \in {"plan", "recover"} => ApprovalCurrent(r.arg)

\* As long as the token a request has read still matches, everything else it
\* has read and checked is still true: the generation alone stands for the
\* review journal, the approvals and the current decision, which the
\* compare-and-swap does not look at.
TokenGuardsReads ==
    \A h \in Handlers :
        req[h].phase \in {"read", "checked"} /\ req[h].token = Token
            => ReadsHold(req[h])

\* The rows a case points to and the journals that go with them exist together.
JournalsWellFormed ==
    /\ selection # None => /\ selections[selection] # None
                           /\ selections[selection].analysis = analysis
    /\ \A s \in SelectionIds :
         IF selections[s] = None THEN reviews[s] = <<>>
         ELSE reviews[s] # <<>> <=> RequiresFinanceApproval(selections[s].option)
    /\ \A d \in DecisionIds : decisions[d] = None => outbox[d] = "absent"

\* No request holds a token from the future.
TokensBounded == \A h \in Handlers : req[h].token.generation <= generation

\* The inductive invariant: the safety invariants above and what keeps them.
\* It is preserved although any number of requests hold state read long ago,
\* because every commit retires the tokens of all of them at once.
CaseInvariant ==
    /\ TypeOK /\ RequestsMatch
    /\ TokensBounded /\ TokenGuardsReads
    /\ JournalsWellFormed
    /\ SupersededIffReplaced /\ ApprovalBacked /\ OneApprovalPerSelection

\* Actions are planned only in a step whose own state still holds the
\* decision's approval: no action of a replaced, withdrawn or re-analysed
\* proposal is ever created by a worker that read the approval earlier.
PlannedUnderApproval ==
    [][\A d \in DecisionIds :
          outbox'[d] = "processed" /\ outbox[d] # "processed"
              => ApprovalCurrent(d)]_vars

\* A step that rewrites no selection, review revision, decision or settled event.
LedgerGrows ==
    /\ \A s \in SelectionIds :
          /\ selections[s] # None => selections'[s] = selections[s]
          /\ Len(reviews[s]) <= Len(reviews'[s])
          /\ \A i \in 1..Len(reviews[s]) : reviews'[s][i] = reviews[s][i]
    /\ \A d \in DecisionIds :
          /\ decisions[d] # None => decisions'[d] = decisions[d]
          /\ outbox[d] \in {"processed", "stale"} => outbox'[d] = outbox[d]

\* The ledger is append-only (docs/adr/0002): no step rewrites a selection,
\* a decision or a review revision, nor takes back a retired or processed event.
LedgerAppendOnly == [][LedgerGrows]_vars

Unsettled(d) == outbox[d] = "pending" /\ attempts[d] = 0

\* Every approval is acted upon as long as any runtime's loop polls: its event
\* is processed, retired, or carries a recorded failure that the retry control
\* shows, although claims are rolled back, other loops end over an error or
\* with their process, and recoveries fail in the middle.
ApprovalActedUpon ==
    \A d \in DecisionIds :
        Unsettled(d) ~> (~Unsettled(d) \/ \A h \in Workers : loop[h] # "running")

\* currentness.py:11 describes ExecutionProposalStale as raised when "an
\* execution mutation no longer has its exact current approval".
RetiredEventsWereStale ==
    \A d \in DecisionIds : outbox[d] = "stale" => ~ApprovalCurrent(d)

-----------------------------------------------------------------------------
\* Every command takes effect as if it ran alone.  The refinement mapping keeps
\* the rows and hides the generation, the failure count and the requests.
Atomic == INSTANCE CaseApproval
            WITH analysis <- analysis, selection <- selection, decision <- decision,
                 status <- status, analyses <- analyses, selections <- selections,
                 reviews <- reviews, decisions <- decisions, outbox <- outbox

\* Stale reads and races never show: the case behaves as if each request had
\* been executed in one step against the present state (CaseApproval).
ImplementsCaseApproval == Atomic!Spec

=============================================================================
