------------------------- MODULE ProposalFlowProofs -------------------------
(* Proofs about ProposalFlow, for every set of handlers, identities and     *)
(* options.                                                                 *)
EXTENDS ProposalFlow, TLAPS

TypeInv == TypeOK /\ RequestsMatch

USE CostAssumption, MaxAttemptsAssumption, WorkersAssumption, NoneAssumption,
    RowAssumption

\* A handler's new request leaves the other handlers' requests alone.
LEMMA RequestUpdate ==
    ASSUME TypeInv, NEW h \in Handlers, NEW r \in Request,
           req' = [req EXCEPT ![h] = r]
    PROVE  /\ req' \in [Handlers -> Request]
           /\ req'[h] = r
           /\ \A g \in Handlers : g # h => req'[g] = req[g]
  BY DEF TypeInv, TypeOK

LEMMA NoRequestType == NoRequest \in Request /\ NoRequest.op = "none"
  BY DEF NoRequest, NoToken, Request, ProposalToken

LEMMA TokenType == TypeInv => Token \in ProposalToken
  BY DEF TypeInv, TypeOK, Token, ProposalToken

LEMMA InitTypeInv == Init => TypeInv
  BY NoRequestType DEF Init, TypeInv, TypeOK, RequestsMatch, CaseStatus, OutboxState,
                        LoopState

\* Begin
LEMMA BeginType ==
    ASSUME TypeInv, NEW h \in Handlers, NEW op, NEW arg, NEW pick,
           op \in {"submit", "resolve", "finalize", "analyze", "plan"},
           arg \in Analyses \union SelectionIds \union DecisionIds,
           pick \in Options \union Verdicts \union {None},
           op = "submit" => arg \in SelectionIds /\ pick \in Options,
           op = "resolve" => arg \in SelectionIds /\ pick \in Verdicts,
           op = "finalize" => arg \in DecisionIds /\ pick \in Verdicts,
           op = "analyze" => arg \in Analyses,
           op = "plan" => arg \in DecisionIds,
           Begin(h, op, arg, pick)
    PROVE  TypeInv'
<1> DEFINE r == [op |-> op, phase |-> "begun", arg |-> arg, pick |-> pick,
                 token |-> Token, revs |-> <<>>, seen |-> 0]
<1>1. r \in Request
  BY TokenType DEF Request
<1>2. req' = [req EXCEPT ![h] = r]
  BY DEF Begin
<1> HIDE DEF r
<1>3. /\ req' \in [Handlers -> Request]
      /\ req'[h] = r
      /\ \A g \in Handlers : g # h => req'[g] = req[g]
  BY <1>1, <1>2, RequestUpdate
<1>4. RequestsMatch'
  BY <1>3 DEF RequestsMatch, TypeInv, r
<1>5. TypeOK'
  BY <1>3 DEF TypeInv, TypeOK, Begin, dbVars
<1> QED BY <1>4, <1>5 DEF TypeInv

\* A step that only moves a handler's request on.
LEMMA StepType ==
    ASSUME TypeInv, NEW h \in Handlers, NEW r \in Request,
           req' = [req EXCEPT ![h] = r],
           r.op \in {req[h].op, "none"}, r.arg = req[h].arg \/ r.op = "none",
           r.pick = req[h].pick \/ r.op = "none",
           r.op = "finalize" /\ r.phase = "checked" => r.token.analysis # None,
           UNCHANGED dbVars, loop' \in [Workers -> LoopState]
    PROVE  TypeInv'
<1>1. /\ req' \in [Handlers -> Request]
      /\ req'[h] = r
      /\ \A g \in Handlers : g # h => req'[g] = req[g]
  BY RequestUpdate
<1>2. RequestsMatch'
  BY <1>1 DEF RequestsMatch, TypeInv
<1>3. TypeOK'
  BY <1>1 DEF TypeInv, TypeOK, dbVars
<1> QED BY <1>2, <1>3 DEF TypeInv

\* A unit of work is over, by returning or by raising.
Over(h) == req' = [req EXCEPT ![h] = NoRequest] /\ loop' \in [Workers -> LoopState]

LEMMA EndsOver ==
    ASSUME TypeInv, NEW h \in Handlers, Done(h) \/ Escape(h) \/ AfterRecord(h)
    PROVE  Over(h)
  BY DEF Done, Escape, AfterRecord, Over, TypeInv, TypeOK, LoopState

LEMMA OverType ==
    ASSUME TypeInv, NEW h \in Handlers, Over(h)
    PROVE  req' \in [Handlers -> Request] /\ RequestsMatch'
<1>1. /\ req' \in [Handlers -> Request]
      /\ req'[h] = NoRequest
      /\ \A g \in Handlers : g # h => req'[g] = req[g]
  BY RequestUpdate, NoRequestType DEF Over
<1> QED BY <1>1, NoRequestType DEF RequestsMatch, TypeInv

LEMMA CurrentReviewsType == TypeInv => CurrentReviews \in Seq(ReviewStatus)
  BY DEF TypeInv, TypeOK, CurrentReviews

LEMMA SupersedeType ==
    ASSUME NEW h \in Handlers, NEW rs \in [SelectionIds -> Seq(ReviewStatus)]
    PROVE  Supersede(h, rs) \in [SelectionIds -> Seq(ReviewStatus)]
  BY DEF Supersede, ReviewStatus

\* Reading, aborting and checking steps keep the types.
LEMMA ReadStepsType ==
    ASSUME TypeInv, NEW h \in Handlers,
           ReadToken(h) \/ ReadReview(h) \/ Abort(h) \/ FinalizeCheck(h)
             \/ ExecutionCheck(h) \/ RecoverBegin(h) \/ NothingToRecord(h)
    PROVE  TypeInv'
<1>0. /\ req[h] \in Request /\ req \in [Handlers -> Request]
      /\ loop \in [Workers -> LoopState]
  BY DEF TypeInv, TypeOK
<1>1. CASE ReadToken(h)
  <2> DEFINE r == [req[h] EXCEPT !.phase = "token", !.token = Token]
  <2>1. /\ r \in Request /\ r.phase # "checked"
        /\ r.op = req[h].op /\ r.arg = req[h].arg /\ r.pick = req[h].pick
    BY <1>0, TokenType DEF Request
  <2>2. req' = [req EXCEPT ![h] = r] /\ UNCHANGED <<dbVars, loop>>
    BY <1>0, <1>1 DEF ReadToken, Request
  <2> HIDE DEF r
  <2> QED BY <1>0, <2>1, <2>2, StepType
<1>2. CASE ReadReview(h)
  <2> DEFINE r == [req[h] EXCEPT !.phase = "read", !.revs = CurrentReviews]
  <2>1. /\ r \in Request /\ r.phase # "checked"
        /\ r.op = req[h].op /\ r.arg = req[h].arg /\ r.pick = req[h].pick
    BY <1>0, CurrentReviewsType DEF Request
  <2>2. req' = [req EXCEPT ![h] = r] /\ UNCHANGED <<dbVars, loop>>
    BY <1>0, <1>2 DEF ReadReview, Request, CurrentReviews
  <2> HIDE DEF r
  <2> QED BY <1>0, <2>1, <2>2, StepType
<1>3. CASE Abort(h)
  BY <1>0, <1>3, StepType, NoRequestType DEF Abort
<1>4. CASE FinalizeCheck(h) \/ ExecutionCheck(h)
  <2> DEFINE r == [req[h] EXCEPT !.phase = "checked"]
  <2>1. /\ r \in Request
        /\ r.op = req[h].op /\ r.arg = req[h].arg /\ r.pick = req[h].pick
        /\ r.token = req[h].token
    BY <1>0 DEF Request
  <2>3. r.op = "finalize" => r.token.analysis # None
    BY <1>4, <2>1 DEF FinalizeCheck, ExecutionCheck
  <2>2. req' = [req EXCEPT ![h] = r] /\ UNCHANGED <<dbVars, loop>>
    BY <1>0, <1>4 DEF FinalizeCheck, ExecutionCheck, Request
  <2> HIDE DEF r
  <2> QED BY <1>0, <2>1, <2>2, <2>3, StepType
<1>5. CASE RecoverBegin(h)
  <2> DEFINE r == [req[h] EXCEPT !.phase = "token", !.token = Token,
                                 !.seen = attempts[req[h].arg]]
  <2>0. attempts[req[h].arg] \in Nat
    BY <1>5 DEF RecoverBegin, TypeInv, TypeOK, RequestsMatch
  <2>1. /\ r \in Request /\ r.phase # "checked"
        /\ r.op = req[h].op /\ r.arg = req[h].arg /\ r.pick = req[h].pick
    BY <1>0, <2>0, TokenType DEF Request
  <2>2. req' = [req EXCEPT ![h] = r] /\ UNCHANGED <<dbVars, loop>>
    BY <1>0, <1>5 DEF RecoverBegin, Request
  <2> HIDE DEF r
  <2> QED BY <1>0, <2>1, <2>2, StepType
<1>6. CASE NothingToRecord(h)
  BY <1>6, EndsOver, StepType, NoRequestType DEF NothingToRecord, Over
<1> QED BY <1>1, <1>2, <1>3, <1>4, <1>5, <1>6

\* A failing worker changes what it does next, not the event it works on.
LEMMA FollowUpType ==
    ASSUME TypeInv, NEW h \in Handlers, NEW op \in {"recover", "record"},
           NEW pick \in {None, "error", "stale"},
           req[h].arg \in DecisionIds,
           req' = [req EXCEPT ![h] = FollowUp(h, op, pick)],
           UNCHANGED <<dbVars, loop>>
    PROVE  TypeInv'
<1>1. /\ FollowUp(h, op, pick) \in Request
      /\ FollowUp(h, op, pick).op = op
      /\ FollowUp(h, op, pick).arg = req[h].arg
  BY NoRequestType DEF FollowUp, NoRequest, Request
<1>2. /\ req' \in [Handlers -> Request]
      /\ req'[h] = FollowUp(h, op, pick)
      /\ \A g \in Handlers : g # h => req'[g] = req[g]
  BY <1>1, RequestUpdate
<1>3. RequestsMatch'
  BY <1>1, <1>2 DEF RequestsMatch, TypeInv
<1>4. TypeOK'
  BY <1>2 DEF TypeInv, TypeOK, dbVars
<1> QED BY <1>3, <1>4 DEF TypeInv

LEMMA FaultStepsType ==
    ASSUME TypeInv, NEW h \in Handlers,
           PlanError(h) \/ RecoverError(h) \/ ProposalStale(h)
    PROVE  TypeInv'
<1>1. req[h].arg \in DecisionIds
  BY DEF PlanError, RecoverError, ProposalStale, TypeInv, RequestsMatch
<1> QED BY <1>1, FollowUpType DEF PlanError, RecoverError, ProposalStale

\* A loop that starts, stops or fails takes its unit of work with it.
LEMMA LoopStepType ==
    ASSUME TypeInv, NEW h \in Handlers, LoopStep(h)
    PROVE  TypeInv'
<1>1. CASE StartLoop(h)
  BY <1>1 DEF StartLoop, TypeInv, TypeOK, RequestsMatch, LoopState, dbVars
<1>2. CASE StopProcess(h)
  <2>1. loop' \in [Workers -> LoopState]
    BY <1>2 DEF StopProcess, TypeInv, TypeOK, LoopState
  <2> QED BY <1>2, <2>1, StepType, NoRequestType DEF StopProcess
<1>3. CASE LoopFails(h)
  BY <1>3, EndsOver, StepType, NoRequestType DEF LoopFails, Over
<1> QED BY <1>1, <1>2, <1>3 DEF LoopStep

\* The commits of the requests.
LEMMA RequestCommitsType ==
    ASSUME TypeInv, NEW h \in Handlers,
           Publish(h) \/ ResolveCommit(h) \/ Approve(h) \/ Reject(h) \/ SaveAnalysis(h)
    PROVE  TypeInv'
<1>0. Over(h)
  BY EndsOver DEF Publish, ResolveCommit, Approve, Reject, SaveAnalysis
<1>1. /\ req' \in [Handlers -> Request] /\ RequestsMatch'
      /\ loop' \in [Workers -> LoopState]
  BY <1>0, OverType DEF Over
<1>2. /\ req[h] \in Request
      /\ req[h].token \in ProposalToken
      /\ Len(req[h].revs) \in Nat
  BY DEF TypeInv, TypeOK, Request
<1>3. Supersede(h, reviews) \in [SelectionIds -> Seq(ReviewStatus)]
  BY SupersedeType DEF TypeInv, TypeOK
<1>4. CASE Publish(h)
  <2>1. /\ req[h].arg \in SelectionIds /\ req[h].pick \in Options
        /\ req[h].token.analysis \in Analyses
    BY <1>2, <1>4 DEF Publish, TypeInv, RequestsMatch, ProposalToken
  <2>2. selections' \in [SelectionIds -> Selection \union {None}]
    BY <1>4, <2>1 DEF Publish, TypeInv, TypeOK, Selection
  <2>3. reviews' \in [SelectionIds -> Seq(ReviewStatus)]
    <3>1. <<"pending">> \in Seq(ReviewStatus)
      BY DEF ReviewStatus
    <3>2. Supersede(h, reviews)[req[h].arg] \in Seq(ReviewStatus)
      BY <1>3, <2>1
    <3> QED BY <1>3, <1>4, <2>1, <3>1, <3>2 DEF Publish
  <2> QED BY <1>1, <1>4, <2>1, <2>2, <2>3 DEF Publish, CasProjection, TypeInv, TypeOK
<1>5. CASE ResolveCommit(h)
  <2>1. req[h].arg \in SelectionIds /\ req[h].pick \in ReviewStatus
    BY <1>5 DEF ResolveCommit, TypeInv, RequestsMatch, Verdicts, ReviewStatus
  <2>2. reviews' \in [SelectionIds -> Seq(ReviewStatus)]
    BY <1>5, <2>1 DEF ResolveCommit, TypeInv, TypeOK
  <2> QED BY <1>1, <1>5, <2>2 DEF ResolveCommit, CasProjection, TypeInv, TypeOK
<1>6. CASE Approve(h)
  <2>1. req[h].arg \in DecisionIds /\ req[h].token = Token /\ analysis = Token.analysis
    BY <1>6 DEF Approve, CasProjection, TypeInv, RequestsMatch, Token
  <2>2. req[h].token.analysis \in Analyses
    BY <1>2, <1>6 DEF Approve, ProposalToken, TypeInv, RequestsMatch
  <2> QED BY <1>1, <1>2, <1>6, <2>1, <2>2
          DEF Approve, CasProjection, TypeInv, TypeOK, Decision, Verdicts,
              OutboxState, CaseStatus, ProposalToken
<1>7. CASE Reject(h)
  <2>1. req[h].arg \in DecisionIds
    BY <1>7 DEF Reject, TypeInv, RequestsMatch
  <2>2. req[h].token.analysis \in Analyses
    BY <1>2, <1>7 DEF Reject, ProposalToken, TypeInv, RequestsMatch
  <2> QED BY <1>1, <1>2, <1>3, <1>7, <2>1, <2>2
          DEF Reject, CasProjection, TypeInv, TypeOK, Decision, Verdicts, CaseStatus
<1>8. CASE SaveAnalysis(h)
  <2>1. req[h].arg \in Analyses
    BY <1>8 DEF SaveAnalysis, TypeInv, RequestsMatch
  <2> QED BY <1>1, <1>3, <1>8, <2>1
          DEF SaveAnalysis, CasProjection, TypeInv, TypeOK, CaseStatus
<1> QED BY <1>4, <1>5, <1>6, <1>7, <1>8

\* The commits of the workers.
LEMMA WorkerCommitsType ==
    ASSUME TypeInv, NEW h \in Handlers,
           PlanCommit(h) \/ RecoverCommit(h) \/ RecordFailure(h)
    PROVE  TypeInv'
<1>1. /\ req' \in [Handlers -> Request] /\ RequestsMatch'
      /\ loop' \in [Workers -> LoopState]
  BY EndsOver, OverType DEF PlanCommit, RecoverCommit, RecordFailure, Over
<1>2. req[h].arg \in DecisionIds
  BY DEF PlanCommit, RecoverCommit, RecordFailure, TypeInv, RequestsMatch
<1>3. attempts' \in [DecisionIds -> Nat]
  BY <1>2 DEF PlanCommit, RecoverCommit, RecordFailure, TypeInv, TypeOK
<1>4. outbox' \in [DecisionIds -> OutboxState]
  BY <1>2 DEF PlanCommit, RecoverCommit, RecordFailure, TypeInv, TypeOK, OutboxState
<1> QED BY <1>1, <1>3, <1>4
        DEF PlanCommit, RecoverCommit, RecordFailure, CasProjection,
            TypeInv, TypeOK, CaseStatus

LEMMA NextTypeInv == TypeInv /\ [Next]_vars => TypeInv'
<1> SUFFICES ASSUME TypeInv, [Next]_vars PROVE TypeInv'
  OBVIOUS
<1>1. CASE UNCHANGED vars
  BY <1>1 DEF vars, dbVars, TypeInv, TypeOK, RequestsMatch
<1>2. ASSUME NEW h \in Handlers, BeginRequest(h) PROVE TypeInv'
  BY <1>2, BeginType DEF BeginRequest, SubmitBegin, ResolveBegin, FinalizeBegin,
                         AnalyzeBegin
<1>3. ASSUME NEW h \in Handlers, NEW d \in DecisionIds,
             ClaimUnattempted(h, d) \/ RetryPlanning(h, d)
      PROVE  TypeInv'
  BY <1>3, BeginType DEF ClaimUnattempted, RetryPlanning
<1>4. ASSUME NEW h \in Handlers, RequestStep(h) PROVE TypeInv'
  BY <1>4, ReadStepsType, RequestCommitsType DEF RequestStep
<1>5. ASSUME NEW h \in Handlers, WorkerStep(h) PROVE TypeInv'
  BY <1>3, <1>5, ReadStepsType, FaultStepsType, WorkerCommitsType DEF WorkerStep
<1>6. ASSUME NEW h \in Handlers, WorkerFault(h) PROVE TypeInv'
  BY <1>6, FaultStepsType DEF WorkerFault
<1>7. ASSUME NEW h \in Handlers, LoopStep(h) PROVE TypeInv'
  BY <1>7, LoopStepType
<1> QED BY <1>1, <1>2, <1>3, <1>4, <1>5, <1>6, <1>7, ReadStepsType DEF Next

\* Types: every reachable state of the case row, the journals and the requests
\* is well formed, and a command keeps naming what its operation works on.
THEOREM TypeCorrect == Spec => [](TypeOK /\ RequestsMatch)
  BY InitTypeInv, NextTypeInv, PTL DEF Spec, TypeInv

-----------------------------------------------------------------------------
(* The case invariant *)

LEMMA AppendFacts ==
    ASSUME NEW q \in Seq(ReviewStatus), NEW x \in ReviewStatus
    PROVE  /\ Append(q, x) # <<>>
           /\ Len(Append(q, x)) = Len(q) + 1
           /\ LatestStatus(Append(q, x)) = x
           /\ \A i \in 1..Len(q) : Append(q, x)[i] = q[i]
  BY DEF LatestStatus

LEMMA LatestIsApproved ==
    ASSUME NEW q \in Seq(ReviewStatus), LatestStatus(q) = "approved"
    PROVE  Len(q) \in 1..Len(q) /\ q[Len(q)] = "approved"
  BY DEF LatestStatus

\* What the state invariants depend on.
caseRows == <<analysis, selection, decision, selections, reviews, decisions>>

StateInv ==
    /\ JournalsWellFormed
    /\ SupersededIffReplaced /\ ApprovalBacked /\ OneApprovalPerSelection

LEMMA StateInvRows ==
    ASSUME StateInv, UNCHANGED caseRows,
           \A d \in DecisionIds : decisions[d] = None => outbox'[d] = outbox[d]
    PROVE  StateInv'
<1> USE DEF caseRows
<1>1. JournalsWellFormed'
  BY DEF StateInv, JournalsWellFormed
<1>2. SupersededIffReplaced'
  BY DEF StateInv, SupersededIffReplaced
<1>3. ApprovalBacked'
  BY DEF StateInv, ApprovalBacked
<1>4. OneApprovalPerSelection'
  BY DEF StateInv, OneApprovalPerSelection
<1> QED BY <1>1, <1>2, <1>3, <1>4 DEF StateInv

\* A step that moves one request on and leaves the case row alone.
LEMMA QuietStep ==
    ASSUME CaseInvariant, NEW h \in Handlers, NEW r \in Request,
           req' = [req EXCEPT ![h] = r],
           r.token.generation <= generation,
           r.phase \in {"read", "checked"} /\ r.token = Token => ReadsHold(r),
           generation' = generation, UNCHANGED caseRows
    PROVE  TokensBounded' /\ TokenGuardsReads'
<1>1. /\ req'[h] = r
      /\ \A g \in Handlers : g # h => req'[g] = req[g]
  BY DEF CaseInvariant, TypeOK
<1>2. TokensBounded'
  BY <1>1 DEF CaseInvariant, TokensBounded
<1>3. ASSUME NEW g \in Handlers,
             req'[g].phase \in {"read", "checked"}, req'[g].token = Token'
      PROVE  ReadsHold(req[g])'
  <2>1. Token' = Token
    BY DEF Token, caseRows
  <2>2. PICK q : /\ q = req'[g]
                 /\ ReadsHold(q)
    BY <1>1, <1>3, <2>1 DEF CaseInvariant, TokenGuardsReads
  <2> QED BY <2>2 DEF ReadsHold, CurrentReviews, AlreadyApproved, EvidenceSuffices,
                      ApprovalCurrent, caseRows
<1> QED BY <1>2, <1>3 DEF TokenGuardsReads

\* A commit moves the generation on and so retires every token read before.
LEMMA CommitRetiresTokens ==
    ASSUME CaseInvariant, NEW h \in Handlers, Done(h), generation' = generation + 1
    PROVE  TokensBounded' /\ TokenGuardsReads'
<1>1. /\ req'[h] = NoRequest
      /\ \A g \in Handlers : g # h => req'[g] = req[g]
  BY DEF Done, CaseInvariant, TypeOK
<1>2. \A g \in Handlers : req[g].token.generation \in Nat /\ generation \in Nat
  BY DEF CaseInvariant, TypeOK, Request, ProposalToken
<1>3. \A g \in Handlers : /\ req'[g].token.generation \in Nat
                         /\ req'[g].token.generation <= generation
  BY <1>1, <1>2 DEF CaseInvariant, TokensBounded, NoRequest, NoToken
<1>4. \A g \in Handlers : req'[g].token # Token'
  BY <1>2, <1>3 DEF Token
<1>5. TokensBounded'
  BY <1>2, <1>3 DEF TokensBounded
<1>6. TokenGuardsReads'
  BY <1>4 DEF TokenGuardsReads
<1> QED BY <1>5, <1>6

\* At a commit the token still matches, so what was read is still true.
LEMMA CommitReads ==
    ASSUME CaseInvariant, NEW h \in Handlers, NEW a, NEW s, CasProjection(h, a, s),
           req[h].phase \in {"read", "checked"}
    PROVE  /\ ReadsHold(req[h])
           /\ req[h].token.selection = selection
           /\ req[h].token.analysis = analysis
           /\ req[h].revs = CurrentReviews
  BY DEF CaseInvariant, TokenGuardsReads, CasProjection, Token, ReadsHold

\* Closing the current review, when there is one, and leaving its proposal.
LEMMA SupersedeCurrent ==
    ASSUME CaseInvariant, NEW h \in Handlers, CanSupersede(h),
           req[h].token.selection = selection, req[h].revs = CurrentReviews
    PROVE  \A s \in SelectionIds :
              LET q == Supersede(h, reviews)[s]
              IN  /\ q \in Seq(ReviewStatus)
                  /\ q = <<>> <=> reviews[s] = <<>>
                  /\ q # <<>> => LatestStatus(q) = "superseded"
                  /\ Len(reviews[s]) <= Len(q)
                  /\ \A i \in 1..Len(reviews[s]) : q[i] = reviews[s][i]
<1> SUFFICES ASSUME NEW s \in SelectionIds
             PROVE  LET q == Supersede(h, reviews)[s]
                    IN  /\ q \in Seq(ReviewStatus)
                        /\ q = <<>> <=> reviews[s] = <<>>
                        /\ q # <<>> => LatestStatus(q) = "superseded"
                        /\ Len(reviews[s]) <= Len(q)
                        /\ \A i \in 1..Len(reviews[s]) : q[i] = reviews[s][i]
  OBVIOUS
<1>0. reviews[s] \in Seq(ReviewStatus) /\ s # None /\ Len(reviews[s]) \in Nat
  BY DEF CaseInvariant, TypeOK
<1>1. CASE s = selection /\ reviews[s] # <<>>
  <2>1. Supersede(h, reviews)[s] = Append(reviews[s], "superseded")
    BY <1>0, <1>1 DEF Supersede, CurrentReviews
  <2>2. "superseded" \in ReviewStatus
    BY DEF ReviewStatus
  <2>3. /\ Append(reviews[s], "superseded") \in Seq(ReviewStatus)
        /\ Append(reviews[s], "superseded") # <<>>
        /\ Len(Append(reviews[s], "superseded")) = Len(reviews[s]) + 1
        /\ LatestStatus(Append(reviews[s], "superseded")) = "superseded"
        /\ \A i \in 1..Len(reviews[s]) :
              Append(reviews[s], "superseded")[i] = reviews[s][i]
    BY <1>0, <2>2, AppendFacts
  <2> QED BY <1>0, <1>1, <2>1, <2>3
<1>2. CASE ~(s = selection /\ reviews[s] # <<>>)
  <2>1. Supersede(h, reviews)[s] = reviews[s]
    BY <1>0, <1>2 DEF Supersede, CurrentReviews
  <2>2. reviews[s] # <<>> => LatestStatus(reviews[s]) = "superseded"
    BY <1>2 DEF CaseInvariant, SupersededIffReplaced
  <2> QED BY <1>0, <2>1, <2>2
<1> QED BY <1>1, <1>2

LEMMA NoRequestBounded ==
    CaseInvariant => /\ NoRequest.token.generation <= generation
                     /\ NoRequest.phase = "idle"
  BY DEF NoRequest, NoToken, CaseInvariant, TypeOK

\* Steps that leave the database alone.
LEMMA BeginInv ==
    ASSUME CaseInvariant, TypeInv', NEW h \in Handlers, NEW op, NEW arg, NEW pick,
           Begin(h, op, arg, pick)
    PROVE  CaseInvariant'
<1> DEFINE r == [op |-> op, phase |-> "begun", arg |-> arg, pick |-> pick,
                 token |-> Token, revs |-> <<>>, seen |-> 0]
<1>1. req' = [req EXCEPT ![h] = r] /\ UNCHANGED caseRows /\ outbox' = outbox
      /\ generation' = generation
  BY DEF Begin, dbVars, caseRows
<1>2. r \in Request
  <2>1. req'[h] = r /\ req'[h] \in Request
    BY <1>1 DEF CaseInvariant, TypeInv, TypeOK
  <2> QED BY <2>1
<1>3. r.token.generation <= generation /\ r.phase = "begun"
  BY DEF Token, CaseInvariant, TypeOK
<1> HIDE DEF r
<1>4. TokensBounded' /\ TokenGuardsReads'
  BY <1>1, <1>2, <1>3, QuietStep
<1>5. StateInv'
  BY <1>1, StateInvRows DEF CaseInvariant, StateInv
<1> QED BY <1>4, <1>5 DEF CaseInvariant, StateInv, TypeInv

\* Any other step of a request that reads or gives up.
LEMMA RequestInv ==
    ASSUME CaseInvariant, TypeInv', NEW h \in Handlers, NEW r,
           req' = [req EXCEPT ![h] = r], UNCHANGED dbVars,
           r.token.generation <= generation,
           r.phase \in {"read", "checked"} /\ r.token = Token => ReadsHold(r)
    PROVE  CaseInvariant'
<1>1. r \in Request
  <2>1. req'[h] = r /\ req'[h] \in Request
    BY DEF CaseInvariant, TypeInv, TypeOK
  <2> QED BY <2>1
<1>2. generation' = generation /\ UNCHANGED caseRows /\ outbox' = outbox
  BY DEF dbVars, caseRows
<1>3. TokensBounded' /\ TokenGuardsReads'
  BY <1>1, <1>2, QuietStep
<1>4. StateInv'
  BY <1>2, StateInvRows DEF CaseInvariant, StateInv
<1> QED BY <1>3, <1>4 DEF CaseInvariant, StateInv, TypeInv

LEMMA ReadStepsInv ==
    ASSUME CaseInvariant, TypeInv', NEW h \in Handlers,
           ReadToken(h) \/ ReadReview(h) \/ Abort(h) \/ FinalizeCheck(h)
             \/ ExecutionCheck(h) \/ RecoverBegin(h) \/ NothingToRecord(h)
             \/ PlanError(h) \/ RecoverError(h) \/ ProposalStale(h)
             \/ StopProcess(h) \/ LoopFails(h)
    PROVE  CaseInvariant'
<1>0. /\ req[h] \in Request /\ req \in [Handlers -> Request]
      /\ req[h].token.generation <= generation
      /\ generation \in Nat
  BY DEF CaseInvariant, TypeOK, TokensBounded
<1>1. CASE ReadToken(h)
  <2> DEFINE r == [req[h] EXCEPT !.phase = "token", !.token = Token]
  <2>1. r.phase = "token" /\ r.token.generation <= generation
    BY <1>0 DEF Token, Request
  <2>2. req' = [req EXCEPT ![h] = r] /\ UNCHANGED dbVars
    BY <1>0, <1>1 DEF ReadToken, Request
  <2> HIDE DEF r
  <2> QED BY <2>1, <2>2, RequestInv
<1>6. CASE RecoverBegin(h)
  <2> DEFINE r == [req[h] EXCEPT !.phase = "token", !.token = Token,
                                 !.seen = attempts[req[h].arg]]
  <2>1. r.phase = "token" /\ r.token.generation <= generation
    BY <1>0 DEF Token, Request
  <2>2. req' = [req EXCEPT ![h] = r] /\ UNCHANGED dbVars
    BY <1>0, <1>6 DEF RecoverBegin, Request
  <2> HIDE DEF r
  <2> QED BY <2>1, <2>2, RequestInv
<1>2. CASE ReadReview(h)
  <2> DEFINE r == [req[h] EXCEPT !.phase = "read", !.revs = CurrentReviews]
  <2>1. /\ r.phase = "read" /\ r.revs = CurrentReviews /\ r.token = req[h].token
    BY <1>0 DEF Request
  <2>2. req' = [req EXCEPT ![h] = r] /\ UNCHANGED dbVars
    BY <1>0, <1>2 DEF ReadReview, Request, CurrentReviews
  <2> HIDE DEF r
  <2>3. ReadsHold(r)
    BY <2>1 DEF ReadsHold
  <2> QED BY <1>0, <2>1, <2>2, <2>3, RequestInv
<1>3. CASE Abort(h) \/ NothingToRecord(h) \/ StopProcess(h) \/ LoopFails(h)
  BY <1>3, RequestInv, NoRequestBounded
     DEF Abort, NothingToRecord, StopProcess, LoopFails, AfterRecord, Done, Escape
<1>4. CASE FinalizeCheck(h) \/ ExecutionCheck(h)
  <2> DEFINE r == [req[h] EXCEPT !.phase = "checked"]
  <2>1. /\ r.op = req[h].op /\ r.arg = req[h].arg /\ r.pick = req[h].pick
        /\ r.token = req[h].token /\ r.revs = req[h].revs
    BY <1>0 DEF Request
  <2>2. req' = [req EXCEPT ![h] = r] /\ UNCHANGED dbVars
    BY <1>0, <1>4 DEF FinalizeCheck, ExecutionCheck, Request
  <2> HIDE DEF r
  <2>3. ASSUME r.token = Token PROVE ReadsHold(r)
    <3>0. req[h].phase = "read" /\ req[h].token = Token
      BY <1>4, <2>1, <2>3 DEF FinalizeCheck, ExecutionCheck
    <3>1. r.revs = CurrentReviews /\ selection = r.token.selection
      <4>1. ReadsHold(req[h])
        BY <3>0 DEF CaseInvariant, TokenGuardsReads
      <4> QED BY <2>1, <3>0, <4>1 DEF ReadsHold, Token
    <3>2. CASE FinalizeCheck(h)
      <4>1. r.op = "finalize" /\ (selection # None => ~AlreadyApproved(selection))
        BY <2>1, <3>1, <3>2 DEF FinalizeCheck
      <4>2. r.pick = "approved" => EvidenceSuffices(r)
        BY <2>1, <3>2 DEF FinalizeCheck, EvidenceSuffices
      <4> QED BY <3>1, <4>1, <4>2 DEF ReadsHold
    <3>3. CASE ExecutionCheck(h)
      <4>1. r.op # "finalize"
        BY <2>1, <3>3 DEF ExecutionCheck
      <4>2. ApprovalCurrent(r.arg)
        BY <2>1, <3>1, <3>3 DEF ExecutionCheck, DecisionMatches, ApprovalCurrent
      <4> QED BY <3>1, <4>1, <4>2 DEF ReadsHold
    <3> QED BY <1>4, <3>2, <3>3
  <2> QED BY <1>0, <2>1, <2>2, <2>3, RequestInv
<1>5. CASE PlanError(h) \/ RecoverError(h) \/ ProposalStale(h)
  <2>1. PICK op \in {"recover", "record"}, pick \in {None, "error", "stale"} :
          req' = [req EXCEPT ![h] = FollowUp(h, op, pick)]
    BY <1>5 DEF PlanError, RecoverError, ProposalStale
  <2> DEFINE r == FollowUp(h, op, pick)
  <2>2. r.phase = "begun" /\ r.token.generation <= generation
    BY <1>0 DEF FollowUp, NoRequest, NoToken
  <2>3. UNCHANGED dbVars
    BY <1>5 DEF PlanError, RecoverError, ProposalStale
  <2> HIDE DEF r
  <2> QED BY <2>1, <2>2, <2>3, RequestInv DEF r
<1> QED BY <1>1, <1>2, <1>3, <1>4, <1>5, <1>6

\* Approvals stay backed and unique in a growing ledger to which no approval is added.
LEMMA ApprovalsKept ==
    ASSUME StateInv, TypeInv, LedgerGrows,
           \A d \in DecisionIds :
              decisions'[d] # None /\ decisions'[d].kind = "approved"
                  => decisions'[d] = decisions[d]
    PROVE  ApprovalBacked' /\ OneApprovalPerSelection'
<1>1. OneApprovalPerSelection'
  BY DEF StateInv, OneApprovalPerSelection
<1>2. ASSUME NEW d \in DecisionIds, decisions'[d] # None, decisions'[d].kind = "approved"
      PROVE  LET s == decisions'[d].selection
             IN  /\ s # None
                 /\ selections'[s] # None
                 /\ selections'[s].analysis = decisions'[d].analysis
                 /\ IF RequiresFinanceApproval(selections'[s].option)
                    THEN /\ decisions'[d].revision \in 1..Len(reviews'[s])
                         /\ reviews'[s][decisions'[d].revision] = "approved"
                    ELSE decisions'[d].revision = 0
  <2> DEFINE s == decisions[d].selection
  <2>1. decisions'[d] = decisions[d]
    BY <1>2
  <2>2. /\ s # None /\ selections[s] # None
        /\ selections[s].analysis = decisions[d].analysis
        /\ IF RequiresFinanceApproval(selections[s].option)
           THEN /\ decisions[d].revision \in 1..Len(reviews[s])
                /\ reviews[s][decisions[d].revision] = "approved"
           ELSE decisions[d].revision = 0
    BY <1>2, <2>1 DEF StateInv, ApprovalBacked
  <2>3. s \in SelectionIds /\ reviews[s] \in Seq(ReviewStatus) /\ Len(reviews[s]) \in Nat
    BY <1>2, <2>1, <2>2 DEF TypeInv, TypeOK, Decision
  <2>4. /\ selections'[s] = selections[s]
        /\ Len(reviews[s]) <= Len(reviews'[s])
        /\ \A i \in 1..Len(reviews[s]) : reviews'[s][i] = reviews[s][i]
    BY <2>2, <2>3 DEF LedgerGrows
  <2> HIDE DEF s
  <2>5. decisions'[d].selection = s
    BY <2>1 DEF s
  <2>6. CASE RequiresFinanceApproval(selections[s].option)
    BY <2>1, <2>2, <2>3, <2>4, <2>5, <2>6
  <2>7. CASE ~RequiresFinanceApproval(selections[s].option)
    BY <2>1, <2>2, <2>4, <2>5, <2>7
  <2> QED BY <2>6, <2>7
<1>3. ApprovalBacked'
  BY <1>2 DEF ApprovalBacked, RequiresFinanceApproval
<1> QED BY <1>1, <1>3

\* publish
LEMMA PublishInv ==
    ASSUME CaseInvariant, TypeInv', NEW h \in Handlers, Publish(h)
    PROVE  CaseInvariant' /\ LedgerGrows
<1> DEFINE s == req[h].arg
           o == req[h].pick
           closed == Supersede(h, reviews)
<1>1. /\ s \in SelectionIds /\ s # None /\ selections[s] = None /\ reviews[s] = <<>>
      /\ s # selection
  BY DEF Publish, CaseInvariant, RequestsMatch, JournalsWellFormed
<1>2. /\ ReadsHold(req[h]) /\ req[h].token.selection = selection
      /\ req[h].token.analysis = analysis /\ req[h].revs = CurrentReviews
  BY CommitReads DEF Publish
<1>3. \A t \in SelectionIds :
         /\ closed[t] \in Seq(ReviewStatus)
         /\ closed[t] = <<>> <=> reviews[t] = <<>>
         /\ closed[t] # <<>> => LatestStatus(closed[t]) = "superseded"
         /\ Len(reviews[t]) <= Len(closed[t])
         /\ \A i \in 1..Len(reviews[t]) : closed[t][i] = reviews[t][i]
  BY <1>2, SupersedeCurrent DEF Publish
<1>4. /\ reviews'[s] = IF RequiresFinanceApproval(o) THEN <<"pending">> ELSE <<>>
      /\ \A t \in SelectionIds : t # s => reviews'[t] = closed[t]
  <2>1. closed = [t \in SelectionIds |-> closed[t]]
    BY DEF Supersede
  <2> QED BY <1>1, <1>3, <2>1 DEF Publish
<1>5. /\ selections'[s] = [analysis |-> analysis, option |-> o]
      /\ selections'[s] # None
      /\ \A t \in SelectionIds : t # s => selections'[t] = selections[t]
  <2>1. [analysis |-> analysis, option |-> o] \in Selection
    BY <1>1, <1>2 DEF Publish, CaseInvariant, TypeOK, RequestsMatch, Selection
  <2> QED BY <1>1, <1>2, <2>1 DEF Publish, CaseInvariant, TypeOK
<1>6. /\ selection' = s /\ analysis' = analysis /\ decisions' = decisions
      /\ outbox' = outbox /\ generation' = generation + 1 /\ Done(h)
  BY DEF Publish, CasProjection
<1> HIDE DEF s, o, closed
<1>7. LedgerGrows
  BY <1>1, <1>3, <1>4, <1>5, <1>6 DEF LedgerGrows
<1>8. JournalsWellFormed'
  <2>1. /\ selections'[s] # None /\ selections'[s].analysis = analysis'
        /\ selections'[s].option = o
    BY <1>5, <1>6
  <2>2. \A t \in SelectionIds :
          IF selections'[t] = None THEN reviews'[t] = <<>>
          ELSE reviews'[t] # <<>> <=> RequiresFinanceApproval(selections'[t].option)
    BY <1>1, <1>3, <1>4, <1>5, <2>1
       DEF CaseInvariant, JournalsWellFormed, RequiresFinanceApproval
  <2>3. \A d \in DecisionIds : decisions'[d] = None => outbox'[d] = "absent"
    BY <1>6 DEF CaseInvariant, JournalsWellFormed
  <2> QED BY <1>6, <2>1, <2>2, <2>3 DEF JournalsWellFormed, RequiresFinanceApproval
<1>9. SupersededIffReplaced'
  BY <1>1, <1>3, <1>4, <1>6 DEF SupersededIffReplaced, LatestStatus
<1>10. ApprovalBacked' /\ OneApprovalPerSelection'
  BY <1>6, <1>7, ApprovalsKept DEF CaseInvariant, StateInv, TypeInv
<1>11. TokensBounded' /\ TokenGuardsReads'
  BY <1>6, CommitRetiresTokens
<1> QED BY <1>7, <1>8, <1>9, <1>10, <1>11 DEF CaseInvariant, TypeInv

\* A commit that leaves the proposal: withdraw_current and a new analysis.
LEMMA LeaveProposal ==
    ASSUME CaseInvariant, TypeInv', NEW h \in Handlers, NEW a,
           req[h].phase \in {"read", "checked"},
           CasProjection(h, a, None), CanSupersede(h), Done(h),
           reviews' = Supersede(h, reviews), selections' = selections, outbox' = outbox,
           \A d \in DecisionIds :
              /\ decisions[d] # None => decisions'[d] = decisions[d]
              /\ decisions'[d] # None /\ decisions'[d].kind = "approved"
                    => decisions'[d] = decisions[d]
    PROVE  CaseInvariant' /\ LedgerGrows
<1>1. req[h].token.selection = selection /\ req[h].revs = CurrentReviews
  BY CommitReads
<1>2. \A t \in SelectionIds :
         /\ reviews'[t] = <<>> <=> reviews[t] = <<>>
         /\ reviews'[t] # <<>> => LatestStatus(reviews'[t]) = "superseded"
         /\ Len(reviews[t]) <= Len(reviews'[t])
         /\ \A i \in 1..Len(reviews[t]) : reviews'[t][i] = reviews[t][i]
  BY <1>1, SupersedeCurrent
<1>3. selection' = None /\ generation' = generation + 1
  BY DEF CasProjection
<1>4. LedgerGrows
  BY <1>2 DEF LedgerGrows
<1>5. JournalsWellFormed'
  BY <1>2, <1>3 DEF CaseInvariant, JournalsWellFormed, RequiresFinanceApproval
<1>6. SupersededIffReplaced'
  BY <1>2, <1>3 DEF SupersededIffReplaced, LatestStatus
<1>7. ApprovalBacked' /\ OneApprovalPerSelection'
  BY <1>4, ApprovalsKept DEF CaseInvariant, StateInv, TypeInv
<1>8. TokensBounded' /\ TokenGuardsReads'
  BY <1>3, CommitRetiresTokens
<1> QED BY <1>4, <1>5, <1>6, <1>7, <1>8 DEF CaseInvariant, TypeInv

LEMMA RejectInv ==
    ASSUME CaseInvariant, TypeInv', NEW h \in Handlers, Reject(h)
    PROVE  CaseInvariant' /\ LedgerGrows
<1>1. req[h].arg \in DecisionIds
  BY DEF Reject, CaseInvariant, RequestsMatch
<1>2. \A d \in DecisionIds :
         /\ decisions[d] # None => decisions'[d] = decisions[d]
         /\ decisions'[d] # None /\ decisions'[d].kind = "approved"
               => decisions'[d] = decisions[d]
  BY <1>1 DEF Reject, CaseInvariant, TypeOK
<1> QED BY <1>2, LeaveProposal DEF Reject

LEMMA SaveAnalysisInv ==
    ASSUME CaseInvariant, TypeInv', NEW h \in Handlers, SaveAnalysis(h)
    PROVE  CaseInvariant' /\ LedgerGrows
  BY LeaveProposal DEF SaveAnalysis

\* resolve
LEMMA ResolveInv ==
    ASSUME CaseInvariant, TypeInv', NEW h \in Handlers, ResolveCommit(h)
    PROVE  CaseInvariant' /\ LedgerGrows
<1> DEFINE s == req[h].arg
           v == req[h].pick
<1>1. s \in SelectionIds /\ s # None /\ v \in {"approved", "rejected"}
  BY DEF ResolveCommit, CaseInvariant, RequestsMatch, Verdicts
<1>2. selection = s /\ req[h].revs = reviews[s]
  BY <1>1, CommitReads DEF ResolveCommit, CurrentReviews
<1>3. reviews[s] \in Seq(ReviewStatus) /\ reviews[s] # <<>>
  BY <1>1, <1>2 DEF ResolveCommit, LatestStatus, CaseInvariant, TypeOK
<1>4. /\ reviews'[s] = Append(reviews[s], v)
      /\ \A t \in SelectionIds : t # s => reviews'[t] = reviews[t]
  BY <1>1 DEF ResolveCommit, CaseInvariant, TypeOK
<1>5. /\ selection' = selection /\ analysis' = analysis /\ decisions' = decisions
      /\ selections' = selections /\ outbox' = outbox
      /\ generation' = generation + 1 /\ Done(h)
  BY DEF ResolveCommit, CasProjection
<1> HIDE DEF s, v
<1>6. /\ reviews'[s] # <<>>
      /\ LatestStatus(reviews'[s]) = v
      /\ Len(reviews'[s]) = Len(reviews[s]) + 1
      /\ Len(reviews[s]) \in Nat
      /\ \A i \in 1..Len(reviews[s]) : reviews'[s][i] = reviews[s][i]
  BY <1>1, <1>3, <1>4, AppendFacts DEF ReviewStatus
<1>7. LedgerGrows
  <2>1. \A t \in SelectionIds : Len(reviews[t]) \in Nat
    BY DEF CaseInvariant, TypeOK
  <2> QED BY <1>4, <1>5, <1>6, <2>1 DEF LedgerGrows
<1>8. JournalsWellFormed'
  BY <1>1, <1>2, <1>3, <1>4, <1>5, <1>6
     DEF CaseInvariant, JournalsWellFormed, RequiresFinanceApproval
<1>9. SupersededIffReplaced'
  <2>1. \A t \in SelectionIds :
           reviews[t] # <<>> => (LatestStatus(reviews[t]) = "superseded" <=> selection # t)
    BY DEF CaseInvariant, SupersededIffReplaced
  <2> QED BY <1>1, <1>2, <1>4, <1>5, <1>6, <2>1 DEF SupersededIffReplaced, LatestStatus
<1>10. ApprovalBacked' /\ OneApprovalPerSelection'
  BY <1>5, <1>7, ApprovalsKept DEF CaseInvariant, StateInv, TypeInv
<1>11. TokensBounded' /\ TokenGuardsReads'
  BY <1>5, CommitRetiresTokens
<1> QED BY <1>7, <1>8, <1>9, <1>10, <1>11 DEF CaseInvariant, TypeInv

\* finalize, approving: the decision is backed by what was read before.
LEMMA ApproveInv ==
    ASSUME CaseInvariant, TypeInv', NEW h \in Handlers, Approve(h)
    PROVE  CaseInvariant' /\ LedgerGrows
<1> DEFINE d == req[h].arg
<1>1. d \in DecisionIds /\ decisions[d] = None /\ outbox[d] = "absent"
  BY DEF Approve, CaseInvariant, RequestsMatch, JournalsWellFormed
<1>2. /\ ReadsHold(req[h]) /\ req[h].token.selection = selection
      /\ req[h].token.analysis = analysis /\ req[h].revs = CurrentReviews
  BY CommitReads DEF Approve
<1>3. /\ selection # None /\ ~AlreadyApproved(selection)
      /\ RequiresFinanceApproval(selections[selection].option)
            => LatestStatus(CurrentReviews) = "approved"
  BY <1>2 DEF Approve, ReadsHold, EvidenceSuffices
<1>4. /\ selection \in SelectionIds /\ CurrentReviews = reviews[selection]
      /\ reviews[selection] \in Seq(ReviewStatus)
      /\ selections[selection] # None /\ selections[selection].analysis = analysis
  BY <1>3 DEF CurrentReviews, CaseInvariant, TypeOK, JournalsWellFormed
<1>5. /\ decisions'[d] = [kind |-> "approved", analysis |-> analysis,
                          selection |-> selection, revision |-> Len(reviews[selection])]
      /\ \A e \in DecisionIds : e # d => decisions'[e] = decisions[e]
  BY <1>1, <1>2, <1>4 DEF Approve, CaseInvariant, TypeOK
<1>6. \A e \in DecisionIds : e # d => outbox'[e] = outbox[e]
  BY DEF Approve, CaseInvariant, TypeOK
<1>7. /\ selection' = selection /\ analysis' = analysis /\ reviews' = reviews
      /\ selections' = selections /\ generation' = generation + 1 /\ Done(h)
  BY DEF Approve, CasProjection
<1>8. decisions'[d] # None
  <2>1. decisions'[d] \in Decision \union {None}
    BY <1>1 DEF TypeInv, TypeOK
  <2>2. [kind |-> "approved", analysis |-> analysis, selection |-> selection,
         revision |-> Len(reviews[selection])] \in Decision
    <3>1. analysis \in Analyses
      BY <1>2 DEF Approve, CaseInvariant, TypeOK, RequestsMatch
    <3> QED BY <1>4, <3>1 DEF Decision, Verdicts
  <2> QED BY <1>5, <2>2
<1> HIDE DEF d
<1>9. LedgerGrows
  <2>1. \A t \in SelectionIds : Len(reviews[t]) \in Nat
    BY DEF CaseInvariant, TypeOK
  <2> QED BY <1>1, <1>5, <1>6, <1>7, <2>1 DEF LedgerGrows
<1>10. JournalsWellFormed'
  BY <1>1, <1>5, <1>6, <1>7, <1>8
     DEF CaseInvariant, JournalsWellFormed, RequiresFinanceApproval
<1>11. SupersededIffReplaced'
  BY <1>7 DEF CaseInvariant, SupersededIffReplaced
<1>12. ApprovalBacked'
  <2>1. CASE RequiresFinanceApproval(selections[selection].option)
    <3>1. Len(reviews[selection]) \in 1..Len(reviews[selection])
          /\ reviews[selection][Len(reviews[selection])] = "approved"
      BY <1>3, <1>4, <2>1, LatestIsApproved
    <3> QED BY <1>3, <1>4, <1>5, <1>7, <2>1, <3>1
            DEF CaseInvariant, ApprovalBacked, RequiresFinanceApproval
  <2>2. CASE ~RequiresFinanceApproval(selections[selection].option)
    <3>1. Len(reviews[selection]) = 0
      BY <1>4, <2>2 DEF CaseInvariant, JournalsWellFormed
    <3> QED BY <1>3, <1>4, <1>5, <1>7, <2>2, <3>1
            DEF CaseInvariant, ApprovalBacked, RequiresFinanceApproval
  <2> QED BY <2>1, <2>2
<1>13. OneApprovalPerSelection'
  BY <1>1, <1>3, <1>5 DEF CaseInvariant, OneApprovalPerSelection, AlreadyApproved
<1>14. TokensBounded' /\ TokenGuardsReads'
  BY <1>7, CommitRetiresTokens
<1> QED BY <1>9, <1>10, <1>11, <1>12, <1>13, <1>14 DEF CaseInvariant, TypeInv

\* The worker's commits leave everything but event, status and generation alone.
LEMMA WorkerCommitsInv ==
    ASSUME CaseInvariant, TypeInv', NEW h \in Handlers,
           PlanCommit(h) \/ RecoverCommit(h) \/ RecordFailure(h)
    PROVE  CaseInvariant' /\ LedgerGrows
<1>1. UNCHANGED caseRows
  BY DEF PlanCommit, RecoverCommit, RecordFailure, CasProjection, caseRows
<1>2. /\ req[h].arg \in DecisionIds
      /\ outbox[req[h].arg] = "pending"
      /\ \A d \in DecisionIds : d # req[h].arg => outbox'[d] = outbox[d]
  BY DEF PlanCommit, RecoverCommit, RecordFailure, CaseInvariant, RequestsMatch, TypeOK
<1>3. \A d \in DecisionIds : decisions[d] = None => outbox'[d] = outbox[d]
  BY <1>2 DEF CaseInvariant, JournalsWellFormed
<1>4. StateInv'
  BY <1>1, <1>3, StateInvRows DEF CaseInvariant, StateInv
<1>5. LedgerGrows
  <2>1. \A t \in SelectionIds : Len(reviews[t]) \in Nat
    BY DEF CaseInvariant, TypeOK
  <2> QED BY <1>1, <1>2, <2>1 DEF LedgerGrows, caseRows
<1>6. TokensBounded' /\ TokenGuardsReads'
  <2>1. CASE PlanCommit(h) \/ RecoverCommit(h)
    BY <1>1, <2>1, CommitRetiresTokens DEF PlanCommit, RecoverCommit, CasProjection
  <2>2. CASE RecordFailure(h)
    BY <1>1, <2>2, QuietStep, NoRequestType, NoRequestBounded
       DEF RecordFailure, AfterRecord, Done, Escape
  <2> QED BY <2>1, <2>2
<1> QED BY <1>4, <1>5, <1>6 DEF CaseInvariant, StateInv, TypeInv

LEMMA QuietLedger ==
    ASSUME CaseInvariant, UNCHANGED dbVars PROVE LedgerGrows
<1>1. \A t \in SelectionIds : Len(reviews[t]) \in Nat
  BY DEF CaseInvariant, TypeOK
<1> QED BY <1>1 DEF LedgerGrows, dbVars

LEMMA NextCaseInvariant ==
    ASSUME CaseInvariant, [Next]_vars PROVE CaseInvariant' /\ LedgerGrows
<1>0. TypeInv'
  BY NextTypeInv DEF CaseInvariant, TypeInv
<1>1. CASE UNCHANGED vars \/ \E h \in Handlers : StartLoop(h)
  <2>1. UNCHANGED dbVars /\ req' = req
    BY <1>1 DEF vars, StartLoop
  <2>2. TokensBounded' /\ TokenGuardsReads'
    BY <2>1 DEF CaseInvariant, TokensBounded, TokenGuardsReads, ReadsHold, Token,
                CurrentReviews, AlreadyApproved, EvidenceSuffices, ApprovalCurrent, dbVars
  <2>3. StateInv'
    BY <2>1, StateInvRows DEF CaseInvariant, StateInv, dbVars, caseRows
  <2> QED BY <1>0, <2>1, <2>2, <2>3, QuietLedger DEF CaseInvariant, StateInv, TypeInv
<1>2. ASSUME NEW h \in Handlers, BeginRequest(h) PROVE CaseInvariant' /\ LedgerGrows
  <2>1. PICK op, arg, pick : Begin(h, op, arg, pick)
    BY <1>2 DEF BeginRequest, SubmitBegin, ResolveBegin, FinalizeBegin, AnalyzeBegin
  <2>2. UNCHANGED dbVars
    BY <2>1 DEF Begin
  <2> QED BY <1>0, <2>1, <2>2, BeginInv, QuietLedger
<1>3. ASSUME NEW h \in Handlers, NEW d \in DecisionIds,
             ClaimUnattempted(h, d) \/ RetryPlanning(h, d)
      PROVE  CaseInvariant' /\ LedgerGrows
  <2>1. Begin(h, "plan", d, None)
    BY <1>3 DEF ClaimUnattempted, RetryPlanning
  <2>2. UNCHANGED dbVars
    BY <2>1 DEF Begin
  <2> QED BY <1>0, <2>1, <2>2, BeginInv, QuietLedger
<1>4. ASSUME NEW h \in Handlers,
             ReadToken(h) \/ ReadReview(h) \/ Abort(h) \/ FinalizeCheck(h)
               \/ ExecutionCheck(h) \/ RecoverBegin(h) \/ NothingToRecord(h)
               \/ PlanError(h) \/ RecoverError(h) \/ ProposalStale(h)
               \/ StopProcess(h) \/ LoopFails(h)
      PROVE  CaseInvariant' /\ LedgerGrows
  <2>1. UNCHANGED dbVars
    BY <1>4 DEF ReadToken, ReadReview, Abort, FinalizeCheck, ExecutionCheck, RecoverBegin,
                NothingToRecord, PlanError, RecoverError, ProposalStale, StopProcess,
                LoopFails
  <2> QED BY <1>0, <1>4, <2>1, ReadStepsInv, QuietLedger
<1>5. ASSUME NEW h \in Handlers,
             RequestStep(h) \/ WorkerStep(h) \/ WorkerFault(h)
      PROVE  CaseInvariant' /\ LedgerGrows
  BY <1>0, <1>3, <1>4, <1>5, PublishInv, ResolveInv, ApproveInv, RejectInv,
     SaveAnalysisInv, WorkerCommitsInv
     DEF RequestStep, WorkerStep, WorkerFault
<1> QED BY <1>1, <1>2, <1>3, <1>4, <1>5, WorkersAssumption DEF Next, LoopStep

LEMMA InitCaseInvariant == Init => CaseInvariant
<1> SUFFICES ASSUME Init PROVE CaseInvariant
  OBVIOUS
<1>1. TokensBounded /\ TokenGuardsReads
  BY DEF Init, TokensBounded, TokenGuardsReads, NoRequest, NoToken
<1>2. StateInv
  BY DEF Init, StateInv, JournalsWellFormed, SupersededIffReplaced, ApprovalBacked,
         OneApprovalPerSelection
<1> QED BY <1>1, <1>2, InitTypeInv DEF CaseInvariant, StateInv, TypeInv

\* However requests and workers interleave, crash and act on state read long
\* ago, the case keeps its invariant: approvals are backed by the exact Finance
\* review, given once per selection, and reviews close with their proposal.
THEOREM CaseInvariantHolds == Spec => []CaseInvariant
<1>1. CaseInvariant /\ [Next]_vars => CaseInvariant'
  BY NextCaseInvariant
<1> QED BY <1>1, InitCaseInvariant, PTL DEF Spec

\* Four eyes: FinanceDecisionService never records an approval that its own
\* selection and the exact Finance revision do not back.
THEOREM ApprovalsAreBacked == Spec => []ApprovalBacked
<1>1. CaseInvariant => ApprovalBacked
  BY DEF CaseInvariant
<1> QED BY <1>1, CaseInvariantHolds, PTL

\* _already_approved reads before the transaction locks, yet no selection is
\* approved twice.
THEOREM ApprovalsAreUnique == Spec => []OneApprovalPerSelection
<1>1. CaseInvariant => OneApprovalPerSelection
  BY DEF CaseInvariant
<1> QED BY <1>1, CaseInvariantHolds, PTL

\* publish, withdraw_current and _save_analysis_connection close the review of
\* exactly the proposal they replace.
THEOREM ReviewsCloseWithTheirProposal == Spec => []SupersededIffReplaced
<1>1. CaseInvariant => SupersededIffReplaced
  BY DEF CaseInvariant
<1> QED BY <1>1, CaseInvariantHolds, PTL

\* The compare-and-swap token stands for everything a request has read.
THEOREM TokensGuardReads == Spec => []TokenGuardsReads
<1>1. CaseInvariant => TokenGuardsReads
  BY DEF CaseInvariant
<1> QED BY <1>1, CaseInvariantHolds, PTL

\* No step rewrites the journals of the case.
THEOREM LedgerIsAppendOnly == Spec => LedgerAppendOnly
<1>1. CaseInvariant /\ [Next]_vars => [LedgerGrows]_vars
  BY NextCaseInvariant
<1> QED BY <1>1, CaseInvariantHolds, PTL DEF Spec, LedgerAppendOnly

\* Everything but the commits leaves the database alone.
LEMMA InvisibleSteps ==
    ASSUME NEW h \in Handlers,
           \/ BeginRequest(h) \/ ReadToken(h) \/ ReadReview(h) \/ Abort(h)
           \/ FinalizeCheck(h) \/ ExecutionCheck(h) \/ RecoverBegin(h)
           \/ NothingToRecord(h) \/ WorkerFault(h) \/ ProposalStale(h) \/ LoopStep(h)
           \/ \E e \in DecisionIds : ClaimUnattempted(h, e) \/ RetryPlanning(h, e)
    PROVE  UNCHANGED dbVars
  BY DEF BeginRequest, SubmitBegin, ResolveBegin, FinalizeBegin, AnalyzeBegin,
         ClaimUnattempted, RetryPlanning, Begin, ReadToken, ReadReview, Abort,
         FinalizeCheck, ExecutionCheck, RecoverBegin, NothingToRecord, WorkerFault,
         PlanError, RecoverError, ProposalStale, LoopStep, StartLoop, StopProcess,
         LoopFails

\* Only PlanCommit processes an event.
LEMMA PlanningStep ==
    ASSUME CaseInvariant, [Next]_vars, NEW d \in DecisionIds,
           outbox'[d] = "processed", outbox[d] # "processed"
    PROVE  ApprovalCurrent(d)
<1>1. ASSUME NEW h \in Handlers, PlanCommit(h) PROVE ApprovalCurrent(d)
  <2>1. ReadsHold(req[h])
    BY <1>1, CommitReads DEF PlanCommit
  <2>2. d = req[h].arg
    BY <1>1 DEF PlanCommit, CaseInvariant, TypeOK
  <2> QED BY <1>1, <2>1, <2>2 DEF PlanCommit, ReadsHold
<1>2. CASE UNCHANGED dbVars
  BY <1>2 DEF dbVars
<1>3. ASSUME NEW h \in Handlers,
             Publish(h) \/ ResolveCommit(h) \/ Approve(h) \/ Reject(h)
               \/ SaveAnalysis(h) \/ RecoverCommit(h) \/ RecordFailure(h)
      PROVE  FALSE
  BY <1>3 DEF Publish, ResolveCommit, Approve, Reject, SaveAnalysis, RecoverCommit,
              RecordFailure, CaseInvariant, TypeOK
<1> QED BY <1>1, <1>2, <1>3, InvisibleSteps DEF Next, vars, RequestStep, WorkerStep

\* A worker plans actions only while the approval it acts for is the current
\* one, although it checked that before its transaction took a lock.
THEOREM PlanningIsApproved == Spec => PlannedUnderApproval
<1>1. CaseInvariant /\ [Next]_vars =>
        [\A d \in DecisionIds :
            outbox'[d] = "processed" /\ outbox[d] # "processed" => ApprovalCurrent(d)]_vars
  BY PlanningStep
<1> QED BY <1>1, CaseInvariantHolds, PTL DEF Spec, PlannedUnderApproval

-----------------------------------------------------------------------------
(* ProposalFlow implements CaseApproval: every commit is the atomic command  *)
(* of the same name, every other step of a request or worker is invisible.   *)

\* Closing what was read is closing what is current.
LEMMA RetireIsSupersede ==
    ASSUME CaseInvariant, NEW h \in Handlers, req[h].token.selection = selection,
           req[h].revs = CurrentReviews
    PROVE  Supersede(h, reviews) = Atomic!Retire(reviews)
<1>1. \A s \in SelectionIds :
         (s = req[h].token.selection /\ req[h].revs # <<>>)
            <=> (s = selection /\ reviews[s] # <<>>)
  BY DEF CurrentReviews
<1> QED BY <1>1 DEF Supersede, Atomic!Retire

LEMMA PublishRefines ==
    ASSUME CaseInvariant, NEW h \in Handlers, Publish(h) PROVE Atomic!Next
<1>1. req[h].arg \in SelectionIds /\ req[h].pick \in Options
  BY DEF Publish, CaseInvariant, RequestsMatch
<1>2. /\ req[h].token.selection = selection /\ req[h].token.analysis = analysis
      /\ req[h].revs = CurrentReviews
  BY CommitReads DEF Publish
<1>3. Supersede(h, reviews) = Atomic!Retire(reviews)
  BY <1>2, RetireIsSupersede
<1>4. Atomic!Submit(req[h].arg, req[h].pick)
  BY <1>1, <1>2, <1>3 DEF Publish, CasProjection, Atomic!Submit, RequiresFinanceApproval,
                          Atomic!RequiresFinanceApproval
<1> QED BY <1>1, <1>4 DEF Atomic!Next

LEMMA ResolveRefines ==
    ASSUME CaseInvariant, NEW h \in Handlers, ResolveCommit(h) PROVE Atomic!Next
<1>1. /\ req[h].arg \in SelectionIds /\ req[h].arg # None
      /\ req[h].pick \in {"approved", "rejected"}
  BY DEF ResolveCommit, CaseInvariant, RequestsMatch, Verdicts
<1>2. selection = req[h].arg /\ req[h].revs = reviews[selection]
  BY <1>1, CommitReads DEF ResolveCommit, CurrentReviews
<1>3. Atomic!Resolve(req[h].pick)
  BY <1>1, <1>2 DEF ResolveCommit, CasProjection, Atomic!Resolve, LatestStatus,
                    Atomic!LatestStatus
<1> QED BY <1>1, <1>3 DEF Atomic!Next

LEMMA ApproveRefines ==
    ASSUME CaseInvariant, NEW h \in Handlers, Approve(h) PROVE Atomic!Next
<1>1. req[h].arg \in DecisionIds
  BY DEF Approve, CaseInvariant, RequestsMatch
<1>2. /\ ReadsHold(req[h]) /\ req[h].token.selection = selection
      /\ req[h].token.analysis = analysis /\ req[h].revs = CurrentReviews
  BY CommitReads DEF Approve
<1>3. /\ selection # None /\ ~AlreadyApproved(selection)
      /\ RequiresFinanceApproval(selections[selection].option)
            => LatestStatus(reviews[selection]) = "approved"
      /\ req[h].revs = reviews[selection]
  BY <1>2 DEF Approve, ReadsHold, EvidenceSuffices, CurrentReviews
<1>4. Atomic!Approve(req[h].arg)
  BY <1>2, <1>3 DEF Approve, CasProjection, Atomic!Approve, Atomic!ClearedByFinance,
                    Atomic!AlreadyApproved, AlreadyApproved, RequiresFinanceApproval,
                    Atomic!RequiresFinanceApproval, LatestStatus, Atomic!LatestStatus
<1> QED BY <1>1, <1>4 DEF Atomic!Next

LEMMA RejectRefines ==
    ASSUME CaseInvariant, NEW h \in Handlers, Reject(h) PROVE Atomic!Next
<1>1. req[h].arg \in DecisionIds /\ req[h].token.analysis # None
  BY DEF Reject, CaseInvariant, RequestsMatch
<1>2. /\ ReadsHold(req[h]) /\ req[h].token.selection = selection
      /\ req[h].token.analysis = analysis /\ req[h].revs = CurrentReviews
  BY CommitReads DEF Reject
<1>3. Supersede(h, reviews) = Atomic!Retire(reviews)
  BY <1>2, RetireIsSupersede
<1>4. Atomic!Reject(req[h].arg)
  BY <1>1, <1>2, <1>3 DEF Reject, CasProjection, ReadsHold, Atomic!Reject,
                          Atomic!AlreadyApproved, AlreadyApproved
<1> QED BY <1>1, <1>4 DEF Atomic!Next

LEMMA SaveAnalysisRefines ==
    ASSUME CaseInvariant, NEW h \in Handlers, SaveAnalysis(h) PROVE Atomic!Next
<1>1. req[h].arg \in Analyses
  BY DEF SaveAnalysis, CaseInvariant, RequestsMatch
<1>2. req[h].token.selection = selection /\ req[h].revs = CurrentReviews
  BY CommitReads DEF SaveAnalysis
<1>3. Supersede(h, reviews) = Atomic!Retire(reviews)
  BY <1>2, RetireIsSupersede
<1>4. Atomic!Reanalyse(req[h].arg)
  BY <1>3 DEF SaveAnalysis, CasProjection, Atomic!Reanalyse
<1> QED BY <1>1, <1>4 DEF Atomic!Next

\* Approval as the code checks it, on a well-formed case, is approval as promised.
LEMMA ApprovalCurrentRefines ==
    ASSUME CaseInvariant, NEW d \in DecisionIds, ApprovalCurrent(d)
    PROVE  Atomic!ApprovalCurrent(d)
<1>1. /\ selection # None /\ selection \in SelectionIds
      /\ CurrentReviews = reviews[selection]
  BY DEF ApprovalCurrent, CaseInvariant, ApprovalBacked, TypeOK, CurrentReviews
<1>2. RequiresFinanceApproval(selections[selection].option) => reviews[selection] # <<>>
  BY <1>1 DEF CaseInvariant, JournalsWellFormed
<1> QED BY <1>1, <1>2 DEF ApprovalCurrent, Atomic!ApprovalCurrent, Atomic!ClearedByFinance,
                          RequiresFinanceApproval, Atomic!RequiresFinanceApproval,
                          LatestStatus, Atomic!LatestStatus

LEMMA WorkerCommitsRefine ==
    ASSUME CaseInvariant, NEW h \in Handlers,
           PlanCommit(h) \/ RecoverCommit(h) \/ RecordFailure(h)
    PROVE  Atomic!Next \/ UNCHANGED Atomic!caseVars
<1>1. req[h].arg \in DecisionIds
  BY DEF PlanCommit, RecoverCommit, RecordFailure, CaseInvariant, RequestsMatch
<1>2. CASE PlanCommit(h) \/ RecoverCommit(h)
  <2>1. ReadsHold(req[h])
    BY <1>2, CommitReads DEF PlanCommit, RecoverCommit
  <2>2. ApprovalCurrent(req[h].arg)
    BY <1>2, <2>1 DEF PlanCommit, RecoverCommit, ReadsHold
  <2>3. Atomic!ApprovalCurrent(req[h].arg)
    BY <1>1, <2>2, ApprovalCurrentRefines
  <2>4. Atomic!Plan(req[h].arg) \/ Atomic!PlanningFailed(req[h].arg)
    BY <1>2, <2>3 DEF PlanCommit, RecoverCommit, CasProjection, Atomic!Plan,
                      Atomic!PlanningFailed
  <2> QED BY <1>1, <2>4 DEF Atomic!Next
<1>3. CASE RecordFailure(h)
  <2>1. Atomic!RetireEvent(req[h].arg) \/ UNCHANGED Atomic!caseVars
    BY <1>3 DEF RecordFailure, Atomic!RetireEvent, Atomic!caseVars
  <2> QED BY <1>1, <2>1 DEF Atomic!Next
<1> QED BY <1>2, <1>3

LEMMA NextRefines ==
    ASSUME CaseInvariant, [Next]_vars PROVE [Atomic!Next]_Atomic!caseVars
<1>1. CASE UNCHANGED dbVars
  BY <1>1 DEF dbVars, Atomic!caseVars
<1> QED BY <1>1, InvisibleSteps, PublishRefines, ResolveRefines, ApproveRefines, RejectRefines,
           SaveAnalysisRefines, WorkerCommitsRefine
        DEF Next, vars, RequestStep, WorkerStep

\* Stale reads and races never show: the code's read-then-compare-and-swap
\* transactions behave as commands executed one at a time on the present state.
THEOREM Refinement == Spec => ImplementsCaseApproval
<1>1. Init => Atomic!Init
  BY DEF Init, Atomic!Init
<1>2. CaseInvariant /\ [Next]_vars => [Atomic!Next]_Atomic!caseVars
  BY NextRefines
<1> QED BY <1>1, <1>2, CaseInvariantHolds, PTL DEF Spec, ImplementsCaseApproval, Atomic!Spec

=============================================================================
