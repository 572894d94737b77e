---------------------------- MODULE CaseWorkspace ----------------------------
(***************************************************************************)
(* The planner's browser: the workspace hook useCaseWorkspace, Alex's      *)
(* approval panel and the inbox panel, each with its own requests in       *)
(* flight, against a server that other sessions and workers change.        *)
(*                                                                         *)
(* A workspace operation holds the one activeOperation token; its answers  *)
(* are applied only while the token is valid.  The supplier e-mail load,   *)
(* the approval panel's finalize and the inbox panel have no token.        *)
(* A reading request is answered by the server in the step that hands the  *)
(* answer to the hook; a writing request commits in a step of its own.     *)
(***************************************************************************)
EXTENDS Naturals, FiniteSets

CONSTANTS Cases,           \* case identifiers
          Independent,     \* those of the independent-finance workflow
          NoCase, NoDecision,
          MaxAnalyses,     \* bound: analyses of one case
          MaxOperations,   \* bound: operation tokens given out
          MaxPolls         \* MAX_POLL_ATTEMPTS

ASSUME WorkspaceAssumption ==
    /\ Independent \subseteq Cases /\ NoCase \notin Cases
    /\ MaxAnalyses \in Nat \ {0} /\ MaxOperations \in Nat \ {0} /\ MaxPolls \in Nat
    /\ NoDecision \notin [case : Cases, analysis : 1 .. MaxAnalyses]

Analyses == 1 .. MaxAnalyses
Decisions == [case : Cases, analysis : Analyses]
Ref(c, a) == [case |-> c, analysis |-> a]

\* How far the decision on an analysis has come; "none" is no decision
Stages == {"none", "rejected", "pending", "failed", "planned", "playing", "played"}
Planned == {"planned", "playing", "played"}

VARIABLES live,          \* runtime_mode is live
          cases,         \* the server: analyses and decisions of each case
          mounted, active, version,      \* the hook's refs; active = 0 is null
          emailVersion,  \* supplierEmailLoadVersion
          shown,         \* the hook's state, as displayed
          bookmark,      \* the case in the page's address
          tasks,         \* operations with a request in flight
          loads,         \* supplier e-mail reads in flight
          finals,        \* final approvals in flight in the approval panel
          inbox          \* the inbox panel

serverVars == <<live, cases>>
refVars == <<mounted, active, version, emailVersion>>
vars == <<live, cases, mounted, active, version, emailVersion, shown, bookmark,
          tasks, loads, finals, inbox>>

-----------------------------------------------------------------------------
(* The server, as the client sees it *)

Stage(d) == cases[d.case].stage[d.analysis]

\* api.case: current_decision_id, the latest decision of the case
CurrentDecision(c) ==
    IF cases[c].decided = 0 THEN NoDecision ELSE Ref(c, cases[c].decided)

\* CaseControls of case_response
ControlsOf(c) ==
    LET s == cases[c]
        stage == IF s.analysis = 0 THEN "none" ELSE s.stage[s.analysis]
    IN  {x \in {"new_analysis"} : s.analysis = 0 \/ stage = "rejected"}
        \union {x \in {"decide"} : s.analysis # 0 /\ stage = "none"}
        \union {x \in {"retry_action_planning"} : stage = "failed"}
        \union {x \in {"start_playback"} : stage \in Planned}

\* A write to a case's projection row moves projection_updated_at, which a
\* reopening in progress compares at its end.
Touch(c, ts) ==
    {IF t.op = "reopening" /\ t.case = c THEN [t EXCEPT !.changed = TRUE] ELSE t : t \in ts}

\* A new analysis: in live mode the first one is returned for ever
Analysed(c) == [cases EXCEPT ![c].analysis =
                    IF @ = 0 \/ (~live /\ @ < MaxAnalyses) THEN @ + 1 ELSE @]

Decided(d, stage) == [cases EXCEPT ![d.case].stage[d.analysis] = stage,
                                   ![d.case].decided = d.analysis]

-----------------------------------------------------------------------------
(* The hook's refs and its state *)

EmptyWorkspace == [case |-> NoCase, analysis |-> 0, decision |-> NoDecision, stage |-> "none",
                   actions |-> NoDecision, playback |-> NoDecision, email |-> NoDecision,
                   controls |-> {}]

NewTask(op, phase, c, d) ==
    [token |-> version + 1, op |-> op, phase |-> phase, case |-> c, analysis |-> 0,
     decision |-> d, stage |-> "none", changed |-> FALSE, polls |-> 0]

CanBegin == mounted /\ active = 0 /\ version < MaxOperations

Begin(op, phase, c, d) ==
    /\ CanBegin
    /\ version' = version + 1
    /\ active' = version + 1
    /\ tasks' = tasks \union {NewTask(op, phase, c, d)}
    /\ UNCHANGED mounted

Valid(t) == mounted /\ active = t.token

\* finish, and the task is gone
Finish(t) == /\ tasks' = tasks \ {t}
             /\ active' = IF mounted /\ active = t.token THEN 0 ELSE active

GoOn(t, next) == tasks' = (tasks \ {t}) \union {next} /\ UNCHANGED active

\* loadSupplierEmail
LoadEmail(d) == /\ emailVersion' = emailVersion + 1
                /\ loads' = loads \union {[version |-> emailVersion + 1, decision |-> d]}

\* clearSupplierEmail
ClearEmail == emailVersion' = emailVersion + 1 /\ UNCHANGED loads

ApprovalPanelShown == mounted /\ shown.case \in Independent /\ shown.analysis # 0

-----------------------------------------------------------------------------
(* Other sessions and the workers *)

OtherAnalyses(c) ==
    /\ cases[c].exists /\ "new_analysis" \in ControlsOf(c)
    /\ cases' = Analysed(c) /\ cases' # cases
    /\ tasks' = Touch(c, tasks)
    /\ UNCHANGED <<live, refVars, shown, bookmark, loads, finals, inbox>>

OtherDecides(c) ==
    /\ c \notin Independent /\ "decide" \in ControlsOf(c)
    /\ \E stage \in {"pending", "rejected"} : cases' = Decided(Ref(c, cases[c].analysis), stage)
    /\ tasks' = Touch(c, tasks)
    /\ UNCHANGED <<live, refVars, shown, bookmark, loads, finals, inbox>>

\* Alex submits the shown response and Finance approves it
SubmitProposal(c) ==
    /\ ApprovalPanelShown /\ shown.case = c
    /\ cases[c].analysis = shown.analysis /\ "decide" \in ControlsOf(c)
    /\ cases[c].cleared # shown.analysis
    /\ cases' = [cases EXCEPT ![c].cleared = shown.analysis]
    /\ tasks' = Touch(c, tasks)
    /\ UNCHANGED <<live, refVars, shown, bookmark, loads, finals, inbox>>

WorkerPlans(d) ==
    /\ Stage(d) = "pending"
    /\ \E stage \in {"planned", "failed"} :
          cases' = [cases EXCEPT ![d.case].stage[d.analysis] = stage]
    /\ tasks' = Touch(d.case, tasks)
    /\ UNCHANGED <<live, refVars, shown, bookmark, loads, finals, inbox>>

PlaybackCompletes(d) ==
    /\ Stage(d) = "playing"
    /\ cases' = [cases EXCEPT ![d.case].stage[d.analysis] = "played"]
    /\ UNCHANGED <<live, refVars, shown, bookmark, tasks, loads, finals, inbox>>

-----------------------------------------------------------------------------
(* Start-up, and leaving the page *)

\* The runtime status arrives; the bookmarked case is reopened at once
RuntimeAnswer(t) ==
    /\ t.op = "initializing"
    /\ IF Valid(t) /\ bookmark # NoCase /\ version < MaxOperations
       THEN /\ version' = version + 1 /\ active' = version + 1
            /\ tasks' = (tasks \ {t}) \union {NewTask("reopening", "case", bookmark, NoDecision)}
            /\ shown' = EmptyWorkspace /\ ClearEmail
       ELSE Finish(t) /\ UNCHANGED <<version, shown, emailVersion, loads>>
    /\ UNCHANGED <<serverVars, mounted, bookmark, finals, inbox>>

\* StrictMode runs the effect, its cleanup and the effect again
Remount ==
    /\ mounted /\ version = 1 /\ active = 1 /\ version + 2 <= MaxOperations
    /\ version' = version + 2 /\ active' = version + 2 /\ emailVersion' = emailVersion + 1
    /\ tasks' = tasks \union {[NewTask("initializing", "runtime", NoCase, NoDecision)
                                  EXCEPT !.token = version + 2]}
    /\ UNCHANGED <<serverVars, mounted, shown, bookmark, loads, finals, inbox>>

Unmount ==
    /\ mounted
    /\ mounted' = FALSE /\ active' = 0
    /\ version' = version + 1 /\ emailVersion' = emailVersion + 1
    /\ UNCHANGED <<serverVars, shown, bookmark, tasks, loads, finals, inbox>>

-----------------------------------------------------------------------------
(* Operations with one request *)

ListCases ==
    /\ shown.analysis = 0
    /\ Begin("listing", "get", NoCase, NoDecision)
    /\ UNCHANGED <<serverVars, emailVersion, shown, bookmark, loads, finals, inbox>>

RetryAction ==
    /\ shown.decision # NoDecision /\ shown.actions # NoDecision /\ shown.stage # "rejected"
    /\ Begin("retryAction", "post", shown.case, shown.decision)
    /\ UNCHANGED <<serverVars, emailVersion, shown, bookmark, loads, finals, inbox>>

\* The list is no part of the workspace; the action retried is one of those shown
PlainAnswer(t) ==
    /\ t.op \in {"listing", "retryAction"}
    /\ Finish(t)
    /\ UNCHANGED <<serverVars, mounted, version, emailVersion, shown, bookmark, loads,
                   finals, inbox>>

\* runSupplierEmailAction: save, review, send and check
EmailAction ==
    /\ shown.decision # NoDecision /\ shown.email # NoDecision
    /\ Begin("email", "post", shown.case, shown.decision)
    /\ UNCHANGED <<serverVars, emailVersion, shown, bookmark, loads, finals, inbox>>

EmailActionAnswer(t) ==
    /\ t.op = "email"
    /\ Finish(t)
    /\ shown' = IF Valid(t) THEN [shown EXCEPT !.email = t.decision] ELSE shown
    /\ UNCHANGED <<serverVars, mounted, version, emailVersion, bookmark, loads, finals, inbox>>

Create(c) ==
    /\ ~live /\ shown.case = NoCase /\ ~cases[c].exists
    /\ Begin("creating", "post", c, NoDecision)
    /\ UNCHANGED <<serverVars, emailVersion, shown, bookmark, loads, finals, inbox>>

CreateCommit(t) ==
    /\ t.op = "creating" /\ t.phase = "post"
    /\ cases' = [cases EXCEPT ![t.case].exists = TRUE]
    /\ GoOn(t, [t EXCEPT !.phase = "reply"])
    /\ UNCHANGED <<live, mounted, version, emailVersion, shown, bookmark, loads, finals, inbox>>

CreateReply(t) ==
    /\ t.op = "creating" /\ t.phase = "reply"
    /\ Finish(t)
    /\ IF Valid(t)
       THEN /\ shown' = [EmptyWorkspace EXCEPT !.case = t.case, !.controls = {"new_analysis"}]
            /\ bookmark' = t.case /\ ClearEmail
       ELSE UNCHANGED <<shown, bookmark, emailVersion, loads>>
    /\ UNCHANGED <<serverVars, mounted, version, finals, inbox>>

Analyze ==
    /\ "new_analysis" \in shown.controls
    /\ Begin("analyzing", "post", shown.case, NoDecision)
    /\ UNCHANGED <<serverVars, emailVersion, shown, bookmark, loads, finals, inbox>>

AnalyzeCommit(t) ==
    /\ t.op = "analyzing" /\ t.phase = "post"
    /\ cases' = Analysed(t.case)
    /\ tasks' = Touch(t.case, tasks \ {t})
                   \union {[t EXCEPT !.phase = "reply", !.analysis = cases'[t.case].analysis]}
    /\ UNCHANGED <<live, refVars, shown, bookmark, loads, finals, inbox>>

AnalyzeReply(t) ==
    /\ t.op = "analyzing" /\ t.phase = "reply"
    /\ Finish(t)
    /\ IF Valid(t)
       THEN /\ shown' = [EmptyWorkspace EXCEPT !.case = shown.case, !.analysis = t.analysis,
                                               !.controls = {"decide"}]
            /\ bookmark' = t.case /\ ClearEmail
       ELSE UNCHANGED <<shown, bookmark, emailVersion, loads>>
    /\ UNCHANGED <<serverVars, mounted, version, finals, inbox>>

-----------------------------------------------------------------------------
(* reopen: four reads, then the case once more *)

Reopen(c) ==
    /\ shown.analysis = 0 /\ inbox.phase \notin {"create", "analyze", "open"}
    /\ cases[c].exists
    /\ Begin("reopening", "case", c, NoDecision)
    /\ shown' = EmptyWorkspace /\ ClearEmail
    /\ UNCHANGED <<serverVars, bookmark, finals, inbox>>

ReopenCase(t) ==
    /\ t.op = "reopening" /\ t.phase = "case"
    /\ GoOn(t, [t EXCEPT !.phase = IF cases[t.case].analysis = 0 THEN "confirm" ELSE "analysis",
                         !.analysis = cases[t.case].analysis,
                         !.decision = CurrentDecision(t.case), !.changed = FALSE])
    /\ UNCHANGED <<serverVars, mounted, version, emailVersion, shown, bookmark, loads,
                   finals, inbox>>

\* Another analysis than the case named is an error (see Fail)
ReopenAnalysis(t) ==
    /\ t.op = "reopening" /\ t.phase = "analysis"
    /\ cases[t.case].analysis = t.analysis
    /\ GoOn(t, [t EXCEPT !.phase = IF t.decision = NoDecision THEN "confirm" ELSE "decision"])
    /\ UNCHANGED <<serverVars, mounted, version, emailVersion, shown, bookmark, loads,
                   finals, inbox>>

\* The decision of an earlier analysis is dropped
ReopenDecision(t) ==
    /\ t.op = "reopening" /\ t.phase = "decision"
    /\ IF t.decision.analysis # t.analysis
       THEN GoOn(t, [t EXCEPT !.phase = "confirm", !.decision = NoDecision])
       ELSE GoOn(t, [t EXCEPT !.phase = "related", !.stage = Stage(t.decision)])
    /\ UNCHANGED <<serverVars, mounted, version, emailVersion, shown, bookmark, loads,
                   finals, inbox>>

\* Actions, drafts, playback and observations
ReopenRelated(t) ==
    /\ t.op = "reopening" /\ t.phase = "related"
    /\ GoOn(t, [t EXCEPT !.phase = "confirm", !.polls = IF Stage(t.decision) \in {"playing", "played"}
                                                        THEN 1 ELSE 0])
    /\ UNCHANGED <<serverVars, mounted, version, emailVersion, shown, bookmark, loads,
                   finals, inbox>>

\* Mutant: nothing is read again.
ReopenConfirmed(t) == TRUE

\* The confirming read finds the row as the first read did
ReopenUnchanged(t) == ~t.changed

Reopened(t) ==
    [case |-> t.case, analysis |-> t.analysis, decision |-> t.decision, stage |-> t.stage,
     actions |-> IF t.stage \in Planned THEN t.decision ELSE NoDecision,
     playback |-> IF t.polls = 1 THEN t.decision ELSE NoDecision,
     email |-> NoDecision, controls |-> ControlsOf(t.case)]

ReopenConfirm(t) ==
    /\ t.op = "reopening" /\ t.phase = "confirm" /\ ReopenUnchanged(t)
    /\ Finish(t)
    /\ IF mounted /\ t.token = version
       THEN /\ shown' = Reopened(t) /\ bookmark' = t.case
            /\ IF t.stage \in Planned THEN LoadEmail(t.decision) ELSE UNCHANGED <<emailVersion, loads>>
       ELSE UNCHANGED <<shown, bookmark, emailVersion, loads>>
    /\ inbox' = IF inbox.phase = "open" /\ inbox.token = t.token
                THEN [inbox EXCEPT !.phase = "gone"] ELSE inbox
    /\ UNCHANGED <<serverVars, mounted, version, finals>>

\* Any request of an operation may fail; a failed reopening clears the page
Fail(t) ==
    /\ Finish(t)
    /\ IF t.op = "reopening" /\ mounted /\ t.token = version
       THEN shown' = EmptyWorkspace /\ ClearEmail
       ELSE UNCHANGED <<shown, emailVersion, loads>>
    /\ inbox' = IF inbox.phase = "open" /\ inbox.token = t.token
                THEN [inbox EXCEPT !.phase = "gone"] ELSE inbox
    /\ UNCHANGED <<serverVars, mounted, version, bookmark, finals>>

-----------------------------------------------------------------------------
(* Deciding, planning and playback *)

Decide(kind) ==
    /\ shown.case \notin Independent /\ "decide" \in shown.controls
    /\ shown.analysis # 0 /\ shown.decision = NoDecision
    /\ Begin(kind, "post", shown.case, Ref(shown.case, shown.analysis))
    /\ UNCHANGED <<serverVars, emailVersion, shown, bookmark, loads, finals, inbox>>

\* The key names case, analysis and kind, so a repetition gets the same decision
DecideCommit(t) ==
    /\ t.op \in {"approve", "reject"} /\ t.phase = "post"
    /\ cases[t.case].analysis = t.decision.analysis
    /\ LET stage == IF t.op = "approve" THEN "pending" ELSE "rejected"
       IN  \/ /\ Stage(t.decision) = "none"
              /\ cases' = Decided(t.decision, stage)
              /\ tasks' = Touch(t.case, tasks \ {t})
                             \union {[t EXCEPT !.phase = "reply", !.stage = stage]}
           \/ /\ Stage(t.decision) # "none"
              /\ (Stage(t.decision) = "rejected") = (t.op = "reject")
              /\ tasks' = (tasks \ {t}) \union {[t EXCEPT !.phase = "reply",
                                                          !.stage = Stage(t.decision)]}
              /\ UNCHANGED cases
    /\ UNCHANGED <<live, refVars, shown, bookmark, loads, finals, inbox>>

RetryPlanning ==
    /\ shown.decision # NoDecision /\ "retry_action_planning" \in shown.controls
    /\ Begin("retryPlanning", "post", shown.case, shown.decision)
    /\ UNCHANGED <<serverVars, emailVersion, shown, bookmark, loads, finals, inbox>>

RetryPlanningCommit(t) ==
    /\ t.op = "retryPlanning" /\ t.phase = "post" /\ Stage(t.decision) = "failed"
    /\ cases' = [cases EXCEPT ![t.decision.case].stage[t.decision.analysis] = "pending"]
    /\ tasks' = Touch(t.decision.case, tasks \ {t})
                   \union {[t EXCEPT !.phase = "reply", !.stage = "pending"]}
    /\ UNCHANGED <<live, refVars, shown, bookmark, loads, finals, inbox>>

StartPlayback ==
    /\ shown.decision # NoDecision /\ shown.stage \in Planned
    /\ "start_playback" \in shown.controls
    /\ shown.playback = NoDecision /\ shown.actions # NoDecision
    /\ Begin("playback", "post", shown.case, shown.decision)
    /\ UNCHANGED <<serverVars, emailVersion, shown, bookmark, loads, finals, inbox>>

\* A playback that was started before is returned
StartPlaybackCommit(t) ==
    /\ t.op = "playback" /\ t.phase = "post" /\ Stage(t.decision) \in Planned
    /\ cases' = IF Stage(t.decision) = "planned"
                THEN [cases EXCEPT ![t.decision.case].stage[t.decision.analysis] = "playing"]
                ELSE cases
    /\ GoOn(t, [t EXCEPT !.phase = "reply",
                         !.stage = cases'[t.decision.case].stage[t.decision.analysis]])
    /\ UNCHANGED <<live, mounted, version, emailVersion, shown, bookmark, loads, finals, inbox>>

\* The recorded decision, the retried decision or the started playback arrives
Reply(t) ==
    /\ t.op \in {"approve", "reject", "retryPlanning", "playback"} /\ t.phase = "reply"
    /\ IF ~Valid(t) THEN Finish(t) /\ UNCHANGED shown
       ELSE CASE t.op = "reject" ->
                   /\ Finish(t)
                   /\ shown' = [shown EXCEPT !.decision = t.decision, !.stage = "rejected",
                                    !.controls = (@ \ {"decide"}) \union {"new_analysis"}]
              [] t.op = "playback" ->
                   /\ GoOn(t, [t EXCEPT !.phase = "poll"])
                   /\ shown' = [shown EXCEPT !.playback = t.decision]
              [] OTHER ->
                   /\ GoOn(t, [t EXCEPT !.phase = "poll"])
                   /\ shown' = [shown EXCEPT !.decision = t.decision, !.stage = t.stage]
    /\ UNCHANGED <<serverVars, mounted, version, emailVersion, bookmark, loads, finals, inbox>>

Awaited(t) == IF t.op = "playback" THEN {"playing"} ELSE {"pending"}

\* Mutant: the loop has no limit.
PollForever(t) ==
    /\ t.phase = "poll" /\ t.stage \in Awaited(t)
    /\ IF ~Valid(t) THEN Finish(t) ELSE GoOn(t, [t EXCEPT !.stage = Stage(t.decision)])
    /\ UNCHANGED <<serverVars, mounted, version, emailVersion, shown, bookmark, loads,
                   finals, inbox>>

\* pollWhile: one delay and one read; it ends when the operation does
Poll(t) ==
    /\ t.phase = "poll" /\ t.stage \in Awaited(t) /\ t.polls < MaxPolls
    /\ IF ~Valid(t) THEN Finish(t)
       ELSE GoOn(t, [t EXCEPT !.stage = Stage(t.decision), !.polls = @ + 1])
    /\ UNCHANGED <<serverVars, mounted, version, emailVersion, shown, bookmark, loads,
                   finals, inbox>>

\* The last attempt still found it pending
PollTimesOut(t) ==
    /\ t.phase = "poll" /\ t.stage \in Awaited(t) /\ t.polls = MaxPolls
    /\ Fail(t)

\* The controls once planning is over; a page without a case has none
PlanningControls(t, controls) ==
    {x \in (controls \ ({"retry_action_planning", "start_playback"}
                           \union {y \in {"decide"} : t.op # "retryPlanning"}))
              \union {y \in {"retry_action_planning"} : t.stage = "failed"}
              \union {y \in {"start_playback"} : t.stage \in Planned} :
        shown.case # NoCase}

\* What is polled for has happened; a retry renews the controls only after
\* it has loaded the actions
Polled(t) ==
    /\ t.phase = "poll" /\ t.stage \notin Awaited(t)
    /\ IF ~Valid(t)
       THEN Finish(t) /\ UNCHANGED <<shown, emailVersion, loads>>
       ELSE IF t.op = "playback"
       THEN /\ GoOn(t, [t EXCEPT !.phase = "execution"])
            /\ UNCHANGED <<shown, emailVersion, loads>>
       ELSE /\ shown' = [shown EXCEPT !.decision = t.decision, !.stage = t.stage,
                !.email = IF t.stage \in Planned THEN NoDecision ELSE @,
                !.controls = IF t.op = "retryPlanning" /\ t.stage \in Planned THEN @
                             ELSE PlanningControls(t, @)]
            /\ IF t.stage \in Planned
               THEN GoOn(t, [t EXCEPT !.phase = "execution"]) /\ ClearEmail
               ELSE Finish(t) /\ UNCHANGED <<emailVersion, loads>>
    /\ UNCHANGED <<serverVars, mounted, version, bookmark, finals, inbox>>

\* loadExecution, and the results of a completed playback
LoadExecution(t) ==
    /\ t.phase = "execution"
    /\ Finish(t)
    /\ IF Valid(t)
       THEN /\ shown' = [shown EXCEPT !.actions = t.decision,
                                      !.email = IF t.op = "playback" THEN @ ELSE NoDecision,
                !.controls = IF t.op = "retryPlanning" THEN PlanningControls(t, @) ELSE @]
            /\ IF t.op = "playback" THEN UNCHANGED <<emailVersion, loads>>
               ELSE LoadEmail(t.decision)
       ELSE UNCHANGED <<shown, emailVersion, loads>>
    /\ UNCHANGED <<serverVars, mounted, version, bookmark, finals, inbox>>

\* Mutant: the last e-mail to arrive is shown.
EmailCurrentAlways(l) == mounted

EmailCurrent(l) == mounted /\ l.version = emailVersion

EmailAnswer(l) ==
    /\ loads' = loads \ {l}
    /\ \/ shown' = IF EmailCurrent(l) THEN [shown EXCEPT !.email = l.decision] ELSE shown
       \/ UNCHANGED shown       \* it failed
    /\ UNCHANGED <<serverVars, refVars, bookmark, tasks, finals, inbox>>

-----------------------------------------------------------------------------
(* IndependentApprovalPanel: finalize *)

Finalize ==
    /\ ApprovalPanelShown /\ shown.decision = NoDecision
    /\ \A f \in finals : f.case # shown.case
    /\ finals' = finals \union {[case |-> shown.case, analysis |-> shown.analysis,
                                 phase |-> "post"]}
    /\ UNCHANGED <<serverVars, refVars, shown, bookmark, tasks, loads, inbox>>

FinalizeCommit(f) ==
    /\ f.phase = "post"
    /\ cases[f.case].analysis = f.analysis /\ cases[f.case].cleared = f.analysis
    /\ Stage(Ref(f.case, f.analysis)) = "none"
    /\ cases' = Decided(Ref(f.case, f.analysis), "pending")
    /\ tasks' = Touch(f.case, tasks)
    /\ finals' = (finals \ {f}) \union {[f EXCEPT !.phase = "refresh"]}
    /\ UNCHANGED <<live, refVars, shown, bookmark, loads, inbox>>

\* The proposal is read again and the receipt compared with it (matchesReceipt)
FinalizeRefresh(f) ==
    /\ f.phase = "refresh"
    /\ cases[f.case].analysis = f.analysis
    /\ finals' = (finals \ {f}) \union {[f EXCEPT !.phase = "receipt"]}
    /\ UNCHANGED <<serverVars, refVars, shown, bookmark, tasks, loads, inbox>>

\* A refused or lost request, a receipt that does not match, a newer refresh
FinalizeEnds(f) ==
    /\ finals' = finals \ {f}
    /\ UNCHANGED <<serverVars, refVars, shown, bookmark, tasks, loads, inbox>>

\* acceptFinalDecision as finalize's closure holds it: the case and analysis
\* it compares are those displayed when the button was pressed
AcceptFinalDecision(f) ==
    LET d == Ref(f.case, f.analysis)
    IN  /\ f.phase = "receipt" /\ mounted
        /\ finals' = finals \ {f}
        /\ shown' = [shown EXCEPT !.decision = d, !.stage = "pending"]
        /\ IF CanBegin
           THEN /\ version' = version + 1 /\ active' = version + 1
                /\ tasks' = tasks \union {[NewTask("planning", "poll", f.case, d)
                                              EXCEPT !.stage = "pending"]}
           ELSE UNCHANGED <<version, active, tasks>>
        /\ UNCHANGED <<serverVars, mounted, emailVersion, bookmark, loads, inbox>>

-----------------------------------------------------------------------------
(* InboxCheck: create the case of an e-mail, analyse it, reopen it *)

InboxCreate(c) ==
    /\ live /\ mounted /\ inbox.phase = "ready" /\ active = 0
    /\ inbox' = [phase |-> "create", case |-> c, token |-> 0]
    /\ UNCHANGED <<serverVars, refVars, shown, bookmark, tasks, loads, finals>>

InboxCreated ==
    /\ inbox.phase = "create"
    /\ cases' = [cases EXCEPT ![inbox.case].exists = TRUE]
    /\ inbox' = [inbox EXCEPT !.phase = IF cases[inbox.case].analysis = 0 THEN "analyze"
                                        ELSE "analyzed"]
    /\ UNCHANGED <<live, refVars, shown, bookmark, tasks, loads, finals>>

InboxAnalyzed ==
    /\ inbox.phase = "analyze"
    /\ cases' = Analysed(inbox.case)
    /\ tasks' = Touch(inbox.case, tasks)
    /\ inbox' = [inbox EXCEPT !.phase = "analyzed"]
    /\ UNCHANGED <<live, refVars, shown, bookmark, loads, finals>>

InboxFails ==
    /\ inbox.phase \in {"create", "analyze"}
    /\ inbox' = [inbox EXCEPT !.phase = "ready"]
    /\ UNCHANGED <<serverVars, refVars, shown, bookmark, tasks, loads, finals>>

\* onCaseCreated is reopen, which does nothing when another operation runs
InboxOpens ==
    /\ inbox.phase = "analyzed" /\ mounted
    /\ IF CanBegin
       THEN /\ version' = version + 1 /\ active' = version + 1
            /\ tasks' = tasks \union {NewTask("reopening", "case", inbox.case, NoDecision)}
            /\ inbox' = [inbox EXCEPT !.phase = "open", !.token = version + 1]
            /\ shown' = EmptyWorkspace /\ ClearEmail
       ELSE /\ inbox' = [inbox EXCEPT !.phase = "gone"]
            /\ UNCHANGED <<version, active, tasks, shown, emailVersion, loads>>
    /\ UNCHANGED <<serverVars, mounted, bookmark, finals>>

-----------------------------------------------------------------------------

Init ==
    /\ live \in BOOLEAN
    /\ \E present \in SUBSET Cases :
          cases = [c \in Cases |-> [exists |-> c \in present, analysis |-> 0, decided |-> 0,
                                    stage |-> [a \in Analyses |-> "none"], cleared |-> 0]]
    /\ mounted = TRUE /\ active = 1 /\ version = 1 /\ emailVersion = 0
    /\ shown = EmptyWorkspace
    /\ bookmark \in {c \in Cases : cases[c].exists} \union {NoCase}
    /\ tasks = {[token |-> 1, op |-> "initializing", phase |-> "runtime", case |-> NoCase,
                 analysis |-> 0, decision |-> NoDecision, stage |-> "none",
                 changed |-> FALSE, polls |-> 0]}
    /\ loads = {} /\ finals = {}
    /\ inbox = [phase |-> "ready", case |-> NoCase, token |-> 0]

\* The next step of an operation in flight
Advance(t) ==
    \/ RuntimeAnswer(t) \/ PlainAnswer(t) \/ EmailActionAnswer(t)
    \/ CreateCommit(t) \/ CreateReply(t) \/ AnalyzeCommit(t) \/ AnalyzeReply(t)
    \/ ReopenCase(t) \/ ReopenAnalysis(t) \/ ReopenDecision(t) \/ ReopenRelated(t)
    \/ ReopenConfirm(t)
    \/ DecideCommit(t) \/ RetryPlanningCommit(t) \/ StartPlaybackCommit(t) \/ Reply(t)
    \/ Poll(t) \/ PollTimesOut(t) \/ Polled(t) \/ LoadExecution(t)

Click ==
    \/ ListCases \/ RetryAction \/ EmailAction \/ Analyze \/ RetryPlanning \/ StartPlayback
    \/ \E c \in Cases : Create(c) \/ Reopen(c) \/ InboxCreate(c) \/ SubmitProposal(c)
    \/ \E kind \in {"approve", "reject"} : Decide(kind)
    \/ Finalize

Next ==
    \/ \E c \in Cases : OtherAnalyses(c) \/ OtherDecides(c)
    \/ \E d \in Decisions : WorkerPlans(d) \/ PlaybackCompletes(d)
    \/ Remount \/ Unmount \/ Click
    \/ \E t \in tasks : Advance(t) \/ Fail(t)
    \/ \E l \in loads : EmailAnswer(l)
    \/ \E f \in finals : \/ FinalizeCommit(f) \/ FinalizeRefresh(f) \/ FinalizeEnds(f)
                         \/ AcceptFinalDecision(f)
    \/ InboxCreated \/ InboxAnalyzed \/ InboxFails \/ InboxOpens

Spec == Init /\ [][Next]_vars

\* Every request of an operation is answered or fails in the end, and the
\* browser runs its timers; that a polling read fails is not relied upon.
FairSpec == Spec /\ WF_vars(\E t \in tasks : Advance(t) \/ (t.phase # "poll" /\ Fail(t)))

-----------------------------------------------------------------------------
(* Properties *)

\* Decision, actions, playback and e-mail on the page are those of the case
\* and analysis on the page.
Coherent ==
    /\ shown.decision # NoDecision => shown.decision = Ref(shown.case, shown.analysis)
    /\ \A part \in {shown.actions, shown.playback, shown.email} \ {NoDecision} :
          part = shown.decision

\* What the page would still take from its requests in flight is about what
\* it shows.
InFlightMatches ==
    /\ \A t \in tasks : Valid(t) /\ t.op # "reopening" /\ t.decision # NoDecision =>
          t.decision = Ref(shown.case, shown.analysis)
    /\ \A l \in loads : mounted /\ l.version = emailVersion => l.decision = shown.decision

PageSound == Coherent /\ InFlightMatches

LateFinalDecision ==
    \E f \in finals : AcceptFinalDecision(f) /\ (f.case # shown.case \/ f.analysis # shown.analysis)

\* No answer, however late and to whatever request, mixes the records of two
\* cases or analyses on the page, or leaves a request in flight that could;
\* only a final approval may, because the closure that accepts it compares it
\* with what was shown when it began.
AnswersKeepCoherence ==
    PageSound /\ [][PageSound /\ ~LateFinalDecision => PageSound']_vars

\* What a reopening puts on the page is what the server holds at that moment,
\* although it was read in four requests.
ReopenShowsOneInstant ==
    [][\A t \in tasks : ReopenConfirm(t) /\ shown' # shown =>
          /\ shown'.analysis = cases[t.case].analysis
          /\ shown'.decision = IF cases[t.case].decided # 0
                                  /\ cases[t.case].decided = cases[t.case].analysis
                               THEN CurrentDecision(t.case) ELSE NoDecision
          /\ shown'.decision # NoDecision =>
                (Stage(shown'.decision) \in Planned) = (shown'.stage \in Planned)]_vars

\* The page never keeps its controls locked: an operation ends, although the
\* planning it waits for may never be done.
OperationEnds == \A k \in 1 .. MaxOperations : active = k ~> active # k

=============================================================================
