------------------------ MODULE ActionPlaybackProofs ------------------------
(* The execution records stay consistent for any number of runtimes, actions *)
(* and retries.                                                              *)
EXTENDS ActionPlayback, TLAPS

USE StepsAssumption, FailuresAssumption

\* A status log is never empty: it starts with the planned action.
LogsStarted == \A a \in Steps : events[a] # <<>>

\* Whoever is about to complete the draft action has come by its content.
DraftsFilled ==
    \A r \in Runners : run[r].pc \in {"complete", "completing"} /\ run[r].step = DraftStep
                          => draft

PlaybackInvariant ==
    /\ TypeOK /\ LogsStarted /\ DraftsFilled
    /\ LogExplainsStatus /\ OneOpenAttempt /\ DraftBeforeCompletion /\ ObservedOnceAtEnd

\* ALLOWED_TRANSITIONS stays among the statuses; a completed action is final.
LEMMA AllowedFacts ==
    /\ \A s \in ExecutionStatus : Allowed(s) \subseteq ExecutionStatus
    /\ Allowed("completed") = {} /\ Allowed("cancelled") = {}
    /\ \A s \in ExecutionStatus : "in_progress" \in Allowed(s) => s # "in_progress"
    /\ \A s \in ExecutionStatus : "completed" \in Allowed(s) => s = "in_progress"
  BY DEF Allowed, ExecutionStatus

\* An appended event continues the log and becomes the status; no completed
\* action changes.
LEMMA RecordKeepsLog ==
    ASSUME PlaybackInvariant, NEW a \in Steps, NEW from \in ExecutionStatus,
           NEW to \in ExecutionStatus, Record(a, from, to)
    PROVE  /\ action[a] = from /\ from # "completed" /\ to \in Allowed(from)
           /\ action' = [action EXCEPT ![a] = to]
           /\ action' \in [Steps -> ExecutionStatus]
           /\ events' \in [Steps -> Seq(ExecutionStatus)]
           /\ LogsStarted' /\ LogExplainsStatus'
           /\ \A b \in Steps : action[b] = "completed" => action'[b] = "completed"
<1>1. /\ action \in [Steps -> ExecutionStatus] /\ events \in [Steps -> Seq(ExecutionStatus)]
      /\ events[a] # <<>>
  BY DEF PlaybackInvariant, TypeOK, LogsStarted
<1>2. /\ events' = [events EXCEPT ![a] = Append(events[a], to)]
      /\ action' = [action EXCEPT ![a] = to]
      /\ Last(events[a]) = from /\ to \in Allowed(from)
  BY DEF Record, EventAllowed
<1>3. action[a] = from /\ from # "completed"
  BY <1>2, AllowedFacts DEF PlaybackInvariant, LogExplainsStatus
<1>4. /\ events' \in [Steps -> Seq(ExecutionStatus)]
      /\ \A b \in Steps : b # a => events'[b] = events[b]
      /\ events'[a] = Append(events[a], to)
      /\ Len(events'[a]) = Len(events[a]) + 1 /\ Len(events[a]) \in Nat
      /\ events'[a][Len(events[a]) + 1] = to
      /\ \A i \in 1..Len(events[a]) : events'[a][i] = events[a][i]
  BY <1>1, <1>2
<1>5. Len(events[a]) >= 1
  BY <1>1
<1>6. LogsStarted'
  BY <1>4, <1>5 DEF LogsStarted, PlaybackInvariant
<1>7. \A i \in 1..Len(events'[a]) - 1 : events'[a][i + 1] \in Allowed(events'[a][i])
  <2> SUFFICES ASSUME NEW i \in 1..Len(events'[a]) - 1
               PROVE  events'[a][i + 1] \in Allowed(events'[a][i])
    OBVIOUS
  <2>1. i \in 1..Len(events[a])
    BY <1>4
  <2>2. CASE i = Len(events[a])
    BY <1>2, <1>4, <2>1, <2>2 DEF Last
  <2>3. CASE i # Len(events[a])
    <3>1. i \in 1..Len(events[a]) - 1 /\ i + 1 \in 1..Len(events[a])
      BY <1>4, <2>1, <2>3
    <3>2. events[a][i + 1] \in Allowed(events[a][i])
      BY <3>1 DEF PlaybackInvariant, LogExplainsStatus
    <3> QED BY <1>4, <2>1, <3>1, <3>2
  <2> QED BY <2>2, <2>3
<1>8. LogExplainsStatus'
  <2>1. action'[a] = to /\ \A b \in Steps : b # a => action'[b] = action[b]
    BY <1>1, <1>2
  <2>2. Last(events'[a]) = to
    BY <1>4 DEF Last
  <2> QED BY <1>4, <1>7, <2>1, <2>2 DEF LogExplainsStatus, PlaybackInvariant, Last
<1> QED BY <1>1, <1>2, <1>3, <1>4, <1>6, <1>8

\* A new attempt is opened only where none is open.
LEMMA BeginKeepsAttempts ==
    ASSUME PlaybackInvariant, NEW a \in Steps, NEW from \in ExecutionStatus,
           BeginAttempt(a, from)
    PROVE  /\ Record(a, from, "in_progress")
           /\ attempts' \in [Steps -> Seq(ExecutionStatus)] /\ OneOpenAttempt'
<1>1. Record(a, from, "in_progress") /\ attempts' = [attempts EXCEPT ![a] = Append(@, "in_progress")]
  BY DEF BeginAttempt
<1>2. "in_progress" \in ExecutionStatus
  BY DEF ExecutionStatus
<1>3. action[a] # "in_progress" /\ action' = [action EXCEPT ![a] = "in_progress"]
  BY <1>1, <1>2, RecordKeepsLog, AllowedFacts
<1>4. action \in [Steps -> ExecutionStatus] /\ attempts \in [Steps -> Seq(ExecutionStatus)]
  BY DEF PlaybackInvariant, TypeOK
<1>5. /\ attempts' \in [Steps -> Seq(ExecutionStatus)]
      /\ \A b \in Steps : b # a => attempts'[b] = attempts[b] /\ action'[b] = action[b]
      /\ Len(attempts[a]) \in Nat /\ Len(attempts'[a]) = Len(attempts[a]) + 1
      /\ DOMAIN attempts'[a] = 1..Len(attempts[a]) + 1
      /\ attempts'[a][Len(attempts[a]) + 1] = "in_progress"
      /\ \A n \in 1..Len(attempts[a]) : n \in DOMAIN attempts[a] /\ attempts'[a][n] = attempts[a][n]
      /\ action'[a] = "in_progress"
  BY <1>1, <1>2, <1>3, <1>4
<1>6. \A n \in 1..Len(attempts[a]) : attempts'[a][n] # "in_progress" /\ n # Len(attempts[a]) + 1
  BY <1>3, <1>5 DEF PlaybackInvariant, OneOpenAttempt
<1>7. \A n \in DOMAIN attempts'[a] :
         attempts'[a][n] = "in_progress" <=>
            action'[a] = "in_progress" /\ n = Len(attempts'[a])
  BY <1>5, <1>6
<1> QED BY <1>1, <1>5, <1>7 DEF PlaybackInvariant, OneOpenAttempt

\* The attempt that is closed is the newest, and the action leaves progress
\* with it.
LEMMA FinishKeepsAttempts ==
    ASSUME PlaybackInvariant, NEW a \in Steps, NEW n,
           NEW to \in {"completed", "failed", "cancelled"}, FinishAttempt(a, n, to)
    PROVE  /\ Record(a, "in_progress", to)
           /\ attempts' \in [Steps -> Seq(ExecutionStatus)] /\ OneOpenAttempt'
<1>1. /\ Record(a, "in_progress", to) /\ attempts' = [attempts EXCEPT ![a][n] = to]
      /\ n \in DOMAIN attempts[a] /\ attempts[a][n] = "in_progress"
  BY DEF FinishAttempt, OpenAttempt
<1>2. "in_progress" \in ExecutionStatus /\ to \in ExecutionStatus /\ to # "in_progress"
  BY DEF ExecutionStatus
<1>3. action' = [action EXCEPT ![a] = to]
  BY <1>1, <1>2, RecordKeepsLog
<1>4. action \in [Steps -> ExecutionStatus] /\ attempts \in [Steps -> Seq(ExecutionStatus)]
  BY DEF PlaybackInvariant, TypeOK
<1>5. n = Len(attempts[a])
  BY <1>1 DEF PlaybackInvariant, OneOpenAttempt
<1>6. /\ attempts' \in [Steps -> Seq(ExecutionStatus)]
      /\ \A b \in Steps : b # a => attempts'[b] = attempts[b] /\ action'[b] = action[b]
      /\ Len(attempts'[a]) = Len(attempts[a]) /\ DOMAIN attempts'[a] = DOMAIN attempts[a]
      /\ attempts'[a][n] = to
      /\ \A m \in DOMAIN attempts[a] : m # n => attempts'[a][m] = attempts[a][m]
      /\ action'[a] = to
  BY <1>1, <1>2, <1>3, <1>4
<1>7. \A m \in DOMAIN attempts'[a] : attempts'[a][m] # "in_progress"
  BY <1>2, <1>5, <1>6 DEF PlaybackInvariant, OneOpenAttempt
<1> QED BY <1>1, <1>2, <1>6, <1>7 DEF PlaybackInvariant, OneOpenAttempt

\* What an action's commit leaves to be shown once its log and its attempts
\* are known to be right.
LEMMA CommitKeepsInvariant ==
    ASSUME PlaybackInvariant, NEW a \in Steps, NEW from \in ExecutionStatus,
           NEW to \in ExecutionStatus, Record(a, from, to),
           attempts' \in [Steps -> Seq(ExecutionStatus)], OneOpenAttempt',
           to = "completed" /\ a = DraftStep => draft,
           UNCHANGED <<current, draft, playback, observed, failures>>,
           run' \in [Runners -> Run], polling' \in SUBSET Runners, DraftsFilled'
    PROVE  PlaybackInvariant'
<1>1. /\ action' = [action EXCEPT ![a] = to] /\ action' \in [Steps -> ExecutionStatus]
      /\ events' \in [Steps -> Seq(ExecutionStatus)] /\ LogsStarted' /\ LogExplainsStatus'
      /\ \A b \in Steps : action[b] = "completed" => action'[b] = "completed"
  BY RecordKeepsLog
<1>2. TypeOK'
  BY <1>1 DEF PlaybackInvariant, TypeOK
<1>3. DraftBeforeCompletion'
  <2>1. CASE a = DraftStep
    BY <1>1, <2>1 DEF DraftBeforeCompletion, PlaybackInvariant, TypeOK
  <2>2. CASE a # DraftStep
    BY <1>1, <2>2 DEF DraftBeforeCompletion, PlaybackInvariant, TypeOK, Steps
  <2> QED BY <2>1, <2>2
<1>4. ObservedOnceAtEnd'
  BY <1>1 DEF ObservedOnceAtEnd, PlaybackInvariant
<1> QED BY <1>1, <1>2, <1>3, <1>4 DEF PlaybackInvariant

\* A step of a task that commits nothing.
LEMMA TaskKeepsInvariant ==
    ASSUME PlaybackInvariant, UNCHANGED caseVars, run' \in [Runners -> Run],
           failures' \in [Runners -> 0..MaxFailures], polling' \in SUBSET Runners, DraftsFilled'
    PROVE  PlaybackInvariant'
  BY DEF PlaybackInvariant, caseVars, TypeOK, LogsStarted, LogExplainsStatus, OneOpenAttempt,
         DraftBeforeCompletion, ObservedOnceAtEnd

\* A task that goes to a place where no draft is at stake.
LEMMA GoToTyped ==
    ASSUME PlaybackInvariant, NEW r \in Runners,
           NEW pc \in {"idle", "look", "start", "starting", "fill", "complete",
                       "completing", "record", "give_up"}, GoTo(r, pc)
    PROVE  /\ run' \in [Runners -> Run]
           /\ run'[r].pc = pc /\ run'[r].step = run[r].step
           /\ \A q \in Runners : q # r => run'[q] = run[q]
  BY DEF PlaybackInvariant, TypeOK, GoTo, Run

\* A task that ends, or has only its failure left to record.
LEMMA LeaveTyped ==
    ASSUME PlaybackInvariant, NEW r \in Runners, NEW pc \in {"idle", "give_up"}, Leave(r, pc)
    PROVE  /\ run' \in [Runners -> Run]
           /\ run'[r].pc = pc /\ run'[r].step = 1
           /\ \A q \in Runners : q # r => run'[q] = run[q]
           /\ draft' = draft => DraftsFilled'
<1>1. run \in [Runners -> Run] /\ DraftsFilled
  BY DEF PlaybackInvariant, TypeOK
<1>2. run' = [run EXCEPT ![r] = [pc |-> pc, step |-> 1, attempt |-> 0]]
  <2>1. [Idle EXCEPT !.pc = pc] = [pc |-> pc, step |-> 1, attempt |-> 0]
    BY DEF Idle
  <2> QED BY <2>1 DEF Leave
<1>3. [pc |-> pc, step |-> 1, attempt |-> 0] \in Run
  BY DEF Run, Steps
<1> QED BY <1>1, <1>2, <1>3 DEF DraftsFilled

LEMMA GoToKeepsDrafts ==
    ASSUME PlaybackInvariant, NEW r \in Runners,
           NEW pc \in {"idle", "look", "start", "starting", "fill", "record", "give_up"},
           GoTo(r, pc), draft' = draft
    PROVE  DraftsFilled'
  BY GoToTyped DEF DraftsFilled, PlaybackInvariant

\* The task moves to a step: the next one, or the same.
LEMMA MoveOnTyped ==
    ASSUME run \in [Runners -> Run], NEW r \in Runners, NEW b \in Steps,
           NEW pc \in {"record", "look"}, run' = [run EXCEPT ![r].step = b, ![r].pc = pc]
    PROVE  run' \in [Runners -> Run]
<1>1. run[r] \in Run
  OBVIOUS
<1>2. [run[r] EXCEPT !.step = b, !.pc = pc] \in Run
  BY <1>1 DEF Run
<1>3. run' = [run EXCEPT ![r] = [run[r] EXCEPT !.step = b, !.pc = pc]]
  OBVIOUS
<1> QED BY <1>2, <1>3

LEMMA OutsideKeepsInvariant ==
    ASSUME PlaybackInvariant, polling' \in SUBSET Runners,
           \/ StartPlayback \/ ReplaceApproval
           \/ \E a \in Steps : FailAction(a) \/ RetryAction(a) \/ CancelAction(a)
    PROVE  PlaybackInvariant'
<1> USE DEF ExecutionStatus
<1>1. CASE StartPlayback
  BY <1>1 DEF StartPlayback, PlaybackInvariant, TypeOK, LogsStarted, LogExplainsStatus,
              OneOpenAttempt, DraftBeforeCompletion, ObservedOnceAtEnd, DraftsFilled
<1>2. CASE ReplaceApproval
  BY <1>2 DEF ReplaceApproval, PlaybackInvariant, TypeOK, LogsStarted, LogExplainsStatus,
              OneOpenAttempt, DraftBeforeCompletion, ObservedOnceAtEnd, DraftsFilled
<1>3. ASSUME NEW a \in Steps, FailAction(a) \/ RetryAction(a) \/ CancelAction(a)
      PROVE  PlaybackInvariant'
  <2>1. /\ run' \in [Runners -> Run] /\ DraftsFilled'
        /\ UNCHANGED <<current, draft, playback, observed, failures>>
    BY <1>3 DEF FailAction, RetryAction, CancelAction, PlaybackInvariant, TypeOK, DraftsFilled
  <2>2. CASE FailAction(a)
    <3>1. FinishAttempt(a, Len(attempts[a]), "failed")
      BY <2>2 DEF FailAction
    <3> QED BY <2>1, <3>1, FinishKeepsAttempts, CommitKeepsInvariant
  <2>3. CASE RetryAction(a)
    <3>1. BeginAttempt(a, "failed")
      BY <2>3 DEF RetryAction
    <3> QED BY <2>1, <3>1, BeginKeepsAttempts, CommitKeepsInvariant
  <2>4. CASE CancelAction(a) /\ action[a] = "in_progress"
    <3>1. FinishAttempt(a, Len(attempts[a]), "cancelled")
      BY <2>4 DEF CancelAction
    <3> QED BY <2>1, <3>1, FinishKeepsAttempts, CommitKeepsInvariant
  <2>5. CASE CancelAction(a) /\ action[a] # "in_progress"
    <3>1. Record(a, action[a], "cancelled") /\ attempts' = attempts
      BY <2>5 DEF CancelAction
    <3>2. action[a] \in ExecutionStatus /\ action \in [Steps -> ExecutionStatus]
      BY DEF PlaybackInvariant, TypeOK
    <3>3. action' = [action EXCEPT ![a] = "cancelled"]
      BY <3>1, <3>2, RecordKeepsLog
    <3>4. attempts' \in [Steps -> Seq(ExecutionStatus)] /\ OneOpenAttempt'
      BY <2>5, <3>1, <3>2, <3>3 DEF PlaybackInvariant, TypeOK, OneOpenAttempt
    <3> QED BY <2>1, <3>1, <3>2, <3>4, CommitKeepsInvariant
  <2> QED BY <1>3, <2>2, <2>3, <2>4, <2>5
<1> QED BY <1>1, <1>2, <1>3

LEMMA RunnerKeepsInvariant ==
    ASSUME PlaybackInvariant, polling' \in SUBSET Runners, NEW r \in Runners,
           TaskStep(r) \/ GiveUpFails(r) \/ LoopEnds(r) \/ Restart(r)
    PROVE  PlaybackInvariant'
<1> DEFINE a == run[r].step
<1>0. /\ a \in Steps /\ run \in [Runners -> Run] /\ failures \in [Runners -> 0..MaxFailures]
      /\ action \in [Steps -> ExecutionStatus] /\ DraftsFilled
      /\ IF a = LastStep THEN a \in Steps ELSE a + 1 \in Steps
  <2>1. /\ run \in [Runners -> Run] /\ failures \in [Runners -> 0..MaxFailures]
        /\ action \in [Steps -> ExecutionStatus] /\ DraftsFilled
    BY DEF PlaybackInvariant, TypeOK
  <2>2. a \in Steps
    BY <2>1 DEF Run
  <2>3. IF a = LastStep THEN a \in Steps ELSE a + 1 \in Steps
    BY <2>2 DEF Steps
  <2> QED BY <2>1, <2>2, <2>3
<1>1. CASE Pick(r)
  <2>1. run' = [run EXCEPT ![r] = [pc |-> "look", step |-> 1, attempt |-> 0]]
    <3>1. [Idle EXCEPT !.pc = "look"] = [pc |-> "look", step |-> 1, attempt |-> 0]
      BY DEF Idle
    <3> QED BY <1>1, <3>1 DEF Pick
  <2>2. run' \in [Runners -> Run]
    BY <1>0, <2>1 DEF Run, Steps
  <2>3. DraftsFilled'
    BY <1>0, <1>1, <2>1 DEF DraftsFilled, Pick, caseVars
  <2> QED BY <1>0, <1>1, <2>2, <2>3, TaskKeepsInvariant DEF Pick
<1>2. CASE Look(r)
  <2>1. UNCHANGED caseVars /\ failures' = failures
    BY <1>2 DEF Look
  <2>2. Len(attempts[a]) \in Nat
    BY <1>0 DEF PlaybackInvariant, TypeOK
  <2>3. CASE action[a] = "completed"
    <3>1. run' = [run EXCEPT ![r].step = IF a = LastStep THEN a ELSE a + 1,
                             ![r].pc = IF a = LastStep THEN "record" ELSE "look"]
      BY <1>2, <2>3 DEF Look, GoTo
    <3>2. run' \in [Runners -> Run]
      <4>1. CASE a = LastStep
        BY <1>0, <3>1, <4>1, MoveOnTyped
      <4>2. CASE a # LastStep
        BY <1>0, <3>1, <4>2, MoveOnTyped
      <4> QED BY <4>1, <4>2
    <3>3. DraftsFilled'
      BY <1>0, <2>1, <3>1 DEF DraftsFilled, caseVars, Run
    <3> QED BY <1>0, <2>1, <3>2, <3>3, TaskKeepsInvariant
  <2>4. CASE action[a] = "planned"
    <3>1. GoTo(r, "start")
      BY <1>2, <2>4 DEF Look
    <3> QED BY <1>0, <2>1, <3>1, GoToTyped, GoToKeepsDrafts, TaskKeepsInvariant DEF caseVars
  <2>5. CASE action[a] = "in_progress"
    <3>1. run' = [run EXCEPT ![r].pc = Resume(a), ![r].attempt = Len(attempts[a])]
      BY <1>2, <2>5 DEF Look
    <3>2. Resume(a) \in {"fill", "complete"} /\ (a = DraftStep => Resume(a) = "fill")
      BY DEF Resume, AfterStart
    <3>3. run' \in [Runners -> Run]
      BY <1>0, <2>2, <3>1, <3>2 DEF Run
    <3>4. DraftsFilled'
      BY <1>0, <2>1, <3>1, <3>2 DEF DraftsFilled, caseVars, Run
    <3> QED BY <1>0, <2>1, <3>3, <3>4, TaskKeepsInvariant
  <2> QED BY <1>2, <2>3, <2>4, <2>5 DEF Look
<1>3. CASE StartRead(r)
  BY <1>0, <1>3, GoToTyped, GoToKeepsDrafts, TaskKeepsInvariant DEF StartRead, caseVars
<1>4. CASE StartCommit(r)
  <2>1. /\ BeginAttempt(a, "planned") /\ UNCHANGED <<current, draft, playback, observed, failures>>
        /\ run' = [run EXCEPT ![r].pc = AfterStart(a), ![r].attempt = Len(attempts[a]) + 1]
    BY <1>4 DEF StartCommit
  <2>2. Len(attempts[a]) + 1 \in Nat
    BY <1>0 DEF PlaybackInvariant, TypeOK
  <2>3. AfterStart(a) \in {"fill", "complete"} /\ (a = DraftStep => AfterStart(a) = "fill")
    BY DEF AfterStart
  <2>4. run' \in [Runners -> Run]
    BY <1>0, <2>1, <2>2, <2>3 DEF Run
  <2>5. DraftsFilled'
    BY <1>0, <2>1, <2>3 DEF DraftsFilled, Run
  <2>6. "planned" \in ExecutionStatus /\ "in_progress" \in ExecutionStatus
    BY DEF ExecutionStatus
  <2> QED BY <1>0, <2>1, <2>4, <2>5, <2>6, BeginKeepsAttempts, CommitKeepsInvariant
<1>5. CASE FillDraft(r)
  <2>1. /\ GoTo(r, "complete") /\ draft' = TRUE
        /\ UNCHANGED <<current, action, events, attempts, playback, observed, failures>>
    BY <1>5 DEF FillDraft
  <2>2. run' \in [Runners -> Run]
    BY <2>1, GoToTyped
  <2> QED BY <2>1, <2>2 DEF PlaybackInvariant, TypeOK, LogsStarted, LogExplainsStatus,
             OneOpenAttempt, DraftBeforeCompletion, ObservedOnceAtEnd, DraftsFilled
<1>6. CASE CompleteRead(r)
  <2>1. GoTo(r, "completing") /\ run[r].pc = "complete" /\ UNCHANGED <<caseVars, failures>>
    BY <1>6 DEF CompleteRead
  <2>2. DraftsFilled'
    BY <1>0, <2>1, GoToTyped DEF DraftsFilled, caseVars
  <2> QED BY <1>0, <2>1, <2>2, GoToTyped, TaskKeepsInvariant
<1>7. CASE CompleteCommit(r)
  <2>1. /\ FinishAttempt(a, run[r].attempt, "completed") /\ run[r].pc = "completing"
        /\ UNCHANGED <<current, draft, playback, observed, failures>>
        /\ run' = [run EXCEPT ![r].step = IF a = LastStep THEN a ELSE a + 1,
                              ![r].pc = IF a = LastStep THEN "record" ELSE "look"]
    BY <1>7 DEF CompleteCommit
  <2>2. run' \in [Runners -> Run]
    <3>1. CASE a = LastStep
      BY <1>0, <2>1, <3>1, MoveOnTyped
    <3>2. CASE a # LastStep
      BY <1>0, <2>1, <3>2, MoveOnTyped
    <3> QED BY <3>1, <3>2
  <2>3. DraftsFilled'
    BY <1>0, <2>1 DEF DraftsFilled, Run
  <2>4. a = DraftStep => draft
    BY <1>0, <2>1 DEF DraftsFilled
  <2>5. "completed" \in ExecutionStatus /\ "in_progress" \in ExecutionStatus
    BY DEF ExecutionStatus
  <2> QED BY <1>0, <2>1, <2>2, <2>3, <2>4, <2>5, FinishKeepsAttempts, CommitKeepsInvariant
<1>8. CASE RecordCompletion(r)
  <2>1. /\ Leave(r, "idle") /\ playback = "in_progress" /\ playback' = "completed"
        /\ observed' = observed + 1 /\ failures' = [failures EXCEPT ![r] = 0]
        /\ \A b \in Steps : action[b] = "completed"
        /\ UNCHANGED <<current, action, events, attempts, draft>>
    BY <1>8 DEF RecordCompletion
  <2>2. run' \in [Runners -> Run] /\ DraftsFilled' /\ failures' \in [Runners -> 0..MaxFailures]
    BY <1>0, <2>1, LeaveTyped
  <2> QED BY <2>1, <2>2 DEF PlaybackInvariant, TypeOK, LogsStarted, LogExplainsStatus,
             OneOpenAttempt, DraftBeforeCompletion, ObservedOnceAtEnd
<1>9. CASE AlreadyEnded(r) \/ Restart(r)
  <2>1. Leave(r, "idle") /\ failures' = [failures EXCEPT ![r] = 0] /\ UNCHANGED caseVars
    BY <1>9 DEF AlreadyEnded, Restart
  <2>2. failures' \in [Runners -> 0..MaxFailures]
    BY <1>0, <2>1
  <2> QED BY <2>1, <2>2, LeaveTyped, TaskKeepsInvariant DEF caseVars
<1>10. CASE Raise(r)
  <2>1. PICK pc \in {"idle", "give_up"} : Leave(r, pc)
    BY <1>10 DEF Raise
  <2>2. failures' \in [Runners -> 0..MaxFailures] /\ UNCHANGED caseVars
    BY <1>0, <1>10 DEF Raise
  <2> QED BY <2>1, <2>2, LeaveTyped, TaskKeepsInvariant DEF caseVars
<1>11. CASE GiveUp(r)
  <2>1. /\ Leave(r, "idle") /\ failures' = [failures EXCEPT ![r] = 0]
        /\ playback' = IF playback = "in_progress" THEN "failed" ELSE playback
        /\ UNCHANGED <<current, action, events, attempts, draft, observed>>
    BY <1>11 DEF GiveUp
  <2>2. run' \in [Runners -> Run] /\ DraftsFilled' /\ failures' \in [Runners -> 0..MaxFailures]
    BY <1>0, <2>1, LeaveTyped
  <2> QED BY <2>1, <2>2 DEF PlaybackInvariant, TypeOK, LogsStarted, LogExplainsStatus,
             OneOpenAttempt, DraftBeforeCompletion, ObservedOnceAtEnd
<1>12. CASE GiveUpFails(r)
  BY <1>0, <1>12, LeaveTyped, TaskKeepsInvariant DEF GiveUpFails, caseVars
<1>13. CASE LoopEnds(r)
  <2>1. UNCHANGED <<caseVars, run, failures>>
    BY <1>13 DEF LoopEnds
  <2>2. DraftsFilled'
    BY <1>0, <2>1 DEF DraftsFilled, caseVars
  <2> QED BY <1>0, <2>1, <2>2, TaskKeepsInvariant
<1> QED BY <1>1, <1>2, <1>3, <1>4, <1>5, <1>6, <1>7, <1>8, <1>9, <1>10, <1>11, <1>12, <1>13 DEF TaskStep

\* The invariant is inductive.
THEOREM PlaybackInvariantHolds == Spec => []PlaybackInvariant
<1>1. Init => PlaybackInvariant
  <2> SUFFICES ASSUME Init PROVE PlaybackInvariant
    OBVIOUS
  <2>1. TypeOK
    <3>1. Idle \in Run
      BY DEF Idle, Run, Steps
    <3>2. <<"planned">> \in Seq(ExecutionStatus) /\ <<>> \in Seq(ExecutionStatus)
      BY DEF ExecutionStatus
    <3>3. run \in [Runners -> Run] /\ failures \in [Runners -> 0..MaxFailures]
      BY <3>1 DEF Init
    <3>4. /\ action \in [Steps -> ExecutionStatus]
          /\ events \in [Steps -> Seq(ExecutionStatus)]
          /\ attempts \in [Steps -> Seq(ExecutionStatus)]
      BY <3>2 DEF Init, ExecutionStatus
    <3> QED BY <3>3, <3>4 DEF Init, TypeOK
  <2>2. LogsStarted /\ LogExplainsStatus
    BY DEF Init, LogsStarted, LogExplainsStatus, Last
  <2>3. OneOpenAttempt /\ DraftBeforeCompletion /\ ObservedOnceAtEnd
    BY DEF Init, OneOpenAttempt, DraftBeforeCompletion, ObservedOnceAtEnd, Steps
  <2>4. DraftsFilled
    BY DEF Init, DraftsFilled, Idle
  <2> QED BY <2>1, <2>2, <2>3, <2>4 DEF PlaybackInvariant
<1>2. PlaybackInvariant /\ [Next]_vars => PlaybackInvariant'
  <2> SUFFICES ASSUME PlaybackInvariant, [Next]_vars PROVE PlaybackInvariant'
    OBVIOUS
  <2>0. polling' \in SUBSET Runners
    <3>1. polling \in SUBSET Runners
      BY DEF PlaybackInvariant, TypeOK
    <3> QED BY <3>1 DEF Next, vars, StartPlayback, ReplaceApproval, FailAction, RetryAction,
         CancelAction, TaskStep, Pick, Look, StartRead, StartCommit, FillDraft, CompleteRead,
         CompleteCommit, RecordCompletion, AlreadyEnded, Raise, GiveUp, GiveUpFails, LoopEnds,
         Restart
  <2>1. CASE UNCHANGED vars
    BY <2>0, <2>1, TaskKeepsInvariant DEF vars, PlaybackInvariant, TypeOK, DraftsFilled, caseVars
  <2>2. CASE Next
    BY <2>0, <2>2, OutsideKeepsInvariant, RunnerKeepsInvariant DEF Next
  <2> QED BY <2>1, <2>2
<1> QED BY <1>1, <1>2, PTL DEF Spec

\* The status log of every action is a walk through the allowed transitions
\* that ends in the projected status, for any number of runtimes.
THEOREM LogsExplainStatuses == Spec => []LogExplainsStatus
<1>1. PlaybackInvariant => LogExplainsStatus
  BY DEF PlaybackInvariant
<1> QED BY <1>1, PlaybackInvariantHolds, PTL

\* The open attempt of an action is its newest and exists only while it is in
\* progress.
THEOREM AttemptsAreSerial == Spec => []OneOpenAttempt
<1>1. PlaybackInvariant => OneOpenAttempt
  BY DEF PlaybackInvariant
<1> QED BY <1>1, PlaybackInvariantHolds, PTL

\* The draft has its content before its action is completed, whoever started
\* it and whoever died.
THEOREM DraftsComeFirst == Spec => []DraftBeforeCompletion
<1>1. PlaybackInvariant => DraftBeforeCompletion
  BY DEF PlaybackInvariant
<1> QED BY <1>1, PlaybackInvariantHolds, PTL

\* The outcome is observed once, when and only when the playback completes.
THEOREM OutcomesAreObservedOnce == Spec => []ObservedOnceAtEnd
<1>1. PlaybackInvariant => ObservedOnceAtEnd
  BY DEF PlaybackInvariant
<1> QED BY <1>1, PlaybackInvariantHolds, PTL

\* No runtime overturns the end of a playback another has recorded.
THEOREM EndsAreFinal == Spec => EndsOnce
<1>1. [Next]_vars => ((playback \in {"completed", "failed"}) => playback' = playback)
  BY DEF Next, vars, caseVars, StartPlayback, ReplaceApproval, FailAction, RetryAction,
         CancelAction, TaskStep, Pick, Look, StartRead, StartCommit, FillDraft, CompleteRead,
         CompleteCommit, RecordCompletion, AlreadyEnded, Raise, GiveUp, GiveUpFails, LoopEnds,
         Restart
<1> QED BY <1>1, PTL DEF Spec, EndsOnce

-----------------------------------------------------------------------------
(* The playback is orderly *)

\* A task has come past completed actions only, and fills the draft of an
\* action that has started.
TasksInTurn ==
    \A r \in Runners :
        /\ run[r].pc # "idle" =>
              playback # "none" /\ \A b \in 1..run[r].step - 1 : action[b] = "completed"
        /\ run[r].pc = "fill" => run[r].step = DraftStep /\ action[DraftStep] # "planned"

\* An action that has moved stays moved, and a completed one completed.
LEMMA ActionsMoveOn ==
    ASSUME PlaybackInvariant, [Next]_vars
    PROVE  /\ \A b \in Steps : /\ action[b] = "completed" => action'[b] = "completed"
                               /\ action[b] # "planned" => action'[b] # "planned"
           /\ playback # "none" => playback' # "none"
<1>1. ASSUME NEW a \in Steps, NEW from \in ExecutionStatus, NEW to \in ExecutionStatus,
             Record(a, from, to)
      PROVE  \A b \in Steps : /\ action[b] = "completed" => action'[b] = "completed"
                              /\ action[b] # "planned" => action'[b] # "planned"
  <2>1. to # "planned"
    BY <1>1, RecordKeepsLog DEF Allowed, ExecutionStatus
  <2> QED BY <1>1, <2>1, RecordKeepsLog DEF PlaybackInvariant, TypeOK
<1>2. CASE action' = action
  BY <1>2 DEF Next, vars, caseVars, StartPlayback, ReplaceApproval, FailAction, RetryAction,
     CancelAction, TaskStep, Pick, Look, StartRead, StartCommit, FillDraft, CompleteRead,
     CompleteCommit, RecordCompletion, AlreadyEnded, Raise, GiveUp, GiveUpFails,
     LoopEnds, Restart
<1>3. CASE action' # action
  <2>1. /\ playback' = playback
        /\ \/ \E a \in Steps : FailAction(a) \/ RetryAction(a) \/ CancelAction(a)
           \/ \E r \in Runners : StartCommit(r) \/ CompleteCommit(r)
    BY <1>3 DEF Next, vars, caseVars, StartPlayback, ReplaceApproval, FailAction, RetryAction,
       CancelAction, TaskStep, Pick, Look, StartRead, StartCommit, FillDraft, CompleteRead,
       CompleteCommit, RecordCompletion, AlreadyEnded, Raise, GiveUp, GiveUpFails,
       LoopEnds, Restart
  <2>2. /\ \A r \in Runners : run[r].step \in Steps
        /\ \A a \in Steps : action[a] \in ExecutionStatus
    BY DEF PlaybackInvariant, TypeOK, Run
  <2>3. \E a \in Steps : \E from, to \in ExecutionStatus : Record(a, from, to)
    BY <2>1, <2>2 DEF FailAction, RetryAction, CancelAction, StartCommit, CompleteCommit,
                      FinishAttempt, BeginAttempt, ExecutionStatus
  <2> QED BY <1>1, <2>1, <2>3
<1> QED BY <1>2, <1>3

LEMMA TasksStayInTurn ==
    ASSUME PlaybackInvariant, TasksInTurn, [Next]_vars PROVE TasksInTurn'
<1>0. /\ run \in [Runners -> Run]
      /\ \A r \in Runners : run[r].step \in Steps
  BY DEF PlaybackInvariant, TypeOK, Run
<1> DEFINE InTurn(r) ==
        /\ run[r].pc # "idle" =>
              playback # "none" /\ \A b \in 1..run[r].step - 1 : action[b] = "completed"
        /\ run[r].pc = "fill" => run[r].step = DraftStep /\ action[DraftStep] # "planned"
<1>1. ASSUME NEW r \in Runners, run'[r].step = run[r].step, run'[r].pc = "idle" \/ run[r].pc # "idle",
             run'[r].pc = "fill" => run[r].pc = "fill"
      PROVE  InTurn(r)'
  <2>1. run[r].step \in Nat /\ \A b \in 1..run[r].step - 1 : b \in Steps
    BY <1>0 DEF Steps
  <2>2. DraftStep \in Steps
    BY DEF Steps
  <2> QED BY <1>1, <2>1, <2>2, ActionsMoveOn DEF TasksInTurn
<1>2. ASSUME run' = run PROVE TasksInTurn'
  BY <1>1, <1>2 DEF TasksInTurn
<1>3. ASSUME NEW r \in Runners, TaskStep(r) \/ GiveUpFails(r) \/ Restart(r)
      PROVE  TasksInTurn'
  <2> DEFINE a == run[r].step
  <2>1. \A q \in Runners : q # r => run'[q] = run[q]
    BY <1>0, <1>3 DEF TaskStep, Pick, Look, StartRead, StartCommit, FillDraft, CompleteRead,
       CompleteCommit, RecordCompletion, AlreadyEnded, Raise, GiveUp, GiveUpFails, Restart,
       GoTo, Leave
  <2>2. SUFFICES InTurn(r)'
    BY <1>1, <2>1 DEF TasksInTurn
  <2>3. CASE Pick(r)
    <3>1. run' = [run EXCEPT ![r] = [pc |-> "look", step |-> 1, attempt |-> 0]]
      <4>1. [Idle EXCEPT !.pc = "look"] = [pc |-> "look", step |-> 1, attempt |-> 0]
        BY DEF Idle
      <4> QED BY <2>3, <4>1 DEF Pick
    <3>2. run'[r].pc = "look" /\ run'[r].step = 1
      BY <1>0, <3>1
    <3>3. playback' # "none" /\ 1..run'[r].step - 1 = {}
      BY <2>3, <3>2 DEF Pick, caseVars
    <3> QED BY <3>2, <3>3
  <2>4. ASSUME action'[a] = "completed", run[r].pc # "idle",
               run' = [run EXCEPT ![r].step = IF a = LastStep THEN a ELSE a + 1,
                                  ![r].pc = IF a = LastStep THEN "record" ELSE "look"]
        PROVE  InTurn(r)'
    <3>1. /\ run'[r].step = (IF a = LastStep THEN a ELSE a + 1)
          /\ run'[r].pc \in {"look", "record"}
      BY <1>0, <2>4 DEF Run
    <3>2. a \in Nat /\ \A b \in 1..a : b \in Steps
      BY <1>0 DEF Steps
    <3>3. \A b \in 1..a - 1 : action'[b] = "completed"
      BY <2>4, <3>2, ActionsMoveOn DEF TasksInTurn
    <3>4. \A b \in 1..run'[r].step - 1 : b = a \/ b \in 1..a - 1
      BY <3>1, <3>2
    <3> QED BY <2>4, <3>1, <3>3, <3>4, ActionsMoveOn DEF TasksInTurn
  <2>5. ASSUME run[r].pc # "idle", run'[r].step = a, run'[r].pc = AfterStart(a),
               action'[a] # "planned"
        PROVE  InTurn(r)'
    <3>1. run'[r].pc = "fill" => a = DraftStep
      BY <2>5 DEF AfterStart
    <3>2. a \in Nat /\ \A b \in 1..a - 1 : b \in Steps
      BY <1>0 DEF Steps
    <3> QED BY <2>5, <3>1, <3>2, ActionsMoveOn DEF TasksInTurn
  <2>6. CASE Look(r) /\ action[a] = "completed"
    <3>1. action'[a] = "completed"
      BY <2>6 DEF Look, caseVars
    <3> QED BY <2>4, <2>6, <3>1 DEF Look
  <2>7. CASE Look(r) /\ action[a] = "planned"
    BY <1>0, <1>1, <2>7, GoToTyped DEF Look
  <2>8. CASE Look(r) /\ action[a] = "in_progress"
    <3>1. run'[r].step = a /\ run'[r].pc = AfterStart(a) /\ action'[a] = "in_progress"
      BY <1>0, <2>8 DEF Look, caseVars, Resume, Run
    <3> QED BY <2>5, <2>8, <3>1 DEF Look
  <2>9. CASE StartCommit(r)
    <3>1. run'[r].step = a /\ run'[r].pc = AfterStart(a)
      BY <1>0, <2>9 DEF StartCommit, Run
    <3>2. action'[a] = "in_progress"
      <4>1. Record(a, "planned", "in_progress") /\ a \in Steps
        BY <1>0, <2>9 DEF StartCommit, BeginAttempt
      <4> QED BY <4>1 DEF Record, PlaybackInvariant, TypeOK
    <3> QED BY <2>5, <2>9, <3>1, <3>2 DEF StartCommit
  <2>10. CASE CompleteCommit(r)
    <3>1. action'[a] = "completed"
      <4>1. Record(a, "in_progress", "completed") /\ a \in Steps
        BY <1>0, <2>10 DEF CompleteCommit, FinishAttempt
      <4> QED BY <4>1 DEF Record, PlaybackInvariant, TypeOK
    <3> QED BY <2>4, <2>10, <3>1 DEF CompleteCommit
  <2>11. CASE StartRead(r) \/ FillDraft(r) \/ CompleteRead(r)
    BY <1>1, <2>11, GoToTyped DEF StartRead, FillDraft, CompleteRead
  <2>12. CASE \/ RecordCompletion(r) \/ AlreadyEnded(r) \/ Raise(r) \/ GiveUp(r)
              \/ GiveUpFails(r) \/ Restart(r)
    <3>1. PICK pc \in {"idle", "give_up"} : Leave(r, pc) /\ (pc = "idle" \/ run[r].pc # "idle")
      BY <2>12 DEF RecordCompletion, AlreadyEnded, Raise, GiveUp, GiveUpFails, Restart
    <3>2. run'[r].pc = pc /\ run'[r].step = 1
      BY <3>1, LeaveTyped
    <3>3. pc # "idle" => playback' # "none"
      BY <3>1, ActionsMoveOn DEF TasksInTurn
    <3>4. 1..run'[r].step - 1 = {}
      BY <3>2
    <3> QED BY <3>1, <3>2, <3>3, <3>4
  <2> QED BY <1>3, <2>3, <2>6, <2>7, <2>8, <2>9, <2>10, <2>11, <2>12 DEF TaskStep, Look
<1>4. CASE run' = run
  BY <1>2, <1>4
<1>5. CASE run' # run
  <2>1. \E r \in Runners : TaskStep(r) \/ GiveUpFails(r) \/ Restart(r)
    BY <1>5 DEF Next, vars, StartPlayback, ReplaceApproval, FailAction, RetryAction, CancelAction,
       LoopEnds
  <2> QED BY <1>3, <2>1
<1> QED BY <1>4, <1>5

\* For any number of runtimes, no task is ahead of the actions that it plays:
\* run_to_completion goes through them in order.
THEOREM PlaybackInTurn == Spec => []TasksInTurn
<1>1. Init => TasksInTurn
  <2> SUFFICES ASSUME Init PROVE TasksInTurn
    OBVIOUS
  <2>1. \A r \in Runners : run[r].pc = "idle"
    BY DEF Init, Idle
  <2> QED BY <2>1 DEF TasksInTurn
<1>2. PlaybackInvariant /\ TasksInTurn /\ [Next]_vars => TasksInTurn'
  BY TasksStayInTurn
<1> QED BY <1>1, <1>2, PlaybackInvariantHolds, PTL DEF Spec

\* Every commit of an action is a step of its own in the orderly playback.
LEMMA RecordMoves ==
    ASSUME PlaybackInvariant, NEW a \in Steps, NEW from \in ExecutionStatus,
           NEW to \in ExecutionStatus, Record(a, from, to),
           UNCHANGED <<current, draft, playback, observed>>
    PROVE  Orderly!Moves(a, from, to) /\ to \in Allowed(from)
  BY RecordKeepsLog DEF Orderly!Moves

LEMMA OutsideRefines ==
    ASSUME PlaybackInvariant,
           \/ StartPlayback \/ ReplaceApproval
           \/ \E a \in Steps : FailAction(a) \/ RetryAction(a) \/ CancelAction(a)
    PROVE  Orderly!Next
<1>1. CASE StartPlayback
  BY <1>1 DEF StartPlayback, Orderly!Start, Orderly!Next
<1>2. CASE ReplaceApproval
  BY <1>2 DEF ReplaceApproval, Orderly!Withdraw, Orderly!Next
<1>3. ASSUME NEW a \in Steps, FailAction(a) \/ RetryAction(a) \/ CancelAction(a)
      PROVE  Orderly!Next
  <2>0. /\ UNCHANGED <<current, draft, playback, observed>>
        /\ action[a] \in ExecutionStatus /\ Orderly!Steps = Steps
        /\ {"planned", "in_progress", "completed", "failed", "cancelled"} \subseteq ExecutionStatus
    BY <1>3 DEF FailAction, RetryAction, CancelAction, PlaybackInvariant, TypeOK, ExecutionStatus,
                Steps, Orderly!Steps
  <2>1. CASE FailAction(a)
    <3>1. Orderly!Fail(a)
      BY <2>0, <2>1, RecordMoves DEF FailAction, FinishAttempt, Orderly!Fail
    <3> QED BY <2>0, <3>1 DEF Orderly!Next
  <2>2. CASE RetryAction(a)
    <3>1. Orderly!Retry(a)
      BY <2>0, <2>2, RecordMoves DEF RetryAction, BeginAttempt, Orderly!Retry
    <3> QED BY <2>0, <3>1 DEF Orderly!Next
  <2>3. CASE CancelAction(a)
    <3>1. Record(a, action[a], "cancelled")
      BY <2>3 DEF CancelAction, FinishAttempt
    <3>2. Orderly!Moves(a, action[a], "cancelled") /\ "cancelled" \in Allowed(action[a])
      BY <2>0, <3>1, RecordMoves
    <3>3. Orderly!Cancel(a)
      BY <2>0, <3>2 DEF Orderly!Cancel, Allowed, ExecutionStatus
    <3> QED BY <2>0, <3>3 DEF Orderly!Next
  <2> QED BY <1>3, <2>1, <2>2, <2>3
<1> QED BY <1>1, <1>2, <1>3

LEMMA RunnerRefines ==
    ASSUME PlaybackInvariant, TasksInTurn, NEW r \in Runners,
           TaskStep(r) \/ GiveUpFails(r) \/ LoopEnds(r) \/ Restart(r)
    PROVE  [Orderly!Next]_Orderly!orderlyVars
<1> DEFINE a == run[r].step
<1>0. a \in Steps /\ Orderly!Steps = Steps
  BY DEF PlaybackInvariant, TypeOK, Run, Steps, Orderly!Steps
<1>1. CASE UNCHANGED caseVars
  BY <1>1 DEF caseVars, Orderly!orderlyVars
<1>2. CASE StartCommit(r)
  <2>1. Orderly!Moves(a, "planned", "in_progress")
    BY <1>0, <1>2, RecordMoves DEF StartCommit, BeginAttempt, ExecutionStatus
  <2>2. current /\ playback # "none" /\ Orderly!Reached(a)
    BY <1>2 DEF StartCommit, BeginAttempt, TasksInTurn, Orderly!Reached
  <2>3. Orderly!Begin(a)
    BY <2>1, <2>2 DEF Orderly!Begin
  <2> QED BY <1>0, <2>3 DEF Orderly!Next
<1>3. CASE FillDraft(r)
  <2>1. action[DraftStep] # "planned"
    BY <1>3 DEF FillDraft, TasksInTurn
  <2>2. Orderly!Fill \/ UNCHANGED Orderly!orderlyVars
    BY <1>3, <2>1 DEF FillDraft, PlaybackInvariant, TypeOK, Orderly!Fill, Orderly!orderlyVars
  <2> QED BY <2>2 DEF Orderly!Next
<1>4. CASE CompleteCommit(r)
  <2>1. Orderly!Moves(a, "in_progress", "completed")
    BY <1>0, <1>4, RecordMoves DEF CompleteCommit, FinishAttempt, ExecutionStatus
  <2>2. current /\ (a = DraftStep => draft)
    BY <1>4 DEF CompleteCommit, FinishAttempt, PlaybackInvariant, DraftsFilled
  <2>3. Orderly!Complete(a)
    BY <2>1, <2>2 DEF Orderly!Complete
  <2> QED BY <1>0, <2>3 DEF Orderly!Next
<1>5. CASE RecordCompletion(r)
  BY <1>0, <1>5 DEF RecordCompletion, Orderly!Conclude, Orderly!Next
<1>6. CASE GiveUp(r)
  BY <1>6 DEF GiveUp, Orderly!Abandon, Orderly!Next, Orderly!orderlyVars
<1>7. CASE Pick(r) \/ Look(r) \/ StartRead(r) \/ CompleteRead(r) \/ AlreadyEnded(r) \/ Raise(r)
            \/ GiveUpFails(r) \/ LoopEnds(r) \/ Restart(r)
  BY <1>1, <1>7 DEF Pick, Look, StartRead, CompleteRead, AlreadyEnded, Raise, GiveUpFails,
                    LoopEnds, Restart
<1> QED BY <1>2, <1>3, <1>4, <1>5, <1>6, <1>7 DEF TaskStep

\* Runtimes that race, restart and resume each other's actions never show: for
\* any number of them the records change as if one playback ran the actions in
\* order and observed the outcome once.
THEOREM PlaybackIsOrderly == Spec => ImplementsOrderlyPlayback
<1>1. Init => Orderly!Init
  BY DEF Init, Orderly!Init, Steps, Orderly!Steps
<1>2. PlaybackInvariant /\ TasksInTurn /\ [Next]_vars => [Orderly!Next]_Orderly!orderlyVars
  <2>1. CASE UNCHANGED vars
    BY <2>1 DEF vars, caseVars, Orderly!orderlyVars
  <2> QED BY <2>1, OutsideRefines, RunnerRefines DEF Next
<1> QED BY <1>1, <1>2, PlaybackInvariantHolds, PlaybackInTurn, PTL
        DEF Spec, ImplementsOrderlyPlayback, Orderly!Spec
=============================================================================
