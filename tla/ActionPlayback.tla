--------------------------- MODULE ActionPlayback ---------------------------
(***************************************************************************)
(* The simulated execution of one decision's planned actions: Execution-   *)
(* Service's attempts and status events, PlaybackService, and the runtimes *)
(* (replicas, or one process before and after a restart) that each run     *)
(* every in-progress playback they find.  Nothing elects one of them.      *)
(*                                                                         *)
(* A service call reads the action, then commits: the reads before the     *)
(* approval guard's compare-and-swap may be old by the commit.  From the   *)
(* guard on the case row is locked, so the commit is one step.  What the   *)
(* commit itself reads again, it checks again; everything else it trusts.  *)
(***************************************************************************)
EXTENDS Naturals, Sequences

CONSTANTS Runners,       \* runtime processes
          LastStep,      \* number of planned actions, in playback order
          DraftStep,     \* the prepare_alpha_recovery_draft action
          MaxFailures,   \* playback_max_attempts
          MaxAttempts    \* bound: attempts of one action

ASSUME StepsAssumption == LastStep \in Nat \ {0} /\ DraftStep \in 1..LastStep
ASSUME FailuresAssumption == MaxFailures \in Nat \ {0} /\ MaxAttempts \in Nat

Steps == 1..LastStep

ExecutionStatus == {"planned", "in_progress", "completed", "failed", "cancelled"}

VARIABLES current,    \* the decision's approval is current (ProposalFlow!ApprovalCurrent)
          action,     \* action_projection.status
          events,     \* execution_events: to_status of each, oldest first
          attempts,   \* execution_attempts: status of each, by attempt_number
          draft,      \* the draft artifact has its content
          playback,   \* playbacks.status
          observed,   \* how often the outcome observations were recorded
          run,        \* what each runtime's playback task is doing
          failures,   \* _playback_failures of each runtime, capped at MaxFailures
          polling     \* runtimes whose polling loop, _loop_task, runs

caseVars == <<current, action, events, attempts, draft, playback, observed>>
vars == <<caseVars, run, failures, polling>>

\* step: the action the task is at; attempt: the attempt it works on.
Run == [pc : {"idle", "look", "start", "starting", "fill", "complete",
              "completing", "record", "give_up"},
        step : Steps, attempt : Nat]

Idle == [pc |-> "idle", step |-> 1, attempt |-> 0]

Last(s) == s[Len(s)]

\* ALLOWED_TRANSITIONS
Allowed(from) == CASE from = "planned" -> {"in_progress", "cancelled"}
                   [] from = "in_progress" -> {"completed", "failed", "cancelled"}
                   [] from = "failed" -> {"in_progress"}
                   [] OTHER -> {}

-----------------------------------------------------------------------------
(* The writes of one transaction on an action *)

\* Mutant: the event is appended whatever the log says.
EventFits(a, from, to) == to \in Allowed(from)

\* append_status_event: the event continues the log it is appended to.
EventAllowed(a, from, to) == Last(events[a]) = from /\ to \in Allowed(from)

Record(a, from, to) ==
    /\ EventAllowed(a, from, to)
    /\ action' = [action EXCEPT ![a] = to]
    /\ events' = [events EXCEPT ![a] = Append(@, to)]

\* _begin_attempt, from the guard on: a new attempt, numbered by those there are.
BeginAttempt(a, from) ==
    /\ current
    /\ Len(attempts[a]) < MaxAttempts
    /\ attempts' = [attempts EXCEPT ![a] = Append(@, "in_progress")]
    /\ Record(a, from, "in_progress")

\* Mutant: whether the attempt is still open is not asked again.
AnyAttempt(a, n) == n \in DOMAIN attempts[a]

\* update_attempt rewrites no finished attempt.
OpenAttempt(a, n) == n \in DOMAIN attempts[a] /\ attempts[a][n] = "in_progress"

\* _finish_attempt; only a completion needs the approval.
FinishAttempt(a, n, to) ==
    /\ to = "completed" => current
    /\ OpenAttempt(a, n)
    /\ attempts' = [attempts EXCEPT ![a][n] = to]
    /\ Record(a, "in_progress", to)

-----------------------------------------------------------------------------
(* Calls from outside the playback.  What they read, their commit checks    *)
(* again, so a stale read only makes them fail: each is one step.           *)

FailAction(a) ==
    /\ action[a] = "in_progress"
    /\ FinishAttempt(a, Len(attempts[a]), "failed")
    /\ UNCHANGED <<current, draft, playback, observed, run, failures, polling>>

\* The retry route.
RetryAction(a) ==
    /\ action[a] = "failed"
    /\ BeginAttempt(a, "failed")
    /\ UNCHANGED <<current, draft, playback, observed, run, failures, polling>>

CancelAction(a) ==
    /\ IF action[a] = "in_progress"
       THEN FinishAttempt(a, Len(attempts[a]), "cancelled")
       ELSE Record(a, action[a], "cancelled") /\ UNCHANGED attempts
    /\ UNCHANGED <<current, draft, playback, observed, run, failures, polling>>

\* PlaybackService.start; a second start returns the first one's playback.
StartPlayback ==
    /\ playback = "none"
    /\ current
    /\ playback' = "in_progress"
    /\ UNCHANGED <<current, action, events, attempts, draft, observed, run, failures, polling>>

\* The proposal is replaced, withdrawn or re-analysed.
ReplaceApproval ==
    /\ current
    /\ current' = FALSE
    /\ UNCHANGED <<action, events, attempts, draft, playback, observed, run, failures, polling>>

-----------------------------------------------------------------------------
(* A runtime's playback task: run_to_completion *)

GoTo(r, pc) == run' = [run EXCEPT ![r].pc = pc]

\* The task ends, or all that is left of it is to record its failure.
Leave(r, pc) == run' = [run EXCEPT ![r] = [Idle EXCEPT !.pc = pc]]

\* _start_persisted_playbacks, which only the loop calls.
Pick(r) ==
    /\ r \in polling
    /\ run[r].pc = "idle" /\ playback = "in_progress"
    /\ run' = [run EXCEPT ![r] = [Idle EXCEPT !.pc = "look"]]
    /\ UNCHANGED <<caseVars, failures, polling>>

\* The draft action gets its content before it is completed.
AfterStart(a) == IF a = DraftStep THEN "fill" ELSE "complete"

\* Mutant: the content is written only by the task that starts the attempt.
ResumeUnfilled(a) == "complete"

\* _complete_action, an action found in progress: whoever started it.
Resume(a) == AfterStart(a)

\* _complete_action reads the action and its attempts.
Look(r) ==
    LET a == run[r].step
    IN  /\ run[r].pc = "look"
        /\ \/ /\ action[a] = "completed"
              /\ run' = [run EXCEPT ![r].step = IF a = LastStep THEN a ELSE a + 1,
                                    ![r].pc = IF a = LastStep THEN "record" ELSE "look"]
           \/ action[a] = "planned" /\ GoTo(r, "start")
           \/ /\ action[a] = "in_progress"
              /\ run' = [run EXCEPT ![r].pc = Resume(a),
                                    ![r].attempt = Len(attempts[a])]
        /\ UNCHANGED <<caseVars, failures, polling>>

\* start: the action is still planned when it is read ...
StartRead(r) ==
    /\ run[r].pc = "start"
    /\ action[run[r].step] = "planned"
    /\ GoTo(r, "starting")
    /\ UNCHANGED <<caseVars, failures, polling>>

\* ... and the commit takes it to be.
StartCommit(r) ==
    LET a == run[r].step
    IN  /\ run[r].pc = "starting"
        /\ BeginAttempt(a, "planned")
        /\ run' = [run EXCEPT ![r].pc = AfterStart(a),
                              ![r].attempt = Len(attempts[a]) + 1]
        /\ UNCHANGED <<current, draft, playback, observed, failures, polling>>

\* _fill_draft; content that is there already needs no approval.
FillDraft(r) ==
    /\ run[r].pc = "fill"
    /\ draft \/ current
    /\ draft' = TRUE
    /\ GoTo(r, "complete")
    /\ UNCHANGED <<current, action, events, attempts, playback, observed, failures, polling>>

CompleteRead(r) ==
    /\ run[r].pc = "complete"
    /\ action[run[r].step] = "in_progress"
    /\ attempts[run[r].step][run[r].attempt] = "in_progress"
    /\ GoTo(r, "completing")
    /\ UNCHANGED <<caseVars, failures, polling>>

CompleteCommit(r) ==
    LET a == run[r].step
    IN  /\ run[r].pc = "completing"
        /\ FinishAttempt(a, run[r].attempt, "completed")
        /\ run' = [run EXCEPT ![r].step = IF a = LastStep THEN a ELSE a + 1,
                              ![r].pc = IF a = LastStep THEN "record" ELSE "look"]
        /\ UNCHANGED <<current, draft, playback, observed, failures, polling>>

\* _record_completion: observations and the playback's end in one transaction.
RecordCompletion(r) ==
    /\ run[r].pc = "record"
    /\ playback = "in_progress"
    /\ current
    /\ \A a \in Steps : action[a] = "completed"
    /\ observed' = observed + 1
    /\ playback' = "completed"
    /\ Leave(r, "idle")
    /\ failures' = [failures EXCEPT ![r] = 0]
    /\ UNCHANGED <<current, action, events, attempts, draft, polling>>

\* The playback has ended meanwhile: its canonical record is returned.
AlreadyEnded(r) ==
    /\ run[r].pc = "record" /\ playback # "in_progress"
    /\ Leave(r, "idle")
    /\ failures' = [failures EXCEPT ![r] = 0]
    /\ UNCHANGED <<caseVars, polling>>

\* Mutant: a task that ends, ends its failure count too.
RaiseForgetting(r) ==
    /\ run[r].pc \notin {"idle", "give_up"}
    /\ Leave(r, IF MaxFailures <= 1 THEN "give_up" ELSE "idle")
    /\ failures' = [failures EXCEPT ![r] = 0]
    /\ UNCHANGED <<caseVars, polling>>

\* Any step may raise: the approval is no longer current, a race was lost, an
\* action was cancelled, the database failed.  _run_playback counts.
Raise(r) ==
    /\ run[r].pc \notin {"idle", "give_up"}
    /\ Leave(r, IF failures[r] + 1 >= MaxFailures THEN "give_up" ELSE "idle")
    /\ failures' = [failures EXCEPT ![r] = IF @ < MaxFailures THEN @ + 1 ELSE @]
    /\ UNCHANGED <<caseVars, polling>>

\* Mutant: the failure is recorded whatever has become of the playback.
GiveUpBlind(r) ==
    /\ run[r].pc = "give_up"
    /\ playback' = "failed"
    /\ Leave(r, "idle")
    /\ failures' = [failures EXCEPT ![r] = 0]
    /\ UNCHANGED <<current, action, events, attempts, draft, observed, polling>>

\* record_failure ends only a playback that is in progress.
GiveUp(r) ==
    /\ run[r].pc = "give_up"
    /\ playback' = IF playback = "in_progress" THEN "failed" ELSE playback
    /\ Leave(r, "idle")
    /\ failures' = [failures EXCEPT ![r] = 0]
    /\ UNCHANGED <<current, action, events, attempts, draft, observed, polling>>

\* The failure cannot be recorded: the count stays, and the next failed task
\* tries again.
GiveUpFails(r) ==
    /\ run[r].pc = "give_up"
    /\ Leave(r, "idle")
    /\ UNCHANGED <<caseVars, failures, polling>>

\* An exception of the planning or of in_progress_playback_ids ends the loop.
\* The tasks it has started go on, but nothing starts another one.
LoopEnds(r) ==
    /\ polling' = polling \ {r}
    /\ UNCHANGED <<caseVars, run, failures>>

\* The process stops and starts again; its failure counts are not kept.
Restart(r) ==
    /\ run[r].pc # "idle" \/ r \notin polling
    /\ Leave(r, "idle")
    /\ failures' = [failures EXCEPT ![r] = 0]
    /\ polling' = polling \union {r}
    /\ UNCHANGED caseVars

-----------------------------------------------------------------------------
Init ==
    /\ current = TRUE
    /\ action = [a \in Steps |-> "planned"]
    /\ events = [a \in Steps |-> <<"planned">>]
    /\ attempts = [a \in Steps |-> <<>>]
    /\ draft = FALSE
    /\ playback = "none"
    /\ observed = 0
    /\ run = [r \in Runners |-> Idle]
    /\ failures = [r \in Runners |-> 0]
    /\ polling = {}

TaskStep(r) ==
    \/ Pick(r) \/ Look(r) \/ StartRead(r) \/ StartCommit(r) \/ FillDraft(r)
    \/ CompleteRead(r) \/ CompleteCommit(r)
    \/ RecordCompletion(r) \/ AlreadyEnded(r) \/ Raise(r) \/ GiveUp(r)

Next ==
    \/ StartPlayback \/ ReplaceApproval
    \/ \E a \in Steps : FailAction(a) \/ RetryAction(a) \/ CancelAction(a)
    \/ \E r \in Runners : TaskStep(r) \/ GiveUpFails(r) \/ LoopEnds(r) \/ Restart(r)

Spec == Init /\ [][Next]_vars

\* A loop that runs picks the playback up and a task that runs moves; neither a
\* loop nor a process has to run.  Restarts, and a database that refuses the
\* write of the failure, come to an end.
FairSpec ==
    /\ Spec
    /\ \A r \in Runners : WF_vars(TaskStep(r))
    /\ <>[][\A r \in Runners : Restart(r) \/ GiveUpFails(r) => TaskStep(r)]_vars

-----------------------------------------------------------------------------
(* Properties *)

TypeOK ==
    /\ current \in BOOLEAN
    /\ action \in [Steps -> ExecutionStatus]
    /\ events \in [Steps -> Seq(ExecutionStatus)]
    /\ attempts \in [Steps -> Seq(ExecutionStatus)]
    /\ draft \in BOOLEAN
    /\ playback \in {"none", "in_progress", "completed", "failed"}
    /\ observed \in Nat
    /\ run \in [Runners -> Run]
    /\ failures \in [Runners -> 0..MaxFailures]
    /\ polling \in SUBSET Runners

\* The status log of an action is a walk through the transition graph that
\* ends in its projected status, although two runtimes start and finish the
\* same action from reads made before each other's commits.
LogExplainsStatus ==
    \A a \in Steps :
        /\ action[a] = Last(events[a])
        /\ \A i \in 1..Len(events[a]) - 1 : events[a][i + 1] \in Allowed(events[a][i])

\* An action in progress has exactly one open attempt, its newest, and any
\* other action has none: no attempt is left open behind a finished action.
OneOpenAttempt ==
    \A a \in Steps : \A n \in DOMAIN attempts[a] :
        attempts[a][n] = "in_progress" <=>
            action[a] = "in_progress" /\ n = Len(attempts[a])

\* The draft action is never completed without its content, whichever runtime
\* started it and whether or not that one died before filling it in.
DraftBeforeCompletion == action[DraftStep] = "completed" => draft

\* The outcome is observed once, exactly when the playback has completed, and
\* only after every action has: a failed playback leaves no observations.
ObservedOnceAtEnd ==
    /\ observed = IF playback = "completed" THEN 1 ELSE 0
    /\ playback = "completed" => \A a \in Steps : action[a] = "completed"

\* A playback ends once: what one runtime has recorded, no other overturns.
EndsOnce ==
    [][(playback \in {"completed", "failed"}) => playback' = playback]_vars

\* No task works on the playback and no loop is left that would start one.
Unattended == polling = {} /\ \A r \in Runners : run[r].pc = "idle"

\* A started playback comes to an end unless every loop has ended, even when
\* the approval is replaced or an action is cancelled under it: the bounded
\* retries of any one runtime end it as failed.
PlaybackEnds ==
    playback = "in_progress" ~> (playback \in {"completed", "failed"} \/ Unattended)

-----------------------------------------------------------------------------
Orderly == INSTANCE OrderlyPlayback
             WITH LastStep <- LastStep, DraftStep <- DraftStep, current <- current,
                  action <- action, draft <- draft, playback <- playback,
                  observed <- observed

\* Runtimes that race, restart and resume each other's work never show: the
\* actions run as if one playback executed them in order (OrderlyPlayback).
ImplementsOrderlyPlayback == Orderly!Spec
=============================================================================
