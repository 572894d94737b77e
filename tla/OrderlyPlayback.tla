--------------------------- MODULE OrderlyPlayback ---------------------------
(***************************************************************************)
(* What the simulated execution of a decision promises: the actions run    *)
(* one after the other, each on a current approval, and the outcome is     *)
(* observed once, when all of them are done.  There is one playback here   *)
(* and nobody races: no runtimes, no attempts, no logs, no stale reads.    *)
(* ActionPlayback shows that the code's transactions implement this.       *)
(***************************************************************************)
EXTENDS Naturals

CONSTANTS LastStep,    \* number of planned actions, in playback order
          DraftStep    \* the action whose draft artifact needs content

VARIABLES current,     \* the decision's approval is current
          action,      \* status of each action
          draft,       \* the draft artifact has its content
          playback,    \* status of the playback
          observed     \* how often the outcome observations were recorded

orderlyVars == <<current, action, draft, playback, observed>>

Steps == 1..LastStep

\* Everything before the action is done.
Reached(a) == \A b \in 1..a - 1 : action[b] = "completed"

Moves(a, from, to) ==
    /\ action[a] = from
    /\ action' = [action EXCEPT ![a] = to]
    /\ UNCHANGED <<current, draft, playback, observed>>

Start ==
    /\ playback = "none" /\ current
    /\ playback' = "in_progress"
    /\ UNCHANGED <<current, action, draft, observed>>

\* An action starts in its turn.
Begin(a) ==
    /\ current /\ playback # "none"
    /\ Reached(a)
    /\ Moves(a, "planned", "in_progress")

\* The draft gets its content once its action has started.
Fill ==
    /\ current /\ ~draft
    /\ action[DraftStep] # "planned"
    /\ draft' = TRUE
    /\ UNCHANGED <<current, action, playback, observed>>

Complete(a) ==
    /\ current
    /\ a = DraftStep => draft
    /\ Moves(a, "in_progress", "completed")

Fail(a) == Moves(a, "in_progress", "failed")

Retry(a) == current /\ Moves(a, "failed", "in_progress")

Cancel(a) == Moves(a, "planned", "cancelled") \/ Moves(a, "in_progress", "cancelled")

\* All is done and observed, in one step.
Conclude ==
    /\ playback = "in_progress" /\ current
    /\ \A a \in Steps : action[a] = "completed"
    /\ playback' = "completed"
    /\ observed' = observed + 1
    /\ UNCHANGED <<current, action, draft>>

Abandon ==
    /\ playback = "in_progress"
    /\ playback' = "failed"
    /\ UNCHANGED <<current, action, draft, observed>>

\* An approval that was replaced never becomes current again.
Withdraw ==
    /\ current
    /\ current' = FALSE
    /\ UNCHANGED <<action, draft, playback, observed>>

Init ==
    /\ current = TRUE
    /\ action = [a \in Steps |-> "planned"]
    /\ draft = FALSE
    /\ playback = "none"
    /\ observed = 0

Next ==
    \/ Start \/ Fill \/ Conclude \/ Abandon \/ Withdraw
    \/ \E a \in Steps : Begin(a) \/ Complete(a) \/ Fail(a) \/ Retry(a) \/ Cancel(a)

Spec == Init /\ [][Next]_orderlyVars
=============================================================================
