---------------------------- MODULE ReviewedMail ----------------------------
(***************************************************************************)
(* What the reviewed supplier e-mail of a decision promises: a person      *)
(* reviews what is written, exactly that is dispatched, it arrives at most *)
(* once, and what is told of it is true.  Dispatching and arriving are one *)
(* step each here: no requests, no correlation ids, no messages or answers *)
(* on their way.  SupplierEmail shows that the code's transactions around  *)
(* an unreliable provider implement this.                                  *)
(***************************************************************************)
EXTENDS Naturals

VARIABLES current,    \* the decision's approval is current
          revision,   \* what is written; 0: nothing yet
          endorsed,   \* the revision a person has reviewed; 0: none
          fate,       \* of the letter that was dispatched last
          told        \* what the case shows of it

mailVars == <<current, revision, endorsed, fate, told>>

\* A letter under way may arrive or may be lost; one that arrived stays there.
Fates == {"unsent", "underway", "arrived"}

\* Writing is for letters that are not out, and takes the review away.
Write ==
    /\ current
    /\ fate = "unsent" /\ told \in {"draft", "failed"}
    /\ revision' = revision + 1
    /\ endorsed' = 0
    /\ told' = "draft"
    /\ UNCHANGED <<current, fate>>

Endorse ==
    /\ current
    /\ revision > 0 /\ endorsed = 0 /\ told = "draft"
    /\ endorsed' = revision
    /\ UNCHANGED <<current, revision, fate, told>>

\* Only what was reviewed, as it was reviewed, and only if nothing is out.
Dispatch ==
    /\ current
    /\ endorsed # 0 /\ endorsed = revision
    /\ fate = "unsent" /\ told \in {"draft", "failed"}
    /\ fate' = "underway"
    /\ told' = "submitting"
    /\ UNCHANGED <<current, revision, endorsed>>

Arrive ==
    /\ fate = "underway"
    /\ fate' = "arrived"
    /\ UNCHANGED <<current, revision, endorsed, told>>

Lose ==
    /\ fate = "underway"
    /\ fate' = "unsent"
    /\ UNCHANGED <<current, revision, endorsed, told>>

\* What becomes of a dispatch is told once, and not unless it is known.
Tell(outcome) ==
    /\ told = "submitting"
    /\ outcome = "accepted" => fate = "arrived"
    /\ outcome = "failed" => fate = "unsent"
    /\ told' = outcome
    /\ UNCHANGED <<current, revision, endorsed, fate>>

Withdraw ==
    /\ current
    /\ current' = FALSE
    /\ UNCHANGED <<revision, endorsed, fate, told>>

Init ==
    /\ current = TRUE
    /\ revision = 0 /\ endorsed = 0
    /\ fate = "unsent" /\ told = "draft"

Next ==
    \/ Write \/ Endorse \/ Dispatch \/ Arrive \/ Lose \/ Withdraw
    \/ \E outcome \in {"accepted", "failed", "uncertain"} : Tell(outcome)

Spec == Init /\ [][Next]_mailVars
=============================================================================
