---------------------------- MODULE AnalysisClaim ----------------------------
(***************************************************************************)
(* The lease that concurrent live-analysis requests of one case compete    *)
(* for: LiveAnalysisService.create and the analysis_claims row of its      *)
(* material.  The holder retrieves and computes for an unbounded time, may *)
(* fail (the claim is released) or disappear (it is not), and may outlive  *)
(* its lease; a request that finds a live claim waits for the winner.      *)
(*                                                                         *)
(* Every database transaction is one step; clock readings and transactions *)
(* of one request are separate steps, so each clock value is old when it   *)
(* is used.  One wall clock is shared by all replicas.                     *)
(***************************************************************************)
EXTENDS Integers, FiniteSets

CONSTANTS Requests,     \* create() calls for the case, each one issued once
          Lease,        \* try_claim_analysis' lease
          WaitBudget,   \* analysis_wait_budget_seconds
          MaxTime,      \* bound: the last instant of the clock
          None          \* no claim row

ASSUME LeaseAssumption == Lease \in Nat
ASSUME WaitAssumption == WaitBudget \in Nat \ {0}
ASSUME MaxTimeAssumption == MaxTime \in Nat
ASSUME NoClaimAssumption == None \notin [owner : Requests, expires : Nat]

VARIABLES now,        \* the clock
          claim,      \* the analysis_claims row: claim_id, claim_expires_at
          accepted,   \* requests whose analysis was saved
          pc,         \* where each request is
          started,    \* started_at of a request, once it has read the clock
          completed,  \* completed_at, once it is done computing
          deadline,   \* until when a waiting request polls
          ousted      \* history: requests whose expired claim was taken over

vars == <<now, claim, accepted, pc, started, completed, deadline, ousted>>

Claim == [owner : Requests, expires : Nat]

Phase == {"idle", "loaded", "conflict", "working", "finished",
          "waiting", "polled", "returned", "failed", "gone"}

\* The request computes, or is about to save, under a claim it was granted.
Computing(r) == pc[r] \in {"working", "finished"}

GoTo(r, p) == pc' = [pc EXCEPT ![r] = p]

\* current_analysis_id of the projection; the claim is for the first analysis.
HasAnalysis == accepted # {}

-----------------------------------------------------------------------------
(* create: load the projection, then claim *)

\* An analysis that exists is returned; otherwise started_at is read.
Load(r) ==
    /\ pc[r] = "idle"
    /\ GoTo(r, IF HasAnalysis THEN "returned" ELSE "loaded")
    /\ started' = [started EXCEPT ![r] = now]
    /\ UNCHANGED <<now, claim, accepted, completed, deadline, ousted>>

\* try_claim_analysis, first transaction: INSERT, or a primary-key conflict.
ClaimInsert(r) ==
    /\ pc[r] = "loaded"
    /\ IF claim = None
       THEN /\ claim' = [owner |-> r, expires |-> started[r] + Lease]
            /\ GoTo(r, "working")
       ELSE /\ GoTo(r, "conflict")
            /\ UNCHANGED claim
    /\ UNCHANGED <<now, accepted, started, completed, deadline, ousted>>

\* _wait_for_winner computes its deadline and starts polling.
StartWaiting(r) ==
    /\ now + WaitBudget <= MaxTime
    /\ GoTo(r, "waiting")
    /\ deadline' = [deadline EXCEPT ![r] = now + WaitBudget]

\* claim_expires_at < claimed_at, on the row the UPDATE finds.
LeaseExpired(r) == claim # None /\ claim.expires < started[r]

\* try_claim_analysis, second transaction: UPDATE of an expired claim.
ClaimTakeover(r) ==
    /\ pc[r] = "conflict"
    /\ LeaseExpired(r)
    /\ ousted' = ousted \union {claim.owner}
    /\ claim' = [owner |-> r, expires |-> started[r] + Lease]
    /\ GoTo(r, "working")
    /\ UNCHANGED <<now, accepted, started, completed, deadline>>

ClaimRefused(r) ==
    /\ pc[r] = "conflict"
    /\ ~LeaseExpired(r)
    /\ StartWaiting(r)
    /\ UNCHANGED <<now, claim, accepted, started, completed, ousted>>

-----------------------------------------------------------------------------
(* create: retrieve, compute, save *)

\* The retrievals and the orchestrator have returned; completed_at is read.
Finish(r) ==
    /\ pc[r] = "working"
    /\ GoTo(r, "finished")
    /\ completed' = [completed EXCEPT ![r] = now]
    /\ UNCHANGED <<now, claim, accepted, started, deadline, ousted>>

\* The test complete_analysis_claim makes under the claim's row lock.
ClaimHeld(r) ==
    /\ claim # None
    /\ claim.owner = r
    /\ claim.expires >= completed[r]

\* Mutant: the DELETE forgets the claim_id.
ReleaseAny(r) == None

\* release_analysis_claim deletes the row only if it is still this request's.
Release(r) == IF claim # None /\ claim.owner = r THEN None ELSE claim

\* Mutant: only the lease is looked at, not who holds the claim.
CompleteUnfenced(r) ==
    /\ pc[r] = "finished"
    /\ claim # None /\ claim.expires >= completed[r]
    /\ accepted' = accepted \union {r}
    /\ claim' = Release(r)
    /\ GoTo(r, "returned")
    /\ UNCHANGED <<now, started, completed, deadline, ousted>>

\* complete_analysis_claim: analysis, projection and claim in one transaction.
Complete(r) ==
    /\ pc[r] = "finished"
    /\ ClaimHeld(r)
    /\ accepted' = accepted \union {r}
    /\ claim' = None
    /\ GoTo(r, "returned")
    /\ UNCHANGED <<now, started, completed, deadline, ousted>>

\* AnalysisClaimBusy: the claim is left to its owner, the result is dropped.
CompleteRefused(r) ==
    /\ pc[r] = "finished"
    /\ ~ClaimHeld(r)
    /\ StartWaiting(r)
    /\ UNCHANGED <<now, claim, accepted, started, completed, ousted>>

\* Any other exception: the database, a source, the validation, the save.
Fail(r) ==
    /\ pc[r] = "loaded" \/ pc[r] = "conflict" \/ Computing(r)
    /\ claim' = Release(r)
    /\ GoTo(r, "failed")
    /\ UNCHANGED <<now, accepted, started, completed, deadline, ousted>>

\* The process dies, the call is cancelled, or the release itself fails: the
\* claim row stays behind.
Crash(r) ==
    /\ pc[r] \in {"loaded", "conflict", "working", "finished", "waiting", "polled"}
    /\ GoTo(r, "gone")
    /\ UNCHANGED <<now, claim, accepted, started, completed, deadline, ousted>>

-----------------------------------------------------------------------------
(* _wait_for_winner *)

\* The winner's analysis is returned as soon as a poll sees it.
Poll(r) ==
    /\ pc[r] = "waiting"
    /\ GoTo(r, IF HasAnalysis THEN "returned" ELSE "polled")
    /\ UNCHANGED <<now, claim, accepted, started, completed, deadline, ousted>>

\* Mutant: the budget starts again with every poll.
SleepRenewing(r) ==
    /\ pc[r] = "polled"
    /\ now < deadline[r]
    /\ GoTo(r, "waiting")
    /\ deadline' = [deadline EXCEPT ![r] = now + WaitBudget]
    /\ UNCHANGED <<now, claim, accepted, started, completed, ousted>>

Sleep(r) ==
    /\ pc[r] = "polled"
    /\ now < deadline[r]
    /\ GoTo(r, "waiting")
    /\ UNCHANGED <<now, claim, accepted, started, completed, deadline, ousted>>

\* The budget is spent, or the poll itself failed.
GiveUp(r) ==
    /\ \/ pc[r] = "polled" /\ now >= deadline[r]
       \/ pc[r] = "waiting"
    /\ GoTo(r, "failed")
    /\ UNCHANGED <<now, claim, accepted, started, completed, deadline, ousted>>

Tick ==
    /\ now < MaxTime
    /\ now' = now + 1
    /\ UNCHANGED <<claim, accepted, pc, started, completed, deadline, ousted>>

-----------------------------------------------------------------------------
Init ==
    /\ now = 0
    /\ claim = None
    /\ accepted = {}
    /\ pc = [r \in Requests |-> "idle"]
    /\ started = [r \in Requests |-> 0]
    /\ completed = [r \in Requests |-> 0]
    /\ deadline = [r \in Requests |-> 0]
    /\ ousted = {}

WaitStep(r) == Poll(r) \/ Sleep(r) \/ GiveUp(r)

Next ==
    \/ \E r \in Requests :
          \/ Load(r) \/ ClaimInsert(r) \/ ClaimTakeover(r) \/ ClaimRefused(r)
          \/ Finish(r) \/ Complete(r) \/ CompleteRefused(r)
          \/ Fail(r) \/ Crash(r) \/ WaitStep(r)
    \/ Tick

Spec == Init /\ [][Next]_vars

\* Time passes and the event loop wakes a sleeping request.  Nothing is
\* assumed of the holder: it may compute for ever or disappear.
FairSpec == Spec /\ WF_vars(Tick) /\ \A r \in Requests : WF_vars(WaitStep(r))

-----------------------------------------------------------------------------
(* Properties *)

TypeOK ==
    /\ now \in Nat
    /\ claim \in Claim \union {None}
    /\ accepted \in SUBSET Requests
    /\ pc \in [Requests -> Phase]
    /\ started \in [Requests -> Nat]
    /\ completed \in [Requests -> Nat]
    /\ deadline \in [Requests -> Nat]
    /\ ousted \in SUBSET Requests

\* A request that computes owns the claim until its lease has run out, however
\* the others' failures, releases and take-overs fall: within its five minutes
\* its sources are called for this material by nobody else.
LeaseHonoured ==
    \A r \in Requests :
        Computing(r) /\ now <= started[r] + Lease
            => claim = [owner |-> r, expires |-> started[r] + Lease]

\* A request whose expired claim was taken over never gets its analysis saved,
\* although it read completed_at before the take-over and never learns of it.
OustedNeverAccepted == ousted \intersect accepted = {}

\* Nothing in a request is from the future, and a row is what its owner wrote.
ClaimsDated ==
    /\ \A r \in Requests : started[r] <= now
    /\ claim # None => claim.expires = started[claim.owner] + Lease

\* The owner of the row, dead or alive, is a request that once computed and
\* has been neither ousted nor accepted.
OwnersActive ==
    /\ claim # None => claim.owner \notin ousted \union accepted
    /\ \A r \in Requests :
          pc[r] \in {"idle", "loaded", "conflict"} =>
              /\ r \notin ousted \union accepted
              /\ claim # None => claim.owner # r
    /\ \A r \in accepted : pc[r] = "returned"

\* The inductive invariant.
ClaimInvariant ==
    TypeOK /\ ClaimsDated /\ OwnersActive /\ LeaseHonoured /\ OustedNeverAccepted

\* Whoever waits for the winner is answered, with its analysis or with an
\* error, even when the winner has disappeared and its claim stays for ever.
WaitersAnswered ==
    \A r \in Requests :
        pc[r] = "waiting" ~> pc[r] \in {"returned", "failed", "gone"}

\* docs/superpowers/specs/2026-09-07-workiq-discovery-evidence-design.md:108
\* reuses the claim "so concurrent browser requests do not create duplicate
\* accepted analyses".
OneAcceptedAnalysis == Cardinality(accepted) <= 1
=============================================================================
