------------------------- MODULE AnalysisClaimProofs -------------------------
(* Proofs about AnalysisClaim, for every set of requests, lease and budget. *)
EXTENDS AnalysisClaim, TLAPS

USE LeaseAssumption, WaitAssumption, MaxTimeAssumption, NoClaimAssumption

LEMMA InitInvariant == Init => ClaimInvariant
  BY DEF Init, ClaimInvariant, TypeOK, Phase, ClaimsDated, OwnersActive,
         LeaseHonoured, Computing, OustedNeverAccepted

\* A row is never mistaken for the absence of one.
LEMMA RowType ==
    ASSUME ClaimInvariant, NEW r \in Requests
    PROVE  /\ [owner |-> r, expires |-> started[r] + Lease] \in Claim
           /\ [owner |-> r, expires |-> started[r] + Lease] # None
<1>1. started[r] + Lease \in Nat
  BY DEF ClaimInvariant, TypeOK
<1> QED BY <1>1 DEF Claim

\* A step that only moves a request to a phase in which it does not compute.
LEMMA MoveOnly ==
    ASSUME ClaimInvariant, NEW r \in Requests,
           NEW p \in Phase \ {"idle", "loaded", "conflict", "working", "finished"},
           r \notin accepted, GoTo(r, p), deadline' \in [Requests -> Nat],
           UNCHANGED <<now, claim, accepted, started, completed, ousted>>
    PROVE  ClaimInvariant'
  BY DEF ClaimInvariant, GoTo, TypeOK, Phase, ClaimsDated, OwnersActive,
         LeaseHonoured, Computing, OustedNeverAccepted

\* An accepted request has returned: it is in no other phase.
LEMMA AcceptedDone ==
    ASSUME ClaimInvariant, NEW r \in Requests, pc[r] # "returned"
    PROVE  r \notin accepted
  BY DEF ClaimInvariant, OwnersActive

LEMMA LoadInvariant ==
    ASSUME ClaimInvariant, NEW r \in Requests, Load(r) PROVE ClaimInvariant'
<1> USE DEF Load, GoTo, ClaimInvariant
<1>1. TypeOK'
  BY DEF TypeOK, Phase
<1>2. OwnersActive'
  BY DEF TypeOK, OwnersActive
<1>3. \A q \in Requests : q # r => started'[q] = started[q] /\ pc'[q] = pc[q]
  BY DEF TypeOK
<1>4. claim # None => claim.owner # r /\ claim.owner \in Requests
  BY DEF OwnersActive, TypeOK, Claim
<1>5. ClaimsDated'
  BY <1>3, <1>4 DEF TypeOK, ClaimsDated
<1>6. LeaseHonoured'
  BY <1>3 DEF TypeOK, LeaseHonoured, Computing
<1>7. OustedNeverAccepted'
  BY DEF OustedNeverAccepted
<1> QED BY <1>1, <1>2, <1>5, <1>6, <1>7

LEMMA ClaimInsertInvariant ==
    ASSUME ClaimInvariant, NEW r \in Requests, ClaimInsert(r) PROVE ClaimInvariant'
<1> USE DEF ClaimInvariant, GoTo
<1>1. CASE claim # None
  BY <1>1 DEF ClaimInsert, TypeOK, Phase, ClaimsDated, OwnersActive,
              LeaseHonoured, Computing, OustedNeverAccepted
<1>2. CASE claim = None
  <2> DEFINE row == [owner |-> r, expires |-> started[r] + Lease]
  <2>1. claim' = row /\ row \in Claim /\ row # None
    BY <1>2, RowType DEF ClaimInsert
  <2>2. TypeOK'
    BY <1>2, <2>1 DEF ClaimInsert, TypeOK, Phase
  <2>3. ClaimsDated'
    BY <1>2, <2>1 DEF ClaimInsert, TypeOK, ClaimsDated
  <2>4. OwnersActive'
    BY <1>2, <2>1 DEF ClaimInsert, TypeOK, OwnersActive
  <2>5. LeaseHonoured'
    BY <1>2, <2>1 DEF ClaimInsert, TypeOK, LeaseHonoured, Computing
  <2>6. OustedNeverAccepted'
    BY <1>2 DEF ClaimInsert, OustedNeverAccepted
  <2> QED BY <2>2, <2>3, <2>4, <2>5, <2>6
<1> QED BY <1>1, <1>2

\* The heart of the argument: who still computes within its lease owns the
\* row, and a row whose lease covers the present is out of a claimant's reach,
\* because the claimant's started_at is not later than the present.
LEMMA ClaimTakeoverInvariant ==
    ASSUME ClaimInvariant, NEW r \in Requests, ClaimTakeover(r) PROVE ClaimInvariant'
<1> USE DEF ClaimInvariant, GoTo, ClaimTakeover
<1> DEFINE row == [owner |-> r, expires |-> started[r] + Lease]
<1>1. claim' = row /\ row \in Claim /\ row # None
  BY RowType
<1>2. claim # None /\ claim \in Claim /\ claim.owner # r /\ claim.owner \notin accepted
  BY DEF LeaseExpired, OwnersActive, TypeOK
<1>3. TypeOK'
  BY <1>1, <1>2 DEF TypeOK, Phase, Claim
<1>4. ClaimsDated'
  BY <1>1 DEF TypeOK, ClaimsDated
<1>5. OwnersActive'
  BY <1>1, <1>2 DEF TypeOK, OwnersActive
<1>6. OustedNeverAccepted'
  BY <1>2 DEF OustedNeverAccepted
<1>7. LeaseHonoured'
  <2> SUFFICES ASSUME NEW q \in Requests, Computing(q)', now' <= started'[q] + Lease
               PROVE  (claim = [owner |-> q, expires |-> started[q] + Lease])'
    BY DEF LeaseHonoured
  <2>1. CASE q = r
    BY <1>1, <2>1
  <2>2. CASE q # r
    <3>1. Computing(q) /\ now <= started[q] + Lease
      BY <2>2 DEF Computing, TypeOK
    <3>2. claim = [owner |-> q, expires |-> started[q] + Lease]
      BY <3>1 DEF LeaseHonoured
    <3>3. claim.expires < started[r] /\ started[r] <= now
      BY DEF LeaseExpired, ClaimsDated
    <3> QED BY <3>1, <3>2, <3>3 DEF TypeOK
  <2> QED BY <2>1, <2>2
<1> QED BY <1>3, <1>4, <1>5, <1>6, <1>7

\* ClaimRefused and CompleteRefused
LEMMA RefusedInvariant ==
    ASSUME ClaimInvariant, NEW r \in Requests, pc[r] # "returned", StartWaiting(r),
           UNCHANGED <<now, claim, accepted, started, completed, ousted>>
    PROVE  ClaimInvariant'
<1>1. deadline' \in [Requests -> Nat]
  BY DEF StartWaiting, ClaimInvariant, TypeOK
<1> QED BY <1>1, MoveOnly, AcceptedDone DEF StartWaiting, Phase

LEMMA FinishInvariant ==
    ASSUME ClaimInvariant, NEW r \in Requests, Finish(r) PROVE ClaimInvariant'
  BY DEF Finish, GoTo, ClaimInvariant, TypeOK, Phase, ClaimsDated, OwnersActive,
         LeaseHonoured, Computing, OustedNeverAccepted

LEMMA CompleteInvariant ==
    ASSUME ClaimInvariant, NEW r \in Requests, Complete(r) PROVE ClaimInvariant'
<1> USE DEF Complete, ClaimHeld, GoTo, ClaimInvariant
<1>1. TypeOK' /\ ClaimsDated'
  BY DEF TypeOK, Phase, ClaimsDated
<1>2. OwnersActive' /\ OustedNeverAccepted'
  BY DEF TypeOK, OwnersActive, OustedNeverAccepted
<1>3. LeaseHonoured'
  BY DEF TypeOK, LeaseHonoured, Computing
<1> QED BY <1>1, <1>2, <1>3

LEMMA FailInvariant ==
    ASSUME ClaimInvariant, NEW r \in Requests, Fail(r) PROVE ClaimInvariant'
<1> USE DEF Fail, Release, Computing, GoTo, ClaimInvariant
<1>1. r \notin accepted
  BY AcceptedDone
<1>2. TypeOK' /\ ClaimsDated'
  BY DEF TypeOK, Phase, ClaimsDated
<1>3. OwnersActive' /\ OustedNeverAccepted'
  BY <1>1 DEF TypeOK, OwnersActive, OustedNeverAccepted
<1>4. LeaseHonoured'
  BY DEF TypeOK, LeaseHonoured
<1> QED BY <1>2, <1>3, <1>4

LEMMA TickInvariant == ASSUME ClaimInvariant, Tick PROVE ClaimInvariant'
  BY DEF Tick, ClaimInvariant, TypeOK, ClaimsDated, OwnersActive,
         LeaseHonoured, Computing, OustedNeverAccepted

LEMMA NextInvariant == ClaimInvariant /\ [Next]_vars => ClaimInvariant'
<1> SUFFICES ASSUME ClaimInvariant, [Next]_vars PROVE ClaimInvariant'
  OBVIOUS
<1>1. CASE UNCHANGED vars
  BY <1>1 DEF vars, ClaimInvariant, TypeOK, ClaimsDated, OwnersActive,
              LeaseHonoured, Computing, OustedNeverAccepted
<1>2. CASE Tick
  BY <1>2, TickInvariant
<1>3. ASSUME NEW r \in Requests, Load(r) \/ ClaimInsert(r) \/ ClaimTakeover(r)
      PROVE  ClaimInvariant'
  BY <1>3, LoadInvariant, ClaimInsertInvariant, ClaimTakeoverInvariant
<1>4. ASSUME NEW r \in Requests, ClaimRefused(r) \/ CompleteRefused(r)
      PROVE  ClaimInvariant'
  BY <1>4, RefusedInvariant DEF ClaimRefused, CompleteRefused
<1>5. ASSUME NEW r \in Requests, Finish(r) \/ Complete(r) \/ Fail(r)
      PROVE  ClaimInvariant'
  BY <1>5, FinishInvariant, CompleteInvariant, FailInvariant
<1>6. ASSUME NEW r \in Requests, Crash(r) \/ GiveUp(r)
      PROVE  ClaimInvariant'
  <2>1. deadline' \in [Requests -> Nat]
    BY <1>6 DEF Crash, GiveUp, ClaimInvariant, TypeOK
  <2> QED BY <1>6, <2>1, MoveOnly, AcceptedDone DEF Crash, GiveUp, Phase
<1>7. ASSUME NEW r \in Requests, Poll(r) \/ Sleep(r)
      PROVE  ClaimInvariant'
  <2>1. deadline' \in [Requests -> Nat]
    BY <1>7 DEF Poll, Sleep, ClaimInvariant, TypeOK
  <2> QED BY <1>7, <2>1, MoveOnly, AcceptedDone DEF Poll, Sleep, Phase
<1> QED BY <1>1, <1>2, <1>3, <1>4, <1>5, <1>6, <1>7 DEF Next, WaitStep

\* The lease's inductive invariant, for any number of requests and any lease.
THEOREM ClaimInvariantHolds == Spec => []ClaimInvariant
  BY InitInvariant, NextInvariant, PTL DEF Spec

\* Within its lease a computing request owns the claim: no other request ever
\* calls the sources for the same material at the same time.
THEOREM LeasesAreHonoured == Spec => []LeaseHonoured
<1>1. ClaimInvariant => LeaseHonoured
  BY DEF ClaimInvariant
<1> QED BY <1>1, ClaimInvariantHolds, PTL

\* complete_analysis_claim fences off every request whose claim was taken over.
THEOREM OustedAreFenced == Spec => []OustedNeverAccepted
<1>1. ClaimInvariant => OustedNeverAccepted
  BY DEF ClaimInvariant
<1> QED BY <1>1, ClaimInvariantHolds, PTL
=============================================================================
