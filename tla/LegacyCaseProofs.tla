-------------------------- MODULE LegacyCaseProofs --------------------------
(* The legacy ledger stays sound for any number of requests, workers, keys   *)
(* and analyses, although nothing in it is a compare-and-swap.               *)
EXTENDS LegacyCase, TLAPS

USE LegacyAssumption

\* An analysis request that has saved has left an analysis.
SavedIsThere == \A a \in Analyzers : asked[a] = "saved" => analyses # <<>>

\* A decision request asks about an analysis that exists, and past its checks
\* about one whose material meets what its kind requires.
RequestsChecked ==
    \A r \in Deciders :
        /\ requests[r].pc \in {"begun", "looked", "read"} =>
              requests[r].analysis \in 1 .. Len(analyses)
        /\ requests[r].pc = "read" /\ requests[r].kind = "approved" =>
              analyses[requests[r].analysis] \notin Unmet

KeysUnique ==
    \A d, e \in 1 .. Len(decisions) : decisions[d].key = decisions[e].key => d = e

DecisionsReadable == \A d \in 1 .. Len(decisions) : DecisionFromRow(d)

AnswersMatch ==
    \A r \in Deciders : requests[r].pc = "answered" =>
        requests[r].answer \in 1 .. Len(decisions) /\ SameRequest(r, requests[r].answer)

\* Only the planning of an approval can fail.
WorkersPlanApprovals ==
    \A w \in Workers : workers[w] # 0 => decisions[workers[w]].kind = "approved"

LedgerInvariant ==
    /\ TypeOK /\ SavedIsThere /\ RequestsChecked /\ KeysUnique /\ DecisionsReadable
    /\ AnswersMatch /\ WorkersPlanApprovals /\ PlannedIffProcessed /\ StatusHasCause

LEMMA LedgerInit == Init => LedgerInvariant
<1> SUFFICES ASSUME Init PROVE LedgerInvariant
  OBVIOUS
<1>1. (CHOOSE key \in Keys : TRUE) \in Keys
  OBVIOUS
<1>2. requests \in [Deciders -> Request]
  BY <1>1 DEF Init, Request, Kinds
<1>3. TypeOK
  BY <1>2 DEF Init, TypeOK, CaseStatus
<1>4. SavedIsThere /\ RequestsChecked /\ AnswersMatch /\ WorkersPlanApprovals
  BY DEF Init, SavedIsThere, RequestsChecked, AnswersMatch, WorkersPlanApprovals
<1>5. KeysUnique /\ DecisionsReadable /\ PlannedIffProcessed /\ StatusHasCause
  BY DEF Init, KeysUnique, DecisionsReadable, PlannedIffProcessed, StatusHasCause
<1> QED BY <1>3, <1>4, <1>5 DEF LedgerInvariant

\* Steps that leave the ledger alone.
LEMMA LedgerStill ==
    ASSUME LedgerInvariant, UNCHANGED <<decisions, events, planned>>
    PROVE  KeysUnique' /\ PlannedIffProcessed'
  BY DEF LedgerInvariant, KeysUnique, PlannedIffProcessed

LEMMA ReadableStill ==
    ASSUME LedgerInvariant, UNCHANGED <<decisions, events, analyses>>
    PROVE  DecisionsReadable'
  BY DEF LedgerInvariant, DecisionsReadable, DecisionFromRow, RequireAnalysisLineage,
         RequireDerivedSatisfactions, RequireOutboxCardinality

LEMMA AnalyzerKeeps ==
    ASSUME LedgerInvariant, NEW a \in Analyzers,
           \/ AnalyzeBegin(a) \/ SaveCaseProjection(a) \/ AnalyzeFails(a)
           \/ \E hash \in Materials : SaveAnalysis(a, hash)
    PROVE  LedgerInvariant'
<1>1. CASE AnalyzeBegin(a) \/ SaveCaseProjection(a) \/ AnalyzeFails(a)
  <2>1. /\ UNCHANGED <<analyses, decisions, events, planned, requests, workers, polling>>
        /\ asked' \in [Analyzers -> {"idle", "begun", "saved"}]
        /\ \A b \in Analyzers : asked'[b] = "saved" => asked[b] = "saved"
        /\ faults' \in Nat
        /\ \/ projection' = projection
           \/ /\ projection' = [projection EXCEPT !.status = "awaiting_decision"]
              /\ analyses # <<>>
    <3>1. /\ asked \in [Analyzers -> {"idle", "begun", "saved"}] /\ faults \in Nat
          /\ asked[a] = "saved" => analyses # <<>>
      BY DEF LedgerInvariant, TypeOK, SavedIsThere
    <3>2. CASE AnalyzeBegin(a)
      BY <3>1, <3>2 DEF AnalyzeBegin
    <3>3. CASE SaveCaseProjection(a)
      BY <3>1, <3>3 DEF SaveCaseProjection
    <3>4. CASE AnalyzeFails(a)
      BY <3>1, <3>4 DEF AnalyzeFails
    <3> QED BY <1>1, <3>2, <3>3, <3>4
  <2>2. TypeOK'
    BY <2>1 DEF LedgerInvariant, TypeOK, CaseStatus
  <2>3. StatusHasCause'
    BY <2>1 DEF LedgerInvariant, TypeOK, StatusHasCause
  <2>4. SavedIsThere' /\ RequestsChecked' /\ AnswersMatch' /\ WorkersPlanApprovals'
    BY <2>1 DEF LedgerInvariant, SavedIsThere, RequestsChecked, AnswersMatch, SameRequest,
                WorkersPlanApprovals
  <2> QED BY <2>1, <2>2, <2>3, <2>4, LedgerStill, ReadableStill DEF LedgerInvariant
<1>2. ASSUME NEW hash \in Materials, SaveAnalysis(a, hash) PROVE LedgerInvariant'
  <2>1. /\ UNCHANGED <<decisions, events, planned, requests, workers, polling, faults>>
        /\ asked' = [asked EXCEPT ![a] = "saved"] /\ analyses' = Append(analyses, hash)
    BY <1>2 DEF SaveAnalysis
  <2>2. /\ projection'.decision = projection.decision
        /\ projection'.status = projection.status \/ projection'.status = "reanalysis_required"
        /\ projection' \in [status : CaseStatus, analysis : Nat,
                            hash : Materials \union {0}, decision : Nat]
    <3>1. /\ projection \in [status : CaseStatus, analysis : Nat,
                             hash : Materials \union {0}, decision : Nat]
          /\ Len(analyses) + 1 \in Nat
      BY DEF LedgerInvariant, TypeOK
    <3>2. PICK s \in {projection.status, "reanalysis_required"} :
             projection' = [projection EXCEPT !.analysis = Len(analyses) + 1, !.hash = hash,
                                              !.status = s]
      BY <1>2 DEF SaveAnalysis
    <3>3. s \in CaseStatus
      BY <3>1, <3>2 DEF CaseStatus
    <3> QED BY <3>1, <3>2, <3>3
  <2>3. /\ analyses \in Seq(Materials) /\ analyses' \in Seq(Materials) /\ analyses' # <<>>
        /\ Len(analyses) \in Nat /\ Len(analyses') = Len(analyses) + 1
        /\ \A n \in 1 .. Len(analyses) : n \in 1 .. Len(analyses') /\ analyses'[n] = analyses[n]
    <3>1. analyses \in Seq(Materials)
      BY DEF LedgerInvariant, TypeOK
    <3>2. analyses' = Append(analyses, hash)
      BY <2>1
    <3> QED BY <3>1, <3>2
  <2>4. TypeOK'
    <3>1. asked' \in [Analyzers -> {"idle", "begun", "saved"}]
      BY <2>1 DEF LedgerInvariant, TypeOK
    <3> QED BY <2>1, <2>2, <2>3, <3>1 DEF LedgerInvariant, TypeOK
  <2>5. StatusHasCause'
    BY <2>1, <2>2, <2>3 DEF LedgerInvariant, StatusHasCause
  <2>6. SavedIsThere' /\ RequestsChecked' /\ AnswersMatch' /\ WorkersPlanApprovals'
    BY <2>1, <2>3 DEF LedgerInvariant, TypeOK, SavedIsThere, RequestsChecked, AnswersMatch,
                      SameRequest, WorkersPlanApprovals
  <2>7. DecisionsReadable'
    BY <2>1, <2>3 DEF LedgerInvariant, DecisionsReadable, DecisionFromRow,
         RequireAnalysisLineage, RequireDerivedSatisfactions, RequireOutboxCardinality
  <2> QED BY <2>1, <2>4, <2>5, <2>6, <2>7, LedgerStill DEF LedgerInvariant
<1> QED BY <1>1, <1>2

\* A request that moves without writing.
LEMMA RequestMoves ==
    ASSUME LedgerInvariant,
           UNCHANGED <<projection, analyses, decisions, events, planned, asked, workers, polling, faults>>,
           requests' \in [Deciders -> Request], RequestsChecked', AnswersMatch'
    PROVE  LedgerInvariant'
  BY LedgerStill, ReadableStill DEF LedgerInvariant, TypeOK, SavedIsThere, StatusHasCause,
                                    WorkersPlanApprovals

\* An answer from a stored decision is one to this very request.
LEMMA ReturnKeeps ==
    ASSUME LedgerInvariant, NEW r \in Deciders, NEW d \in 1 .. Len(decisions),
           ReturnExisting(r, d), UNCHANGED <<analyses, decisions>>
    PROVE  requests' \in [Deciders -> Request] /\ RequestsChecked' /\ AnswersMatch'
<1>1. requests \in [Deciders -> Request] /\ d \in Nat
  BY DEF LedgerInvariant, TypeOK
<1>2. PICK pc \in {"answered", "refused"} :
         /\ requests' = [requests EXCEPT ![r].pc = pc, ![r].answer = d]
         /\ pc = "answered" => SameRequest(r, d)
  BY DEF ReturnExisting
<1>3. requests' \in [Deciders -> Request]
  BY <1>1, <1>2 DEF Request
<1>4. /\ \A q \in Deciders : q # r => requests'[q] = requests[q]
      /\ requests'[r].pc = pc /\ requests'[r].answer = d
      /\ requests'[r].analysis = requests[r].analysis /\ requests'[r].kind = requests[r].kind
      /\ requests'[r].key = requests[r].key
  BY <1>1, <1>2 DEF Request
<1>5. RequestsChecked'
  BY <1>4 DEF LedgerInvariant, RequestsChecked
<1>6. AnswersMatch'
  BY <1>2, <1>4 DEF LedgerInvariant, AnswersMatch, SameRequest
<1> QED BY <1>3, <1>5, <1>6

LEMMA DeciderReads ==
    ASSUME LedgerInvariant, NEW r \in Deciders,
           \/ \E kind \in Kinds, key \in Keys : DecideBegin(r, kind, key)
           \/ DecideLookup(r) \/ DecideRead(r) \/ DecideConflict(r)
    PROVE  LedgerInvariant'
<1>0. requests \in [Deciders -> Request] /\ RequestsChecked /\ AnswersMatch
  BY DEF LedgerInvariant, TypeOK
<1>1. UNCHANGED <<projection, analyses, decisions, events, planned, asked, workers, polling, faults>>
  BY DEF DecideBegin, DecideLookup, DecideRead, DecideConflict
<1>2. ASSUME NEW kind \in Kinds, NEW key \in Keys, DecideBegin(r, kind, key)
      PROVE  LedgerInvariant'
  <2>1. PICK n \in 1 .. Len(analyses) :
          requests' = [requests EXCEPT ![r] = [pc |-> "begun", analysis |-> n, kind |-> kind,
                                               key |-> key, answer |-> 0]]
    BY <1>2 DEF DecideBegin
  <2>2. n \in Nat
    BY <2>1 DEF LedgerInvariant, TypeOK
  <2>3. requests' \in [Deciders -> Request]
    BY <1>0, <2>1, <2>2 DEF Request
  <2>4. RequestsChecked' /\ AnswersMatch'
    BY <1>0, <1>1, <2>1 DEF RequestsChecked, AnswersMatch, SameRequest
  <2> QED BY <1>1, <2>3, <2>4, RequestMoves
<1>3. ASSUME NEW pc \in {"looked", "read", "refused"},
             requests' = [requests EXCEPT ![r].pc = pc],
             pc \in {"looked", "read"} => requests[r].analysis \in 1 .. Len(analyses),
             pc = "read" /\ requests[r].kind = "approved" =>
                analyses[requests[r].analysis] \notin Unmet
      PROVE  LedgerInvariant'
  <2>1. requests' \in [Deciders -> Request]
    BY <1>0, <1>3 DEF Request
  <2>2. RequestsChecked' /\ AnswersMatch'
    BY <1>0, <1>1, <1>3 DEF RequestsChecked, AnswersMatch, SameRequest
  <2> QED BY <1>1, <2>1, <2>2, RequestMoves
<1>4. ASSUME NEW d \in Keyed(requests[r].key), ReturnExisting(r, d) PROVE LedgerInvariant'
  <2>1. d \in 1 .. Len(decisions)
    BY <1>4 DEF Keyed
  <2> QED BY <1>1, <1>4, <2>1, ReturnKeeps, RequestMoves
<1>5. CASE DecideLookup(r)
  <2>1. CASE requests' = [requests EXCEPT ![r].pc = "looked"]
    <3>1. requests[r].analysis \in 1 .. Len(analyses)
      BY <1>0, <1>5 DEF RequestsChecked, DecideLookup
    <3> QED BY <1>3, <2>1, <3>1
  <2> QED BY <1>4, <1>5, <2>1 DEF DecideLookup
<1>6. CASE DecideRead(r)
  <2>1. requests[r].analysis \in 1 .. Len(analyses)
    BY <1>0, <1>6 DEF RequestsChecked, DecideRead
  <2>2. CASE requests' = [requests EXCEPT ![r].pc = "refused"]
    BY <1>3, <2>2
  <2>3. CASE /\ RequireCurrentAnalysis(r) /\ RevalidateSatisfactions(r)
             /\ requests' = [requests EXCEPT ![r].pc = "read"]
    BY <1>3, <2>1, <2>3 DEF RequireCurrentAnalysis, RevalidateSatisfactions
  <2> QED BY <1>6, <2>2, <2>3 DEF DecideRead
<1>7. CASE DecideConflict(r)
  BY <1>4, <1>7 DEF DecideConflict
<1> QED BY <1>2, <1>5, <1>6, <1>7

\* The commit: a new decision under a free key, with its event and projection.
LEMMA CommitKeeps ==
    ASSUME LedgerInvariant, NEW r \in Deciders, DecideCommit(r)
    PROVE  LedgerInvariant'
<1> DEFINE q == requests[r]
           d == Len(decisions) + 1
           new == [analysis |-> q.analysis, hash |-> analyses[q.analysis],
                   kind |-> q.kind, key |-> q.key]
           state == IF q.kind = "approved" THEN "open" ELSE "absent"
<1>1. /\ q.pc = "read" /\ KeyFree(r)
      /\ decisions' = Append(decisions, new) /\ events' = Append(events, state)
      /\ projection' = SetDecisionProjection(d, q.kind)
      /\ requests' = [requests EXCEPT ![r].pc = "answered", ![r].answer = d]
      /\ UNCHANGED <<analyses, planned, asked, workers, polling, faults>>
  BY DEF DecideCommit
<1>2. TypeOK /\ requests \in [Deciders -> Request] /\ q \in Request
  BY DEF LedgerInvariant, TypeOK
<1>3. /\ q.analysis \in 1 .. Len(analyses) /\ analyses[q.analysis] \in Materials
      /\ q.kind = "approved" => analyses[q.analysis] \notin Unmet
  BY <1>1, <1>2 DEF LedgerInvariant, RequestsChecked, TypeOK
<1>4. new \in Decision /\ state \in EventStates
  BY <1>2, <1>3 DEF Decision, Request, EventStates
<1>5. /\ decisions \in Seq(Decision) /\ Len(decisions) \in Nat
      /\ decisions' \in Seq(Decision) /\ Len(decisions') = d
      /\ d \in 1 .. d /\ \A e \in 1 .. Len(decisions) : e \in 1 .. d /\ e # d
      /\ \A e \in 1 .. d : e = d \/ e \in 1 .. Len(decisions)
      /\ decisions'[d] = new /\ \A e \in 1 .. Len(decisions) : decisions'[e] = decisions[e]
  BY <1>1, <1>2, <1>4 DEF TypeOK
<1>6. /\ events' \in Seq(EventStates) /\ Len(events') = Len(decisions')
      /\ events'[d] = state /\ \A e \in 1 .. Len(decisions) : events'[e] = events[e]
  BY <1>1, <1>2, <1>4, <1>5 DEF TypeOK
<1>7. /\ requests' \in [Deciders -> Request]
      /\ \A p \in Deciders : p # r => requests'[p] = requests[p]
      /\ requests'[r].pc = "answered" /\ requests'[r].answer = d
      /\ requests'[r].analysis = q.analysis /\ requests'[r].kind = q.kind
      /\ requests'[r].key = q.key
  <2>1. d \in Nat
    BY <1>5
  <2> QED BY <1>1, <1>2, <2>1 DEF Request
<1>8. /\ projection' \in [status : CaseStatus, analysis : Nat, hash : Materials \union {0},
                          decision : Nat]
      /\ projection'.decision = d
      /\ q.kind = "approved" => projection'.status = "action_planning"
      /\ q.kind # "approved" => projection'.status = "decision_rejected"
  <2>1. projection \in [status : CaseStatus, analysis : Nat, hash : Materials \union {0},
                        decision : Nat] /\ d \in Nat
    BY <1>2, <1>5 DEF TypeOK
  <2>2. PICK s \in CaseStatus :
           /\ projection' = [projection EXCEPT !.decision = d, !.status = s]
           /\ s = IF q.kind = "approved" THEN "action_planning" ELSE "decision_rejected"
    BY <1>1 DEF SetDecisionProjection, CaseStatus
  <2> QED BY <2>1, <2>2
<1>9. TypeOK'
  <2>1. planned' \subseteq 1 .. Len(decisions') /\ workers' \in [Workers -> 0 .. Len(decisions')]
    BY <1>1, <1>2, <1>5 DEF TypeOK
  <2> QED BY <1>1, <1>2, <1>5, <1>6, <1>7, <1>8, <2>1 DEF TypeOK
<1>10. SavedIsThere' /\ RequestsChecked'
  BY <1>1, <1>7 DEF LedgerInvariant, SavedIsThere, RequestsChecked
<1>11. KeysUnique'
  <2>1. \A e \in 1 .. Len(decisions) : decisions[e].key # new.key
    BY <1>1 DEF KeyFree, Keyed
  <2> QED BY <1>5, <2>1 DEF LedgerInvariant, KeysUnique
<1>12. DecisionsReadable'
  <2> SUFFICES ASSUME NEW e \in 1 .. Len(decisions') PROVE DecisionFromRow(e)'
    BY DEF DecisionsReadable
  <2> USE DEF DecisionFromRow, RequireAnalysisLineage, RequireDerivedSatisfactions,
              RequireOutboxCardinality
  <2>1. CASE e = d
    BY <1>1, <1>3, <1>5, <1>6, <2>1
  <2>2. CASE e # d
    <3>1. e \in 1 .. Len(decisions)
      BY <1>5, <2>2
    <3> QED BY <1>1, <1>5, <1>6, <3>1 DEF LedgerInvariant, DecisionsReadable
  <2> QED BY <2>1, <2>2
<1>13. AnswersMatch'
  <2>1. ASSUME NEW p \in Deciders, requests'[p].pc = "answered"
        PROVE  requests'[p].answer \in 1 .. Len(decisions') /\ SameRequest(p, requests[p].answer)'
    <3>1. CASE p = r
      BY <1>5, <1>7, <3>1 DEF SameRequest
    <3>2. CASE p # r
      BY <1>5, <1>7, <2>1, <3>2 DEF LedgerInvariant, AnswersMatch, SameRequest
    <3> QED BY <3>1, <3>2
  <2> QED BY <2>1 DEF AnswersMatch
<1>14. WorkersPlanApprovals'
  <2>1. ASSUME NEW w \in Workers, workers[w] # 0 PROVE workers[w] \in 1 .. Len(decisions)
    BY <1>2, <2>1 DEF TypeOK
  <2> QED BY <1>1, <1>5, <2>1 DEF LedgerInvariant, WorkersPlanApprovals
<1>15. PlannedIffProcessed'
  <2>1. d \notin planned' /\ state # "processed"
    BY <1>1, <1>2, <1>5 DEF TypeOK
  <2> QED BY <1>1, <1>5, <1>6, <2>1 DEF LedgerInvariant, PlannedIffProcessed
<1>16. StatusHasCause'
  <2>1. q.kind \in {"approved", "rejected"} /\ new.kind = q.kind
    BY <1>2 DEF Request, Kinds
  <2>2. CASE q.kind = "approved"
    BY <1>5, <1>8, <2>1, <2>2 DEF StatusHasCause
  <2>3. CASE q.kind = "rejected"
    BY <1>5, <1>8, <2>1, <2>3 DEF StatusHasCause
  <2> QED BY <2>1, <2>2, <2>3
<1> QED BY <1>9, <1>10, <1>11, <1>12, <1>13, <1>14, <1>15, <1>16 DEF LedgerInvariant

\* An event changes only between states an approval's event may have.
LEMMA EventKeepsReadable ==
    ASSUME LedgerInvariant, NEW d \in 1 .. Len(decisions), events[d] # "absent",
           NEW state \in EventStates \ {"absent"}, events' = [events EXCEPT ![d] = state],
           UNCHANGED <<analyses, decisions>>
    PROVE  /\ events' \in Seq(EventStates) /\ Len(events') = Len(decisions')
           /\ events'[d] = state /\ \A e \in 1 .. Len(decisions) : e # d => events'[e] = events[e]
           /\ DecisionsReadable'
<1>1. events \in Seq(EventStates) /\ Len(events) = Len(decisions)
  BY DEF LedgerInvariant, TypeOK
<1>2. /\ events' \in Seq(EventStates) /\ Len(events') = Len(decisions')
      /\ events'[d] = state /\ \A e \in 1 .. Len(decisions) : e # d => events'[e] = events[e]
  BY <1>1
<1>3. DecisionsReadable'
  BY <1>2 DEF LedgerInvariant, DecisionsReadable, DecisionFromRow, RequireAnalysisLineage,
              RequireDerivedSatisfactions, RequireOutboxCardinality
<1> QED BY <1>2, <1>3

LEMMA WorkerKeeps ==
    ASSUME LedgerInvariant, NEW w \in Workers,
           \/ \E d \in 1 .. Len(decisions) : Plan(w, d) \/ PlanFails(w, d)
           \/ Recover(w) \/ StartLoop(w) \/ LoopEnds(w)
    PROVE  LedgerInvariant'
<1>0. /\ TypeOK /\ workers \in [Workers -> 0 .. Len(decisions)] /\ faults \in Nat
      /\ polling \in SUBSET Workers
      /\ projection \in [status : CaseStatus, analysis : Nat, hash : Materials \union {0},
                         decision : Nat]
  BY DEF LedgerInvariant, TypeOK
<1>1. ASSUME NEW d \in 1 .. Len(decisions), Plan(w, d) PROVE LedgerInvariant'
  <2>1. /\ events[d] # "absent" /\ events' = [events EXCEPT ![d] = "processed"]
        /\ planned' = planned \union {d}
        /\ projection' = [projection EXCEPT !.status = "executing"]
        /\ UNCHANGED <<analyses, decisions, asked, requests, workers, polling, faults>>
    BY <1>1 DEF Plan, Claimable, Attempts
  <2>2. /\ events' \in Seq(EventStates) /\ Len(events') = Len(decisions') /\ events'[d] = "processed"
        /\ \A e \in 1 .. Len(decisions) : e # d => events'[e] = events[e]
        /\ DecisionsReadable'
    BY <2>1, EventKeepsReadable DEF EventStates
  <2>3. TypeOK'
    BY <1>0, <2>1, <2>2 DEF TypeOK, CaseStatus
  <2>4. SavedIsThere' /\ RequestsChecked' /\ KeysUnique' /\ AnswersMatch' /\ WorkersPlanApprovals'
    BY <2>1 DEF LedgerInvariant, SavedIsThere, RequestsChecked, KeysUnique, AnswersMatch,
                SameRequest, WorkersPlanApprovals
  <2>5. PlannedIffProcessed'
    BY <2>1, <2>2 DEF LedgerInvariant, PlannedIffProcessed
  <2>6. StatusHasCause'
    BY <1>0, <2>1 DEF LedgerInvariant, StatusHasCause
  <2> QED BY <2>2, <2>3, <2>4, <2>5, <2>6 DEF LedgerInvariant
<1>2. ASSUME NEW v \in 0 .. Len(decisions), workers' = [workers EXCEPT ![w] = v],
             v # 0 => decisions[v].kind = "approved", faults' \in Nat,
             polling' \in SUBSET Workers,
             UNCHANGED <<projection, analyses, decisions, events, planned, asked, requests>>
      PROVE  LedgerInvariant'
  <2>1. TypeOK'
    BY <1>0, <1>2 DEF TypeOK
  <2>2. SavedIsThere' /\ RequestsChecked' /\ AnswersMatch' /\ StatusHasCause'
    BY <1>2 DEF LedgerInvariant, SavedIsThere, RequestsChecked, AnswersMatch, SameRequest,
                StatusHasCause
  <2>3. WorkersPlanApprovals'
    BY <1>0, <1>2 DEF LedgerInvariant, WorkersPlanApprovals
  <2> QED BY <1>2, <2>1, <2>2, <2>3, LedgerStill, ReadableStill DEF LedgerInvariant
<1>3. ASSUME NEW d \in 1 .. Len(decisions), PlanFails(w, d) PROVE LedgerInvariant'
  <2>1. /\ events[d] # "absent" /\ workers' = [workers EXCEPT ![w] = d] /\ faults' = faults + 1
        /\ UNCHANGED <<projection, analyses, decisions, events, planned, asked, requests, polling>>
    BY <1>3 DEF PlanFails, Claimable, Attempts
  <2>2. decisions[d].kind = "approved"
    BY <2>1 DEF LedgerInvariant, DecisionsReadable, DecisionFromRow, RequireOutboxCardinality
  <2>3. d \in 0 .. Len(decisions) /\ faults' \in Nat
    BY <1>0, <2>1 DEF TypeOK
  <2> QED BY <1>0, <1>2, <2>1, <2>2, <2>3
<1>4. CASE LoopEnds(w) \/ (Recover(w) /\ ~Unprocessed(w))
  <2>1. 0 \in 0 .. Len(decisions)
    BY <1>0 DEF TypeOK
  <2>2. polling' \in SUBSET Workers
    BY <1>0, <1>4 DEF LoopEnds, Recover
  <2> QED BY <1>0, <1>2, <1>4, <2>1, <2>2 DEF LoopEnds, Recover
<1>6. CASE StartLoop(w)
  <2>1. polling' \in SUBSET Workers
    BY <1>0, <1>6 DEF StartLoop
  <2>2. 0 \in 0 .. Len(decisions) /\ workers' = [workers EXCEPT ![w] = 0]
    BY <1>0, <1>6 DEF StartLoop, TypeOK
  <2> QED BY <1>0, <1>2, <1>6, <2>1, <2>2 DEF StartLoop
<1>5. CASE Recover(w) /\ Unprocessed(w)
  <2> DEFINE d == workers[w]
  <2>1. /\ d # 0 /\ events[d] # "processed" /\ events' = [events EXCEPT ![d] = "failed"]
        /\ workers' = [workers EXCEPT ![w] = 0]
        /\ projection' = [projection EXCEPT !.status = "action_planning"]
        /\ UNCHANGED <<analyses, decisions, planned, asked, requests, polling, faults>>
    BY <1>5 DEF Recover, Unprocessed
  <2>2. d \in 1 .. Len(decisions) /\ decisions[d].kind = "approved" /\ 0 \in 0 .. Len(decisions)
    BY <1>0, <2>1 DEF LedgerInvariant, WorkersPlanApprovals, TypeOK
  <2>3. events[d] # "absent"
    BY <2>2 DEF LedgerInvariant, DecisionsReadable, DecisionFromRow, RequireOutboxCardinality
  <2>4. /\ events' \in Seq(EventStates) /\ Len(events') = Len(decisions') /\ events'[d] = "failed"
        /\ \A e \in 1 .. Len(decisions) : e # d => events'[e] = events[e]
        /\ DecisionsReadable'
    BY <2>1, <2>2, <2>3, EventKeepsReadable DEF EventStates
  <2>5. TypeOK'
    BY <1>0, <2>1, <2>2, <2>4 DEF TypeOK, CaseStatus
  <2>6. SavedIsThere' /\ RequestsChecked' /\ KeysUnique' /\ AnswersMatch'
    BY <2>1 DEF LedgerInvariant, SavedIsThere, RequestsChecked, KeysUnique, AnswersMatch,
                SameRequest
  <2>7. WorkersPlanApprovals'
    BY <1>0, <2>1 DEF LedgerInvariant, WorkersPlanApprovals
  <2>8. PlannedIffProcessed'
    BY <2>1, <2>2, <2>4 DEF LedgerInvariant, PlannedIffProcessed
  <2>9. StatusHasCause'
    BY <1>0, <2>1, <2>2 DEF LedgerInvariant, StatusHasCause
  <2> QED BY <2>4, <2>5, <2>6, <2>7, <2>8, <2>9 DEF LedgerInvariant
<1> QED BY <1>1, <1>3, <1>4, <1>5, <1>6

\* The invariant is inductive.
THEOREM LedgerInvariantHolds == Spec => []LedgerInvariant
<1>1. LedgerInvariant /\ [Next]_vars => LedgerInvariant'
  <2> SUFFICES ASSUME LedgerInvariant, [Next]_vars PROVE LedgerInvariant'
    OBVIOUS
  <2>1. CASE UNCHANGED vars
    <3>1. requests' \in [Deciders -> Request] /\ RequestsChecked' /\ AnswersMatch'
      BY <2>1 DEF vars, LedgerInvariant, TypeOK, RequestsChecked, AnswersMatch, SameRequest
    <3> QED BY <2>1, <3>1, RequestMoves DEF vars
  <2>2. CASE Next
    BY <2>2, AnalyzerKeeps, DeciderReads, CommitKeeps, WorkerKeeps DEF Next
  <2> QED BY <2>1, <2>2
<1> QED BY <1>1, LedgerInit, PTL DEF Spec

\* No key is decided twice, and every answer is a readable decision to the
\* request that gets it, for any number of concurrent requests.
THEOREM KeysDecideOnce == Spec => []KeyDecidesOnce
<1>1. LedgerInvariant => KeyDecidesOnce
  BY DEF LedgerInvariant, KeysUnique, AnswersMatch, DecisionsReadable, KeyDecidesOnce
<1> QED BY <1>1, LedgerInvariantHolds, PTL

\* A decision has actions exactly when its planning event is processed.
THEOREM PlanningIsRecorded == Spec => []PlannedIffProcessed
<1>1. LedgerInvariant => PlannedIffProcessed
  BY DEF LedgerInvariant
<1> QED BY <1>1, LedgerInvariantHolds, PTL

\* What the blindly overwritten status claims has happened.
THEOREM StatusesHaveCauses == Spec => []StatusHasCause
<1>1. LedgerInvariant => StatusHasCause
  BY DEF LedgerInvariant
<1> QED BY <1>1, LedgerInvariantHolds, PTL
=============================================================================
