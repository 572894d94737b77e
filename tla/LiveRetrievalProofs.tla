------------------------ MODULE LiveRetrievalProofs ------------------------
(* No retrieval leaves a thread, a request or a session behind, and only the *)
(* configured evidence is stored, whatever the sources and the timers do.    *)
EXTENDS LiveRetrieval, TLAPS

USE RetrievalAssumption

ReadingStages == {"authentication", "discovery", "fetch", "done", "failed"}
SessionStates == {"none", "open", "closed"}

ReadingTyped ==
    /\ exchange \in [Delegated -> ExchangeType]
    /\ at \in [Delegated -> ReadingStages]
    /\ session \in [Delegated -> SessionStates]
    /\ DOMAIN entity = Delegated

\* Only a begun exchange has used up its budget or made a request, and one
\* that is over has neither a thread nor a request.
ExchangesSettle ==
    \A s \in Delegated :
        /\ exchange[s].caller = "idle" => ~exchange[s].due /\ exchange[s].io = "none"
        /\ exchange[s].caller = "ended" => Finished(exchange[s]) /\ ~InFlight(exchange[s])

\* A retrieval goes on from its exchange when that is over; its session is
\* open from then until it ends.
SessionsFollow ==
    \A s \in Delegated :
        /\ at[s] # "authentication" => exchange[s].caller \in {"idle", "ended"}
        /\ at[s] \notin {"discovery", "fetch"} => session[s] # "open"

Configured(s) ==
    /\ entity[s].id = "bound" /\ entity[s].author = "expected"
    /\ ~entity[s].deleted /\ entity[s].body # "blank"
    /\ ByInbox(s) => entity[s].body = "stated"

\* What has been read is the configured message; the request goes past the
\* gathering only with all of it, and with the operational data it claimed.
ReadAsConfigured ==
    /\ \A s \in Delegated : at[s] = "done" => Configured(s)
    /\ phase \in {"signal", "context", "deterministic", "decision", "saved", "yielded"} =>
          /\ \A s \in Delegated : at[s] = "done"
          /\ LiveEvidenceComplete(answer)
    /\ saved # None => phase = "saved"

RetrievalInvariant ==
    ReadingTyped /\ ExchangesSettle /\ SessionsFollow /\ ReadAsConfigured

LEMMA RetrievalInit == Init => RetrievalInvariant
BY DEF Init, ExchangeInit, RetrievalInvariant, ReadingTyped, ExchangesSettle, SessionsFollow,
       ReadAsConfigured, ExchangeType, ReadingStages, SessionStates

-----------------------------------------------------------------------------
(* The token exchange by itself. *)

\* No step of an exchange touches another one, ends with a thread or request
\* alive, or takes an exchange that is over back.
LEMMA ExchangeStepSettles ==
    ASSUME NEW s \in Delegated, exchange \in [Delegated -> ExchangeType], ExchangesSettle,
           ExchangeStep(s)
    PROVE  /\ exchange' \in [Delegated -> ExchangeType] /\ ExchangesSettle'
           /\ exchange[s].caller # "idle"
           /\ \A r \in Delegated : r # s => exchange'[r] = exchange[r]
<1> DEFINE e == exchange[s]
<1> e \in ExchangeType
  OBVIOUS
<1> DEFINE Settled(x) == /\ x \in ExchangeType /\ x.caller # "idle"
                         /\ x.caller = "ended" => Finished(x) /\ ~InFlight(x)
<1>1. e.caller # "idle" /\ \E x : Settled(x) /\ exchange' = [exchange EXCEPT ![s] = x]
  <2>1. CASE Deadline(s)
    <3>1. exchange' = [exchange EXCEPT ![s] = [e EXCEPT !.due = TRUE]]
      BY <2>1 DEF Deadline
    <3>2. Settled([e EXCEPT !.due = TRUE]) /\ e.caller # "idle"
      BY <2>1 DEF Deadline, ExchangeType, Finished, InFlight
    <3> QED BY <3>1, <3>2
  <2>2. CASE ActorRefused(s)
    <3>1. exchange' = [exchange EXCEPT ![s] = [e EXCEPT !.worker = "failed"]]
      BY <2>2 DEF ActorRefused
    <3>2. Settled([e EXCEPT !.worker = "failed"]) /\ e.caller # "idle"
      BY <2>2 DEF ActorRefused, ExchangeType, ExchangesSettle, Finished, InFlight
    <3> QED BY <3>1, <3>2
  <2>3. CASE Submit(s)
    <3>1. \/ exchange' = [exchange EXCEPT ![s] = [e EXCEPT !.worker = "failed"]]
          \/ exchange' = [exchange EXCEPT ![s] = [e EXCEPT !.io = "flying"]]
      BY <2>3 DEF Submit
    <3>2. /\ Settled([e EXCEPT !.worker = "failed"]) /\ Settled([e EXCEPT !.io = "flying"])
          /\ e.caller # "idle"
      BY <2>3 DEF Submit, ExchangeType, ExchangesSettle, Finished, InFlight
    <3> QED BY <3>1, <3>2
  <2>4. CASE Respond(s) \/ RequestExpires(s) \/ Acknowledge(s)
    <3>1. PICK reply \in Sanitized : exchange' = [exchange EXCEPT ![s] = [e EXCEPT !.io = reply]]
      BY <2>4 DEF Respond, RequestExpires, Acknowledge, Sanitized
    <3>2. e.io \in {"flying", "dying"} /\ e.caller # "idle"
      BY <2>4 DEF Respond, RequestExpires, Acknowledge, ExchangesSettle, InFlight
    <3>3. Settled([e EXCEPT !.io = reply])
      BY <3>2 DEF ExchangeType, ExchangesSettle, Finished, InFlight, Sanitized
    <3> QED BY <3>1, <3>2, <3>3
  <2>5. CASE WorkerResumes(s)
    <3>1. e.caller # "idle" /\ ~Finished(e)
      BY <2>5 DEF WorkerResumes, ExchangesSettle, Finished
    <3>2. \/ exchange' = [exchange EXCEPT ![s] = [e EXCEPT !.worker = "token", !.io = "none"]]
          \/ exchange' = [exchange EXCEPT ![s] = [e EXCEPT !.worker = "holding"]]
          \/ exchange' = [exchange EXCEPT ![s] = [e EXCEPT !.worker = "failed"]]
          \/ exchange' = [exchange EXCEPT ![s] = [e EXCEPT !.worker = "failed", !.io = "dying"]]
      BY <2>5 DEF WorkerResumes
    <3>3. /\ Settled([e EXCEPT !.worker = "token", !.io = "none"])
          /\ Settled([e EXCEPT !.worker = "holding"]) /\ Settled([e EXCEPT !.worker = "failed"])
          /\ Settled([e EXCEPT !.worker = "failed", !.io = "dying"])
      BY <3>1 DEF ExchangeType, ExchangesSettle
    <3> QED BY <3>1, <3>2, <3>3
  <2>6. CASE CallerResumes(s)
    <3>1. \/ exchange' = [exchange EXCEPT ![s] = [Cancelled(e) EXCEPT !.caller = "cleaning",
                             !.outcome = IF e.worker = "holding" THEN "token" ELSE "refused"]]
          \/ exchange' = [exchange EXCEPT ![s] = [Cancelled(e) EXCEPT !.caller = "cleaning",
                             !.outcome = "refused"]]
      BY <2>6 DEF CallerResumes
    <3>2. \A o \in {"token", "refused"} :
             Settled([Cancelled(e) EXCEPT !.caller = "cleaning", !.outcome = o])
      <4>1. Cancelled(e) \in ExchangeType
        BY DEF Cancelled, ExchangeType
      <4> QED BY <4>1 DEF ExchangeType
    <3> QED BY <2>6, <3>1, <3>2 DEF CallerResumes
  <2>7. CASE Join(s)
    <3>1. exchange' = [exchange EXCEPT ![s] = [e EXCEPT !.caller = "ended",
                             !.outcome = IF e.interrupted THEN "cancelled" ELSE e.outcome]]
      BY <2>7 DEF Join
    <3>2. \A o \in {"cancelled", e.outcome} :
             Settled([e EXCEPT !.caller = "ended", !.outcome = o])
      BY <2>7 DEF Join, ExchangeType, Finished, InFlight
    <3> QED BY <2>7, <3>1, <3>2 DEF Join
  <2> QED BY <2>1, <2>2, <2>3, <2>4, <2>5, <2>6, <2>7 DEF ExchangeStep
<1>2. PICK x : Settled(x) /\ exchange' = [exchange EXCEPT ![s] = x]
  BY <1>1
<1>3. ExchangesSettle'
  BY <1>2 DEF ExchangesSettle
<1> QED BY <1>1, <1>2, <1>3

\* A cancellation of a begun exchange settles it no less.
LEMMA InterruptedSettles ==
    ASSUME NEW s \in Delegated, exchange \in [Delegated -> ExchangeType], ExchangesSettle,
           exchange[s].caller # "idle"
    PROVE  /\ Interrupted(exchange[s]) \in ExchangeType
           /\ Interrupted(exchange[s]).caller # "idle"
           /\ exchange[s].caller = "ended" => Interrupted(exchange[s]).caller = "ended"
           /\ Interrupted(exchange[s]).caller = "ended" =>
                 Finished(Interrupted(exchange[s])) /\ ~InFlight(Interrupted(exchange[s]))
<1> DEFINE e == exchange[s]
<1> e \in ExchangeType
  OBVIOUS
<1>1. CASE e.caller = "waiting"
  <2>1. Interrupted(e) = [Cancelled(e) EXCEPT !.caller = "cleaning", !.outcome = "cancelled"]
    BY <1>1 DEF Interrupted
  <2> QED BY <1>1, <2>1 DEF Cancelled, ExchangeType
<1>2. CASE e.caller = "cleaning"
  <2>1. Interrupted(e) = [e EXCEPT !.interrupted = TRUE]
    BY <1>2 DEF Interrupted
  <2> QED BY <1>2, <2>1 DEF ExchangeType
<1>3. CASE e.caller = "ended"
  <2>1. Interrupted(e) = [e EXCEPT !.outcome = "cancelled"]
    BY <1>3 DEF Interrupted
  <2> QED BY <1>3, <2>1 DEF ExchangeType, ExchangesSettle, Finished, InFlight
<1> QED BY <1>1, <1>2, <1>3 DEF ExchangeType

-----------------------------------------------------------------------------
(* The invariant, step by step. *)

\* The steps of one retrieval that leave its exchange alone.
LEMMA ReadingStepSafe ==
    ASSUME RetrievalInvariant, NEW s \in Delegated,
           Authenticated(s) \/ Discover(s) \/ Fetch(s) \/ ServiceFails(s)
    PROVE  RetrievalInvariant'
<1>1. UNCHANGED <<exchange, bound, phase, answer, saved>>
  BY DEF Authenticated, Discover, Fetch, ServiceFails, request, sources, agents
<1>2. at[s] # "done" /\ (at[s] = "authentication" => exchange[s].caller = "ended")
  BY DEF Authenticated, Discover, Fetch, ServiceFails
<1>3. \E stage \in ReadingStages, state \in SessionStates :
         /\ at' = [at EXCEPT ![s] = stage] /\ session' = [session EXCEPT ![s] = state]
         /\ stage # "authentication"
         /\ stage \notin {"discovery", "fetch"} => state # "open"
         /\ stage = "done" => Configured(s)'
         /\ DOMAIN entity' = Delegated
         /\ \A r \in Delegated : r # s => entity'[r] = entity[r]
  <2> USE DEF RetrievalInvariant, ReadingTyped, ReadingStages, SessionStates
  <2>1. CASE Authenticated(s)
    BY <2>1 DEF Authenticated, Fail, Closed
  <2>2. CASE Discover(s)
    BY <2>2 DEF Discover, Fail, Closed
  <2>3. CASE Fetch(s)
    BY <2>3, <1>1 DEF Fetch, Fail, Closed, ValidEntity, Candidate, Usable, FingerprintMatches,
                      Configured, ByInbox
  <2>4. CASE ServiceFails(s)
    BY <2>4 DEF ServiceFails, Fail, Closed
  <2> QED BY <2>1, <2>2, <2>3, <2>4
<1>4. ReadingTyped' /\ ExchangesSettle'
  BY <1>1, <1>3 DEF RetrievalInvariant, ReadingTyped, ExchangesSettle
<1>5. SessionsFollow'
  BY <1>1, <1>2, <1>3 DEF RetrievalInvariant, ReadingTyped, SessionsFollow
<1>6. ReadAsConfigured'
  BY <1>1, <1>2, <1>3 DEF RetrievalInvariant, ReadingTyped, ReadAsConfigured, Configured, ByInbox
<1> QED BY <1>4, <1>5, <1>6 DEF RetrievalInvariant

\* The steps of the exchange, and its beginning.
LEMMA ExchangeSafe ==
    ASSUME RetrievalInvariant, NEW s \in Delegated, BeginRetrieval(s) \/ ExchangeRuns(s)
    PROVE  RetrievalInvariant'
<1>1. UNCHANGED <<at, session, entity, bound, phase, answer, saved>>
  BY DEF BeginRetrieval, ExchangeRuns, request, sources
<1>2. /\ exchange' \in [Delegated -> ExchangeType] /\ ExchangesSettle'
      /\ at[s] # "authentication" => exchange'[s].caller \in {"idle", "ended"}
      /\ \A r \in Delegated : r # s => exchange'[r] = exchange[r]
  <2>1. CASE BeginRetrieval(s)
    BY <2>1 DEF BeginRetrieval, BeginExchange, RetrievalInvariant, ReadingTyped, ExchangesSettle,
                ExchangeType
  <2>2. CASE ExchangeRuns(s)
    <3>1. ExchangeStep(s)
      BY <2>2 DEF ExchangeRuns
    <3>2. at[s] # "authentication" => exchange[s].caller = "ended"
      BY <3>1, ExchangeStepSettles DEF RetrievalInvariant, ReadingTyped, SessionsFollow
    <3>3. exchange[s].caller = "ended" => exchange'[s].caller = "ended"
      BY <3>1 DEF ExchangeStep, Deadline, ActorRefused, Submit, Respond, RequestExpires,
                  Acknowledge, WorkerResumes, CallerResumes, Join, RetrievalInvariant,
                  ReadingTyped, ExchangeType
    <3> QED BY <3>1, <3>2, <3>3, ExchangeStepSettles DEF RetrievalInvariant, ReadingTyped
  <2> QED BY <2>1, <2>2
<1>3. ReadingTyped' /\ SessionsFollow'
  BY <1>1, <1>2 DEF RetrievalInvariant, ReadingTyped, SessionsFollow
<1>4. ReadAsConfigured'
  BY <1>1 DEF RetrievalInvariant, ReadAsConfigured, Configured, ByInbox
<1> QED BY <1>2, <1>3, <1>4 DEF RetrievalInvariant

LEMMA SourceTimerSafe ==
    ASSUME RetrievalInvariant, NEW s \in Delegated, SourceTimer(s) PROVE RetrievalInvariant'
<1>1. UNCHANGED <<entity, bound, phase, answer, saved>> /\ at[s] # "done"
  BY DEF SourceTimer, Running, request, sources
<1>2. CASE at[s] = "authentication"
  <2>1. /\ exchange' = [exchange EXCEPT ![s] = Interrupted(exchange[s])]
        /\ exchange[s].due /\ UNCHANGED <<at, session>>
    BY <1>2 DEF SourceTimer
  <2>2. exchange[s].caller # "idle"
    BY <2>1 DEF RetrievalInvariant, ExchangesSettle
  <2>3. exchange' \in [Delegated -> ExchangeType] /\ ExchangesSettle'
    BY <2>1, <2>2, InterruptedSettles DEF RetrievalInvariant, ReadingTyped, ExchangesSettle
  <2>4. ReadingTyped' /\ SessionsFollow'
    BY <1>1, <1>2, <2>1, <2>3 DEF RetrievalInvariant, ReadingTyped, SessionsFollow
  <2>5. ReadAsConfigured'
    BY <1>1, <2>1 DEF RetrievalInvariant, ReadAsConfigured, Configured, ByInbox
  <2> QED BY <2>3, <2>4, <2>5 DEF RetrievalInvariant
<1>3. CASE at[s] # "authentication"
  <2>1. /\ at' = [at EXCEPT ![s] = "failed"] /\ UNCHANGED exchange
        /\ session' = [session EXCEPT ![s] = IF @ = "open" THEN "closed" ELSE @]
    BY <1>3 DEF SourceTimer, Closed
  <2>2. ReadingTyped' /\ ExchangesSettle' /\ SessionsFollow'
    BY <1>1, <1>3, <2>1 DEF RetrievalInvariant, ReadingTyped, ReadingStages, SessionStates,
                            ExchangesSettle, SessionsFollow
  <2>3. ReadAsConfigured'
    BY <1>1, <2>1 DEF RetrievalInvariant, ReadingTyped, ReadAsConfigured, Configured, ByInbox
  <2> QED BY <2>2, <2>3 DEF RetrievalInvariant
<1> QED BY <1>2, <1>3

\* A shutdown reaches only a request that is still gathering.
LEMMA ShutdownSafe ==
    ASSUME RetrievalInvariant, Shutdown PROVE RetrievalInvariant'
<1> DEFINE hit == {s \in Delegated : Running(s)}
           over == {s \in hit : ~Cleaning(s)}
<1>1. /\ UNCHANGED <<entity, bound, phase, answer, saved>> /\ phase = "gathering"
      /\ exchange' = [s \in Delegated |-> IF s \in hit \ over THEN Interrupted(exchange[s])
                                           ELSE exchange[s]]
      /\ at' = [s \in Delegated |-> IF s \in over THEN "failed" ELSE at[s]]
      /\ session' = [s \in Delegated |-> IF s \in over THEN Closed(s)[s] ELSE session[s]]
  BY DEF Shutdown, request, sources
<1>2. \A s \in hit \ over : exchange[s].caller # "idle" /\ at[s] = "authentication"
  BY DEF Cleaning
<1>3. \A s \in over : exchange[s].caller \in {"idle", "ended"} /\ Closed(s)[s] \in {"none", "closed"}
  BY DEF Cleaning, Closed, RetrievalInvariant, ReadingTyped, SessionsFollow, SessionStates
<1>4. exchange' \in [Delegated -> ExchangeType]
  BY <1>1, <1>2, InterruptedSettles DEF RetrievalInvariant, ReadingTyped
<1>5. ExchangesSettle'
  BY <1>1, <1>2, InterruptedSettles DEF RetrievalInvariant, ReadingTyped, ExchangesSettle
<1>6. ReadingTyped'
  BY <1>1, <1>3, <1>4 DEF RetrievalInvariant, ReadingTyped, ReadingStages, SessionStates
<1>7. SessionsFollow'
  BY <1>1, <1>2, <1>3 DEF RetrievalInvariant, ReadingTyped, SessionsFollow, Running
<1>8. ReadAsConfigured'
  BY <1>1 DEF RetrievalInvariant, ReadAsConfigured, Configured, ByInbox
<1> QED BY <1>5, <1>6, <1>7, <1>8 DEF RetrievalInvariant

\* The request goes on, the retrievals stand still.
LEMMA RequestStepSafe ==
    ASSUME RetrievalInvariant,
           \/ GatherFails \/ GatherReturns \/ Signal \/ Context \/ Deterministic
           \/ AnalysisRaises \/ RankingRefused \/ Decision \/ ShutdownExplaining
    PROVE  RetrievalInvariant'
<1>1. UNCHANGED <<exchange, at, session, entity, bound>>
  BY DEF GatherFails, GatherReturns, Signal, Context, Deterministic, RankingRefused, Decision,
         AnalysisRaises, ShutdownExplaining, reading, sources
<1>2. ReadingTyped' /\ ExchangesSettle' /\ SessionsFollow'
  BY <1>1 DEF RetrievalInvariant, ReadingTyped, ExchangesSettle, SessionsFollow
<1>3. \A s \in Delegated : Configured(s)' <=> Configured(s)
  BY <1>1 DEF Configured, ByInbox
<1>4. CASE GatherFails \/ ShutdownExplaining \/ AnalysisRaises
  <2>1. phase' \in {"failed", "cancelled"} /\ saved' = saved /\ phase # "saved"
    BY <1>4 DEF GatherFails, ShutdownExplaining, AnalysisRaises
  <2> QED BY <1>1, <1>2, <1>3, <2>1 DEF RetrievalInvariant, ReadAsConfigured
<1>5. CASE GatherReturns
  BY <1>1, <1>2, <1>3, <1>5 DEF GatherReturns, RetrievalInvariant, ReadAsConfigured
<1>6. CASE Signal \/ Context \/ Deterministic \/ RankingRefused \/ Decision
  <2>1. /\ phase \in {"signal", "context", "deterministic", "decision"} /\ answer' = answer
        /\ phase' \in {"context", "deterministic", "decision", "saved", "yielded"}
        /\ saved' # saved => phase' = "saved"
    BY <1>6 DEF Signal, Context, Deterministic, RankingRefused, Decision, Refused, Ask, Abort,
                Deliver
  <2> QED BY <1>1, <1>2, <1>3, <2>1 DEF RetrievalInvariant, ReadAsConfigured, LiveEvidenceComplete
<1> QED BY <1>4, <1>5, <1>6

LEMMA RetrievalStep == RetrievalInvariant /\ [Next]_vars => RetrievalInvariant'
<1> SUFFICES ASSUME RetrievalInvariant, [Next]_vars PROVE RetrievalInvariant'
  OBVIOUS
<1>1. CASE UNCHANGED <<exchange, at, session, entity, bound, phase, answer, saved>>
  BY <1>1 DEF RetrievalInvariant, ReadingTyped, ExchangesSettle, SessionsFollow, ReadAsConfigured,
              Configured, ByInbox
<1>2. CASE FabricAnswersOrFails \/ (\E s \in Delegated : ChangeSource(s)) \/ UNCHANGED vars
  <2>1. UNCHANGED <<exchange, at, session, entity, bound, phase, answer, saved>>
    BY <1>2 DEF FabricAnswersOrFails, ChangeSource, vars, sources, reading, request
  <2> QED BY <1>1, <2>1
<1>3. ASSUME NEW s \in Delegated, \/ BeginRetrieval(s) \/ ExchangeRuns(s) \/ Authenticated(s)
                                  \/ Discover(s) \/ Fetch(s) \/ ServiceFails(s) \/ SourceTimer(s)
      PROVE  RetrievalInvariant'
  BY <1>3, ReadingStepSafe, ExchangeSafe, SourceTimerSafe
<1> QED BY <1>2, <1>3, ShutdownSafe, RequestStepSafe DEF Next

THEOREM RetrievalInvariantHolds == Spec => []RetrievalInvariant
BY RetrievalInit, RetrievalStep, PTL DEF Spec

-----------------------------------------------------------------------------
\* When the exchange hands control back its thread and requests are gone, and
\* a retrieval that is over holds no open session: the joined cleanup of
\* AsyncWorkIQOboExchange, for any number of cancellations.
THEOREM NothingIsLeftBehind == Spec => []NothingOutlivesExchange
<1>1. RetrievalInvariant => NothingOutlivesExchange
  BY DEF RetrievalInvariant, ReadingTyped, ExchangesSettle, SessionsFollow,
         NothingOutlivesExchange, Running
<1> QED BY <1>1, RetrievalInvariantHolds, PTL

\* What LiveAnalysisService stores rests on the configured messages as they
\* were read and on the operational data it claimed, however often the
\* sources change.
THEOREM StoredEvidenceIsBound == Spec => []EvidenceIsBound
<1>1. RetrievalInvariant => EvidenceIsBound
  BY DEF RetrievalInvariant, ReadAsConfigured, Configured, ByInbox, LiveEvidenceComplete,
         EvidenceIsBound
<1> QED BY <1>1, RetrievalInvariantHolds, PTL

-----------------------------------------------------------------------------
(* What the agents can do to the analysis. *)

\* No agent sees what the boundary refuses, what is kept of their answers
\* cites the evidence, and the analysis is computed once.
AgentsContained ==
    /\ "secret" \notin seen
    /\ \A r \in signal \cup context : r.item \in Items /\ r.scope = ItemScope[r.item] /\ r.grounded
    /\ phase \in {"gathering", "signal", "context", "deterministic"} => computed = 0
    /\ phase = "decision" => computed = 1

ExplanationInvariant == AgentsContained /\ ExplanationEarned /\ AnalysisSurvivesAgents

LEMMA ExplanationInit == Init => ExplanationInvariant
BY DEF Init, ExplanationInvariant, AgentsContained, ExplanationEarned, AnalysisSurvivesAgents

\* Once an analysis is stored no retrieval runs that could change its evidence.
LEMMA RetrievalsStandAside ==
    ASSUME RetrievalInvariant, ExplanationInvariant,
           \/ \E s \in Delegated :
                 \/ ChangeSource(s) \/ BeginRetrieval(s) \/ ExchangeRuns(s) \/ Authenticated(s)
                 \/ Discover(s) \/ Fetch(s) \/ ServiceFails(s) \/ SourceTimer(s)
           \/ FabricAnswersOrFails \/ Shutdown \/ UNCHANGED vars
    PROVE  ExplanationInvariant'
<1>1. UNCHANGED <<phase, answer, flawed, signal, context, computed, seen, saved>>
  BY DEF ChangeSource, BeginRetrieval, ExchangeRuns, Authenticated, Discover, Fetch, ServiceFails,
         SourceTimer, FabricAnswersOrFails, Shutdown, vars, reading, request, agents
<1>2. ASSUME saved # None PROVE entity' = entity
  <2>1. \A s \in Delegated : at[s] = "done"
    BY <1>2 DEF RetrievalInvariant, ReadAsConfigured
  <2> QED
    BY <2>1 DEF ChangeSource, BeginRetrieval, ExchangeRuns, Authenticated, Discover, Fetch,
                ServiceFails, SourceTimer, FabricAnswersOrFails, Shutdown, vars, reading
<1>3. saved # None => \A i \in Items : Body(i)' = Body(i)
  BY <1>1, <1>2 DEF Body
<1> QED BY <1>1, <1>3 DEF ExplanationInvariant, AgentsContained, ExplanationEarned,
                          AnalysisSurvivesAgents

\* Whatever is delivered as an explained or a partial result is as promised.
LEMMA PartialIsSafe ==
    /\ SafePartial.status = "unavailable" /\ ~SafePartial.explained
    /\ SafePartial.signal = {} /\ SafePartial.context = {}
    /\ \A i \in Items : SafePartial.evidence[i]
                          = IF Body(i) = "secret" THEN "redacted" ELSE Body(i)
BY DEF SafePartial, Sensitive

LEMMA AbortSafe ==
    ASSUME ExplanationInvariant, phase \in {"signal", "context", "decision"}, Abort,
           saved = None, UNCHANGED <<entity, answer>>
    PROVE  ExplanationInvariant'
<1>1. computed' = 1 /\ UNCHANGED <<flawed, signal, context, seen>>
  BY DEF Abort, AnalyzeOnce, ExplanationInvariant, AgentsContained
<1>2. /\ phase' \in {"saved", "yielded"} /\ (saved' = saved \/ saved' = SafePartial)
      /\ \A i \in Items : Body(i)' = Body(i)
  BY DEF Abort, Deliver, Body
<1>3. AgentsContained'
  BY <1>1, <1>2 DEF ExplanationInvariant, AgentsContained
<1>4. CASE saved' = saved
  BY <1>1, <1>3, <1>4 DEF ExplanationInvariant, AgentsContained, ExplanationEarned,
                          AnalysisSurvivesAgents
<1>5. CASE saved' = SafePartial
  <2>1. ExplanationEarned'
    BY <1>5, PartialIsSafe DEF ExplanationEarned
  <2>2. AnalysisSurvivesAgents'
    BY <1>1, <1>2, <1>3, <1>5, PartialIsSafe DEF AgentsContained, AnalysisSurvivesAgents
  <2> QED BY <1>3, <2>1, <2>2 DEF ExplanationInvariant
<1> QED BY <1>2, <1>4, <1>5

\* An extraction agent is asked within the boundary, and what it answers is
\* kept only if it cites what it was given.
LEMMA AskSafe ==
    ASSUME ExplanationInvariant, phase \in {"signal", "context"}, saved = None,
           NEW scopes, NEW next \in {"context", "deterministic"}, Ask(scopes, next),
           NEW refs, UNCHANGED answer,
           \/ signal' = Kept(refs, scopes) /\ UNCHANGED context
           \/ context' = Kept(refs, scopes) /\ UNCHANGED signal
    PROVE  ExplanationInvariant'
<1>1. /\ seen' = seen \cup {Body(i) : i \in Payload(scopes)} /\ phase' = next
      /\ computed' = computed /\ saved' = None
  BY DEF Ask
<1>2. \A i \in Payload(scopes) : Body(i) # "secret"
  BY DEF Ask, WithinBoundary, Sensitive
<1>3. \A r \in Kept(refs, scopes) : r.item \in Items /\ r.scope = ItemScope[r.item] /\ r.grounded
  BY DEF Kept, Grounded, Payload
<1>4. AgentsContained'
  BY <1>1, <1>2, <1>3 DEF ExplanationInvariant, AgentsContained
<1> QED BY <1>1, <1>4 DEF ExplanationInvariant, AgentsContained, ExplanationEarned,
                          AnalysisSurvivesAgents

\* The last agent's answer decides the status; the evidence it leaves alone.
LEMMA DecisionSafe ==
    ASSUME ExplanationInvariant, Decision, saved = None PROVE ExplanationInvariant'
<1>1. /\ phase = "decision" /\ UNCHANGED <<entity, answer, flawed, signal, context, computed, seen>>
      /\ phase' \in {"saved", "yielded"}
  BY DEF Decision, Deliver, reading, agents
<1>2. AgentsContained' /\ computed' = 1
  BY <1>1 DEF ExplanationInvariant, AgentsContained
<1>3. \A i \in Items : Body(i)' = Body(i)
  BY <1>1 DEF Body
<1>4. CASE saved' = saved
  BY <1>1, <1>2, <1>3, <1>4 DEF ExplanationInvariant, AgentsContained, ExplanationEarned,
                                AnalysisSurvivesAgents
<1>5. CASE saved' # saved
  <2>1. PICK answered \in BOOLEAN, recommended \in BOOLEAN, refs \in Selections :
           saved' = Explained(ExplanationStatus(answered, Agrees(recommended, refs)))
    BY <1>5 DEF Decision, Deliver
  <2> DEFINE status == ExplanationStatus(answered, Agrees(recommended, refs))
  <2>2. status \in {"available", "rejected", "unavailable"} /\ (status = "available" => ~flawed)
    BY DEF ExplanationStatus
  <2>3. CASE status = "unavailable"
    <3>1. saved' = SafePartial
      BY <2>1, <2>3 DEF Explained
    <3>2. ExplanationEarned'
      BY <3>1, PartialIsSafe DEF ExplanationEarned
    <3>3. AnalysisSurvivesAgents'
      BY <1>2, <1>3, <3>1, PartialIsSafe DEF AgentsContained, AnalysisSurvivesAgents
    <3> QED BY <1>2, <3>2, <3>3 DEF ExplanationInvariant
  <2>4. CASE status # "unavailable"
    <3>1. /\ saved'.status = status /\ saved'.signal = signal /\ saved'.context = context
          /\ saved'.explained = (status = "available")
          /\ \A i \in Items : saved'.evidence[i] = Body(i)
      BY <2>1, <2>4 DEF Explained
    <3>2. ExplanationEarned'
      BY <1>1, <1>2, <2>2, <2>4, <3>1 DEF AgentsContained, ExplanationEarned
    <3>3. AnalysisSurvivesAgents'
      BY <1>2, <1>3, <2>4, <3>1 DEF AgentsContained, AnalysisSurvivesAgents
    <3> QED BY <1>2, <3>2, <3>3 DEF ExplanationInvariant
  <2> QED BY <2>3, <2>4
<1> QED BY <1>4, <1>5

LEMMA ExplanationStep ==
    RetrievalInvariant /\ ExplanationInvariant /\ [Next]_vars => ExplanationInvariant'
<1> SUFFICES ASSUME RetrievalInvariant, ExplanationInvariant, [Next]_vars
             PROVE  ExplanationInvariant'
  OBVIOUS
<1>1. phase # "saved" => saved = None
  BY DEF RetrievalInvariant, ReadAsConfigured
<1>2. CASE GatherFails \/ GatherReturns \/ ShutdownExplaining \/ AnalysisRaises
  <2>1. /\ phase # "saved" /\ UNCHANGED <<flawed, signal, context, computed, seen, saved>>
        /\ phase' \in {"failed", "cancelled"} \/ (phase = "gathering" /\ phase' = "signal")
    BY <1>2 DEF GatherFails, GatherReturns, ShutdownExplaining, AnalysisRaises, agents
  <2> QED BY <1>1, <2>1 DEF ExplanationInvariant, AgentsContained, ExplanationEarned,
                            AnalysisSurvivesAgents
<1>3. CASE Signal
  <2>1. phase = "signal" /\ UNCHANGED <<entity, answer>>
    BY <1>3 DEF Signal, reading
  <2>2. CASE Refused(SignalScopes)
    BY <1>1, <2>1, <2>2, AbortSafe DEF Refused
  <2>3. CASE ~Refused(SignalScopes)
    <3>1. PICK refs : signal' = Kept(refs, SignalScopes)
      BY <1>3, <2>3 DEF Signal
    <3>2. Ask(SignalScopes, "context") /\ UNCHANGED context
      BY <1>3, <2>3 DEF Signal
    <3> QED BY <1>1, <2>1, <3>1, <3>2, AskSafe
  <2> QED BY <2>2, <2>3
<1>4. CASE Context
  <2>1. phase = "context" /\ UNCHANGED <<entity, answer>>
    BY <1>4 DEF Context, reading
  <2>2. CASE Refused(ContextScopes)
    BY <1>1, <2>1, <2>2, AbortSafe DEF Refused
  <2>3. CASE ~Refused(ContextScopes)
    <3>1. PICK refs : context' = Kept(refs, ContextScopes)
      BY <1>4, <2>3 DEF Context
    <3>2. Ask(ContextScopes, "deterministic") /\ UNCHANGED signal
      BY <1>4, <2>3 DEF Context
    <3> QED BY <1>1, <2>1, <3>1, <3>2, AskSafe
  <2> QED BY <2>2, <2>3
<1>5. CASE Deterministic
  <2>1. /\ phase = "deterministic" /\ phase' = "decision" /\ computed' = AnalyzeOnce
        /\ UNCHANGED <<flawed, signal, context, seen, saved>>
    BY <1>5 DEF Deterministic
  <2> QED BY <1>1, <2>1 DEF AnalyzeOnce, ExplanationInvariant, AgentsContained,
                            ExplanationEarned, AnalysisSurvivesAgents
<1>6. CASE RankingRefused
  BY <1>1, <1>6, AbortSafe DEF RankingRefused, reading
<1>7. CASE Decision
  <2>1. saved = None
    BY <1>1, <1>7 DEF Decision
  <2> QED BY <1>7, <2>1, DecisionSafe
<1> QED BY <1>2, <1>3, <1>4, <1>5, <1>6, <1>7, RetrievalsStandAside DEF Next

\* The orchestrator's trust boundary: an explanation is stored as available
\* only if every agent succeeded, and cites the evidence of this analysis.
THEOREM ExplanationsAreEarned == Spec => []ExplanationEarned
<1>1. ExplanationInvariant => ExplanationEarned
  BY DEF ExplanationInvariant
<1> QED BY <1>1, ExplanationInit, ExplanationStep, RetrievalInvariantHolds, PTL DEF Spec

\* Whatever the agents answer, the deterministic analysis is computed once and
\* stored whole, and no refused text reaches an agent.
THEOREM AnalysesSurvive == Spec => []AnalysisSurvivesAgents
<1>1. ExplanationInvariant => AnalysisSurvivesAgents
  BY DEF ExplanationInvariant
<1> QED BY <1>1, ExplanationInit, ExplanationStep, RetrievalInvariantHolds, PTL DEF Spec

-----------------------------------------------------------------------------
(* What a failed request says of its sources. *)

\* What the stage in which a retrieval failed tells of it.
Told(s, stage) ==
    /\ (stage = "timeout") <=> timed[s]
    /\ stage = "authentication" => session[s] = "none"
    /\ stage = "discovery" => session[s] = "closed" /\ listing[s] = None
    /\ stage \in {"fetch", "validation"} => listing[s] # None

Reportable(s) == at[s] = "failed" /\ ~ByInbox(s) /\ failure[s] # "cancelled"

\* A retrieval has a session and a listing from the stage on that makes them,
\* and an entity when it is done.
StageExplains(s) ==
    /\ at[s] = "authentication" => session[s] = "none"
    /\ at[s] \in {"discovery", "fetch"} => session[s] = "open"
    /\ at[s] \in {"authentication", "discovery"} => listing[s] = None
    /\ at[s] = "fetch" => listing[s] # None
    /\ at[s] # "done" => entity[s] = None
    /\ Reportable(s) => Told(s, failure[s])

ReportTyped ==
    /\ box \in [Delegated -> SUBSET Messages]
    /\ timed \in [Delegated -> BOOLEAN]
    /\ DOMAIN listing = Delegated /\ DOMAIN failure = Delegated

ReportInvariant ==
    /\ ReportTyped
    /\ \A s \in Delegated : StageExplains(s)
    /\ first \in Delegated => at[first] = "failed"
    /\ first \in Delegated \cup {None, "fabric"}
    /\ report # None => \E s \in Delegated : Reportable(s) /\ report = <<s, failure[s]>>

LEMMA ReportInit == Init => ReportInvariant
BY NoneAssumption DEF Init, ReportInvariant, ReportTyped, StageExplains, Reportable, Told, Original,
                      Messages, Bodies

\* A retrieval that moves explains itself, the others are left alone, and a
\* retrieval that has been reported does not move.
LEMMA OneMoves ==
    ASSUME RetrievalInvariant, ReportInvariant, NEW s \in Delegated, Running(s),
           UNCHANGED <<box, bound, report>>, ReportTyped', StageExplains(s)',
           \A r \in Delegated : r # s =>
              /\ at'[r] = at[r] /\ session'[r] = session[r] /\ listing'[r] = listing[r]
              /\ entity'[r] = entity[r] /\ failure'[r] = failure[r] /\ timed'[r] = timed[r],
           first' = first \/ (first' = FirstFailure(s) /\ at'[s] = "failed")
    PROVE  ReportInvariant'
<1>1. \A r \in Delegated : r # s => StageExplains(r)' /\ (Reportable(r)' <=> Reportable(r))
  BY DEF ReportInvariant, StageExplains, Reportable, Told, ByInbox
<1>2. \A r \in Delegated : at[r] = "failed" => r # s
  BY DEF Running
<1>3. first' \in Delegated \cup {None, "fabric"} /\ (first' \in Delegated => at'[first'] = "failed")
  BY <1>2 DEF ReportInvariant, FirstFailure
<1>4. report' # None => \E r \in Delegated : Reportable(r)' /\ report' = <<r, failure'[r]>>
  BY <1>1, <1>2 DEF ReportInvariant, Reportable
<1> QED BY <1>1, <1>3, <1>4 DEF ReportInvariant

LEMMA MoveExplains ==
    ASSUME RetrievalInvariant, ReportInvariant, NEW s \in Delegated,
           \/ Authenticated(s) \/ Discover(s) \/ Fetch(s) \/ ServiceFails(s) \/ SourceTimer(s)
    PROVE  ReportInvariant'
<1>1. Running(s) /\ UNCHANGED <<box, bound, report>>
  BY DEF Authenticated, Discover, Fetch, ServiceFails, SourceTimer, Running, sources, request
<1>2. /\ at \in [Delegated -> ReadingStages] /\ session \in [Delegated -> SessionStates]
      /\ DOMAIN entity = Delegated /\ ReportTyped /\ StageExplains(s)
  BY DEF RetrievalInvariant, ReadingTyped, ReportInvariant
<1>3. ReportTyped'
  BY <1>1, <1>2 DEF Authenticated, Discover, Fetch, ServiceFails, SourceTimer, Fail, ReportTyped
<1>4. first' = first \/ (first' = FirstFailure(s) /\ at'[s] = "failed")
  BY <1>2 DEF Authenticated, Discover, Fetch, ServiceFails, SourceTimer, Fail
<1>5. \A r \in Delegated : r # s =>
         /\ at'[r] = at[r] /\ session'[r] = session[r] /\ listing'[r] = listing[r]
         /\ entity'[r] = entity[r] /\ failure'[r] = failure[r] /\ timed'[r] = timed[r]
  BY <1>2 DEF Authenticated, Discover, Fetch, ServiceFails, SourceTimer, Fail, Closed, ReportTyped
<1>6. ASSUME NEW stage \in {"authentication", "discovery", "fetch", "validation"}, Fail(s, stage),
             stage = "validation" => at[s] = "fetch", stage # "validation" => at[s] = stage,
             UNCHANGED <<listing, entity, timed>>
      PROVE  StageExplains(s)'
  <2>1. /\ at'[s] = "failed" /\ failure'[s] = Raised(s, stage)
        /\ session'[s] = IF session[s] = "open" THEN "closed" ELSE session[s]
    BY <1>2, <1>6 DEF Fail, Closed, ReportTyped
  <2>2. Reportable(s)' => failure'[s] = IF timed[s] THEN "timeout" ELSE stage
    BY <1>1, <2>1 DEF Reportable, Raised, ByInbox
  <2> QED BY <1>1, <1>2, <1>6, <2>1, <2>2 DEF StageExplains, Told, Reportable, ReportTyped
<1>7. StageExplains(s)'
  <2>1. CASE Authenticated(s)
    <3>1. CASE exchange[s].outcome = "token"
      BY <1>2, <2>1, <3>1 DEF Authenticated, StageExplains, Reportable, ReportTyped
    <3>2. CASE exchange[s].outcome # "token"
      BY <1>6, <2>1, <3>2 DEF Authenticated
    <3> QED BY <3>1, <3>2
  <2>2. CASE Discover(s)
    <3>1. CASE Fail(s, "discovery") /\ UNCHANGED listing
      BY <1>6, <2>2, <3>1 DEF Discover
    <3>2. CASE ~(Fail(s, "discovery") /\ UNCHANGED listing)
      <4>1. PICK m \in Listed(s) : listing' = [listing EXCEPT ![s] = m]
        BY <2>2, <3>2 DEF Discover
      <4>2. m \in Messages
        BY <1>2, <4>1 DEF Listed, ReportTyped
      <4> QED BY <1>2, <2>2, <3>2, <4>1, <4>2, NoneAssumption
              DEF Discover, StageExplains, Reportable, ReportTyped
    <3> QED BY <3>1, <3>2
  <2>3. CASE Fetch(s)
    <3>1. CASE (Fail(s, "fetch") \/ Fail(s, "validation")) /\ UNCHANGED entity
      BY <1>6, <2>3, <3>1 DEF Fetch
    <3>2. CASE ~((Fail(s, "fetch") \/ Fail(s, "validation")) /\ UNCHANGED entity)
      BY <1>2, <2>3, <3>2 DEF Fetch, Closed, StageExplains, Reportable
    <3> QED BY <3>1, <3>2
  <2>4. CASE ServiceFails(s)
    BY <1>6, <2>4 DEF ServiceFails
  <2>5. CASE SourceTimer(s)
    <3>1. CASE at[s] = "authentication"
      BY <1>2, <2>5, <3>1 DEF SourceTimer, StageExplains, Reportable, ReportTyped
    <3>2. CASE at[s] # "authentication"
      <4>1. /\ at'[s] = "failed" /\ timed'[s] = TRUE /\ UNCHANGED <<bound, entity>>
            /\ failure'[s] = IF ByInbox(s) THEN "inbound" ELSE "timeout"
        BY <1>2, <2>5, <3>2 DEF SourceTimer, ReportTyped, sources
      <4>2. at[s] \in {"discovery", "fetch"} /\ entity[s] = None
        BY <1>1, <1>2, <3>2 DEF Running, StageExplains
      <4>3. Reportable(s)' => failure'[s] = "timeout"
        BY <4>1 DEF Reportable, ByInbox
      <4>4. Reportable(s)' => Told(s, failure[s])'
        BY <4>1, <4>3 DEF Told
      <4> QED BY <4>1, <4>2, <4>4 DEF StageExplains
    <3> QED BY <3>1, <3>2
  <2> QED BY <2>1, <2>2, <2>3, <2>4, <2>5
<1> QED BY <1>1, <1>3, <1>4, <1>5, <1>7, OneMoves

\* Whom a shutdown stops has failed, and is not reported.
LEMMA ShutdownExplains ==
    ASSUME RetrievalInvariant, ReportInvariant, Shutdown PROVE ReportInvariant'
<1> DEFINE hit == {s \in Delegated : Running(s)}
           over == {s \in hit : ~Cleaning(s)}
<1>1. /\ UNCHANGED <<box, bound, listing, entity, timed, report>>
      /\ at' = [s \in Delegated |-> IF s \in over THEN "failed" ELSE at[s]]
      /\ failure' = [s \in Delegated |-> IF s \in over THEN "cancelled" ELSE failure[s]]
      /\ session' = [s \in Delegated |-> IF s \in over THEN Closed(s)[s] ELSE session[s]]
      /\ first' \in {"fabric", None} \cup over /\ first = None
  BY DEF Shutdown, request, sources
<1>2. ReportTyped'
  BY <1>1 DEF ReportInvariant, ReportTyped
<1>3. \A s \in Delegated : (Reportable(s)' <=> Reportable(s) /\ s \notin over)
                            /\ (at[s] = "failed" => s \notin over)
  BY <1>1 DEF Reportable, ByInbox, Running
<1>4. \A s \in Delegated : StageExplains(s)'
  <2> SUFFICES ASSUME NEW s \in Delegated PROVE StageExplains(s)'
    OBVIOUS
  <2>1. StageExplains(s)
    BY DEF ReportInvariant
  <2>2. CASE s \in over
    <3>1. at'[s] = "failed" /\ ~Reportable(s)' /\ entity'[s] = None
      BY <1>1, <1>3, <2>1, <2>2 DEF StageExplains, Running
    <3> QED BY <3>1 DEF StageExplains
  <2>3. CASE s \notin over
    <3>1. /\ at'[s] = at[s] /\ session'[s] = session[s] /\ failure'[s] = failure[s]
          /\ Reportable(s)' => Reportable(s)
      BY <1>1, <1>3, <2>3
    <3> QED BY <1>1, <2>1, <3>1 DEF StageExplains, Told
  <2> QED BY <2>2, <2>3
<1>5. first' \in Delegated \cup {None, "fabric"} /\ (first' \in Delegated => at'[first'] = "failed")
  BY <1>1, NoneAssumption, RetrievalAssumption
<1>6. report' # None => \E s \in Delegated : Reportable(s)' /\ report' = <<s, failure'[s]>>
  BY <1>1, <1>3 DEF ReportInvariant, Reportable
<1> QED BY <1>2, <1>4, <1>5, <1>6 DEF ReportInvariant

LEMMA ReportStep == RetrievalInvariant /\ ReportInvariant /\ [Next]_vars => ReportInvariant'
<1> SUFFICES ASSUME RetrievalInvariant, ReportInvariant, [Next]_vars PROVE ReportInvariant'
  OBVIOUS
<1>1. ASSUME NEW s \in Delegated, ChangeSource(s) PROVE ReportInvariant'
  <2>1. UNCHANGED <<bound, at, session, listing, entity, failure, timed, first, report>>
    BY <1>1 DEF ChangeSource, reading, request
  <2>2. box' \in [Delegated -> SUBSET Messages]
    <3>1. box \in [Delegated -> SUBSET Messages]
      BY DEF ReportInvariant, ReportTyped
    <3>2. Rivals \subseteq Messages
      BY DEF Rivals, Original, Messages, Bodies
    <3>3. \A m \in Messages : /\ [m EXCEPT !.deleted = TRUE] \in Messages
                              /\ \A b \in Bodies : [m EXCEPT !.body = b] \in Messages
      BY DEF Messages
    <3>4. CASE UNCHANGED box
      BY <3>1, <3>4
    <3>5. CASE \E m \in box[s] : box' = [box EXCEPT ![s] = Withdrawn(s, m)]
      <4>1. \A m \in box[s] : Withdrawn(s, m) \subseteq Messages
        BY <3>1, <3>3 DEF Withdrawn
      <4> QED BY <3>1, <3>5, <4>1
    <3>6. CASE \E m \in box[s], b \in Bodies :
                  box' = [box EXCEPT ![s] = (box[s] \ {m}) \cup {[m EXCEPT !.body = b]}]
      <4>1. PICK m \in box[s], b \in Bodies :
               box' = [box EXCEPT ![s] = (box[s] \ {m}) \cup {[m EXCEPT !.body = b]}]
        BY <3>6
      <4>2. (box[s] \ {m}) \cup {[m EXCEPT !.body = b]} \subseteq Messages
        <5>1. box[s] \subseteq Messages /\ m \in Messages
          BY <3>1, <4>1
        <5>2. [m EXCEPT !.body = b] \in Messages
          BY <3>3, <4>1, <5>1
        <5> QED BY <5>1, <5>2
      <4> QED BY <3>1, <4>1, <4>2
    <3>7. CASE \E m \in Rivals : box' = [box EXCEPT ![s] = box[s] \cup {m}]
      BY <3>1, <3>2, <3>7
    <3> QED BY <1>1, <3>4, <3>5, <3>6, <3>7 DEF ChangeSource
  <2> QED BY <2>1, <2>2 DEF ReportInvariant, ReportTyped, StageExplains, Reportable, Told, ByInbox
<1>2. CASE GatherFails
  <2>1. UNCHANGED <<box, bound, at, session, listing, entity, failure, timed, first>> /\ first # None
    BY <1>2 DEF GatherFails, sources, reading
  <2>2. \A s \in Delegated : (StageExplains(s)' <=> StageExplains(s))
                              /\ (Reportable(s)' <=> Reportable(s))
    BY <2>1 DEF StageExplains, Reportable, Told, ByInbox
  <2>3. CASE report' = report
    BY <2>1, <2>2, <2>3 DEF ReportInvariant, ReportTyped
  <2>4. CASE report' # report
    <3>1. report' = SourceFailure(first) /\ ~WasCancelled(first)
      BY <1>2, <2>4 DEF GatherFails
    <3>2. report' # None => /\ first \in Delegated /\ report' = <<first, failure[first]>>
                            /\ Reportable(first)
      BY <2>1, <3>1, RetrievalAssumption DEF SourceFailure, WasCancelled, Reportable, ReportInvariant
    <3> QED BY <2>1, <2>2, <3>2 DEF ReportInvariant, ReportTyped
  <2> QED BY <2>3, <2>4
<1>3. CASE \/ \E s \in Delegated : BeginRetrieval(s) \/ ExchangeRuns(s)
           \/ FabricAnswersOrFails \/ GatherReturns \/ Signal \/ Context \/ Deterministic
           \/ AnalysisRaises \/ RankingRefused \/ Decision \/ ShutdownExplaining \/ UNCHANGED vars
  <2>1. /\ UNCHANGED <<box, bound, at, session, listing, entity, failure, timed, report>>
        /\ first' = first \/ first' = FirstFailure("fabric")
    BY <1>3 DEF BeginRetrieval, ExchangeRuns, FabricAnswersOrFails, GatherReturns, Signal, Context,
                Deterministic, AnalysisRaises, RankingRefused, Decision, ShutdownExplaining, vars,
                sources, reading, request
  <2> QED BY <2>1, RetrievalAssumption DEF FirstFailure, ReportInvariant, ReportTyped, StageExplains,
                                           Reportable, Told, ByInbox
<1> QED BY <1>1, <1>2, <1>3, MoveExplains, ShutdownExplains DEF Next

\* The source and stage that LiveSourceUnavailable names are where the request
\* failed, however timers, cancellations and failures interleave.
THEOREM ReportsAreTruthful == Spec => []ReportIsTruthful
<1>1. ReportInvariant => ReportIsTruthful
  BY DEF ReportInvariant, StageExplains, Reportable, Told, ReportIsTruthful
<1> QED BY <1>1, ReportInit, ReportStep, RetrievalInvariantHolds, PTL DEF Spec
==============================================================================
