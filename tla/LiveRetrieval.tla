---------------------------- MODULE LiveRetrieval ----------------------------
(***************************************************************************)
(* One live analysis from the moment its claim is taken: three sources are *)
(* read concurrently, what came back is validated, the deterministic       *)
(* analysis and the explaining agents run, and the result is stored.       *)
(*                                                                         *)
(* The supplier's e-mail and the quality post live in a mailbox and a      *)
(* channel other people write to: they are listed in one request and read  *)
(* in a later one, and may change in between.  The operational data comes  *)
(* from Fabric in one query.  A failing source ends the request; the other *)
(* retrievals are not cancelled and run on.  A shutdown cancels them all.  *)
(*                                                                         *)
(* A message: id, author, marked (it names the supplier), body, deleted.   *)
(* A body is "stated", "secret" (text the model boundary refuses) or       *)
(* "blank" (not usable).  "bound" is the id the configuration, or the      *)
(* case's reviewed e-mail, names; its reviewed text is "stated".           *)
(***************************************************************************)
EXTENDS TokenExchange, Naturals, Sequences, FiniteSets

CONSTANTS MaxChanges,     \* bound: changes other people make to the sources
          MaxCancels,     \* bound: cancellations of the request
          Stages,         \* the stages of the deterministic ranking
          Selections,     \* bound: the stage references an agent may answer with
          None

ASSUME RetrievalAssumption ==
    /\ MaxChanges \in Nat /\ MaxCancels \in Nat
    /\ Delegated = {"supplier", "quality"}

VARIABLES bound,       \* the case was created from a reviewed e-mail
          box,         \* the messages of each delegated source
          scope,       \* the quality team and channel are where they should be
          changes, cancels,
          at, session, listing, entity, failure, timed, stopped,
          fabric,      \* the operational retrieval
          answer,      \* what it returned, once it is looked at
          first,       \* the retrieval that failed first
          phase, report, flawed, signal, context, computed, seen, saved

sources == <<bound, box, scope, changes>>
reading == <<exchange, at, session, listing, entity, failure, timed, stopped, fabric, first>>
agents == <<flawed, signal, context, computed, seen>>
request == <<phase, report, answer, agents, saved>>
vars == <<sources, cancels, reading, request>>

Bodies == {"stated", "secret", "blank"}
Messages == [id : {"bound", "rival"}, author : {"expected", "other"}, marked : BOOLEAN,
             body : Bodies, deleted : BOOLEAN]

ASSUME NoneAssumption == None \notin Messages \cup Delegated \cup {"fabric"}

\* The evidence of an analysis and what each item has authority over.
Items == {"quantity", "qualification", "supplier", "quality"}
ItemScope == [i \in Items |->
    CASE i = "quantity" -> "OPERATIONAL_QUANTITY" [] i = "qualification" -> "QUALIFICATION_STATE"
      [] i = "supplier" -> "SUPPLIER_STATEMENT" [] i = "quality" -> "COLLABORATION_STATEMENT"]
References == [item : Items \cup {"invented"}, scope : {ItemScope[i] : i \in Items},
               grounded : BOOLEAN]

Running(s) == at[s] \in {"authentication", "discovery", "fetch"}
Open == {"gathering", "signal", "context", "deterministic", "decision"}

FailureStages == {"authentication", "discovery", "fetch", "validation", "timeout"}

FabricAnswers == [snapshot : {"claimed", "changed"}, complete : BOOLEAN,
                  quantity : {"stated", "secret"}, qualification : {"stated", "secret"}]

\* What the saved analysis holds.
SavedType == [evidence : [Items -> {"stated", "secret", "redacted"}],
              status : {"available", "rejected", "unavailable"},
              signal : SUBSET References, context : SUBSET References, explained : BOOLEAN]

Original(body) == [id |-> "bound", author |-> "expected", marked |-> TRUE, body |-> body,
                   deleted |-> FALSE]

Init ==
    /\ ExchangeInit
    /\ bound \in BOOLEAN /\ scope = TRUE
    /\ box = [s \in Delegated |-> {Original("stated")}]
    /\ changes = 0 /\ cancels = 0
    /\ at = [s \in Delegated |-> "authentication"] /\ session = [s \in Delegated |-> "none"]
    /\ listing = [s \in Delegated |-> None] /\ entity = [s \in Delegated |-> None]
    /\ failure = [s \in Delegated |-> "none"]
    /\ timed = [s \in Delegated |-> FALSE] /\ stopped = [s \in Delegated |-> FALSE]
    /\ fabric = "running" /\ answer = None /\ first = None
    /\ phase = "gathering" /\ report = None
    /\ flawed = FALSE /\ signal = {} /\ context = {} /\ computed = 0 /\ seen = {}
    /\ saved = None

-----------------------------------------------------------------------------
(* The sources, as other people change them. *)

\* A message is withdrawn, rewritten or joined by a second one that looks
\* like it; a withdrawn mail is gone, a withdrawn post leaves a tombstone.
Withdrawn(s, m) == IF s = "supplier" THEN box[s] \ {m}
                   ELSE (box[s] \ {m}) \cup {[m EXCEPT !.deleted = TRUE]}
Rivals == {[Original("stated") EXCEPT !.id = "rival"],
           [Original("stated") EXCEPT !.id = "rival", !.author = "other"]}

ChangeSource(s) ==
    /\ changes < MaxChanges /\ at[s] \in {"discovery", "fetch"}
    /\ changes' = changes + 1
    /\ \/ /\ \/ \E m \in box[s] : box' = [box EXCEPT ![s] = Withdrawn(s, m)]
             \/ \E m \in box[s], b \in Bodies \ {"stated"} :
                  box' = [box EXCEPT ![s] = (@ \ {m}) \cup {[m EXCEPT !.body = b]}]
             \/ \E m \in Rivals : box' = [box EXCEPT ![s] = @ \cup {m}]
          /\ UNCHANGED scope
       \/ /\ s = "quality" /\ scope /\ scope' = FALSE /\ UNCHANGED box
    /\ UNCHANGED <<bound, cancels, reading, request>>

-----------------------------------------------------------------------------
(* One delegated retrieval: token, listing, reading, validation. *)

ByInbox(s) == s = "supplier" /\ bound

\* Mutant: a timeout is reported as the stage it struck in.
RaisedUntimed(s, stage) == IF stopped[s] THEN "cancelled" ELSE IF ByInbox(s) THEN "inbound"
                           ELSE stage

\* What the retrieval raises after failing in a stage.  A reviewed e-mail is
\* read again by other code, which does not name its source.
Raised(s, stage) == IF stopped[s] THEN "cancelled" ELSE IF ByInbox(s) THEN "inbound"
                    ELSE IF timed[s] THEN "timeout" ELSE stage

\* asyncio.gather hands the request the first failure.
FirstFailure(s) == IF first = None THEN s ELSE first

\* The finally blocks: the session forgets its headers.
Closed(s) == [session EXCEPT ![s] = IF @ = "open" THEN "closed" ELSE @]

Fail(s, stage) ==
    /\ at' = [at EXCEPT ![s] = "failed"]
    /\ failure' = [failure EXCEPT ![s] = Raised(s, stage)]
    /\ first' = FirstFailure(s)
    /\ session' = Closed(s)

BeginRetrieval(s) ==
    /\ at[s] = "authentication" /\ exchange[s].caller = "idle"
    /\ BeginExchange(s)
    /\ UNCHANGED <<sources, cancels, at, session, listing, entity, failure, timed, stopped, fabric,
                   first, request>>

ExchangeRuns(s) ==
    /\ ExchangeStep(s)
    /\ UNCHANGED <<sources, cancels, at, session, listing, entity, failure, timed, stopped, fabric,
                   first, request>>

\* The exchange is over.  The token goes into the session and nowhere else;
\* the session must be initialized.
Authenticated(s) ==
    /\ at[s] = "authentication" /\ exchange[s].caller = "ended"
    /\ \/ /\ exchange[s].outcome # "token" /\ Fail(s, "authentication")
       \/ /\ exchange[s].outcome = "token"
          /\ at' = [at EXCEPT ![s] = "discovery"]
          /\ session' = [session EXCEPT ![s] = "open"]
          /\ UNCHANGED <<failure, first>>
    /\ UNCHANGED <<sources, cancels, exchange, listing, entity, timed, stopped, fabric, request>>

\* _mail_candidate and the loop over posts: by the configured author, about
\* the supplier, and not deleted.
Candidate(m) == m.author = "expected" /\ m.marked /\ ~m.deleted

\* review_email looks the message up by its Internet Message-ID instead.
Listed(s) == IF ByInbox(s) THEN {m \in box[s] : m.id = "bound"}
             ELSE {m \in box[s] : Candidate(m)}

\* discover_structured: exactly one candidate, in the configured place, and
\* it must be the configured message.
Discover(s) ==
    /\ at[s] = "discovery"
    /\ \/ \E m \in Listed(s) :
            /\ Listed(s) = {m} /\ m.id = "bound" /\ (s = "quality" => scope)
            /\ listing' = [listing EXCEPT ![s] = m]
            /\ at' = [at EXCEPT ![s] = "fetch"]
            /\ UNCHANGED <<session, failure, first>>
       \/ /\ \/ Cardinality(Listed(s)) # 1 \/ (s = "quality" /\ ~scope)
             \/ \E m \in Listed(s) : m.id # "bound"
          /\ Fail(s, "discovery") /\ UNCHANGED listing
    /\ UNCHANGED <<sources, cancels, exchange, entity, timed, stopped, fabric, request>>

\* _text: something is left once the markup is taken away, and not too much.
Usable(m) == m.body # "blank"

\* evidence_from_message: the entity read is the message listed, by the
\* configured author, not deleted, with usable text.
ValidEntity(m) == Candidate(m) /\ m.id = "bound" /\ Usable(m)

\* Mutant: the fingerprint is taken from the listed row.
FingerprintOfRow(s, m) == ~ByInbox(s) \/ listing[s].body = "stated"

\* review_email compares the fingerprint of the entity it has just read, and
\* retrieve_bound_supplier_signal the facts stated in it.
FingerprintMatches(s, m) == ~ByInbox(s) \/ m.body = "stated"

\* A message that is gone is answered with an error.
Fetch(s) ==
    /\ at[s] = "fetch"
    /\ \/ \E m \in box[s] :
            /\ m.id = listing[s].id
            /\ \/ /\ ValidEntity(m) /\ FingerprintMatches(s, m)
                  /\ entity' = [entity EXCEPT ![s] = m]
                  /\ at' = [at EXCEPT ![s] = "done"]
                  /\ session' = Closed(s)
                  /\ UNCHANGED <<failure, first>>
               \/ /\ ~(ValidEntity(m) /\ FingerprintMatches(s, m))
                  /\ Fail(s, "validation") /\ UNCHANGED entity
       \/ /\ \A m \in box[s] : m.id # listing[s].id
          /\ Fail(s, "fetch") /\ UNCHANGED entity
    /\ UNCHANGED <<sources, cancels, exchange, listing, timed, stopped, fabric, request>>

\* The service, or the protocol spoken with it, fails in the present stage.
ServiceFails(s) ==
    /\ at[s] \in {"discovery", "fetch"} /\ Fail(s, at[s])
    /\ UNCHANGED <<sources, cancels, exchange, listing, entity, timed, stopped, fabric, request>>

\* Mutant: the timeout covers the token exchange only.
TimerBeforeSession(s) ==
    /\ at[s] = "authentication" /\ exchange[s].due /\ ~timed[s]
    /\ timed' = [timed EXCEPT ![s] = TRUE]
    /\ exchange' = [exchange EXCEPT ![s] = Interrupted(@)]
    /\ UNCHANGED <<sources, cancels, at, failure, first, session, listing, entity, stopped, fabric,
                   request>>

\* asyncio.timeout over the whole retrieval: ten times the budget of the
\* exchange.  In the exchange it is a cancellation, which the cleanup
\* outlasts; afterwards it ends the retrieval at once.
SourceTimer(s) ==
    /\ Running(s) /\ ~timed[s]
    /\ timed' = [timed EXCEPT ![s] = TRUE]
    /\ \/ /\ at[s] = "authentication" /\ exchange[s].due
          /\ exchange' = [exchange EXCEPT ![s] = Interrupted(@)]
          /\ UNCHANGED <<at, failure, first, session>>
       \/ /\ at[s] # "authentication"
          /\ at' = [at EXCEPT ![s] = "failed"]
          /\ failure' = [failure EXCEPT ![s] = IF ByInbox(s) THEN "inbound" ELSE "timeout"]
          /\ first' = FirstFailure(s) /\ session' = Closed(s) /\ UNCHANGED exchange
    /\ UNCHANGED <<sources, cancels, listing, entity, stopped, fabric, request>>

\* FabricLiveOperationalDataPort: one query in a thread, verified source or
\* an error.
FabricAnswersOrFails ==
    /\ fabric = "running"
    /\ \/ fabric' = "done" /\ UNCHANGED first
       \/ fabric' = "failed" /\ first' = FirstFailure("fabric")
    /\ UNCHANGED <<sources, cancels, exchange, at, session, listing, entity, failure, timed, stopped,
                   request>>

-----------------------------------------------------------------------------
(* The request waiting for the three. *)

\* A shutdown cancels the request and, through gather, every retrieval that
\* has not ended.  One that is cleaning up goes on with that.
Cleaning(s) == at[s] = "authentication" /\ exchange[s].caller # "idle"
Shutdown ==
    LET hit == {s \in Delegated : Running(s)}
        over == {s \in hit : ~Cleaning(s)}
    IN  /\ phase = "gathering" /\ first = None /\ cancels < MaxCancels
        /\ cancels' = cancels + 1
        /\ stopped' = [s \in Delegated |-> stopped[s] \/ s \in hit]
        /\ exchange' = [s \in Delegated |-> IF s \in hit \ over THEN Interrupted(exchange[s])
                                            ELSE exchange[s]]
        /\ at' = [s \in Delegated |-> IF s \in over THEN "failed" ELSE at[s]]
        /\ failure' = [s \in Delegated |-> IF s \in over THEN "cancelled" ELSE failure[s]]
        /\ session' = [s \in Delegated |-> IF s \in over THEN Closed(s)[s] ELSE session[s]]
        /\ fabric' = IF fabric = "running" THEN "cancelled" ELSE fabric
        /\ first' = IF fabric = "running" THEN "fabric"
                    ELSE IF over # {} THEN CHOOSE s \in over : TRUE ELSE None
        /\ UNCHANGED <<sources, listing, entity, timed, request>>

WasCancelled(s) == IF s = "fabric" THEN fabric = "cancelled" ELSE failure[s] = "cancelled"

\* LiveSourceUnavailable names a source only for a WorkIQSourceError.
SourceFailure(s) == IF s # "fabric" /\ ~ByInbox(s) THEN <<s, failure[s]>> ELSE None

\* The first failure reaches create(): the claim is released and the caller
\* is told which source failed where.  A cancellation passes through, and
\* the claim waits for its lease to expire.
GatherFails ==
    /\ phase = "gathering" /\ first # None
    /\ \/ /\ WasCancelled(first) /\ phase' = "cancelled" /\ UNCHANGED report
       \/ /\ ~WasCancelled(first) /\ phase' = "failed"
          /\ report' = SourceFailure(first)
    /\ UNCHANGED <<sources, cancels, reading, answer, agents, saved>>

\* The evidence of the analysis: what each item says.
Body(i) == IF i \in Delegated THEN entity[i].body ELSE answer[i]

\* validate_operational and the checks of the three collections: the
\* snapshot is the one the claim was taken for, and nothing is missing.
LiveEvidenceComplete(a) == a.snapshot = "claimed" /\ a.complete

GatherReturns ==
    /\ phase = "gathering" /\ first = None /\ fabric = "done"
    /\ \A s \in Delegated : at[s] = "done"
    /\ \E a \in FabricAnswers :
         /\ answer' = a
         /\ phase' = IF LiveEvidenceComplete(a) THEN "signal" ELSE "failed"
    /\ UNCHANGED <<sources, cancels, reading, report, agents, saved>>

-----------------------------------------------------------------------------
(* The explaining agents around the deterministic analysis. *)

SignalScopes == {"SUPPLIER_STATEMENT"}
ContextScopes == {"COLLABORATION_STATEMENT", "QUALIFICATION_STATE"}

\* _evidence_payload: the items of the agent's scopes.
Payload(scopes) == {i \in Items : ItemScope[i] \in scopes}

\* _contains_sensitive, over the normalized text.
Sensitive(i) == Body(i) = "secret"

\* _validate_evidence_payload: no sensitive text goes to an agent.
WithinBoundary(items) == \A i \in items : ~Sensitive(i)

\* _parse_extraction: every reference is to a supplied item, in a scope of
\* the purpose that the item has, and quotes it.
Grounded(refs, scopes) ==
    \A r \in refs : /\ r.item \in Payload(scopes) /\ r.scope \in scopes
                    /\ r.scope = ItemScope[r.item] /\ r.grounded

\* Mutant: the analysis is computed wherever it is asked for.
AnalyzeAgain == computed + 1

\* analyze_once.
AnalyzeOnce == IF computed = 0 THEN 1 ELSE computed

\* _safe_partial with the explanation "unavailable".
SafePartial ==
    [evidence |-> [i \in Items |-> IF Sensitive(i) THEN "redacted" ELSE Body(i)],
     status |-> "unavailable", signal |-> {}, context |-> {}, explained |-> FALSE]

\* complete_analysis_claim, unless the claim was lost meanwhile.
Deliver(result) == \/ phase' = "saved" /\ saved' = result
                   \/ phase' = "yielded" /\ UNCHANGED saved

\* An exception anywhere in the workflow: the analysis is taken from the
\* workflow if it got that far, and computed otherwise, if it can be.
Abort ==
    /\ computed' = AnalyzeOnce /\ Deliver(SafePartial)
    /\ UNCHANGED <<flawed, signal, context, seen>>

\* The answers an agent may give: up to one reference, possibly invented.
Answers == {{}} \cup {{r} : r \in References}

\* One extraction agent is asked, if what it would see is within the boundary.
Ask(scopes, next) ==
    /\ WithinBoundary(Payload(scopes))
    /\ seen' = seen \cup {Body(i) : i \in Payload(scopes)}
    /\ phase' = next /\ UNCHANGED <<computed, saved>>

Refused(scopes) == ~WithinBoundary(Payload(scopes)) /\ Abort

\* An error or an ungrounded answer is dropped, and marks the explanation.
Kept(refs, scopes) == IF Grounded(refs, scopes) THEN refs ELSE {}
Flaws(refs, scopes) == flawed \/ ~Grounded(refs, scopes)

Signal ==
    /\ phase = "signal"
    /\ \/ Refused(SignalScopes)
       \/ /\ Ask(SignalScopes, "context")
          /\ \E refs \in Answers : /\ signal' = Kept(refs, SignalScopes)
                                   /\ flawed' = Flaws(refs, SignalScopes)
          /\ UNCHANGED context
    /\ UNCHANGED <<sources, cancels, reading, report, answer>>

Context ==
    /\ phase = "context"
    /\ \/ Refused(ContextScopes)
       \/ /\ Ask(ContextScopes, "deterministic")
          /\ \E refs \in Answers : /\ context' = Kept(refs, ContextScopes)
                                   /\ flawed' = Flaws(refs, ContextScopes)
          /\ UNCHANGED signal
    /\ UNCHANGED <<sources, cancels, reading, report, answer>>

Deterministic ==
    /\ phase = "deterministic" /\ phase' = "decision"
    /\ computed' = AnalyzeOnce
    /\ UNCHANGED <<sources, cancels, reading, report, answer, flawed, signal, context, seen, saved>>

\* The analysis itself raises: _execute_workflow computes it once more for the
\* partial result, from the same command, and what that raises leaves it.
AnalysisRaises ==
    /\ \/ phase = "signal" /\ ~WithinBoundary(Payload(SignalScopes))
       \/ phase = "context" /\ ~WithinBoundary(Payload(ContextScopes))
       \/ phase = "deterministic"
    /\ phase' = "failed"
    /\ UNCHANGED <<sources, cancels, reading, report, answer, agents, saved>>

\* _parse_decision: the recommended option, and distinct stages of the
\* ranking, at least one if there are any.
Agrees(recommended, refs) ==
    /\ recommended
    /\ \A i, j \in 1 .. Len(refs) : i # j => refs[i] # refs[j]
    /\ \A i \in 1 .. Len(refs) : refs[i] \in Stages
    /\ Stages # {} => refs # <<>>

\* Mutant: only the last agent's failure counts.
StatusOfDecision(answered, agrees) ==
    IF ~answered THEN "unavailable" ELSE IF agrees THEN "available" ELSE "rejected"

\* DecisionExplanationExecutor: an earlier failure outweighs the answer.
ExplanationStatus(answered, agrees) ==
    IF flawed \/ ~answered THEN "unavailable" ELSE IF agrees THEN "available" ELSE "rejected"

Explained(status) ==
    IF status = "unavailable" THEN SafePartial
    ELSE [evidence |-> [i \in Items |-> Body(i)], status |-> status,
          signal |-> signal, context |-> context, explained |-> status = "available"]

\* _decision_payload: a ranking that may not be sent, or is too long.
RankingRefused ==
    /\ phase = "decision" /\ Abort
    /\ UNCHANGED <<sources, cancels, reading, report, answer>>

\* The decision agent is asked to name the option and the stages.
Decision ==
    /\ phase = "decision"
    /\ \E answered, recommended \in BOOLEAN, refs \in Selections :
         Deliver(Explained(ExplanationStatus(answered, Agrees(recommended, refs))))
    /\ UNCHANGED <<sources, cancels, reading, report, answer, agents>>

\* A shutdown while an agent is being asked: no handler catches it.
ShutdownExplaining ==
    /\ phase \in {"signal", "context", "decision"} /\ cancels < MaxCancels
    /\ cancels' = cancels + 1 /\ phase' = "cancelled"
    /\ UNCHANGED <<sources, reading, report, answer, agents, saved>>

Next ==
    \/ \E s \in Delegated : \/ ChangeSource(s) \/ BeginRetrieval(s) \/ ExchangeRuns(s)
                             \/ Authenticated(s) \/ Discover(s) \/ Fetch(s) \/ ServiceFails(s)
                             \/ SourceTimer(s)
    \/ FabricAnswersOrFails \/ Shutdown \/ ShutdownExplaining \/ GatherFails \/ GatherReturns
    \/ Signal \/ Context \/ Deterministic \/ AnalysisRaises \/ RankingRefused \/ Decision

Spec == Init /\ [][Next]_vars

\* The event loop, the threads and the timers keep going; the database
\* driver and the model client return or raise.  Nothing is assumed of Work
\* IQ, of the identity provider or of the people who write the messages.
Progress(s) ==
    /\ ExchangeProgress(s)
    /\ UNCHANGED <<sources, cancels, at, session, listing, entity, failure, timed, stopped, fabric,
                   first, request>>
Fairness ==
    /\ \A s \in Delegated : /\ WF_vars(BeginRetrieval(s)) /\ WF_vars(Progress(s))
                            /\ WF_vars(Authenticated(s)) /\ WF_vars(SourceTimer(s))
    /\ WF_vars(FabricAnswersOrFails) /\ WF_vars(GatherFails) /\ WF_vars(GatherReturns)
    /\ WF_vars(Signal) /\ WF_vars(Context) /\ WF_vars(Deterministic) /\ WF_vars(Decision)
FairSpec == Spec /\ Fairness

-----------------------------------------------------------------------------
\* A token exchange hands control back only when its thread is finished and
\* no request of its is on the wire, however often it was cancelled, and a
\* retrieval that is over has no session with a token in it.
NothingOutlivesExchange ==
    \A s \in Delegated :
        /\ exchange[s].caller = "ended" => Finished(exchange[s]) /\ ~InFlight(exchange[s])
        /\ ~Running(s) => session[s] # "open" /\ exchange[s].caller \in {"idle", "ended"}

\* What is stored was computed from the configured messages, as they were
\* read and not as they were listed, and for the snapshot that was claimed.
\* For a case created from a reviewed e-mail that means the reviewed text.
EvidenceIsBound ==
    saved # None =>
        /\ \A s \in Delegated : /\ entity[s].id = "bound" /\ entity[s].author = "expected"
                                /\ ~entity[s].deleted /\ entity[s].body # "blank"
        /\ bound => entity["supplier"].body = "stated"
        /\ answer.snapshot = "claimed" /\ answer.complete

\* The source and the stage a failed request names are where it failed: an
\* "authentication" had no session, a "discovery" found nothing, a "fetch"
\* or "validation" had found the message, and a timeout is called one.
ReportIsTruthful ==
    report # None =>
        LET s == report[1] stage == report[2] IN
        /\ entity[s] = None /\ ~ByInbox(s)
        /\ (stage = "timeout") <=> timed[s]
        /\ stage = "authentication" => session[s] = "none"
        /\ stage = "discovery" => session[s] = "closed" /\ listing[s] = None
        /\ stage \in {"fetch", "validation"} => listing[s] # None

\* A stored explanation is one every agent earned: nothing failed on the
\* way, each reference cites an item of this analysis for what that item has
\* authority over, and an unavailable explanation leaves nothing behind.
ExplanationEarned ==
    saved # None =>
        /\ saved.status = "available" => ~flawed
        /\ saved.explained <=> saved.status = "available"
        /\ \A r \in saved.signal \cup saved.context :
              r.item \in Items /\ r.scope = ItemScope[r.item] /\ r.grounded
        /\ saved.status = "unavailable" => saved.signal \cup saved.context = {}

\* Whatever the agents do, the deterministic analysis is computed once and
\* stored with all of its evidence; text is redacted only in an analysis
\* without explanation, and there it always is.  Text that violates the model
\* boundary reaches no agent, whichever source it came from.
AnalysisSurvivesAgents ==
    /\ "secret" \notin seen
    /\ saved # None =>
        /\ computed = 1
        /\ \A i \in Items :
              IF saved.status = "unavailable" /\ Body(i) = "secret"
              THEN saved.evidence[i] = "redacted" ELSE saved.evidence[i] = Body(i)

\* Every request comes to an end, and so does every retrieval it started,
\* also those it no longer waits for.
EverythingEnds == <>(phase \notin Open /\ \A s \in Delegated : ~Running(s))
==============================================================================
