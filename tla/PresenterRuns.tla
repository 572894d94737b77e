---------------------------- MODULE PresenterRuns ----------------------------
(***************************************************************************)
(* Presenter runs: a case created from a reviewed supplier e-mail, and the *)
(* bounded history of such cases.                                          *)
(*                                                                         *)
(* Creating a run inserts the case and deletes the aggregates of the runs  *)
(* beyond the limit in one transaction, which holds an application lock.   *)
(* The lock keeps two such transactions apart and nothing else: while the  *)
(* delete statements run one after the other, the analysis, decision and   *)
(* execution components go on committing rows of the cases being deleted.  *)
(* What then protects the history are the foreign keys, the order of the   *)
(* statements and the rollback of the whole transaction.                   *)
(*                                                                         *)
(* A row is a pair <<case, table>>; a case has at most one row per table.  *)
(***************************************************************************)
EXTENDS SupplierInbox

CONSTANTS Mailboxes,       \* the mailboxes the planner may have
          Texts,           \* wordings of a statement
          Runs,            \* presenter run identifiers still to be minted
          Requests,        \* concurrent POST /api/inbox/cases
          Older,           \* presenter cases from before run identifiers
          Worked,          \* the transactions those cases have seen
          Outside,         \* other cases: automated tests, no supplier e-mail
          IdRank,          \* the order of case identifiers, hashes mostly
          HistoricalLimit, \* historical_limit
          None,            \* no case, no holder of the lock
          Offer,           \* the disruption and expedite offer on record
          Working,         \* the transactions of other components that occur
          MaxNow, MaxWrites, MaxEdits

ASSUME PresenterAssumption ==
    /\ HistoricalLimit \in Nat /\ MaxNow \in Nat
    /\ MaxWrites \in Nat /\ MaxEdits \in Nat

\* The identity of a message in a mailbox, and of the case made from it.
MessageIds == UNION {{box[i].id : i \in 1 .. Len(box)} : box \in Mailboxes}
CaseIds == Older \union Outside \union (MessageIds \X Runs)

\* What a message says, and the message with its envelope.
Facts == [original : Nat, partial : Nat, remaining : Nat, due : Nat, partialDue : Nat]
Bodies == [kind : {"statement"}, facts : Facts, text : Texts]
          \union [kind : {"unsupported", "unreadable"}]
InboxLocators == UNION {{box[i].locator : i \in 1 .. Len(box)} : box \in Mailboxes}
Messages == [locator : InboxLocators \union {"copy"}, id : MessageIds,
             envelope : {"supplier", "other", "malformed"}, body : Bodies]

\* Messages are well-formed, identifiers are compared as text, so no two are
\* equal in rank, and the database holds finitely many cases to begin with.
ASSUME IdentityAssumption ==
    /\ Mailboxes \subseteq Seq(Messages)
    /\ IdRank \in [CaseIds -> Nat]
    /\ \A c, d \in CaseIds : IdRank[c] = IdRank[d] => c = d
    /\ IsFiniteSet(Older) /\ IsFiniteSet(Outside)
    /\ None \notin Requests /\ "script" \notin Requests /\ None # "script"

----------------------------------------------------------------------------
(* The schema: which tables a row refers to.  The reference of one selection
   to the selection it replaces is a row of its own, selection_links. *)
CaseReferences ==
    [case_instances |-> {},
     operational_snapshots |-> {"case_instances"},
     analysis_claims |-> {"case_instances"},
     case_proposal_selections |-> {"case_instances", "analysis_versions",
                                   "finance_review_revisions"},
     selection_links |-> {"case_proposal_selections"}]
AnalysisReferences ==
    [case_projection |-> {"case_instances", "analysis_versions", "case_proposal_selections",
                          "decisions"},
     analysis_versions |-> {"case_instances"},
     finance_review_revisions |-> {"case_instances", "analysis_versions"},
     evidence_items |-> {"analysis_versions", "case_instances"}]
DecisionReferences ==
    [decisions |-> {"case_instances", "analysis_versions"},
     approval_satisfactions |-> {"analysis_versions", "decisions"},
     outbox_events |-> {"decisions"},
     execution_actions |-> {"case_instances", "decisions"},
     action_projection |-> {"execution_actions", "decisions"}]
ExecutionReferences ==
    [draft_artifacts |-> {"execution_actions", "decisions"},
     supplier_email_deliveries |-> {"decisions"},
     supplier_email_revisions |-> {"decisions", "execution_actions"},
     execution_events |-> {"execution_actions", "decisions"},
     execution_attempts |-> {"execution_actions", "decisions"}]
OutcomeReferences ==
    [playbacks |-> {"case_instances", "decisions"},
     outcome_observations |-> {"case_instances", "decisions", "playbacks", "execution_actions"}]
Tables == DOMAIN CaseReferences \union DOMAIN AnalysisReferences \union DOMAIN DecisionReferences
          \union DOMAIN ExecutionReferences \union DOMAIN OutcomeReferences
References ==
    [t \in Tables |->
        CASE t \in DOMAIN CaseReferences      -> CaseReferences[t]
          [] t \in DOMAIN AnalysisReferences  -> AnalysisReferences[t]
          [] t \in DOMAIN DecisionReferences  -> DecisionReferences[t]
          [] t \in DOMAIN ExecutionReferences -> ExecutionReferences[t]
          [] t \in DOMAIN OutcomeReferences   -> OutcomeReferences[t]]

\* References that a row may have empty.
Optional == {<<"case_projection", "analysis_versions">>,
             <<"case_projection", "case_proposal_selections">>,
             <<"case_projection", "decisions">>,
             <<"approval_satisfactions", "decisions">>}

\* PRESENTER_AGGREGATE_DELETE_ORDER, with the update that unlinks the
\* selections where it is issued.
DeleteOrder == <<"case_projection", "outcome_observations", "supplier_email_revisions",
                 "supplier_email_deliveries", "draft_artifacts", "execution_attempts",
                 "execution_events", "action_projection", "playbacks", "outbox_events",
                 "approval_satisfactions", "execution_actions", "selection_links",
                 "case_proposal_selections", "finance_review_revisions", "decisions",
                 "evidence_items", "analysis_versions", "analysis_claims",
                 "operational_snapshots", "case_instances">>

----------------------------------------------------------------------------
VARIABLES mailbox, edits,
          minted,      \* run identifiers handed out by checks
          seen,        \* what the checks have listed so far
          now,         \* CURRENT_TIMESTAMP when a case was last inserted
          rows,        \* the committed rows
          stored,      \* recorded_at and the e-mail of each stored case
          txn,         \* the transaction that holds the retention lock
          requests,
          script,      \* scripts/prune_presenter_runs.py
          writes

mail == <<mailbox, edits, minted, seen>>
vars == <<mailbox, edits, minted, seen, now, rows, stored, txn, requests, script, writes>>

NoSource == [kind |-> "none"]
NoCase == [at |-> 0, body |-> NoSource]
NoPlan == [current |-> None, retained |-> {}, pruned |-> {}, counts |-> <<>>]
NoTxn == [by |-> None, pos |-> 0, plan |-> NoPlan, inserts |-> {}, removed |-> {},
          raced |-> FALSE]
Idle == [pc |-> "idle", case |-> None, body |-> NoSource, answer |-> "none"]
NewCase(c) == {c} \X {"case_instances", "operational_snapshots", "case_projection"}

\* The case identifier: a hash of the mailbox, the message and the run.
CaseOf(id, run) == <<id, run>>

Stored(r, c) == <<c, "case_instances">> \in r

\* Live showcase cases with a supplier e-mail.
Presenter(r) == {c \in CaseIds \ Outside : Stored(r, c)}

----------------------------------------------------------------------------
(* What retention keeps: the current case and the newest of the others. *)
Newer(at, d, c) == \/ at[d] > at[c]
                   \/ at[d] = at[c] /\ IdRank[d] > IdRank[c]

\* Mutant: the order of identifiers is taken for the order of creation.
HistoricalById(at, all, current, limit) ==
    {c \in all \ {current} :
        Cardinality({d \in all \ {current} : IdRank[d] > IdRank[c]}) >= limit}

Historical(at, all, current, limit) ==
    {c \in all \ {current} :
        Cardinality({d \in all \ {current} : Newer(at, d, c)}) >= limit}

\* count_presenter_aggregate_deletions; the unlinking update is not counted.
Counts(r, pruned) == [t \in Tables \ {"selection_links"} |->
                        Cardinality({c \in pruned : <<c, t>> \in r})]

\* plan_presenter_retention for a named current case.
PlanFor(r, at, current, limit) ==
    LET all == Presenter(r)
        pruned == Historical(at, all, current, limit)
    IN  [current |-> current, retained |-> all \ pruned, pruned |-> pruned,
         counts |-> Counts(r, pruned)]

\* plan_presenter_retention when the newest case is the current one.
Plan(r, at, limit) ==
    LET all == Presenter(r)
        newest == CHOOSE c \in all : \A d \in all \ {c} : Newer(at, c, d)
    IN  IF all = {} THEN [NoPlan EXCEPT !.counts = Counts(r, {})]
        ELSE PlanFor(r, at, newest, limit)

RecordedAt == [c \in CaseIds |-> stored[c].at]

----------------------------------------------------------------------------
(* The mailbox. *)

\* POST /api/inbox/check: a scan, and a run identifier for what follows.
CheckInbox ==
    /\ minted # Runs
    /\ minted' = minted \union {CHOOSE run \in Runs : run \notin minted}
    /\ \E n \in PageSizes(mailbox) : seen' = seen \union Discover(mailbox, n).listed
    /\ UNCHANGED <<mailbox, edits, now, rows, stored, txn, requests, script, writes>>

\* A message is reworded, or copied to another folder.
EditMail ==
    /\ edits < MaxEdits
    /\ edits' = edits + 1
    /\ \E i \in 1 .. Len(mailbox) :
          \/ /\ mailbox[i].body.kind = "statement"
             /\ \E text \in Texts \ {mailbox[i].body.text} :
                   mailbox' = [mailbox EXCEPT ![i].body.text = text]
          \/ mailbox' = Append(mailbox, [mailbox[i] EXCEPT !.locator = "copy"])
    /\ UNCHANGED <<minted, seen, now, rows, stored, txn, requests, script, writes>>

----------------------------------------------------------------------------
(* POST /api/inbox/cases. *)

\* Mutant: any stored case with this identifier will do.
MatchingCaseAny(c, body) == IF Stored(rows, c) THEN "ok" ELSE "absent"

\* _matching_case: the stored case is this run's, from this very e-mail.
MatchingCase(c, body) ==
    IF ~Stored(rows, c) THEN "absent"
    ELSE IF stored[c].body # body THEN "INBOUND_EMAIL_CHANGED" ELSE "ok"

GoTo(q, pc) == requests' = [requests EXCEPT ![q].pc = pc]
Answer(q, code) == requests' = [requests EXCEPT ![q] = [Idle EXCEPT !.pc = "answered",
                                                                     !.answer = code]]

Post(q) ==
    /\ requests[q].pc = "idle"
    /\ \E run \in minted, m \in seen :
          requests' = [requests EXCEPT ![q] = [pc |-> "posted", case |-> CaseOf(m.id, run),
                                               body |-> m.body, answer |-> "none"]]
    /\ UNCHANGED <<mail, now, rows, stored, txn, script, writes>>

\* review_inbound_email reads the message again.
ReviewInbound(q) ==
    /\ requests[q].pc = "posted"
    /\ LET code == Review(mailbox, requests[q].case[1], requests[q].body)
       IN  IF code = "ok" THEN GoTo(q, "reviewed") ELSE Answer(q, code)
    /\ UNCHANGED <<mail, now, rows, stored, txn, script, writes>>

Lookup(q) ==
    /\ requests[q].pc = "reviewed"
    /\ LET code == MatchingCase(requests[q].case, requests[q].body)
       IN  CASE code = "absent" -> GoTo(q, "retrieving")
             [] code = "ok"     -> GoTo(q, "found")
             [] OTHER           -> Answer(q, code)
    /\ UNCHANGED <<mail, now, rows, stored, txn, script, writes>>

\* The operational data is fetched and the statement compared with it.
Retrieve(q) ==
    /\ requests[q].pc = "retrieving"
    /\ IF FactsMatch(requests[q].body.facts, Offer) THEN GoTo(q, "creating")
       ELSE Answer(q, "INBOUND_EMAIL_CONFLICT")
    /\ UNCHANGED <<mail, now, rows, stored, txn, script, writes>>

\* The provider fails, the data is not to be had or the lock is not granted
\* in time.
Unavailable(q) ==
    /\ requests[q].pc \in {"posted", "retrieving", "creating"}
    /\ Answer(q, "INBOUND_EMAIL_UNAVAILABLE")
    /\ UNCHANGED <<mail, now, rows, stored, txn, script, writes>>

\* create_presenter_case: the lock, the new case and the plan.  The clock may
\* or may not have moved since the last case was recorded.
CreateCase(q) ==
    LET c == requests[q].case
        r == rows \union NewCase(c)
    IN  /\ requests[q].pc = "creating"
        /\ txn.by = None
        /\ IF Stored(rows, c)
             THEN GoTo(q, "conflicted") /\ UNCHANGED <<txn, now>>
             ELSE /\ GoTo(q, "pruning")
                  /\ now' \in now .. MaxNow
                  /\ txn' = [NoTxn EXCEPT !.by = q, !.pos = 1, !.inserts = NewCase(c),
                               !.plan = PlanFor(r, [RecordedAt EXCEPT ![c] = now'], c,
                                                HistoricalLimit)]
        /\ UNCHANGED <<mail, rows, stored, script, writes>>

\* After an integrity error the case is looked up once more.
ResolveConflict(q) ==
    /\ requests[q].pc = "conflicted"
    /\ LET code == MatchingCase(requests[q].case, requests[q].body)
       IN  CASE code = "absent" -> Answer(q, "INBOUND_EMAIL_CONFLICT")
             [] code = "ok"     -> GoTo(q, "found")
             [] OTHER           -> Answer(q, code)
    /\ UNCHANGED <<mail, now, rows, stored, txn, script, writes>>

\* case_response reads the case that was found or created.
Respond(q) ==
    /\ requests[q].pc = "found"
    /\ requests' = [requests EXCEPT
         ![q].pc = "answered",
         ![q].answer = IF Stored(rows, requests[q].case) THEN "ok"
                       ELSE "INBOUND_EMAIL_UNAVAILABLE"]
    /\ UNCHANGED <<mail, now, rows, stored, txn, script, writes>>

----------------------------------------------------------------------------
(* The cleanup script. *)
Preview ==
    /\ script.pc = "idle"
    /\ script' = [pc |-> "previewed", plan |-> Plan(rows, RecordedAt, HistoricalLimit)]
    /\ UNCHANGED <<mail, now, rows, stored, txn, requests, writes>>

\* Mutant: the same cases will do.
PlanOfSameCases(plan, previewed) == plan.pruned = previewed.pruned

\* The plan is made again under the lock and must be the one previewed.
PlanUnchanged(plan, previewed) == plan = previewed

Apply ==
    LET plan == Plan(rows, RecordedAt,
                     IF script.plan.retained = {} THEN 0
                     ELSE Cardinality(script.plan.retained) - 1)
    IN  /\ script.pc = "previewed"
        /\ txn.by = None
        /\ IF PlanUnchanged(plan, script.plan)
             THEN /\ script' = [script EXCEPT !.pc = "applying"]
                  /\ txn' = [NoTxn EXCEPT !.by = "script", !.pos = 1, !.plan = plan]
             ELSE /\ script' = [pc |-> "idle", plan |-> NoPlan]
                  /\ UNCHANGED txn
        /\ UNCHANGED <<mail, now, rows, stored, requests, writes>>

\* The lock is not granted in time.
ApplyTimesOut ==
    /\ script.pc = "previewed" /\ txn.by # None
    /\ script' = [pc |-> "idle", plan |-> NoPlan]
    /\ UNCHANGED <<mail, now, rows, stored, txn, requests, writes>>

----------------------------------------------------------------------------
(* The statements of the transaction that holds the lock. *)
View == (rows \union txn.inserts) \ txn.removed

\* presenter_aggregate_targets: the rows of table t found through the case
\* identifier or through a parent that still exists.  Parents are found by
\* the case identifier alone.
Located(c, t) == \/ "case_instances" \in References[t]
                 \/ t \in {"case_instances", "action_projection"}
                 \/ \E p \in References[t] : <<c, p>> \in View
Targets(t) == {<<c, t>> : c \in {d \in txn.plan.pruned : <<d, t>> \in View /\ Located(d, t)}}

\* A row still refers to one of these.
Referenced(t) == \E row \in Targets(t), t2 \in Tables :
                    /\ t \in References[t2] /\ <<t2, t>> \notin Optional
                    /\ <<row[1], t2>> \in View

\* Mutant: the statements before the failure stay in effect.
RolledBackInPart ==
    /\ txn' = NoTxn
    /\ IF txn.by = "script"
         THEN script' = [pc |-> "idle", plan |-> NoPlan] /\ UNCHANGED requests
         ELSE GoTo(txn.by, "conflicted") /\ UNCHANGED script
    /\ rows' = View
    /\ UNCHANGED <<mail, now, stored, writes>>

\* The holder after a rollback: an integrity error reads as "the case exists
\* already"; the script reports the error.
RolledBack ==
    /\ txn' = NoTxn
    /\ IF txn.by = "script"
         THEN script' = [pc |-> "idle", plan |-> NoPlan] /\ UNCHANGED requests
         ELSE GoTo(txn.by, "conflicted") /\ UNCHANGED script
    /\ UNCHANGED <<mail, now, rows, stored, writes>>

Delete ==
    /\ txn.by # None /\ txn.pos <= Len(DeleteOrder)
    /\ LET t == DeleteOrder[txn.pos]
       IN  /\ ~Referenced(t)
           /\ txn' = [txn EXCEPT !.pos = @ + 1, !.removed = @ \union Targets(t)]
    /\ UNCHANGED <<mail, now, rows, stored, requests, script, writes>>

DeleteFails ==
    /\ txn.by # None /\ txn.pos <= Len(DeleteOrder)
    /\ Referenced(DeleteOrder[txn.pos])
    /\ RolledBack

\* apply_presenter_retention compares what it deleted with its plan.
AsPlanned == \/ txn.by # "script"
             \/ Counts(txn.removed, txn.plan.pruned) = txn.plan.counts

Commit ==
    /\ txn.by # None /\ txn.pos > Len(DeleteOrder)
    /\ AsPlanned
    /\ rows' = View
    /\ stored' = [c \in CaseIds |->
                    IF ~Stored(View, c) THEN NoCase
                    ELSE IF txn.by # "script" /\ c = requests[txn.by].case
                      THEN [at |-> now, body |-> requests[txn.by].body]
                    ELSE stored[c]]
    /\ txn' = NoTxn
    /\ IF txn.by = "script"
         THEN script' = [pc |-> "idle", plan |-> NoPlan] /\ UNCHANGED requests
         ELSE GoTo(txn.by, "found") /\ UNCHANGED script
    /\ UNCHANGED <<mail, now, writes>>

PlanChanged ==
    /\ txn.by # None /\ txn.pos > Len(DeleteOrder)
    /\ ~AsPlanned
    /\ RolledBack

----------------------------------------------------------------------------
(* The transactions of the other components: the rows each one inserts and
   deletes, and whether it updates the case projection. *)
Write(puts, takes, projection) == [puts |-> puts, takes |-> takes, projection |-> projection]
ClaimRows == Write({"analysis_claims"}, {}, FALSE)
AnalysisRows == Write({"analysis_versions", "evidence_items"}, {"analysis_claims"}, TRUE)
ReviewRows == Write({"finance_review_revisions"}, {}, TRUE)
SelectionRows == Write({"case_proposal_selections"}, {}, TRUE)
ResubmitRows == Write({"selection_links"}, {}, TRUE)
DecisionRows == Write({"decisions", "approval_satisfactions", "outbox_events"}, {}, TRUE)
PlanRows == Write({"execution_actions", "action_projection", "draft_artifacts"}, {}, TRUE)
PlaybackRows == Write({"playbacks"}, {}, FALSE)
AttemptRows == Write({"execution_attempts", "execution_events"}, {}, FALSE)
ObservationRows == Write({"outcome_observations"}, {}, FALSE)
EmailRows == Write({"supplier_email_deliveries", "supplier_email_revisions"}, {}, FALSE)
Writes == [claim |-> ClaimRows, analysis |-> AnalysisRows, review |-> ReviewRows,
           selection |-> SelectionRows, resubmit |-> ResubmitRows, decision |-> DecisionRows,
           plan |-> PlanRows, playback |-> PlaybackRows, attempt |-> AttemptRows,
           observation |-> ObservationRows, email |-> EmailRows]

\* The earlier cases were made by such transactions: none of their rows
\* refers to a row no transaction has left.
ASSUME WorkAssumption ==
    /\ Working \subseteq DOMAIN Writes
    /\ Worked \in [Older \union Outside -> SUBSET DOMAIN Writes]
    /\ \A c \in Older \union Outside :
          LET left == {"case_instances", "operational_snapshots", "case_projection"}
                         \union UNION {Writes[w].puts : w \in Worked[c]}
          IN  \A t \in left : \A p \in References[t] : <<t, p>> \in Optional \/ p \in left

\* A transaction commits when its rows are new and every row it refers to is
\* there.  On a row the retention transaction has deleted it waits.
Work(c, w) ==
    LET x == Writes[w]
        parents == {p \in UNION {References[t] : t \in x.puts} : p \notin x.puts}
        touched == parents \union x.takes \union (IF x.projection THEN {"case_projection"} ELSE {})
    IN  /\ writes < MaxWrites
        /\ writes' = writes + 1
        /\ {c} \X parents \subseteq rows
        /\ ({c} \X x.puts) \intersect rows = {}
        /\ ({c} \X touched) \intersect txn.removed = {}
        /\ rows' = (rows \ ({c} \X x.takes)) \union ({c} \X x.puts)
        /\ txn' = [txn EXCEPT !.raced = @ \/ c \in txn.plan.pruned]
        /\ UNCHANGED <<mail, now, stored, requests, script>>

----------------------------------------------------------------------------
Init ==
    /\ mailbox \in Mailboxes /\ edits = 0
    /\ minted = {} /\ seen = {}
    /\ now = 1
    /\ rows = UNION {NewCase(c) \union ({c} \X UNION {Writes[w].puts : w \in Worked[c]}) :
                        c \in Older \union Outside}
    /\ stored = [c \in CaseIds |->
                   IF c \in Older THEN [at |-> 0, body |-> [kind |-> "earlier"]] ELSE NoCase]
    /\ txn = NoTxn
    /\ requests = [q \in Requests |-> Idle]
    /\ script = [pc |-> "idle", plan |-> NoPlan]
    /\ writes = 0

Next ==
    \/ CheckInbox \/ EditMail
    \/ \E q \in Requests :
          \/ Post(q) \/ ReviewInbound(q) \/ Lookup(q) \/ Retrieve(q) \/ Unavailable(q)
          \/ CreateCase(q) \/ ResolveConflict(q) \/ Respond(q)
    \/ Preview \/ Apply \/ ApplyTimesOut
    \/ Delete \/ DeleteFails \/ Commit \/ PlanChanged
    \/ \E c \in CaseIds, w \in Working : Work(c, w)

Spec == Init /\ [][Next]_vars

----------------------------------------------------------------------------
(* Properties. *)
PlanCounts == [Tables \ {"selection_links"} -> Nat] \union {<<>>}
Plans == [current : CaseIds \union {None}, retained : SUBSET CaseIds,
          pruned : SUBSET CaseIds, counts : PlanCounts]
AnyBody == Bodies \union [kind : {"none", "earlier"}]

TypeOK ==
    /\ mailbox \in Seq(Messages) /\ edits \in Nat
    /\ minted \subseteq Runs /\ seen \subseteq [id : MessageIds, body : Bodies]
    /\ now \in Nat /\ writes \in Nat
    /\ rows \subseteq CaseIds \X Tables
    /\ stored \in [CaseIds -> [at : Nat, body : AnyBody]]
    /\ txn \in [by : Requests \union {None, "script"}, pos : Nat, plan : Plans,
                inserts : SUBSET (CaseIds \X Tables), removed : SUBSET (CaseIds \X Tables),
                raced : BOOLEAN]
    /\ requests \in [Requests -> [pc : {"idle", "posted", "reviewed", "retrieving", "creating",
                                        "pruning", "conflicted", "found", "answered"},
                                  case : CaseIds \union {None}, body : AnyBody,
                                  answer : Codes \union {"none"}]]
    /\ script \in [pc : {"idle", "previewed", "applying"}, plan : Plans]

\* What is committed is whole: a case is there with its snapshot and its
\* projection and every row's parents, or not at all, although deletions and
\* other components' inserts interleave statement by statement.  A pruning
\* whose cases nobody writes to meanwhile is never refused by a foreign key:
\* DELETE_ORDER takes every child before its parents, and finds it while the
\* parent it is found through still exists.
AggregatesAreWhole ==
    /\ \A row \in rows : \A p \in References[row[2]] :
          <<row[2], p>> \in Optional \/ <<row[1], p>> \in rows
    /\ \A c \in CaseIds : Stored(rows, c) => NewCase(c) \subseteq rows
    /\ txn.by # None /\ txn.pos <= Len(DeleteOrder) /\ ~txn.raced
          => ~Referenced(DeleteOrder[txn.pos])

\* No step deletes a run and keeps one that was recorded earlier, no step
\* deletes a case outside the retention set, and a created run leaves at most
\* the limit of earlier ones, however many creations and cleanups compete.
KeptAreNewest ==
    [][\A c \in CaseIds :
          /\ Stored(rows, c) /\ ~Stored(rows', c) =>
                /\ c \notin Outside
                /\ \A d \in Presenter(rows) \intersect Presenter(rows') :
                      stored[d].at >= stored[c].at
          /\ Stored(rows', c) /\ ~Stored(rows, c) =>
                Cardinality(Presenter(rows')) <= HistoricalLimit + 1]_vars

\* The script deletes the rows its preview announced, or nothing.
AppliedAsPreviewed ==
    [][script.pc = "applying" /\ rows' # rows /\ writes' = writes =>
          /\ {c \in CaseIds : Stored(rows, c) /\ ~Stored(rows', c)} = script.plan.pruned
          /\ Counts(rows \ rows', script.plan.pruned) = script.plan.counts]_vars

\* A request comes by a case only if that is there and was made from exactly
\* the e-mail its user reviewed, also when it lost the race to create it or
\* the message changed meanwhile; and a case, as long as it is there, stays
\* bound to its e-mail and its place in the history.
FoundAsReviewed ==
    [][/\ \A q \in Requests : requests'[q].pc = "found" /\ requests[q].pc # "found" =>
             /\ Stored(rows', requests[q].case)
             /\ stored'[requests[q].case].body = requests[q].body
       /\ \A c \in CaseIds : Stored(rows, c) /\ Stored(rows', c) => stored'[c] = stored[c]]_vars

==============================================================================
