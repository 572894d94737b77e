# Verification of the supply-response case workflow

TLA+ models of supply-response: of the parts whose correctness depends on the
order in which concurrent requests, background workers, replicas, the browser and
external services act, and of the analysis those parts are about. TLC checks them
on small instances; TLAPS proves the most important properties for every value of
the constants. Paths are relative to the repository (`src/`).

## The system

Alex (planner) and Taylor (Finance) work on a *case*: a supplier disruption with
one `case_projection` row (status, pointers to the current analysis, proposal
selection and decision, and a proposal generation) and append-only journals
around it. FastAPI requests, a progression loop in every replica
(`maxReplicas=2`), the planner's browser, Work IQ, Fabric, an identity provider
and Microsoft Graph act on it through SQLAlchemy units of work.

| component | state | operations | interacts with |
|---|---|---|---|
| independent-finance workflow (`services/finance`, `persistence/proposals.py`, `finance_reviews.py`) | projection row, `case_proposal_selections`, `finance_review_revisions`, `decisions` | submit, resolve, finalize | every other writer, through the projection's compare-and-swap |
| analysis persistence (`store.py: _save_analysis_connection`) | `analysis_versions`, projection row | save an analysis, closing the review and invalidating the decision | same |
| live analysis claim (`apps/api/app/live.py`) | `analysis_claims` | load, claim, complete, release, wait for the winner | other browser requests and replicas |
| one live analysis (`live.py`, `integrations/workiq`, `integrations/fabric`, `agents/orchestrator`) | request-local: threads, sessions, partial results | token exchange, discovery, fetch, validation, agents, store | Work IQ, Fabric, identity provider, model |
| action-planning worker (`services/execution/worker.py`) | `outbox_events`, action rows | claim, plan, recover from failure, retire | decisions (event source), the loop, the retry route |
| execution and playback (`worker.py: ExecutionService`, `playback.py`, `apps/api/app/runtime.py`) | `action_projection`, `execution_events`, `execution_attempts`, `draft_artifacts`, `playbacks`, `outcome_observations`; in-memory failure counts | start, complete, fail, retry, cancel an action; start, run, end a playback | approval guard, other replicas |
| reviewed supplier e-mail (`mail_service.py`, `integrations/graph_mail`) | `supplier_email_deliveries`, `supplier_email_revisions` | open, save, review, send, check status | approval guard, Microsoft Graph |
| legacy and fallback workflow (`services/decisions`, `services/analysis/application.py`) | the same projection row, without the guard | record a decision, save an analysis | worker |
| presenter runs (`presenter_runs.py`) | every table of a case, an application lock | create with pruning, preview and apply retention | all writers of case rows |
| supplier inbox (`routes/inbox.py`, `workiq/inbox.py`) | none of its own | check inbox, review a message, create a case from it | mailbox, presenter runs |
| exposure, options, ranking, evidence and approval policy, planner | none | functions | both analysis services, decisions |
| planner's workspace (`apps/web`: `useCaseWorkspace.ts`, approval and inbox panels) | the hook's refs and state, requests in flight | open, reopen, analyse, decide, plan, play, e-mail | the API, which others change |

What is hard: reads that run in no common snapshot and are used after another
request's commit; two replicas that do the same work because nothing elects one;
leases that run out under a slow holder; processes that stop between two
transactions; a provider whose answer is lost; recovery that races a success; an
error that ends a polling loop and leaves its process alive; threads that must not
outlive the coroutine that started them, however often it is cancelled; messages
that are listed and read in different requests; answers that reach a page which has
moved on. `PROJECT.json` lists each such place under `hazards`. Per component,
correct means:

* finance: an approval rests on Finance's approval of exactly that proposal, is
  given once, is planned only while it is current; journals only grow;
* live analysis: a running lease is exclusive, an ousted holder is fenced off,
  waiters are answered; only the configured evidence is analysed, nothing is left
  running, a failing agent costs the explanation and never the analysis;
* e-mail: at most one copy, of the reviewed text, with an honest status;
* playback: the log explains the status, one open attempt, observations once, an end;
* legacy: one decision per key, planned exactly once, a status with a cause;
* retention: whole cases, the newest kept, what was announced deleted;
* pipeline: what can be selected has evidence and the standing authorization for
  premium freight behind it; the recommendation is not beaten; what is protected
  can be delivered; the two supply calculations agree;
* workspace: what is shown belongs together, and no operation locks the page.

## Modules

**CaseApproval** is the abstract specification of one case: `Submit`, `Resolve`,
`Approve`, `Reject`, `Reanalyse`, `Plan`, `PlanningFailed`, `RetireEvent` each
happen in one step on the present state. It has no requests and no generation.

**ProposalFlow** is what the code does. `req[h]` holds what a request or worker
has read so far. The steps of a command are: *Begin* (the command carries the
token of the page it was issued from), `ReadToken` and `ReadReview` (the SELECTs
of `get_state`, separate because pysqlite opens its transaction at the first
write and SQL Server reads committed data), an in-memory check (`FinalizeCheck`,
`ExecutionCheck`), and the commit (`Publish`, `ResolveCommit`, `Approve`,
`Reject`, `SaveAnalysis`, `PlanCommit`, `RecoverCommit`). A commit is one step
because its first write is the `UPDATE ... WHERE` of `_cas_projection`
(`CasProjection`), which locks the row until the end of the transaction. `Abort`
is any refusal, exception, idempotent replay or death of a human request: none of
them changes the database. The worker's failure path is followed through all its
transactions: `PlanError`, `RecoverBegin`, `RecoverCommit`, `ProposalStale`,
`RecoverError`, `RecordFailure`, `NothingToRecord`. `loop` is the polling loop of
each runtime (`RuntimeProgression`): started and stopped with its process
(`StartLoop`, `StopProcess`), and *ended* while the process lives on when an
exception leaves the worker or a query (`Escape`, `LoopFails`), because `_run`
catches only the timeout of its wait (`runtime.py:49-59`). A worker whose loop does
not run acts as the thread of a retry request. `RowFree` is the row lock
that the claiming UPDATE keeps on an outbox event. The planned action rows are
not in this module (they exist exactly when the event is processed); costs are
numbers compared with the threshold, everything else is an identity.

**AnalysisClaim** models the claim around `LiveAnalysisService.create`: `Load`, the
INSERT and the UPDATE of `try_claim_analysis` (two transactions, `ClaimInsert`,
`ClaimTakeover`/`ClaimRefused`), `Finish` (sources and orchestrator have
returned), `Complete`/`CompleteRefused`, `Fail` (release), `Crash` (no release),
and the polling of `_wait_for_winner`. Time is a discrete clock that all replicas
share; `started` and `completed` are readings of it and are old when they are
used. `ousted` is a history variable.

**TokenExchange** and **LiveRetrieval** are what happens between `ClaimInsert` and
`Complete`. TokenExchange is `AsyncWorkIQOboExchange`: a coroutine, the thread it
starts, the HTTP request that thread asks the event loop for, the budget, and the
cleanup that joins the thread. LiveRetrieval composes one exchange per delegated
source with discovery, fetch and validation of messages that other people may change
in between (`ChangeSource`), the source's timer, the Fabric query, their `gather`,
cancellation of the request at any point (`Shutdown`), and the orchestrator: the
boundary check on what agents are sent, grounding of what they answer, the memoised
deterministic analysis, the status of the explanation, and the scrubbed partial
result. An analysis that itself raises (`AnalysisRaises`) leaves no partial result
and fails the request. Response normalisation is *usable or not*; texts are
*stated*, *secret* (what the model boundary refuses) or *blank*.

**SupplierEmail** models one decision's e-mail. `Open`, `Save` and `Review` are
one transaction each. `send` is `SendRead`, `SendClaim`, `Submit`, `Answer`,
`Settle`, and may stop (`Stop`) anywhere. The provider is external, modelled as
the client understands it: it delivers or discards a message, and answers
accepted, failed, or nothing conclusive; answers may come late or never.
Correlation ids are numbers handed out in order. Opening assumes that the draft
action has been planned. `check_send_status` is not an action: it refuses
whenever `provider_message_id` is NULL, and no path stores one, so its state
change is out of reach.

**ReviewedMail** is the abstract specification of that e-mail: a letter that is
written, reviewed, dispatched, arrives or is lost, and of which then something is
told, each in one step. It has no requests, correlation ids, messages or answers.
SupplierEmail's `Fate` maps to it: the letter is under way from the claim on,
until the claim is given up, the provider drops the message, or it is delivered.

**ActionPlayback** models the planned actions of one decision and the runtimes
that execute them. `Look`, `StartRead`/`StartCommit`, `FillDraft`,
`CompleteRead`/`CompleteCommit`, `RecordCompletion`/`AlreadyEnded` are the steps
of `run_to_completion`; `Raise`, `GiveUp`, `GiveUpFails` are the counting in
`_run_playback` (the count is capped at the limit, beyond which it makes no
difference); `Restart` loses the in-memory count. Only a polling loop starts a task
(`Pick`); it may end over an error of the planning or of `in_progress_playback_ids`
(`LoopEnds`), and the tasks it has started go on. `fail` and `cancel` of the
service are included although only a test hook calls the first and nothing calls
the second.

**OrderlyPlayback** is its abstract specification: one playback that starts each
action when all before it are done, fills the draft, and observes the outcome in
one step. It has no runtimes, attempts, logs or stale reads. Failing, retrying and
cancelling an action and giving the playback up are steps of it too, since they
are visible to the users.

In SupplierEmail and ActionPlayback the approval guard is the flag `current`,
checked in the same step as the commit; `ReplaceApproval` clears it. That this is
what the guard amounts to is what `TokenGuardsReads` of ProposalFlow says: as
long as the compare-and-swap succeeds, the approval that was read is current.

**LegacyCase** is the workflow without the compare-and-swap. An analysis is saved
and its status written in two transactions (`SaveAnalysis`, `SaveCaseProjection`);
`DecisionService.record` is `DecideLookup`, `DecideRead`, `DecideCommit` and, after
a lost race for the idempotency key, `DecideConflict`; a worker plans, fails,
records the failure in a transaction of its own (`Recover`), or its loop ends
(`LoopEnds`). A recovery that finds the event planned by another worker has no row
to update: the `RecordNotFound` of `store.py:1951` leaves the worker and ends the
loop too. Reading a
decision back checks it against its analysis, as the code does, and answers an
error when they disagree.

**SupplyAllocation** and **EvidencePolicy** are the pure parts as operators, and
**ResponseAnalysis** the pipeline over them: six options with predictions, costs,
roles and evidence requirements; `validate_required_evidence` with conflicts and
resolutions; standing authorizations; the comparator chain, one stage per step; the
quality approval; `DecisionPolicy` on the chosen option; the planned actions in
order, or the planner's exception when the snapshot has no expedite offer or the
customer orders are not those a resequencing is for. Dates are day numbers, money
integers in one unit. Both supply calculations of the code are there, the running
balance of `services/exposure/calculator.py` and the allocation of
`services/analysis/exposure.py`, each beside a closed form.

**SupplierInbox** is the bounded scan of a mailbox (`check_inbox`) and the
re-reading of one message; **PresenterRuns** composes it with case creation and
retention. A row is a pair of a case and a table; the references between tables
are those of the schema. The transaction that holds the application lock is
executed statement by statement (`View` is what it sees), because other components
do not take the lock and go on inserting rows of the cases being deleted; a
violated foreign key rolls everything back. The script's preview, the person's
confirmation and its apply are three steps.

**CaseWorkspace** is the browser: the one `activeOperation` token, the version of
the e-mail load, the closures of the approval panel and of the inbox panel, and
the server as the routes answer, which other users and workers change at any
moment. StrictMode's second mount is `Remount`. A read is answered in one step
with its use; a write commits in a step of its own, so that its answer can be late.

**MC...** modules instantiate these for TLC; **...Proofs** hold the theorems
(CaseWorkspaceProofs also those about SupplierEmail, the e-mail its page sends,
whose initial state, steps and specification are therefore named `EmailInit`,
`EmailNext` and `EmailSpec`).

## Runs

| run | instance | checks | distinct states |
|---|---|---|---|
| `requests` | 2 requests, 2 analyses, 2 selections, 2 decisions, one option at the threshold and one above | `ApprovalBacked`, `OneApprovalPerSelection`, `SupersededIffReplaced`, `TokenGuardsReads`, `LedgerAppendOnly` | 1,905,884 |
| `workers` | 1 request, 2 workers, 2 analyses, 1 proposal, 2 recorded failures | `ImplementsCaseApproval`, `PlannedUnderApproval`, and `ApprovalActedUpon` under fairness | 571,473 |
| `lease` | 2 requests, lease 1, wait budget 2, time to 5 | `LeaseHonoured`, `OustedNeverAccepted`, and `WaitersAnswered` under fairness | 47,467 |
| `sources` | one request, its three retrievals, 1 change by others, 2 cancellations, rankings of 2 stages | `NothingOutlivesExchange`, `EvidenceIsBound`, `ReportIsTruthful`, `ExplanationEarned`, `AnalysisSurvivesAgents`, and `EverythingEnds` under fairness | 595,708 |
| `send` | 2 send requests, 3 revisions, 3 send attempts | `AtMostOneCopy`, `SentAsReviewed`, `StatusTruthful`, `ImplementsReviewedMail` | 9,100 |
| `race` | 2 runtimes, 2 actions (the first has a draft), 2 attempts each, failure limit 2 | `LogExplainsStatus`, `OneOpenAttempt`, `ObservedOnceAtEnd`, `ImplementsOrderlyPlayback`, and `PlaybackEnds` under fairness | 391,408 |
| `ledger` | 2 decision requests, 1 analysis request, 2 workers, 2 keys, 2 materials (one lacks an approval), 2 failed analyses or plannings | `KeyDecidesOnce`, `PlannedIffProcessed`, `StatusHasCause`, and `ApprovalSettles` under fairness | 413,902 |
| `pipeline` | 4 sets of orders, 2 by 2 stocks, 3 expedite offers, 2 transfer costs, customer orders that match, miss a line or have it twice, 19 bundles of evidence, two recording times, two scenario times, both workflows | `SelectionStands`, `RecommendationNotBeaten`, `ExposureMatchesReference` | 329,328 |
| `retention` | 2 creations, the script, 3 earlier runs of which one is planned, 1 other case, limit 1, 2 creation times, 1 write by others, 1 edit of the mailbox | `AggregatesAreWhole`, `KeptAreNewest`, `AppliedAsPreviewed`, `FoundAsReviewed` | 762,682 |
| `late` | 2 cases (one of each workflow), 2 analyses of each, 4 operations, 1 poll | `AnswersKeepCoherence`, `ReopenShowsOneInstant`, and `OperationEnds` under fairness | 302,590 |
| `retired`, `once` | smallest instances | `RetiredEventsWereStale`, `OneAcceptedAnalysis`: each one a statement of the repository that the code does not keep, see Findings | |

The bounds suffice for the cases of interest. Two requests are what a race needs
and two of each identity what a replacement needs (the old one and the new one);
an option exactly at the threshold and one a unit above it cover both sides of
the comparison. With lease 1 and five ticks a lease runs out, is taken over, and
the taker's can run out too; a waiter's budget of 2 ends within the clock. Three
revisions and attempts allow an edit before and after a failed send. Two actions
distinguish the draft action from the last one. One change by others hits every
point between listing and reading; two cancellations hit the wait and the
cleanup. In `pipeline` each piece of evidence has one thing wrong with it at a
time, with instants at and just past both ends of every interval, and the orders
contain ties on the due date, orders out of identifier order and stock below
zero. In `retention` the limit is exceeded by each creation, and the order of
identifiers is not the order of creation. In `late` four operations allow one to
be superseded while a third and a fourth are shown. Every run sets
`CHECK_DEADLOCK FALSE`: identities, instants, attempts and operations run out,
after which an instance may stop; in the program there is always another one.

*Symmetry* is used on interchangeable identities in runs that check no liveness.

*Fairness.* No `FairSpec` assumes that a polling loop goes on for ever: an
exception ends it for the life of the process (`runtime.py:49-59`), so the liveness
properties about approvals and playbacks say *settles, or no loop is left*. What
is assumed:

* `ProposalFlow`, `LegacyCase`: a loop that runs polls, and a unit of work or
  recovery that is under way goes on or its process dies. Loops may end at any time
  and stay so; only that processes are restarted again and again for ever is
  excluded. Nothing is assumed of human requests, and planning errors may happen
  until the bound.
* `ActionPlayback`: a loop that runs picks up a playback in progress, and a task
  that runs moves. From some point on there are no restarts and the write that
  records a failure succeeds; if the database refused it for ever, the playback
  would stay in progress. Any other step may still raise, and a loop may end.
* `AnalysisClaim`: time passes and a sleeping request wakes; nothing is assumed
  of the holder of the claim.
* `LiveRetrieval`: the event loop, the threads and the timers go on, and the
  database driver and the model client return or raise (the code bounds neither
  here). Nothing is assumed of Work IQ, the identity provider or the people who
  write the messages.
* `CaseWorkspace`: every request of an operation is answered or fails and timers
  fire; the hook sets no timeout of its own, so a request the browser never
  settles would lock the page. That planning finishes, or that a poll fails, is
  not assumed.

## What is proved

All theorems hold for every value of the constants allowed by the named
assumptions. Most only give types: costs and threshold are naturals, workers are
handlers, `None` is not an identity, lease and bounds are naturals, messages,
evidence and clock readings are well-formed as their Pydantic models are
(`IdentityAssumption`, `InputAssumption`), and so are snapshots: finitely many
orders and at least one (the code divides by their number), quantities as their
models bound them, identifiers that tell orders apart because they are keys; the
stock is not bounded, a position may be over-held (`SnapshotAssumption`). Two say
more. `IdentityAssumption` makes the order of case identifiers injective (they are
compared as text) and the database finite. `WorkAssumption` says that the cases a
database holds to begin with were left by transactions of the program: each
mandatory parent of their rows is there. TLC evaluates all of them.

*ProposalFlowProofs.* None of the safety properties is inductive: an approval is
backed because of what a request read *earlier*, so the invariant has to say what
remains true of a request's reads. `CaseInvariant` adds to the safety properties
that no token is from the future (`TokensBounded`), that the rows a case points
to exist (`JournalsWellFormed`), and `TokenGuardsReads`: while a request's token
equals the case's, all it read and checked holds. Every commit increments the
generation, so after it no request's token is current and `TokenGuardsReads`
holds trivially for all; before it, it gives the committing request exactly the
facts its action needs. The proof has one step per action; theorems for the
individual properties, for the append-only ledger (`LedgerIsAppendOnly`) and for
planning (`PlanningIsApproved`) follow.

`Refinement`, at the end of the same module, maps every commit to the abstract action
of the same meaning and every other step to a stutter, again through
`TokenGuardsReads`. Together with the run `workers` this is the project's main
result: stale reads and races do not show.

*AnalysisClaimProofs.* `ClaimInvariant` adds that no clock reading is from the
future, that the claim's expiry is its owner's start plus the lease, and that the
owner has been neither ousted nor accepted. A take-over needs an expiry before
the taker's (past) start, hence before now, so it never hits a running lease.

*CaseWorkspaceProofs, last part.* `EmailInvariant` adds that at most one send
request is past its claim and the row waits for exactly it (`SendersMatch`), that
what is under way carries the row's correlation id (`CorrelationsFresh`), that
answers tell what happened (`AnswersTruthful`), and that the row's reviewed revision
is the newest and reviewed (`ReviewsMatch`). It suffices for the refinement:
`EmailIsReviewedMail` shows that at any time the letter is in one place (`OnePlace`)
and then maps claim to dispatch, delivery to arrival, the loss of a claim or of a
message to loss, and every settling to telling; that each settling is one, and tells
the truth, is `SendersMatch` and `AnswersTruthful`.

*ActionPlaybackProofs.* A commit checks again only what it reads again, so two facts
about the rest are needed beside the properties: a log is never empty and starts as
planned (`LogsStarted`), and when a runtime is about to complete the draft action
the draft has its content, whoever filled it in (`DraftsFilled`). The lemmas say
once what appending an event does to the log and what closing an attempt does to the
others; that an end is final (`EndsAreFinal`) needs only the guards of the two
actions that record one. For the refinement a second invariant says that no task is
ahead of the actions (`TasksInTurn`): whatever a task has passed was completed when
it looked, and completed actions stay so (`ActionsMoveOn`), so an action that any
runtime starts is next in order although the runtime does not look back.
`PlaybackIsOrderly` then maps each commit to the action of the same meaning and
everything a task only reads or counts to a stutter. `DraftBeforeCompletion` (part
of the invariant) and `EndsOnce` have theorems but no run of their own: the orderly
playback has both, and TLC checks that it is implemented.

*LegacyCaseProofs.* Without a generation, the invariant rests on the ledger alone:
a request that has saved has left an analysis (`SavedIsThere`), what a request
checked about an analysis stays true (`RequestsChecked`), keys are unique by their
constraint and every decision passes the checks made when it is read back (`KeysUnique`,
`DecisionsReadable`), so that the loser of a race always finds the winner's
decision and answers with it (`AnswersMatch`). `StatusHasCause` is inductive with
these although no writer compares anything: each blind write states something
that was and remains true of the ledger.

*LiveRetrievalProofs.* `RetrievalInvariant` follows a retrieval from its exchange
to its end: an exchange that was not begun has neither used its budget nor made a
request, one that is over has no thread and no request (`ExchangesSettle`), the
session is open only between the exchange and the end (`SessionsFollow`), what was
read is the configured message, and a request past the gathering has all of it
(`ReadAsConfigured`). Once an analysis is stored no retrieval runs that could
change its evidence; with that, `ExplanationInvariant` gives the two properties of
the agents, for every number of ranking stages and every answer they may cite.
`ReportInvariant` says what a session, a listing and a timer tell of the stage in
which a retrieval failed, which a retrieval that has failed never changes again.

*PresenterRunsProofs.* That cases stay whole is not inductive while a transaction
deletes them table by table and others write. `RetentionInvariant` therefore says,
of the transaction that holds the lock, both what it was planned for
(`PlanStands`: it prunes presenter runs only, none newer than one it keeps, and the
created case makes the number right) and how far it has come (`DeletionProceeds`:
what it sees is whole at every statement, it has removed only rows of pruned cases
in tables it has passed, and without a competing write nothing of theirs is left
in those). Both rest on lemmas about the schema: every table but two is found
through the case or through a parent a row cannot be without, and `DeleteOrder`
takes each table before its mandatory parents (`ReferenceFacts`, `OrderFacts`).
Others neither create nor delete cases, so the plan outlives their writes. The
order of retention is total because identifiers are (`NewerIsOrder`), and counting
the newer cases is injective along it (`RanksAreDistinct`), which bounds what is kept.
The four properties of the run follow, `KeptAreNewest`, `AppliedAsPreviewed` and
`FoundAsReviewed` as action properties.

*ResponseAnalysisProofs.* `PipelineInvariant` follows the data through the stages:
an option is what the snapshot makes of it but for codes, which only grow
(`OptionsStand`); an option without codes gets none from any of its evidence
requirements (`EvidenceCounts`); a satisfaction is Taylor's and within cost and days
(`ApprovalsStand`); the ranking starts from exactly the feasible options; and after
some stages of the comparator chain an option no worse than a remaining one on the
stages passed remains itself (`EliminationIsSound`). The last is what makes the
recommendation unbeaten although each stage compares with a different best and
within a threshold. It needs that a finite set of integers has a least element
(`MinIsLeast`, from the well-foundedness of strict subsets) and that the last
comparator, the identifier, leaves one option. That a selection can be planned
needs as many customer orders as a resequencing names (`ResequencingBuilds`), which
follows when every customer line of the production orders is there once
(`MatchingRows`); nothing in the program checks this, so the property excepts
resequencings of snapshots in which it is not so.

The same module proves the supply arithmetic, for any orders, dates and stock. The
library's induction theorems cannot be used, so induction is a fact about a set of
numbers or of finite sets, from well-foundedness (`CountingUp`, `GrowingSubsets`).
With it, a sum over a finite set exists as a solution of its recursive equation
(`SumExists`) and does not depend on the order of summation (`TotalWithout`); a list
in which every order stands behind as many as precede it lists them all, sorted
(`SortedSorts`). The allocation loop is then a *ledger*: before its turn an order
finds what is left plus what was received since, and it gets what it demands or all
there is (`LoopKeepsLedger`). Of any ledger, what was handed out equals the least of
the bounds that demand and stock set, turn by turn (`LedgerIsGreedy`), and a ledger
that receives no less at any turn serves in full whatever the other did
(`MoreSupplyServesMore`). The first gives `AllocationIsGreedy`, for the sequence by
due date, the second `SupplyNeverHurts`. That protection is punctual has an argument
of its own: the turns that are served in full up to any turn fit into the stock
received by then (`ServedFitsStock`), and in due order, or without supplies, every
day has a turn by which all due then are served and nothing later has arrived
(`TurnOfTheDay`, `ProtectedByTurn`); `ProtectedOnTime` sums them up. In order of
priority with supplies there is no such turn, see Findings. For
`CalculatorCoversBaseline` the calculator's sum over earlier orders is the ledger's
over earlier turns (`DemandInTurns`), so an order the baseline misses is one the
calculator counts (`MissedAreAffected`). The proof also shows what the ranking
needs: predicted quantities and amounts are integers (`OutcomesAreNumbers`).

*CaseWorkspaceProofs.* `AnswersKeepCoherence` was first stated of the page alone:
every step keeps it coherent. The proof needs that whatever the page would still
accept belongs to it (`InFlightMatches`), and this is not so after a final approval
that was accepted on another page than it was given on: the planning loop it
starts may later overwrite the approval the page has got since (two
independent-finance cases show it). So the property now says it of page and
requests together, and of every step but that one. `WorkspaceInvariant` supports it:
tokens are handed out once and only the newest can be valid (`TokensInOrder`,
`LoadsInOrder`), an operation carries what its kind carries (`CarriesItsDecision`), a
reopening has read its answers in order (`ReadInOrder`) and, unless its row was
touched, what it has read is what the server holds (`ReadIsCurrent`, from which
`ReopenShowsOneInstant` follows), and an operation that is valid finds the page as
it left it (`OperationMatchesPage`). The lemmas of the first half say what each
kind of step (beginning, going on, finishing, another user's write) leaves of
the requests in flight.

Only model-checked: the liveness properties (`ApprovalActedUpon`, `WaitersAnswered`,
`EverythingEnds`, `PlaybackEnds`, `ApprovalSettles`, `OperationEnds`), which are out
of the prover's reach, and the two findings of runs. Every invariant and action
property the passing runs check is a theorem.

## Findings

1. `retired`: when two workers fail on the same event, the loser of the race to
   record the failure takes the winner's generation change for a replaced approval
   and retires the event of a current approval; it is never planned
   (`worker.py:156`, against the exception's docstring `currentness.py:11`).
2. `once`: the projection is read before the claim is inserted (`live.py:337`), so
   a slow second request claims after the winner has finished and has a second
   analysis accepted, which the WorkIQ design rules out.

Two more places where the code does not do what the repository says. The
properties are stated so that they hold around them, and say exactly where:

3. An exception that leaves the worker, of a recovery or before the claim, ends the
   only polling loop of its process (`runtime.py:49-59`). The process goes on
   serving requests, and with a single replica an approval recorded afterwards waits
   until it is restarted, although the class promises to *advance persisted runtime
   work while the composed API is alive* (`runtime.py:13`). In ProposalFlow:
   `StartLoop`, `LoopFails`, then an approval; `ApprovalActedUpon`, `ApprovalSettles`
   and `PlaybackEnds` promise an end only while a loop is left.
4. The allocation of the combined response takes orders by priority. Supply received
   for an order due later stays available, so an order due earlier whose turn comes
   afterwards can take supply that arrives after its own due date and counts as
   protected (`services/analysis/exposure.py:46`), against `CONTEXT.md:79` and the
   demo contract
   (`docs/superpowers/specs/2026-08-30-supply-response-demo-contract-design.md`, line 323).
   Example: 900 usable units, 1,500 by transfer on day 5 and 6,000 by air on day 6; an
   order of 5,800 due on day 8 with priority 1 leaves 2,600 for an order of 2,500 due on
   day 5, for which only 2,400 have arrived. RL-001's own quantities leave too little
   for it. `ProtectionIsPunctual` promises on-time protection in every other case.

Observed while modelling, kept out of the runs because they are shown by reading
the code or contradict no statement of the repository:

* A new analysis of a decided independent-finance case leaves it in
  `reanalysis_required` (`store.py:762`) whatever status its caller passes; the
  demo contract says `awaiting_decision`
  (`docs/superpowers/specs/2026-08-30-supply-response-demo-contract-design.md`, line 440).
* No provider identity is stored, so the offered *Check send status* always
  refuses (`mail_service.py:473`).
* A resequencing is planned for customer orders that must match its production
  orders one to one (`planner.py:146`). Neither the analysis nor the decision looks,
  so on a snapshot that misses a line an approved option fails in planning, on every
  retry. `SelectionStands` excepts exactly this.
* In the legacy workflow a worker that fails on an event which another worker has
  planned meanwhile finds no row to record its failure in, and the `RecordNotFound`
  (`store.py:1951`, through `worker.py:162`) ends its loop: losing this race costs a
  replica its planning and playbacks.
* A runtime that keeps losing races counts failures and may end a healthy playback
  as failed; an e-mail whose process dies after the claim stays in `submitting`; a
  late result whose lease expired uncontended is dropped.
* `gather` without `return_exceptions` answers a failed request while the other
  retrievals run on; a cancellation releases no claim, so others wait for the lease.
  The 120-second timer inside the HTTP exchange cannot fire before the outer one.
* The analysis stored with a redacted text keeps the material hash of the original.
* `acceptFinalDecision` compares with the analysis of an earlier render
  (`useCaseWorkspace.ts:383`), so a final approval answered late can be shown beside
  a newer analysis, and the planning loop it starts can replace a decision of the
  page later. `AnswersKeepCoherence` excludes exactly that step.
* In the legacy workflow a transfer never asks Finance, whatever it costs: its roles
  are `_option_roles()` (`services/analysis/options.py:363`), where expedite and the
  combined response compare their cost. The demo plan speaks of Finance approval
  above USD 20,000 in general
  (`docs/superpowers/plans/2026-08-30-supply-response-demo-implementation.md`, line 27),
  the constant of *premium freight*; `StandingAuthorizationCovers` is about the latter.
* Legacy approve and reject may race: the status ends as executing while the
  current decision is the rejection.
* Between the match or commit and `case_response` (`routes/inbox.py:137` to `166`) the
  other replica may prune the case and create it again from a changed e-mail, so an
  answer can be about a newer fingerprint than was reviewed. `FoundAsReviewed` is
  about the moment the case is matched or committed.
* A late retry of the POST for a run that was pruned meanwhile creates it anew and
  evicts a newer one. A foreign key that stops the pruning is answered as *case
  already exists* (`store.py:573`).

## Not modelled

Authentication (stateless comparison of an actor), HTTP mapping and framing,
response normalisation, prompts, database engines (their transaction semantics is
an assumption of every model: reads before the first write see the latest commit,
locks are held from it on), migrations, synthetic data, the reporting export and
its deployment (no state the system keeps), the pages that only display. The
wording the disruption parser accepts is abstracted to what its checks tell apart.

## Plan

1. (done) The proposal workflow with its refinement, the claim, one live analysis,
   the e-mail, playback and the legacy workflow, checked and proved.
2. (done) The pipeline, retention, inbox and workspace, checked.
3. (done) The proofs about retention, the pipeline and the workspace.
4. (done) The proofs about the supply arithmetic.
5. (done) The abstract specifications of the e-mail and of the playback, and their
   refinement proofs.
6. (done) Polling loops that end, the planner's exceptions and on-time protection,
   checked and proved.
