------------------------- MODULE PresenterRunsProofs -------------------------
(* The history of presenter runs stays whole and bounded for any mailboxes,  *)
(* any number of requests, any earlier cases and any limit.                  *)
EXTENDS PresenterRuns, FiniteSetTheorems, TLAPS

-----------------------------------------------------------------------------
(* The schema *)

\* The tables a row cannot be without.
Mandatory(t) == {p \in References[t] : <<t, p>> \notin Optional}

\* Where DELETE_ORDER takes a table.
Position ==
    [case_projection |-> 1, outcome_observations |-> 2, supplier_email_revisions |-> 3,
     supplier_email_deliveries |-> 4, draft_artifacts |-> 5, execution_attempts |-> 6,
     execution_events |-> 7, action_projection |-> 8, playbacks |-> 9, outbox_events |-> 10,
     approval_satisfactions |-> 11, execution_actions |-> 12, selection_links |-> 13,
     case_proposal_selections |-> 14, finance_review_revisions |-> 15, decisions |-> 16,
     evidence_items |-> 17, analysis_versions |-> 18, analysis_claims |-> 19,
     operational_snapshots |-> 20, case_instances |-> 21]

LEMMA TablesAre == Tables = DOMAIN Position /\ DOMAIN References = Tables
  BY DEF Tables, References, CaseReferences, AnalysisReferences, DecisionReferences,
         ExecutionReferences, OutcomeReferences, Position

\* What the proofs use of the references: every table but two is found through
\* the case or through a parent it cannot be without.
LEMMA ReferenceFacts ==
    /\ \A t \in Tables : Mandatory(t) \subseteq Tables
    /\ \A t \in Tables : \A p \in Mandatory(t) : Position[t] < Position[p]
    /\ \A t \in Tables : \/ "case_instances" \in References[t]
                          \/ t \in {"case_instances", "action_projection"}
                          \/ \E p \in References[t] : p \in Mandatory(t)
    /\ \A t \in Tables : "analysis_claims" \notin References[t]
    /\ Mandatory("case_instances") = {}
    /\ Mandatory("operational_snapshots") = {"case_instances"}
    /\ Mandatory("case_projection") = {"case_instances"}
  BY DEF Tables, References, CaseReferences, AnalysisReferences, DecisionReferences,
         ExecutionReferences, OutcomeReferences, Position, Mandatory, Optional

LEMMA OrderFacts ==
    /\ Len(DeleteOrder) = 21
    /\ \A t \in Tables : Position[t] \in 1..21 /\ DeleteOrder[Position[t]] = t
    /\ \A i \in 1..21 : DeleteOrder[i] \in Tables /\ Position[DeleteOrder[i]] = i
    /\ Position["case_instances"] = 21
  BY TablesAre DEF DeleteOrder, Position
-----------------------------------------------------------------------------
(* What retention keeps *)

\* Newer is the order of creation, made total by the identifiers.
LEMMA NewerIsOrder ==
    ASSUME NEW at \in [CaseIds -> Nat]
    PROVE  /\ \A c \in CaseIds : ~Newer(at, c, c)
           /\ \A c, d \in CaseIds : Newer(at, c, d) \/ Newer(at, d, c) \/ c = d
           /\ \A c, d, e \in CaseIds : Newer(at, c, d) /\ Newer(at, d, e) => Newer(at, c, e)
  BY IdentityAssumption DEF Newer

NewerThan(at, all, c) == {d \in all : Newer(at, d, c)}

\* The number of newer cases orders cases as Newer does.
LEMMA RanksAreDistinct ==
    ASSUME NEW at \in [CaseIds -> Nat], NEW all \in SUBSET CaseIds, IsFiniteSet(all),
           NEW c \in all, NEW d \in all, Newer(at, c, d)
    PROVE  /\ IsFiniteSet(NewerThan(at, all, c)) /\ IsFiniteSet(NewerThan(at, all, d))
           /\ Cardinality(NewerThan(at, all, c)) \in Nat
           /\ Cardinality(NewerThan(at, all, d)) \in Nat
           /\ Cardinality(NewerThan(at, all, c)) < Cardinality(NewerThan(at, all, d))
<1>1. IsFiniteSet(NewerThan(at, all, c)) /\ IsFiniteSet(NewerThan(at, all, d))
  BY FS_Subset DEF NewerThan
<1>2. /\ NewerThan(at, all, c) \subseteq NewerThan(at, all, d)
      /\ c \in NewerThan(at, all, d) /\ c \notin NewerThan(at, all, c)
  BY NewerIsOrder DEF NewerThan
<1>3. NewerThan(at, all, c) # NewerThan(at, all, d)
  BY <1>2
<1>4. /\ Cardinality(NewerThan(at, all, c)) <= Cardinality(NewerThan(at, all, d))
      /\ Cardinality(NewerThan(at, all, c)) # Cardinality(NewerThan(at, all, d))
  BY <1>1, <1>2, <1>3, FS_Subset
<1> QED BY <1>1, <1>4, FS_CardinalityType

\* No case that is pruned is newer than one that is kept.
LEMMA PrunedAreOldest ==
    ASSUME NEW at \in [CaseIds -> Nat], NEW all \in SUBSET CaseIds, IsFiniteSet(all),
           NEW current, NEW limit \in Int,
           NEW c \in Historical(at, all, current, limit),
           NEW d \in (all \ {current}) \ Historical(at, all, current, limit)
    PROVE  at[d] >= at[c]
<1> DEFINE rest == all \ {current}
<1>1. rest \in SUBSET CaseIds /\ IsFiniteSet(rest) /\ c \in rest /\ d \in rest
  BY FS_Difference DEF Historical
<1>2. /\ Cardinality(NewerThan(at, rest, c)) >= limit
      /\ ~(Cardinality(NewerThan(at, rest, d)) >= limit)
  BY DEF Historical, NewerThan
<1>3. ~Newer(at, c, d)
  BY <1>1, <1>2, RanksAreDistinct
<1> QED BY <1>1, <1>3 DEF Newer

\* Besides the current case at most the limit is kept.
LEMMA KeptAreBounded ==
    ASSUME NEW at \in [CaseIds -> Nat], NEW all \in SUBSET CaseIds, IsFiniteSet(all),
           NEW current, NEW limit \in Nat
    PROVE  /\ IsFiniteSet(all \ Historical(at, all, current, limit))
           /\ Cardinality(all \ Historical(at, all, current, limit)) <= limit + 1
<1> DEFINE rest == all \ {current}
           kept == rest \ Historical(at, all, current, limit)
           rank == [c \in kept |-> Cardinality(NewerThan(at, rest, c))]
<1>1. rest \in SUBSET CaseIds /\ IsFiniteSet(rest) /\ IsFiniteSet(kept)
  BY FS_Difference
<1>2. \A c \in kept : rank[c] \in 0 .. limit - 1
  <2> SUFFICES ASSUME NEW c \in kept PROVE rank[c] \in 0 .. limit - 1
    OBVIOUS
  <2>1. ~(Cardinality(NewerThan(at, rest, c)) >= limit)
    BY DEF Historical, NewerThan
  <2>2. Cardinality(NewerThan(at, rest, c)) \in Nat
    BY <1>1, FS_Subset, FS_CardinalityType DEF NewerThan
  <2> QED BY <2>1, <2>2
<1>3. \A c, d \in kept : c # d => rank[c] # rank[d]
  <2> SUFFICES ASSUME NEW c \in kept, NEW d \in kept, c # d PROVE rank[c] # rank[d]
    OBVIOUS
  <2>1. Newer(at, c, d) \/ Newer(at, d, c)
    BY <1>1, NewerIsOrder
  <2>2. CASE Newer(at, c, d)
    BY <1>1, <2>2, RanksAreDistinct
  <2>3. CASE Newer(at, d, c)
    BY <1>1, <2>3, RanksAreDistinct
  <2> QED BY <2>1, <2>2, <2>3
<1>4. rank \in Injection(kept, 0 .. limit - 1)
  BY <1>2, <1>3 DEF Injection, IsInjective
<1>5. Cardinality(kept) <= limit
  <2>1. IsFiniteSet(0 .. limit - 1) /\ Cardinality(0 .. limit - 1) = limit
    BY FS_Interval
  <2> QED BY <1>4, <2>1, FS_Injection
<1>6. IsFiniteSet(all \ Historical(at, all, current, limit))
  BY FS_Difference
<1>7. all \ Historical(at, all, current, limit) \subseteq kept \union {current}
  OBVIOUS
<1>8. IsFiniteSet(kept \union {current}) /\ Cardinality(kept \union {current}) <= limit + 1
  <2> HIDE DEF kept
  <2>1. Cardinality(kept) \in Nat
    BY <1>1, FS_CardinalityType
  <2>2. IsFiniteSet(kept)
    BY <1>1
  <2>3. /\ IsFiniteSet(kept \union {current})
        /\ Cardinality(kept \union {current})
              = IF current \in kept THEN Cardinality(kept) ELSE Cardinality(kept) + 1
    BY <2>2, FS_AddElement
  <2> QED BY <1>5, <2>1, <2>3
<1> QED BY <1>6, <1>7, <1>8, FS_Subset, FS_CardinalityType

\* The script's current case: of finitely many cases one is the newest.
LEMMA NewestExists ==
    ASSUME NEW at \in [CaseIds -> Nat], NEW all \in SUBSET CaseIds, IsFiniteSet(all), all # {}
    PROVE  \E c \in all : \A d \in all \ {c} : Newer(at, c, d)
<1> DEFINE above == {NewerThan(at, all, c) : c \in all}
<1>1. above # {} /\ above \subseteq FiniteSubsetsOf(all)
  <2>1. \A c \in all : NewerThan(at, all, c) \in SUBSET all
    BY DEF NewerThan
  <2>2. \A c \in all : IsFiniteSet(NewerThan(at, all, c))
    BY <2>1, FS_Subset
  <2> QED BY <2>1, <2>2 DEF FiniteSubsetsOf
<1>2. PICK x \in above : \A y \in above : <<y, x>> \notin StrictSubsetOrdering(all)
  BY <1>1, FS_StrictSubsetOrderingWellFounded, WFMin
<1>3. PICK c \in all : x = NewerThan(at, all, c)
  OBVIOUS
<1>4. \A d \in all \ {c} : ~Newer(at, d, c)
  <2> SUFFICES ASSUME NEW d \in all \ {c}, Newer(at, d, c) PROVE FALSE
    OBVIOUS
  <2>1. /\ NewerThan(at, all, d) \subseteq x /\ d \in x /\ d \notin NewerThan(at, all, d)
    BY <1>3, NewerIsOrder DEF NewerThan
  <2>2. <<NewerThan(at, all, d), x>> \in StrictSubsetOrdering(all)
    BY <1>3, <2>1 DEF StrictSubsetOrdering, NewerThan
  <2> QED BY <1>2, <2>2
<1> QED BY <1>4, NewerIsOrder

-----------------------------------------------------------------------------
(* The inductive invariant *)

StoredCases == {c \in CaseIds : Stored(rows, c)}

\* Every row has the rows it cannot be without.
Whole(r) == \A row \in r : \A p \in Mandatory(row[2]) : <<row[1], p>> \in r

CommittedIsWhole ==
    /\ Whole(rows) /\ IsFiniteSet(StoredCases)
    /\ \A c \in CaseIds : Stored(rows, c) => NewCase(c) \subseteq rows

\* A request past its posting has a case; the lock has one holder; what the
\* script previewed is finite, so the limit it derives from it is a number.
RequestsMatch ==
    /\ \A q \in Requests : requests[q].pc \notin {"idle", "answered"}
          => requests[q].case \in CaseIds
    /\ \A q \in Requests : requests[q].pc = "pruning" <=> txn.by = q
    /\ script.pc = "applying" <=> txn.by = "script"
    /\ IsFiniteSet(script.plan.retained)
    /\ txn.by = None => txn = NoTxn

\* Whom the transaction adds and prunes, as long as it lasts: other
\* components neither create nor delete cases.
PlanStands ==
    /\ txn.plan.pruned \subseteq Presenter(rows)
    /\ \A c \in txn.plan.pruned, d \in Presenter(rows) \ txn.plan.pruned :
          stored[d].at >= stored[c].at
    /\ txn.by = "script" => txn.plan = script.plan /\ txn.inserts = {}
    /\ txn.by \in Requests =>
          LET c == requests[txn.by].case
          IN  /\ ~Stored(rows, c) /\ txn.inserts = NewCase(c)
              /\ Cardinality(Presenter(rows \union NewCase(c)) \ txn.plan.pruned)
                    <= HistoricalLimit + 1

\* How far the statements have come.  Without a write to the cases being
\* pruned, the tables already taken have no row of theirs left.
DeletionProceeds ==
    /\ Whole(View)
    /\ txn.pos \in 1..22
    /\ txn.removed \subseteq rows
    /\ \A row \in txn.removed : row[1] \in txn.plan.pruned /\ Position[row[2]] < txn.pos
    /\ txn.pos = 22 => \A c \in txn.plan.pruned : <<c, "case_instances">> \in txn.removed
    /\ ~txn.raced => \A c \in txn.plan.pruned, t \in Tables :
                        Position[t] < txn.pos => <<c, t>> \notin View

RetentionInvariant ==
    /\ TypeOK /\ CommittedIsWhole /\ RequestsMatch
    /\ txn.by # None => PlanStands /\ DeletionProceeds

LEMMA NoPlanTyped ==
    NoPlan \in Plans /\ IsFiniteSet(NoPlan.retained) /\ NoTxn.plan = NoPlan /\ NoTxn.by = None
  BY FS_EmptySet DEF NoPlan, Plans, PlanCounts, NoTxn

\* A plan lists cases and counts their rows.
LEMMA PlanTyped ==
    ASSUME NEW r, NEW at, NEW current \in CaseIds, NEW limit,
           IsFiniteSet(Presenter(r))
    PROVE  /\ PlanFor(r, at, current, limit) \in Plans
           /\ PlanFor(r, at, current, limit).retained \subseteq Presenter(r)
           /\ PlanFor(r, at, current, limit).pruned
                 = Historical(at, Presenter(r), current, limit)
<1> DEFINE pruned == Historical(at, Presenter(r), current, limit)
<1>1. Presenter(r) \subseteq CaseIds /\ pruned \subseteq Presenter(r)
  BY DEF Presenter, Historical
<1>2. IsFiniteSet(pruned)
  BY <1>1, FS_Subset
<1>3. \A t \in Tables : Cardinality({c \in pruned : <<c, t>> \in r}) \in Nat
  <2> TAKE t \in Tables
  <2>1. {c \in pruned : <<c, t>> \in r} \subseteq pruned
    OBVIOUS
  <2> QED BY <1>2, <2>1, FS_Subset, FS_CardinalityType
<1>4. Counts(r, pruned) \in PlanCounts
  BY <1>3 DEF Counts, PlanCounts
<1> QED BY <1>1, <1>4 DEF PlanFor, Plans

\* The script's plan: the current case is the newest, or there is none.
LEMMA ScriptPlanTyped ==
    ASSUME NEW r, NEW at \in [CaseIds -> Nat], NEW limit \in Int, IsFiniteSet(Presenter(r))
    PROVE  /\ Plan(r, at, limit) \in Plans
           /\ Plan(r, at, limit).pruned \subseteq Presenter(r)
           /\ IsFiniteSet(Plan(r, at, limit).retained)
           /\ \A c \in Plan(r, at, limit).pruned,
                 d \in Presenter(r) \ Plan(r, at, limit).pruned : at[d] >= at[c]
<1> DEFINE all == Presenter(r)
           newest == CHOOSE c \in all : \A d \in all \ {c} : Newer(at, c, d)
<1>1. CASE all = {}
  <2>1. Plan(r, at, limit) = [NoPlan EXCEPT !.counts = Counts(r, {})]
    BY <1>1 DEF Plan
  <2>2. Counts(r, {}) \in PlanCounts
    BY FS_EmptySet DEF Counts, PlanCounts
  <2> QED BY <2>1, <2>2, FS_EmptySet DEF Plans, NoPlan
<1>2. CASE all # {}
  <2>1. all \in SUBSET CaseIds
    BY DEF Presenter
  <2>2. newest \in all /\ \A d \in all \ {newest} : Newer(at, newest, d)
    BY <1>2, <2>1, NewestExists
  <2>3. Plan(r, at, limit) = PlanFor(r, at, newest, limit)
    BY <1>2 DEF Plan
  <2> HIDE DEF newest
  <2>4. /\ Plan(r, at, limit) \in Plans
        /\ Plan(r, at, limit).pruned = Historical(at, all, newest, limit)
        /\ Plan(r, at, limit).retained \subseteq all
    BY <2>1, <2>2, <2>3, PlanTyped
  <2>5. ASSUME NEW c \in Historical(at, all, newest, limit),
               NEW d \in all \ Historical(at, all, newest, limit)
        PROVE  at[d] >= at[c]
    <3>1. CASE d = newest
      BY <2>1, <2>2, <3>1 DEF Historical, Newer
    <3>2. CASE d # newest
      BY <2>1, <3>2, PrunedAreOldest
    <3> QED BY <3>1, <3>2
  <2>6. IsFiniteSet(Plan(r, at, limit).retained)
    BY <2>4, FS_Subset
  <2> QED BY <2>4, <2>5, <2>6 DEF Historical
<1> QED BY <1>1, <1>2

-----------------------------------------------------------------------------
(* The mailbox and the requests *)

LEMMA MailboxStays ==
    ASSUME RetentionInvariant, CheckInbox \/ EditMail PROVE RetentionInvariant'
<1>1. CASE CheckInbox
  <2>1. minted' \subseteq Runs
    BY <1>1 DEF CheckInbox, RetentionInvariant, TypeOK
  <2>2. ASSUME NEW n \in PageSizes(mailbox)
        PROVE  Discover(mailbox, n).listed \subseteq [id : MessageIds, body : Bodies]
    <3>1. n \in Nat /\ n <= Len(mailbox) /\ mailbox \in Seq(Messages)
      BY InboxAssumption DEF PageSizes, RetentionInvariant, TypeOK
    <3>2. \A i \in ReadInFull(mailbox, n) : mailbox[i] \in Messages
      BY <3>1 DEF ReadInFull, Candidates
    <3> QED BY <3>2 DEF Discover, Messages
  <2>3. TypeOK'
    BY <1>1, <2>1, <2>2 DEF CheckInbox, RetentionInvariant, TypeOK
  <2> QED BY <1>1, <2>3 DEF CheckInbox, RetentionInvariant, CommittedIsWhole, StoredCases,
                            RequestsMatch, PlanStands, DeletionProceeds, View
<1>2. CASE EditMail
  <2>1. mailbox' \in Seq(Messages)
    <3>1. PICK i \in 1 .. Len(mailbox) :
             \/ \E text \in Texts : mailbox' = [mailbox EXCEPT ![i].body.text = text]
                                    /\ mailbox[i].body.kind = "statement"
             \/ mailbox' = Append(mailbox, [mailbox[i] EXCEPT !.locator = "copy"])
      BY <1>2 DEF EditMail
    <3>2. mailbox \in Seq(Messages) /\ mailbox[i] \in Messages
      BY DEF RetentionInvariant, TypeOK
    <3>3. [mailbox[i] EXCEPT !.locator = "copy"] \in Messages
      BY <3>2 DEF Messages
    <3>4. ASSUME mailbox[i].body.kind = "statement", NEW text \in Texts
          PROVE  [mailbox[i] EXCEPT !.body.text = text] \in Messages
      <4>1. mailbox[i].body \in [kind : {"statement"}, facts : Facts, text : Texts]
        BY <3>2, <3>4 DEF Messages, Bodies
      <4>2. [mailbox[i].body EXCEPT !.text = text] \in Bodies
        BY <4>1 DEF Bodies
      <4> QED BY <3>2, <4>2 DEF Messages
    <3> QED BY <3>1, <3>2, <3>3, <3>4
  <2>2. TypeOK'
    BY <1>2, <2>1 DEF EditMail, RetentionInvariant, TypeOK
  <2> QED BY <1>2, <2>2 DEF EditMail, RetentionInvariant, CommittedIsWhole, StoredCases,
                            RequestsMatch, PlanStands, DeletionProceeds, View
<1> QED BY <1>1, <1>2

\* A request that moves on outside the transaction disturbs nothing.
LEMMA RequestMoves ==
    ASSUME RetentionInvariant, NEW q \in Requests, NEW next,
           requests' = [requests EXCEPT ![q] = next],
           next \in [pc : {"idle", "posted", "reviewed", "retrieving", "creating", "conflicted",
                           "found", "answered"},
                     case : CaseIds \union {None}, body : AnyBody, answer : Codes \union {"none"}],
           next.pc \notin {"idle", "answered"} => next.case \in CaseIds,
           requests[q].pc # "pruning",
           UNCHANGED <<mail, now, rows, stored, txn, script, writes>>
    PROVE  RetentionInvariant'
<1>1. \A p \in Requests : requests'[p] = IF p = q THEN next ELSE requests[p]
  BY DEF RetentionInvariant, TypeOK
<1>2. txn.by # q
  BY DEF RetentionInvariant, RequestsMatch
<1>3. TypeOK'
  BY DEF RetentionInvariant, TypeOK, mail
<1>4. RequestsMatch'
  <2>1. requests'[q].pc # "pruning"
    BY <1>1
  <2> QED BY <1>1, <1>2, <2>1 DEF RetentionInvariant, RequestsMatch
<1>5. txn.by # None => PlanStands'
  BY <1>1, <1>2 DEF RetentionInvariant, PlanStands, Presenter
<1> QED BY <1>3, <1>4, <1>5 DEF RetentionInvariant, CommittedIsWhole, StoredCases,
                                DeletionProceeds, View

LEMMA CodesAre == Codes = {"ok", "INBOUND_EMAIL_CHANGED", "INBOUND_EMAIL_CONFLICT",
                           "INBOUND_EMAIL_UNSUPPORTED", "INBOUND_EMAIL_UNAVAILABLE"}
  BY DEF Codes

\* The cases of review_email are exhaustive.
LEMMA ReviewAnswers ==
    ASSUME NEW box \in Seq(Messages), NEW id, NEW body
    PROVE  Review(box, id, body) \in Codes
<1> DEFINE found == {i \in 1 .. Len(box) : box[i].id = id}
           m == box[CHOOSE i \in found : TRUE]
           n == Cardinality(found)
<1>1. IsFiniteSet(found)
  BY FS_Interval, FS_Subset
<1>2. n \in Nat /\ (n = 0 <=> found = {})
  BY <1>1, FS_CardinalityType, FS_EmptySet
<1>3. Review(box, id, body) =
        CASE found = {} \/ n > MaxBodyReads + 1 -> "INBOUND_EMAIL_UNAVAILABLE"
          [] found # {} /\ n \in 2 .. MaxBodyReads + 1 -> "INBOUND_EMAIL_CONFLICT"
          [] n = 1 /\ ~BodyValid(m) -> "INBOUND_EMAIL_CONFLICT"
          [] n = 1 /\ BodyValid(m) /\ m.body # body -> "INBOUND_EMAIL_CHANGED"
          [] n = 1 /\ BodyValid(m) /\ m.body = body ->
               IF Parsed(body) THEN "ok" ELSE "INBOUND_EMAIL_UNSUPPORTED"
  BY DEF Review
<1> HIDE DEF found, m, n
<1>4. \/ found = {} \/ n > MaxBodyReads + 1 \/ n = 1
      \/ found # {} /\ n \in 2 .. MaxBodyReads + 1
  BY <1>2, InboxAssumption
<1> QED BY <1>3, <1>4, CodesAre

\* The steps of a request that neither take the lock nor hold it.
LEMMA RequestStays ==
    ASSUME RetentionInvariant, NEW q \in Requests,
           \/ Post(q) \/ ReviewInbound(q) \/ Lookup(q) \/ Retrieve(q) \/ Unavailable(q)
           \/ ResolveConflict(q) \/ Respond(q)
    PROVE  RetentionInvariant'
<1>1. /\ requests \in [Requests -> [pc : {"idle", "posted", "reviewed", "retrieving", "creating",
                                          "pruning", "conflicted", "found", "answered"},
                                    case : CaseIds \union {None}, body : AnyBody,
                                    answer : Codes \union {"none"}]]
      /\ requests[q].pc \notin {"idle", "answered"} => requests[q].case \in CaseIds
      /\ Idle \in [pc : {"idle"}, case : CaseIds \union {None}, body : AnyBody,
                   answer : Codes \union {"none"}]
  BY DEF RetentionInvariant, TypeOK, RequestsMatch, Idle, AnyBody, NoSource
<1>2. ASSUME NEW pc \in {"reviewed", "retrieving", "creating", "conflicted", "found"},
             GoTo(q, pc), requests[q].pc \notin {"idle", "answered", "pruning"},
             UNCHANGED <<mail, now, rows, stored, txn, script, writes>>
      PROVE  RetentionInvariant'
  <2> DEFINE next == [requests[q] EXCEPT !.pc = pc]
  <2>1. requests' = [requests EXCEPT ![q] = next]
    BY <1>2 DEF GoTo
  <2>2. /\ next \in [pc : {"reviewed", "retrieving", "creating", "conflicted", "found"},
                     case : CaseIds, body : AnyBody, answer : Codes \union {"none"}]
    BY <1>1, <1>2
  <2> HIDE DEF next
  <2> QED BY <1>2, <2>1, <2>2, RequestMoves
<1>3. ASSUME NEW code \in Codes, Answer(q, code), requests[q].pc # "pruning",
             UNCHANGED <<mail, now, rows, stored, txn, script, writes>>
      PROVE  RetentionInvariant'
  <2> DEFINE next == [[Idle EXCEPT !.pc = "answered"] EXCEPT !.answer = code]
  <2>1. requests' = [requests EXCEPT ![q] = next]
    BY <1>3 DEF Answer
  <2>2. next \in [pc : {"answered"}, case : CaseIds \union {None}, body : AnyBody,
                  answer : Codes \union {"none"}]
    BY <1>1
  <2> HIDE DEF next
  <2> QED BY <1>3, <2>1, <2>2, RequestMoves
<1>4. CASE Post(q)
  <2>1. PICK run \in minted, m \in seen :
           requests' = [requests EXCEPT ![q] = [pc |-> "posted", case |-> CaseOf(m.id, run),
                                                body |-> m.body, answer |-> "none"]]
    BY <1>4 DEF Post
  <2>2. run \in Runs /\ m.id \in MessageIds /\ m.body \in Bodies
    BY DEF RetentionInvariant, TypeOK
  <2>3. CaseOf(m.id, run) \in CaseIds /\ m.body \in AnyBody
    BY <2>2 DEF CaseOf, CaseIds, AnyBody
  <2> DEFINE next == [pc |-> "posted", case |-> CaseOf(m.id, run), body |-> m.body,
                      answer |-> "none"]
  <2>4. next \in [pc : {"posted"}, case : CaseIds, body : AnyBody, answer : Codes \union {"none"}]
    BY <2>3
  <2>5. requests' = [requests EXCEPT ![q] = next]
    BY <2>1
  <2> HIDE DEF next
  <2> QED BY <1>4, <2>4, <2>5, RequestMoves DEF Post
<1>5. CASE ReviewInbound(q)
  <2>1. Review(mailbox, requests[q].case[1], requests[q].body) \in Codes
    BY ReviewAnswers DEF RetentionInvariant, TypeOK
  <2> QED BY <1>2, <1>3, <1>5, <2>1 DEF ReviewInbound
<1>6. MatchingCase(requests[q].case, requests[q].body)
        \in {"absent", "ok", "INBOUND_EMAIL_CHANGED"}
  BY DEF MatchingCase
<1>7. CASE Lookup(q)
  BY <1>2, <1>3, <1>6, <1>7, CodesAre DEF Lookup
<1>8. CASE Retrieve(q)
  BY <1>2, <1>3, <1>8, CodesAre DEF Retrieve
<1>9. CASE Unavailable(q)
  BY <1>3, <1>9, CodesAre DEF Unavailable
<1>10. CASE ResolveConflict(q)
  BY <1>2, <1>3, <1>6, <1>10, CodesAre DEF ResolveConflict
<1>11. CASE Respond(q)
  <2> DEFINE code == IF Stored(rows, requests[q].case) THEN "ok"
                     ELSE "INBOUND_EMAIL_UNAVAILABLE"
             next == [[requests[q] EXCEPT !.pc = "answered"] EXCEPT !.answer = code]
  <2>1. requests' = [requests EXCEPT ![q] = next]
    BY <1>11 DEF Respond
  <2>2. code \in Codes
    BY CodesAre
  <2>3. next \in [pc : {"answered"}, case : CaseIds \union {None}, body : AnyBody,
                  answer : Codes \union {"none"}]
    BY <1>1, <2>2
  <2> HIDE DEF next
  <2> QED BY <1>11, <2>1, <2>3, RequestMoves DEF Respond
<1> QED BY <1>4, <1>5, <1>7, <1>8, <1>9, <1>10, <1>11

-----------------------------------------------------------------------------
(* Taking the lock *)

LEMMA RecordedAtTyped ==
    ASSUME RetentionInvariant
    PROVE  /\ RecordedAt \in [CaseIds -> Nat]
           /\ \A c \in CaseIds : RecordedAt[c] = stored[c].at
           /\ IsFiniteSet(Presenter(rows))
<1>1. Presenter(rows) \subseteq StoredCases
  BY DEF Presenter, StoredCases
<1> QED BY <1>1, FS_Subset DEF RetentionInvariant, TypeOK, CommittedIsWhole, RecordedAt

\* A fresh transaction has not deleted anything yet.
LEMMA FreshTransaction ==
    ASSUME RetentionInvariant, Whole(rows \union txn'.inserts),
           txn'.removed = {}, txn'.pos = 1, rows' = rows
    PROVE  DeletionProceeds'
<1>1. View' = rows \union txn'.inserts
  BY DEF View
<1>2. \A t \in Tables : Position[t] >= 1
  BY OrderFacts
<1>3. Whole(View')
  BY <1>1
<1>4. \A t \in Tables : ~(Position[t] < txn'.pos)
  BY <1>2, OrderFacts
<1> QED BY <1>3, <1>4 DEF DeletionProceeds

LEMMA ScriptSteps ==
    ASSUME RetentionInvariant, Preview \/ Apply \/ ApplyTimesOut PROVE RetentionInvariant'
<1>1. ASSUME UNCHANGED <<mail, now, rows, stored, txn, requests, writes>>,
             script.pc # "applying", script' \in [pc : {"idle", "previewed"}, plan : Plans],
             IsFiniteSet(script'.plan.retained)
      PROVE  RetentionInvariant'
  <2>1. TypeOK'
    BY <1>1 DEF RetentionInvariant, TypeOK, mail
  <2>2. RequestsMatch' /\ txn.by # "script"
    BY <1>1 DEF RetentionInvariant, RequestsMatch
  <2> QED BY <1>1, <2>1, <2>2 DEF RetentionInvariant, CommittedIsWhole, StoredCases, PlanStands,
                                  Presenter, DeletionProceeds, View
<1>2. CASE Preview
  <2>1. /\ Plan(rows, RecordedAt, HistoricalLimit) \in Plans
        /\ IsFiniteSet(Plan(rows, RecordedAt, HistoricalLimit).retained)
    BY RecordedAtTyped, ScriptPlanTyped, PresenterAssumption
  <2> QED BY <1>1, <1>2, <2>1 DEF Preview
<1>3. CASE ApplyTimesOut
  BY <1>1, <1>3, NoPlanTyped DEF ApplyTimesOut
<1>4. CASE Apply
  <2> DEFINE limit == IF script.plan.retained = {} THEN 0
                      ELSE Cardinality(script.plan.retained) - 1
             plan == Plan(rows, RecordedAt, limit)
  <2>1. script.pc = "previewed" /\ txn.by = None
        /\ UNCHANGED <<mail, now, rows, stored, requests, writes>>
    BY <1>4 DEF Apply
  <2>2. CASE ~PlanUnchanged(plan, script.plan)
    BY <1>1, <1>4, <2>1, <2>2, NoPlanTyped DEF Apply
  <2>3. CASE PlanUnchanged(plan, script.plan)
    <3>1. /\ script' = [script EXCEPT !.pc = "applying"]
          /\ txn' = [NoTxn EXCEPT !.by = "script", !.pos = 1, !.plan = plan]
      BY <1>4, <2>3 DEF Apply
    <3> HIDE DEF limit, plan
    <3>2. plan = script.plan /\ script.plan \in Plans /\ script'.plan = script.plan
          /\ script' \in [pc : {"applying"}, plan : Plans]
      BY <2>3, <3>1 DEF PlanUnchanged, RetentionInvariant, TypeOK
    <3>3. /\ txn'.by = "script" /\ txn'.pos = 1 /\ txn'.plan = plan /\ txn'.inserts = {}
          /\ txn'.removed = {} /\ txn'.raced = FALSE
      BY <3>1 DEF NoTxn
    <3>4. TypeOK'
      BY <2>1, <3>1, <3>2 DEF RetentionInvariant, TypeOK, NoTxn, mail
    <3>5. RequestsMatch'
      BY <2>1, <3>2, <3>3, IdentityAssumption DEF RetentionInvariant, RequestsMatch
    <3>6. PlanStands'
      <4>1. /\ plan.pruned \subseteq Presenter(rows)
            /\ \A c \in plan.pruned, d \in Presenter(rows) \ plan.pruned :
                  stored[d].at >= stored[c].at
        <5>1. limit \in Int
          BY FS_CardinalityType DEF limit, RetentionInvariant, RequestsMatch
        <5>2. /\ plan.pruned \subseteq Presenter(rows)
              /\ \A c \in plan.pruned, d \in Presenter(rows) \ plan.pruned :
                    RecordedAt[d] >= RecordedAt[c]
          BY <5>1, RecordedAtTyped, ScriptPlanTyped DEF plan
        <5>3. Presenter(rows) \subseteq CaseIds
          BY DEF Presenter
        <5> QED BY <5>2, <5>3, RecordedAtTyped
      <4> QED BY <2>1, <3>2, <3>3, <4>1, IdentityAssumption DEF PlanStands, Presenter
    <3>7. DeletionProceeds'
      BY <2>1, <3>3, FreshTransaction DEF RetentionInvariant, CommittedIsWhole, Whole
    <3> QED BY <2>1, <3>4, <3>5, <3>6, <3>7 DEF RetentionInvariant, CommittedIsWhole, StoredCases
  <2> QED BY <2>2, <2>3
<1> QED BY <1>2, <1>3, <1>4
\* A new case brings the rows its own rows refer to.
LEMMA NewCaseIsWhole ==
    ASSUME NEW r \in SUBSET (CaseIds \X Tables), Whole(r), NEW c \in CaseIds
    PROVE  /\ NewCase(c) \subseteq CaseIds \X Tables
           /\ Whole(r \union NewCase(c))
<1>1. {"case_instances", "operational_snapshots", "case_projection"} \subseteq Tables
  BY TablesAre DEF Position
<1>2. ASSUME NEW row \in NewCase(c), NEW p \in Mandatory(row[2])
      PROVE  <<row[1], p>> \in NewCase(c)
  BY <1>2, ReferenceFacts DEF NewCase
<1> QED BY <1>1, <1>2 DEF NewCase, Whole

LEMMA PresenterGrows ==
    ASSUME NEW r, NEW c \in CaseIds
    PROVE  /\ Presenter(r \union NewCase(c)) \subseteq Presenter(r) \union {c}
           /\ Presenter(r) \subseteq Presenter(r \union NewCase(c))
           /\ Presenter(r) \subseteq CaseIds /\ Presenter(r \union NewCase(c)) \subseteq CaseIds
           /\ ~Stored(r, c) => c \notin Presenter(r)
  BY DEF Presenter, Stored, NewCase

\* A request that goes to another step keeps its case.
LEMMA GoesTo ==
    ASSUME TypeOK, NEW q \in Requests,
           NEW pc \in {"pruning", "conflicted", "found"},
           requests' = [requests EXCEPT ![q].pc = pc]
    PROVE  /\ requests' \in [Requests -> [pc : {"idle", "posted", "reviewed", "retrieving",
                                               "creating", "pruning", "conflicted", "found",
                                               "answered"},
                                         case : CaseIds \union {None}, body : AnyBody,
                                         answer : Codes \union {"none"}]]
           /\ \A p \in Requests : /\ requests'[p].case = requests[p].case
                                  /\ requests'[p].body = requests[p].body
                                  /\ requests'[p].pc = IF p = q THEN pc ELSE requests[p].pc
<1> DEFINE R == [pc : {"idle", "posted", "reviewed", "retrieving", "creating",
                       "pruning", "conflicted", "found", "answered"},
                 case : CaseIds \union {None}, body : AnyBody, answer : Codes \union {"none"}]
           next == [requests[q] EXCEPT !.pc = pc]
<1>1. requests \in [Requests -> R]
  BY DEF TypeOK
<1>2. \A x \in R : [x EXCEPT !.pc = pc] \in R
  OBVIOUS
<1>3. next \in R /\ next.case = requests[q].case /\ next.body = requests[q].body /\ next.pc = pc
  BY <1>1, <1>2
<1>4. requests' = [requests EXCEPT ![q] = next]
  OBVIOUS
<1> HIDE DEF next, R
<1>5. /\ requests' \in [Requests -> R]
      /\ \A p \in Requests : requests'[p] = IF p = q THEN next ELSE requests[p]
  BY <1>1, <1>3, <1>4
<1> QED BY <1>3, <1>5 DEF R

LEMMA CreateCaseStays ==
    ASSUME RetentionInvariant, NEW q \in Requests, CreateCase(q) PROVE RetentionInvariant'
<1> DEFINE c == requests[q].case
           r == rows \union NewCase(c)
           at == [RecordedAt EXCEPT ![c] = now']
           plan == PlanFor(r, at, c, HistoricalLimit)
<1>1. /\ requests[q].pc = "creating" /\ txn.by = None /\ c \in CaseIds
      /\ UNCHANGED <<mail, rows, stored, script, writes>>
  BY DEF CreateCase, RetentionInvariant, RequestsMatch
<1>2. CASE Stored(rows, c)
  <2> DEFINE next == [requests[q] EXCEPT !.pc = "conflicted"]
  <2>1. requests' = [requests EXCEPT ![q] = next] /\ UNCHANGED <<txn, now>>
    BY <1>2 DEF CreateCase, GoTo
  <2>2. next \in [pc : {"conflicted"}, case : CaseIds, body : AnyBody,
                  answer : Codes \union {"none"}]
    BY <1>1 DEF RetentionInvariant, TypeOK
  <2> HIDE DEF next
  <2> QED BY <1>1, <2>1, <2>2, RequestMoves
<1>3. CASE ~Stored(rows, c)
  <2>1. /\ now' \in now .. MaxNow
        /\ requests' = [requests EXCEPT ![q].pc = "pruning"]
        /\ txn' = [NoTxn EXCEPT !.by = q, !.pos = 1, !.inserts = NewCase(c), !.plan = plan]
    BY <1>3 DEF CreateCase, GoTo
  <2> HIDE DEF plan
  <2>2. /\ txn'.by = q /\ txn'.pos = 1 /\ txn'.inserts = NewCase(c) /\ txn'.plan = plan
        /\ txn'.removed = {} /\ txn'.raced = FALSE
    BY <2>1 DEF NoTxn
  <2>3. now' \in Nat /\ at \in [CaseIds -> Nat] /\ \A d \in CaseIds : d # c => at[d] = stored[d].at
    BY <2>1, <1>1, RecordedAtTyped, PresenterAssumption DEF RetentionInvariant, TypeOK
  <2>presenter. /\ Presenter(r) \subseteq Presenter(rows) \union {c} /\ Presenter(rows) \subseteq Presenter(r)
        /\ Presenter(rows) \subseteq CaseIds /\ Presenter(r) \subseteq CaseIds
        /\ c \notin Presenter(rows)
    BY <1>1, <1>3, PresenterGrows
  <2> HIDE DEF at, c, r
  <2>4. IsFiniteSet(Presenter(r))
    <3>1. IsFiniteSet(Presenter(rows) \union {c})
      BY RecordedAtTyped, FS_AddElement
    <3> QED BY <2>presenter, <3>1, FS_Subset
  <2>5. plan \in Plans /\ plan.pruned = Historical(at, Presenter(r), c, HistoricalLimit)
    BY <1>1, <2>4, PlanTyped DEF plan
  <2>pruned. plan.pruned \subseteq Presenter(r) \ {c}
    BY <2>5 DEF Historical
  <2>6. NewCase(c) \subseteq CaseIds \X Tables /\ Whole(r)
    BY <1>1, NewCaseIsWhole DEF RetentionInvariant, CommittedIsWhole, TypeOK, r
  <2>7. \A p \in Requests :
           /\ requests'[p].case = requests[p].case
           /\ requests'[p].pc = IF p = q THEN "pruning" ELSE requests[p].pc
    BY <2>1, GoesTo DEF RetentionInvariant
  <2>8. TypeOK'
    <3>1. requests' \in [Requests -> [pc : {"idle", "posted", "reviewed", "retrieving", "creating",
                                            "pruning", "conflicted", "found", "answered"},
                                      case : CaseIds \union {None}, body : AnyBody,
                                      answer : Codes \union {"none"}]]
      BY <2>1, GoesTo DEF RetentionInvariant
    <3>2. txn' \in [by : Requests \union {None, "script"}, pos : Nat, plan : Plans,
                    inserts : SUBSET (CaseIds \X Tables), removed : SUBSET (CaseIds \X Tables),
                    raced : BOOLEAN]
      BY <2>1, <2>5, <2>6 DEF NoTxn
    <3> QED BY <1>1, <2>3, <3>1, <3>2 DEF RetentionInvariant, TypeOK, mail
  <2>9. RequestsMatch'
    BY <1>1, <2>2, <2>7, IdentityAssumption DEF RetentionInvariant, RequestsMatch
  <2>10. PlanStands'
    <3>1. plan.pruned \subseteq Presenter(rows)
      BY <2>presenter, <2>pruned
    <3>2. ASSUME NEW e \in plan.pruned, NEW d \in Presenter(rows) \ plan.pruned
          PROVE  stored[d].at >= stored[e].at
      <4>1. /\ e \in Historical(at, Presenter(r), c, HistoricalLimit)
            /\ d \in (Presenter(r) \ {c}) \ Historical(at, Presenter(r), c, HistoricalLimit)
            /\ e # c /\ d # c /\ e \in CaseIds /\ d \in CaseIds
        BY <2>presenter, <2>pruned, <2>5, <3>1, <3>2
      <4>2. at[d] >= at[e]
        BY <2>presenter, <2>3, <2>4, <4>1, PrunedAreOldest, PresenterAssumption
      <4> QED BY <2>3, <4>1, <4>2
    <3>3. Cardinality(Presenter(r) \ plan.pruned) <= HistoricalLimit + 1
      BY <2>presenter, <2>3, <2>4, <2>5, KeptAreBounded, PresenterAssumption
    <3> QED BY <1>1, <1>3, <2>2, <2>7, <3>1, <3>2, <3>3, IdentityAssumption
            DEF PlanStands, Presenter, Stored, NewCase, c, r
  <2>11. DeletionProceeds'
    BY <1>1, <2>2, <2>6, FreshTransaction DEF r
  <2> QED BY <1>1, <2>8, <2>9, <2>10, <2>11 DEF RetentionInvariant, CommittedIsWhole, StoredCases
<1> QED BY <1>2, <1>3
-----------------------------------------------------------------------------
(* The delete statements *)

\* What a transaction in progress sees: typed rows, none of a pruned case
\* among those it inserted.
LEMMA InProgress ==
    ASSUME RetentionInvariant, txn.by # None
    PROVE  /\ View \subseteq CaseIds \X Tables /\ txn.plan.pruned \subseteq CaseIds
           /\ \A row \in txn.inserts : row[1] \notin txn.plan.pruned
           /\ \A c \in txn.plan.pruned : Stored(rows, c)
           /\ txn.by \in Requests \/ txn.by = "script"
<1>1. View \subseteq CaseIds \X Tables /\ txn.by \in Requests \union {None, "script"}
  BY DEF RetentionInvariant, TypeOK, View
<1>2. PlanStands
  BY DEF RetentionInvariant
<1>3. txn.plan.pruned \subseteq CaseIds /\ \A c \in txn.plan.pruned : Stored(rows, c)
  BY <1>2 DEF PlanStands, Presenter
<1>4. \A row \in txn.inserts : row[1] \notin txn.plan.pruned
  <2>1. CASE txn.by = "script"
    BY <1>2, <2>1 DEF PlanStands
  <2>2. CASE txn.by \in Requests
    BY <1>2, <1>3, <2>2 DEF PlanStands, NewCase
  <2> QED BY <1>1, <2>1, <2>2
<1> QED BY <1>1, <1>3, <1>4

LEMMA TargetsAre ==
    ASSUME NEW t
    PROVE  /\ \A row \in Targets(t) : /\ row = <<row[1], t>> /\ row[2] = t
                                      /\ row[1] \in txn.plan.pruned /\ row \in View
           /\ \A c \in txn.plan.pruned :
                 <<c, t>> \in View /\ Located(c, t) => <<c, t>> \in Targets(t)
<1> HIDE DEF View
<1>1. ASSUME NEW row \in Targets(t)
      PROVE  row = <<row[1], t>> /\ row[2] = t /\ row[1] \in txn.plan.pruned /\ row \in View
  <2>1. PICK c \in txn.plan.pruned : row = <<c, t>> /\ <<c, t>> \in View
    BY DEF Targets
  <2> QED BY <2>1
<1> QED BY <1>1 DEF Targets

\* Where no parent is missing, the delete statements find every row.
LEMMA EveryRowIsLocated ==
    ASSUME Whole(View), NEW t \in Tables, NEW c, <<c, t>> \in View PROVE Located(c, t)
<1>1. CASE "case_instances" \in References[t] \/ t \in {"case_instances", "action_projection"}
  BY <1>1 DEF Located
<1>2. ASSUME NEW p \in Mandatory(t) PROVE p \in References[t] /\ <<c, p>> \in View
  BY <1>2 DEF Whole, Mandatory
<1> QED BY <1>1, <1>2, ReferenceFacts DEF Located

\* DELETE_ORDER: while nobody writes to the cases being pruned, whatever
\* refers to the rows of a table is gone when its turn comes.
LEMMA ChildrenFirst ==
    ASSUME RetentionInvariant, txn.by # None, txn.pos <= Len(DeleteOrder), ~txn.raced
    PROVE  ~Referenced(DeleteOrder[txn.pos])
<1> DEFINE t == DeleteOrder[txn.pos]
<1>1. /\ txn.pos \in 1..21 /\ t \in Tables /\ Position[t] = txn.pos
      /\ \A c \in txn.plan.pruned, u \in Tables : Position[u] < txn.pos => <<c, u>> \notin View
  BY OrderFacts DEF RetentionInvariant, DeletionProceeds
<1> SUFFICES ASSUME Referenced(t) PROVE FALSE
  OBVIOUS
<1>2. PICK row \in Targets(t), u \in Tables :
         t \in References[u] /\ <<u, t>> \notin Optional /\ <<row[1], u>> \in View
  BY DEF Referenced
<1>3. row[1] \in txn.plan.pruned
  BY TargetsAre
<1>4. Position[u] < Position[t]
  BY <1>2, ReferenceFacts DEF Mandatory
<1> QED BY <1>1, <1>2, <1>3, <1>4

LEMMA DeleteStays ==
    ASSUME RetentionInvariant, Delete PROVE RetentionInvariant'
<1> DEFINE t == DeleteOrder[txn.pos]
<1>1. /\ txn.by # None /\ txn.pos \in 1..21 /\ ~Referenced(t)
      /\ txn' = [txn EXCEPT !.pos = @ + 1, !.removed = @ \union Targets(t)]
      /\ UNCHANGED <<mail, now, rows, stored, requests, script, writes>>
  BY OrderFacts DEF Delete, RetentionInvariant, DeletionProceeds
<1>2. /\ txn'.by = txn.by /\ txn'.plan = txn.plan /\ txn'.inserts = txn.inserts
      /\ txn'.raced = txn.raced /\ txn'.pos = txn.pos + 1
      /\ txn'.removed = txn.removed \union Targets(t)
  BY <1>1 DEF RetentionInvariant, TypeOK
<1>3. t \in Tables /\ Position[t] = txn.pos
  BY <1>1, OrderFacts
<1>4. Targets(t) \subseteq View /\ \A row \in Targets(t) : row[1] \in txn.plan.pruned /\ row[2] = t
  BY TargetsAre
<1>5. View' = View \ Targets(t)
  BY <1>1, <1>2 DEF View
<1>6. Targets(t) \subseteq rows
  BY <1>1, <1>4, InProgress DEF View
<1>7. PlanStands /\ DeletionProceeds
  BY <1>1 DEF RetentionInvariant
<1>8. TypeOK'
  <2>1. Targets(t) \subseteq CaseIds \X Tables
    BY <1>1, <1>4, InProgress
  <2> DEFINE T == [by : Requests \union {None, "script"}, pos : Nat, plan : Plans,
                   inserts : SUBSET (CaseIds \X Tables), removed : SUBSET (CaseIds \X Tables),
                   raced : BOOLEAN]
             removed == txn.removed \union Targets(t)
  <2>2. txn' \in T
    <3>1. /\ txn \in T /\ txn.pos + 1 \in Nat /\ removed \in SUBSET (CaseIds \X Tables)
          /\ txn' = [[txn EXCEPT !.pos = txn.pos + 1] EXCEPT !.removed = removed]
      BY <1>1, <2>1 DEF RetentionInvariant, TypeOK
    <3> HIDE DEF removed
    <3> QED BY <3>1
  <2> QED BY <1>1, <2>2 DEF RetentionInvariant, TypeOK, mail
<1>9. RequestsMatch'
  BY <1>1, <1>2 DEF RetentionInvariant, RequestsMatch
<1>10. PlanStands'
  BY <1>1, <1>2, <1>7 DEF PlanStands, Presenter, Stored, NewCase
<1>11. Whole(View')
  <2> SUFFICES ASSUME NEW row \in View \ Targets(t), NEW p \in Mandatory(row[2]),
                      <<row[1], p>> \in Targets(t)
               PROVE  FALSE
    BY <1>5, <1>7 DEF DeletionProceeds, Whole
  <2>1. p = t /\ row[2] \in Tables /\ row = <<row[1], row[2]>>
    BY <1>1, <1>4, InProgress
  <2>2. t \in References[row[2]] /\ <<row[2], t>> \notin Optional
    BY <2>1 DEF Mandatory
  <2> QED BY <1>1, <2>1, <2>2 DEF Referenced
<1>12. /\ txn'.removed \subseteq rows
       /\ \A row \in txn'.removed : row[1] \in txn.plan.pruned /\ Position[row[2]] < txn.pos + 1
  <2>1. ASSUME NEW row \in txn.removed
        PROVE  row[1] \in txn.plan.pruned /\ Position[row[2]] < txn.pos + 1
    <3>1. row \in CaseIds \X Tables /\ Position[row[2]] < txn.pos /\ row[1] \in txn.plan.pruned
      BY <1>7 DEF DeletionProceeds, RetentionInvariant, TypeOK
    <3>2. Position[row[2]] \in 1..21
      BY <3>1, OrderFacts
    <3> QED BY <1>1, <3>1, <3>2
  <2> QED BY <1>1, <1>2, <1>3, <1>4, <1>6, <1>7, <2>1 DEF DeletionProceeds
<1>13. ASSUME txn.pos + 1 = 22, NEW c \in txn.plan.pruned
       PROVE  <<c, "case_instances">> \in txn'.removed
  <2>1. t = "case_instances" /\ <<c, t>> \in rows
    BY <1>1, <1>13, InProgress, OrderFacts, TablesAre DEF Stored, DeleteOrder
  <2> QED BY <1>2, <2>1, TargetsAre DEF Located, View
<1>14. ASSUME ~txn.raced, NEW c \in txn.plan.pruned, NEW u \in Tables,
              Position[u] < txn.pos + 1, <<c, u>> \in View'
       PROVE  FALSE
  <2>1. <<c, u>> \in View /\ <<c, u>> \notin Targets(t)
    BY <1>5, <1>14
  <2>2. ~(Position[u] < txn.pos)
    BY <1>7, <1>14, <2>1 DEF DeletionProceeds
  <2>3. u = t
    BY <1>1, <1>14, <2>2, OrderFacts
  <2>4. Located(c, t)
    BY <1>7, <2>1, <2>3, EveryRowIsLocated DEF DeletionProceeds
  <2> QED BY <2>1, <2>3, <2>4, TargetsAre
<1>15. DeletionProceeds'
  <2>1. txn'.pos \in 1..22
    BY <1>1, <1>2
  <2> HIDE DEF t
  <2> QED BY <1>1, <1>2, <1>11, <1>12, <1>13, <1>14, <2>1 DEF DeletionProceeds
<1> QED BY <1>1, <1>8, <1>9, <1>10, <1>15 DEF RetentionInvariant, CommittedIsWhole, StoredCases

\* A rollback leaves what was committed and frees the lock.
LEMMA RollbackStays ==
    ASSUME RetentionInvariant, txn.by # None, RolledBack PROVE RetentionInvariant'
<1>1. txn' = NoTxn /\ UNCHANGED <<mail, now, rows, stored, writes>>
  BY DEF RolledBack
<1>2. /\ txn'.by = None
      /\ txn' \in [by : Requests \union {None, "script"}, pos : Nat, plan : Plans,
                   inserts : SUBSET (CaseIds \X Tables), removed : SUBSET (CaseIds \X Tables),
                   raced : BOOLEAN]
  BY <1>1, NoPlanTyped DEF NoTxn
<1>3. CASE txn.by = "script"
  <2>1. script' = [pc |-> "idle", plan |-> NoPlan] /\ UNCHANGED requests
    BY <1>3 DEF RolledBack
  <2>2. TypeOK'
    BY <1>1, <1>2, <2>1, NoPlanTyped DEF RetentionInvariant, TypeOK, mail
  <2>3. RequestsMatch'
    BY <1>1, <1>2, <1>3, <2>1, NoPlanTyped, IdentityAssumption DEF RetentionInvariant, RequestsMatch
  <2> QED BY <1>1, <1>2, <2>2, <2>3 DEF RetentionInvariant, CommittedIsWhole, StoredCases
<1>4. CASE txn.by # "script"
  <2>1. /\ txn.by \in Requests /\ UNCHANGED script
        /\ requests' = [requests EXCEPT ![txn.by].pc = "conflicted"]
    BY <1>4, InProgress DEF RolledBack, GoTo
  <2>2. TypeOK'
    BY <1>1, <1>2, <2>1, GoesTo DEF RetentionInvariant, TypeOK, mail
  <2>3. \A p \in Requests : /\ requests'[p].case = requests[p].case
                            /\ requests'[p].pc = IF p = txn.by THEN "conflicted" ELSE requests[p].pc
    BY <2>1, GoesTo DEF RetentionInvariant
  <2>4. RequestsMatch'
    BY <1>1, <1>2, <1>4, <2>1, <2>3, IdentityAssumption DEF RetentionInvariant, RequestsMatch
  <2> QED BY <1>1, <1>2, <2>2, <2>4 DEF RetentionInvariant, CommittedIsWhole, StoredCases
<1> QED BY <1>3, <1>4
\* The cases a commit leaves: the one created, and those not pruned, each
\* with the rows it had.
LEMMA CommitLeaves ==
    ASSUME RetentionInvariant, txn.by # None, txn.pos > Len(DeleteOrder)
    PROVE  /\ \A c \in CaseIds : Stored(View, c) <=>
                 \/ Stored(rows, c) /\ c \notin txn.plan.pruned
                 \/ txn.by \in Requests /\ c = requests[txn.by].case
           /\ \A c \in CaseIds : Stored(View, c) => NewCase(c) \subseteq View
           /\ txn.by \in Requests => /\ requests[txn.by].case \in CaseIds
                                     /\ txn.inserts = NewCase(requests[txn.by].case)
                                     /\ ~Stored(rows, requests[txn.by].case)
           /\ txn.by = "script" => txn.inserts = {}
           /\ Whole(View)
<1>1. /\ PlanStands /\ DeletionProceeds /\ txn.pos = 22 /\ RequestsMatch /\ CommittedIsWhole
      /\ txn.by \in Requests \/ txn.by = "script"
  <2>1. txn.pos \in 1..22 /\ PlanStands /\ DeletionProceeds
    BY DEF RetentionInvariant, DeletionProceeds
  <2> QED BY <2>1, OrderFacts, InProgress DEF RetentionInvariant
<1>2. /\ \A row \in txn.removed : row[1] \in txn.plan.pruned
      /\ \A c \in txn.plan.pruned : <<c, "case_instances">> \in txn.removed /\ Stored(rows, c)
  BY <1>1, InProgress DEF DeletionProceeds
<1>3. /\ txn.by \in Requests => /\ requests[txn.by].case \in CaseIds
                                /\ txn.inserts = NewCase(requests[txn.by].case)
                                /\ ~Stored(rows, requests[txn.by].case)
      /\ txn.by = "script" => txn.inserts = {}
  BY <1>1 DEF PlanStands, RequestsMatch
<1>4. \A c \in CaseIds : Stored(View, c) <=>
         \/ Stored(rows, c) /\ c \notin txn.plan.pruned
         \/ txn.by \in Requests /\ c = requests[txn.by].case
  <2> TAKE c \in CaseIds
  <2>1. <<c, "case_instances">> \in txn.removed <=> c \in txn.plan.pruned
    BY <1>2
  <2>2. CASE txn.by = "script"
    BY <1>3, <2>1, <2>2, IdentityAssumption DEF Stored, View
  <2>3. CASE txn.by \in Requests
    <3>1. <<c, "case_instances">> \in txn.inserts <=> c = requests[txn.by].case
      BY <1>3, <2>3 DEF NewCase
    <3>2. c = requests[txn.by].case => c \notin txn.plan.pruned
      BY <1>2, <1>3, <2>3
    <3> QED BY <2>1, <2>3, <3>1, <3>2 DEF Stored, View
  <2> QED BY <1>1, <2>2, <2>3
<1>5. ASSUME NEW c \in CaseIds, Stored(View, c) PROVE NewCase(c) \subseteq View
  <2>1. c \notin txn.plan.pruned
    BY <1>2, <1>3, <1>4, <1>5
  <2>2. NewCase(c) \subseteq rows \union txn.inserts
    BY <1>1, <1>3, <1>4, <1>5 DEF CommittedIsWhole
  <2>3. \A row \in NewCase(c) : row[1] = c
    BY DEF NewCase
  <2> QED BY <1>2, <2>1, <2>2, <2>3 DEF View
<1> QED BY <1>1, <1>3, <1>4, <1>5 DEF DeletionProceeds

LEMMA CommitStays ==
    ASSUME RetentionInvariant, Commit PROVE RetentionInvariant'
<1>1. /\ txn.by # None /\ txn.pos > Len(DeleteOrder) /\ rows' = View /\ txn' = NoTxn
      /\ UNCHANGED <<mail, now, writes>>
  BY DEF Commit
<1>2. /\ txn'.by = None
      /\ txn' \in [by : Requests \union {None, "script"}, pos : Nat, plan : Plans,
                   inserts : SUBSET (CaseIds \X Tables), removed : SUBSET (CaseIds \X Tables),
                   raced : BOOLEAN]
  BY <1>1, NoPlanTyped DEF NoTxn
<1>3. stored' \in [CaseIds -> [at : Nat, body : AnyBody]]
  <2>1. NoCase \in [at : Nat, body : AnyBody]
    BY DEF NoCase, NoSource, AnyBody
  <2>2. txn.by # "script" => requests[txn.by].body \in AnyBody
    BY <1>1, InProgress DEF RetentionInvariant, TypeOK
  <2>3. now \in Nat /\ \A c \in CaseIds : stored[c] \in [at : Nat, body : AnyBody]
    BY DEF RetentionInvariant, TypeOK
  <2>4. stored' = [c \in CaseIds |->
                    IF ~Stored(View, c) THEN NoCase
                    ELSE IF txn.by # "script" /\ c = requests[txn.by].case
                      THEN [at |-> now, body |-> requests[txn.by].body]
                    ELSE stored[c]]
    BY DEF Commit
  <2> HIDE DEF View
  <2> QED BY <2>1, <2>2, <2>3, <2>4
<1>4. rows' \subseteq CaseIds \X Tables
  BY <1>1, InProgress
<1>5. CommittedIsWhole'
  <2>1. IsFiniteSet(StoredCases')
    <3>1. CASE txn.by = "script"
      <4>1. StoredCases' \subseteq StoredCases
        BY <1>1, <3>1, CommitLeaves, IdentityAssumption DEF StoredCases
      <4> QED BY <4>1, FS_Subset DEF RetentionInvariant, CommittedIsWhole
    <3>2. CASE txn.by \in Requests
      <4>1. StoredCases' \subseteq StoredCases \union {requests[txn.by].case}
        BY <1>1, CommitLeaves DEF StoredCases
      <4>2. IsFiniteSet(StoredCases \union {requests[txn.by].case})
        BY FS_AddElement DEF RetentionInvariant, CommittedIsWhole
      <4> QED BY <4>1, <4>2, FS_Subset
    <3> QED BY <1>1, <3>1, <3>2, InProgress
  <2> QED BY <1>1, <2>1, CommitLeaves DEF CommittedIsWhole, Whole
<1>6. CASE txn.by = "script"
  <2>1. script' = [pc |-> "idle", plan |-> NoPlan] /\ UNCHANGED requests
    BY <1>6 DEF Commit
  <2>2. TypeOK'
    BY <1>1, <1>2, <1>3, <1>4, <2>1, NoPlanTyped DEF RetentionInvariant, TypeOK, mail
  <2>3. RequestsMatch'
    BY <1>1, <1>2, <1>6, <2>1, NoPlanTyped, IdentityAssumption DEF RetentionInvariant, RequestsMatch
  <2> QED BY <1>2, <1>5, <2>2, <2>3 DEF RetentionInvariant
<1>7. CASE txn.by # "script"
  <2>1. /\ txn.by \in Requests /\ UNCHANGED script
        /\ requests' = [requests EXCEPT ![txn.by].pc = "found"]
    BY <1>1, <1>7, InProgress DEF Commit, GoTo
  <2>2. TypeOK'
    BY <1>1, <1>2, <1>3, <1>4, <2>1, GoesTo DEF RetentionInvariant, TypeOK, mail
  <2>3. \A p \in Requests : /\ requests'[p].case = requests[p].case
                            /\ requests'[p].pc = IF p = txn.by THEN "found" ELSE requests[p].pc
    BY <2>1, GoesTo DEF RetentionInvariant
  <2>4. RequestsMatch'
    BY <1>1, <1>2, <1>7, <2>1, <2>3, IdentityAssumption DEF RetentionInvariant, RequestsMatch
  <2> QED BY <1>2, <1>5, <2>2, <2>4 DEF RetentionInvariant
<1> QED BY <1>6, <1>7

-----------------------------------------------------------------------------
(* The transactions of other components *)

LEMMA WritesFacts ==
    /\ \A w \in DOMAIN Writes :
          /\ Writes[w].puts \subseteq Tables /\ Writes[w].takes \subseteq {"analysis_claims"}
          /\ {"case_instances", "operational_snapshots", "case_projection"}
                \intersect Writes[w].puts = {}
    /\ {"case_instances", "operational_snapshots", "case_projection"} \subseteq Tables
  BY TablesAre DEF Writes, Write, ClaimRows, AnalysisRows, ReviewRows, SelectionRows,
         ResubmitRows, DecisionRows, PlanRows, PlaybackRows, AttemptRows, ObservationRows,
         EmailRows, Position

\* What a write of another component does to a set of whole aggregates, as
\* far as they are not being deleted.
LEMMA WorkKeepsWhole ==
    ASSUME NEW r \in SUBSET (CaseIds \X Tables), Whole(r), NEW c, NEW puts \in SUBSET Tables,
           NEW takes \in SUBSET {"analysis_claims"},
           \A t \in puts : \A p \in References[t] \ puts : <<c, p>> \in r
    PROVE  Whole((r \ ({c} \X takes)) \union ({c} \X puts))
<1> DEFINE s == (r \ ({c} \X takes)) \union ({c} \X puts)
<1> SUFFICES ASSUME NEW row \in s, NEW p \in Mandatory(row[2]) PROVE <<row[1], p>> \in s
  BY DEF Whole
<1>1. row[2] \in Tables /\ p \in References[row[2]] /\ p # "analysis_claims"
  BY ReferenceFacts DEF Mandatory
<1>2. CASE row \in r
  BY <1>1, <1>2 DEF Whole
<1>3. CASE row \in {c} \X puts
  BY <1>1, <1>3
<1> QED BY <1>2, <1>3

LEMMA WorkStays ==
    ASSUME RetentionInvariant, NEW c \in CaseIds, NEW w \in Working, Work(c, w)
    PROVE  RetentionInvariant'
<1> DEFINE puts == Writes[w].puts
           takes == Writes[w].takes
           out == {c} \X takes
           in == {c} \X puts
<1>1. /\ puts \subseteq Tables /\ takes \subseteq {"analysis_claims"}
      /\ "case_instances" \notin puts /\ "operational_snapshots" \notin puts
      /\ "case_projection" \notin puts
  BY WorkAssumption, WritesFacts
<1>2. /\ \A t \in puts : \A p \in References[t] \ puts : <<c, p>> \in rows /\ <<c, p>> \notin txn.removed
      /\ in \intersect rows = {} /\ out \intersect txn.removed = {}
  BY DEF Work
<1>3. /\ rows' = (rows \ out) \union in /\ writes' = writes + 1
      /\ txn' = [txn EXCEPT !.raced = @ \/ c \in txn.plan.pruned]
      /\ UNCHANGED <<mail, now, stored, requests, script>>
  BY DEF Work
<1> HIDE DEF puts, takes
<1>4. /\ txn'.by = txn.by /\ txn'.plan = txn.plan /\ txn'.inserts = txn.inserts
      /\ txn'.pos = txn.pos /\ txn'.removed = txn.removed
      /\ txn'.raced = (txn.raced \/ c \in txn.plan.pruned)
  BY <1>3 DEF RetentionInvariant, TypeOK
<1>5. \A d \in CaseIds : /\ Stored(rows', d) <=> Stored(rows, d)
                         /\ NewCase(d) \subseteq rows => NewCase(d) \subseteq rows'
  BY <1>1, <1>3 DEF Stored, NewCase
<1>6. in \subseteq CaseIds \X Tables
  BY <1>1
<1>7. Whole(rows')
  BY <1>1, <1>2, <1>3, WorkKeepsWhole DEF RetentionInvariant, CommittedIsWhole, TypeOK
<1>8. TypeOK'
  <2>1. txn' \in [by : Requests \union {None, "script"}, pos : Nat, plan : Plans,
                  inserts : SUBSET (CaseIds \X Tables), removed : SUBSET (CaseIds \X Tables),
                  raced : BOOLEAN]
    <3> DEFINE raced == txn.raced \/ c \in txn.plan.pruned
    <3>1. txn' = [txn EXCEPT !.raced = raced] /\ raced \in BOOLEAN
      BY <1>3
    <3> HIDE DEF raced
    <3> QED BY <3>1 DEF RetentionInvariant, TypeOK
  <2>2. rows' \subseteq CaseIds \X Tables /\ writes' \in Nat
    BY <1>3, <1>6 DEF RetentionInvariant, TypeOK
  <2> QED BY <1>3, <2>1, <2>2 DEF RetentionInvariant, TypeOK, mail
<1>9. CommittedIsWhole'
  <2>1. StoredCases' = StoredCases
    BY <1>5 DEF StoredCases
  <2> QED BY <1>5, <1>7, <2>1 DEF RetentionInvariant, CommittedIsWhole
<1>10. RequestsMatch'
  <2>1. txn.by = None => txn' = NoTxn
    <3> SUFFICES ASSUME txn.by = None PROVE txn' = NoTxn
      OBVIOUS
    <3>1. txn = NoTxn /\ c \notin txn.plan.pruned
      BY DEF RetentionInvariant, RequestsMatch, NoTxn, NoPlan
    <3>2. (txn.raced \/ c \in txn.plan.pruned) = FALSE
      BY <3>1 DEF NoTxn
    <3>3. txn' = [NoTxn EXCEPT !.raced = FALSE]
      BY <1>3, <3>1, <3>2
    <3> QED BY <3>3 DEF NoTxn
  <2> QED BY <1>3, <1>4, <2>1 DEF RetentionInvariant, RequestsMatch
<1> SUFFICES ASSUME txn.by # None PROVE PlanStands' /\ DeletionProceeds'
  BY <1>4, <1>8, <1>9, <1>10 DEF RetentionInvariant
<1>11. PlanStands /\ DeletionProceeds
  BY DEF RetentionInvariant
<1>12. /\ Presenter(rows') = Presenter(rows)
       /\ \A d : Presenter(rows' \union NewCase(d)) = Presenter(rows \union NewCase(d))
  BY <1>5 DEF Presenter, Stored
<1>13. PlanStands'
  BY <1>3, <1>4, <1>5, <1>11, <1>12 DEF PlanStands, RetentionInvariant, RequestsMatch, NewCase
<1>14. View' = (View \ out) \union in
  <2>1. out \intersect txn.inserts = {}
    <3>1. \A row \in txn.inserts : row[2] # "analysis_claims"
      BY <1>11, InProgress DEF PlanStands, NewCase
    <3> QED BY <1>1, <3>1
  <2>2. in \intersect txn.removed = {}
    BY <1>2, <1>11 DEF DeletionProceeds
  <2> QED BY <1>2, <1>3, <1>4, <2>1, <2>2 DEF View
<1>15. Whole(View')
  <2>1. \A t \in puts : \A p \in References[t] \ puts : <<c, p>> \in View
    BY <1>2 DEF View
  <2> QED BY <1>1, <1>11, <1>14, <2>1, InProgress, WorkKeepsWhole DEF DeletionProceeds
<1>16. txn.removed \subseteq rows'
  BY <1>2, <1>3, <1>11 DEF DeletionProceeds
<1>17. ~txn'.raced => \A d \in txn.plan.pruned, t \in Tables :
                        Position[t] < txn.pos => <<d, t>> \notin View'
  BY <1>4, <1>11, <1>14 DEF DeletionProceeds
<1>18. DeletionProceeds'
  BY <1>4, <1>11, <1>15, <1>16, <1>17 DEF DeletionProceeds
<1> QED BY <1>13, <1>18
-----------------------------------------------------------------------------
(* The invariant *)

LEMMA InitialHistory == Init => RetentionInvariant
<1> SUFFICES ASSUME Init PROVE RetentionInvariant
  OBVIOUS
<1> DEFINE cases == Older \union Outside
           puts(c) == UNION {Writes[w].puts : w \in Worked[c]}
           left(c) == {"case_instances", "operational_snapshots", "case_projection"} \union puts(c)
<1>1. \A c \in cases : puts(c) \subseteq Tables /\ "case_instances" \notin puts(c)
  BY WorkAssumption, WritesFacts
<1>2. \A c \in cases : left(c) \subseteq Tables
  BY <1>1, WritesFacts
<1>3. \A row : row \in rows <=> /\ row = <<row[1], row[2]>>
                                /\ row[1] \in cases /\ row[2] \in left(row[1])
  <2>1. rows = UNION {NewCase(c) \union ({c} \X puts(c)) : c \in cases}
    BY DEF Init
  <2>2. \A c : NewCase(c) \union ({c} \X puts(c)) = {c} \X left(c)
    BY DEF NewCase
  <2>3. rows = UNION {{c} \X left(c) : c \in cases}
    BY <2>1, <2>2
  <2> HIDE DEF left, cases
  <2> QED BY <2>3
<1>4. cases \subseteq CaseIds
  BY DEF CaseIds
<1>5. rows \subseteq CaseIds \X Tables
  BY <1>2, <1>3, <1>4
<1>6. TypeOK
  <2>1. txn \in [by : Requests \union {None, "script"}, pos : Nat, plan : Plans,
                 inserts : SUBSET (CaseIds \X Tables), removed : SUBSET (CaseIds \X Tables),
                 raced : BOOLEAN]
    BY NoPlanTyped DEF Init, NoTxn
  <2>2. stored \in [CaseIds -> [at : Nat, body : AnyBody]]
    BY DEF Init, AnyBody, NoCase, NoSource
  <2>3. requests \in [Requests -> [pc : {"idle"}, case : CaseIds \union {None}, body : AnyBody,
                                   answer : Codes \union {"none"}]]
    BY DEF Init, Idle, NoSource, AnyBody
  <2>4. mailbox \in Seq(Messages)
    BY IdentityAssumption DEF Init
  <2> QED BY <1>5, <2>1, <2>2, <2>3, <2>4, NoPlanTyped DEF Init, TypeOK
<1>7. Whole(rows)
  <2> SUFFICES ASSUME NEW row \in rows, NEW p \in Mandatory(row[2]) PROVE <<row[1], p>> \in rows
    BY DEF Whole
  <2>1. row[1] \in cases /\ row[2] \in left(row[1])
    BY <1>3
  <2>2. p \in left(row[1])
    BY <2>1, WorkAssumption DEF Mandatory
  <2> QED BY <1>3, <2>1, <2>2
<1>8. CommittedIsWhole
  <2>1. StoredCases \subseteq cases
    BY <1>3 DEF StoredCases, Stored
  <2>2. IsFiniteSet(cases)
    BY IdentityAssumption, FS_Union
  <2>3. \A c \in CaseIds : Stored(rows, c) => NewCase(c) \subseteq rows
    BY <1>3 DEF Stored, NewCase
  <2> QED BY <1>7, <2>1, <2>2, <2>3, FS_Subset DEF CommittedIsWhole
<1>9. RequestsMatch
  BY NoPlanTyped, IdentityAssumption DEF Init, RequestsMatch, Idle, NoTxn
<1> QED BY <1>6, <1>8, <1>9, NoPlanTyped DEF Init, RetentionInvariant, NoTxn

LEMMA NextStays == RetentionInvariant /\ [Next]_vars => RetentionInvariant'
<1> SUFFICES ASSUME RetentionInvariant, [Next]_vars PROVE RetentionInvariant'
  OBVIOUS
<1>1. CASE CheckInbox \/ EditMail
  BY <1>1, MailboxStays
<1>2. ASSUME NEW q \in Requests,
             \/ Post(q) \/ ReviewInbound(q) \/ Lookup(q) \/ Retrieve(q) \/ Unavailable(q)
             \/ ResolveConflict(q) \/ Respond(q)
      PROVE  RetentionInvariant'
  BY <1>2, RequestStays
<1>3. ASSUME NEW q \in Requests, CreateCase(q) PROVE RetentionInvariant'
  BY <1>3, CreateCaseStays
<1>4. CASE Preview \/ Apply \/ ApplyTimesOut
  BY <1>4, ScriptSteps
<1>5. CASE Delete
  BY <1>5, DeleteStays
<1>6. CASE DeleteFails \/ PlanChanged
  BY <1>6, RollbackStays DEF DeleteFails, PlanChanged
<1>7. CASE Commit
  BY <1>7, CommitStays
<1>8. ASSUME NEW c \in CaseIds, NEW w \in Working, Work(c, w) PROVE RetentionInvariant'
  BY <1>8, WorkStays
<1>9. CASE UNCHANGED vars
  BY <1>9 DEF vars, RetentionInvariant, TypeOK, CommittedIsWhole, StoredCases, Stored, NewCase,
              RequestsMatch, PlanStands, Presenter, DeletionProceeds, View
<1> QED BY <1>1, <1>2, <1>3, <1>4, <1>5, <1>6, <1>7, <1>8, <1>9 DEF Next

\* Every state the history, the requests and the cleanup reach is typed, whole
\* and, while a transaction holds the retention lock, agrees with its plan.
THEOREM RetentionInvariantHolds == Spec => []RetentionInvariant
  BY InitialHistory, NextStays, PTL DEF Spec

\* Rows are pairs of a case and a table, requests and the script are in one of
\* their states (create_inbound_case, prune_presenter_runs.py), and what a
\* transaction has inserted and removed are rows of the schema.
THEOREM PresenterTypes == Spec => []TypeOK
<1>1. RetentionInvariant => TypeOK
  BY DEF RetentionInvariant
<1> QED BY <1>1, RetentionInvariantHolds, PTL

\* A case is there with its snapshot, its projection and every row's parents,
\* or not at all, and DELETE_ORDER takes children first: a pruning nobody
\* writes under is not refused by a foreign key.
THEOREM WholeAggregates == Spec => []AggregatesAreWhole
<1>1. RetentionInvariant => AggregatesAreWhole
  <2> SUFFICES ASSUME RetentionInvariant PROVE AggregatesAreWhole
    OBVIOUS
  <2>1. ASSUME NEW row \in rows, NEW p \in References[row[2]]
        PROVE  <<row[2], p>> \in Optional \/ <<row[1], p>> \in rows
    BY DEF RetentionInvariant, CommittedIsWhole, Whole, Mandatory
  <2>2. \A c \in CaseIds : Stored(rows, c) => NewCase(c) \subseteq rows
    BY DEF RetentionInvariant, CommittedIsWhole
  <2> QED BY <2>1, <2>2, ChildrenFirst DEF AggregatesAreWhole
<1> QED BY <1>1, RetentionInvariantHolds, PTL

-----------------------------------------------------------------------------
(* What a step may do to the history *)

\* Only a commit of the lock's holder creates or deletes cases.
LEMMA CommitsChangeCases ==
    ASSUME RetentionInvariant, [Next]_vars
    PROVE  \/ Commit
           \/ /\ stored' = stored
              /\ \A c \in CaseIds : Stored(rows', c) <=> Stored(rows, c)
<1>1. ASSUME NEW c \in CaseIds, NEW w \in Working, Work(c, w)
      PROVE  /\ stored' = stored
             /\ \A d \in CaseIds : Stored(rows', d) <=> Stored(rows, d)
  <2>1. /\ "case_instances" \notin Writes[w].puts /\ "case_instances" \notin Writes[w].takes
    BY WorkAssumption, WritesFacts
  <2>2. /\ rows' = (rows \ ({c} \X Writes[w].takes)) \union ({c} \X Writes[w].puts)
        /\ stored' = stored
    BY <1>1 DEF Work
  <2> QED BY <2>1, <2>2 DEF Stored
<1>2. ASSUME UNCHANGED <<rows, stored>>
      PROVE  stored' = stored /\ \A c \in CaseIds : Stored(rows', c) <=> Stored(rows, c)
  BY <1>2
<1>3. CASE CheckInbox \/ EditMail
  BY <1>2, <1>3 DEF CheckInbox, EditMail
<1>4. ASSUME NEW q \in Requests,
             \/ Post(q) \/ ReviewInbound(q) \/ Lookup(q) \/ Retrieve(q) \/ Unavailable(q)
             \/ CreateCase(q) \/ ResolveConflict(q) \/ Respond(q)
      PROVE  UNCHANGED <<rows, stored>>
  BY <1>4 DEF Post, ReviewInbound, Lookup, Retrieve, Unavailable, CreateCase, ResolveConflict,
              Respond
<1>5. CASE Preview \/ Apply \/ ApplyTimesOut \/ Delete
  BY <1>2, <1>5 DEF Preview, Apply, ApplyTimesOut, Delete
<1>6. CASE DeleteFails \/ PlanChanged
  BY <1>2, <1>6 DEF DeleteFails, PlanChanged, RolledBack
<1>7. CASE UNCHANGED vars
  BY <1>2, <1>7 DEF vars
<1> QED BY <1>1, <1>2, <1>3, <1>4, <1>5, <1>6, <1>7 DEF Next

\* Retention deletes the oldest runs and only runs, and a creation leaves at
\* most the limit besides the new one, for any limit and any competition.
THEOREM NewestAreKept == Spec => KeptAreNewest
<1>1. ASSUME RetentionInvariant, [Next]_vars, NEW c \in CaseIds
      PROVE  /\ Stored(rows, c) /\ ~Stored(rows', c) =>
                   /\ c \notin Outside
                   /\ \A d \in Presenter(rows) \intersect Presenter(rows') :
                         stored[d].at >= stored[c].at
             /\ Stored(rows', c) /\ ~Stored(rows, c) =>
                   Cardinality(Presenter(rows')) <= HistoricalLimit + 1
  <2> SUFFICES ASSUME Commit
               PROVE  /\ Stored(rows, c) /\ ~Stored(rows', c) =>
                            /\ c \notin Outside
                            /\ \A d \in Presenter(rows) \intersect Presenter(rows') :
                                  stored[d].at >= stored[c].at
                      /\ Stored(rows', c) /\ ~Stored(rows, c) =>
                            Cardinality(Presenter(rows')) <= HistoricalLimit + 1
    BY <1>1, CommitsChangeCases
  <2>1. txn.by # None /\ txn.pos > Len(DeleteOrder) /\ rows' = View
    BY DEF Commit
  <2>2. /\ \A d \in CaseIds : Stored(View, d) <=>
                \/ Stored(rows, d) /\ d \notin txn.plan.pruned
                \/ txn.by \in Requests /\ d = requests[txn.by].case
        /\ txn.by \in Requests => /\ requests[txn.by].case \in CaseIds
                                  /\ ~Stored(rows, requests[txn.by].case)
    BY <1>1, <2>1, CommitLeaves
  <2>3. PlanStands
    BY <1>1, <2>1 DEF RetentionInvariant
  <2>4. \A x, d : d \in Presenter(x) <=> d \in CaseIds \ Outside /\ Stored(x, d)
    BY DEF Presenter
  <2>5. ASSUME Stored(rows, c), ~Stored(View, c)
        PROVE  /\ c \notin Outside
               /\ \A d \in Presenter(rows) \intersect Presenter(View) :
                     stored[d].at >= stored[c].at
    <3>1. c \in txn.plan.pruned
      BY <2>2, <2>5
    <3>2. c \notin Outside
      BY <2>3, <2>4, <3>1 DEF PlanStands
    <3>3. \A d \in Presenter(rows) \intersect Presenter(View) :
             d \in Presenter(rows) \ txn.plan.pruned
      BY <2>2, <2>4
    <3> QED BY <2>3, <3>1, <3>2, <3>3 DEF PlanStands
  <2>6. ASSUME Stored(View, c), ~Stored(rows, c)
        PROVE  Cardinality(Presenter(View)) <= HistoricalLimit + 1
    <3> DEFINE all == Presenter(rows \union NewCase(c))
    <3>1. txn.by \in Requests /\ c = requests[txn.by].case
      BY <2>2, <2>6
    <3>2. Cardinality(all \ txn.plan.pruned) <= HistoricalLimit + 1
      BY <2>3, <3>1 DEF PlanStands
    <3>3. Presenter(View) \subseteq all \ txn.plan.pruned
      <4>1. c \notin txn.plan.pruned
        BY <1>1, <2>1, <2>6, InProgress
      <4>2. \A d \in CaseIds : Stored(View, d) => d \notin txn.plan.pruned /\ (Stored(rows, d) \/ d = c)
        BY <2>2, <3>1, <4>1
      <4>3. \A d \in CaseIds : Stored(rows, d) \/ d = c => Stored(rows \union NewCase(c), d)
        BY DEF Stored, NewCase
      <4> QED BY <2>4, <4>2, <4>3
    <3>4. IsFiniteSet(all)
      <4>1. IsFiniteSet(Presenter(rows) \union {c})
        BY <1>1, RecordedAtTyped, FS_AddElement
      <4>2. all \subseteq Presenter(rows) \union {c}
        BY PresenterGrows
      <4> QED BY <4>1, <4>2, FS_Subset
    <3> HIDE DEF all
    <3>5. IsFiniteSet(all \ txn.plan.pruned)
      BY <3>4, FS_Difference
    <3>6. /\ Cardinality(Presenter(View)) <= Cardinality(all \ txn.plan.pruned)
          /\ Cardinality(Presenter(View)) \in Nat /\ Cardinality(all \ txn.plan.pruned) \in Nat
      BY <3>3, <3>5, FS_Subset, FS_CardinalityType
    <3> QED BY <3>2, <3>6, PresenterAssumption
  <2> QED BY <2>1, <2>5, <2>6
<1>2. RetentionInvariant /\ [Next]_vars =>
        [\A c \in CaseIds :
          /\ Stored(rows, c) /\ ~Stored(rows', c) =>
                /\ c \notin Outside
                /\ \A d \in Presenter(rows) \intersect Presenter(rows') :
                      stored[d].at >= stored[c].at
          /\ Stored(rows', c) /\ ~Stored(rows, c) =>
                Cardinality(Presenter(rows')) <= HistoricalLimit + 1]_vars
  BY <1>1
<1> QED BY <1>2, RetentionInvariantHolds, PTL DEF Spec, KeptAreNewest

\* apply_presenter_retention deletes the cases and the rows its preview
\* announced, or nothing.
THEOREM PreviewIsApplied == Spec => AppliedAsPreviewed
<1>1. ASSUME RetentionInvariant, [Next]_vars, script.pc = "applying", rows' # rows,
             writes' = writes
      PROVE  /\ {c \in CaseIds : Stored(rows, c) /\ ~Stored(rows', c)} = script.plan.pruned
             /\ Counts(rows \ rows', script.plan.pruned) = script.plan.counts
  <2>1. Commit
    <3>1. \A c \in CaseIds, w \in Working : ~Work(c, w)
      BY <1>1 DEF Work, RetentionInvariant, TypeOK
    <3> QED BY <1>1, <3>1 DEF Next, vars, CheckInbox, EditMail, Post, ReviewInbound, Lookup,
               Retrieve, Unavailable, CreateCase, ResolveConflict, Respond, Preview, Apply,
               ApplyTimesOut, Delete, DeleteFails, PlanChanged, RolledBack
  <2>2. /\ txn.by = "script" /\ txn.by # None /\ txn.pos > Len(DeleteOrder) /\ rows' = View
        /\ Counts(txn.removed, txn.plan.pruned) = txn.plan.counts
    BY <1>1, <2>1 DEF Commit, AsPlanned, RetentionInvariant, RequestsMatch
  <2>3. txn.plan = script.plan /\ txn.inserts = {} /\ txn.removed \subseteq rows
    BY <1>1, <2>2 DEF RetentionInvariant, PlanStands, DeletionProceeds
  <2>4. rows \ rows' = txn.removed
    BY <2>2, <2>3 DEF View
  <2>5. \A c \in CaseIds : Stored(rows, c) /\ ~Stored(View, c) <=> c \in txn.plan.pruned
    BY <1>1, <2>2, CommitLeaves, InProgress, IdentityAssumption
  <2>6. txn.plan.pruned \subseteq CaseIds
    BY <1>1, <2>2, InProgress
  <2> QED BY <2>2, <2>3, <2>4, <2>5, <2>6
<1>2. RetentionInvariant /\ [Next]_vars =>
        [script.pc = "applying" /\ rows' # rows /\ writes' = writes =>
          /\ {c \in CaseIds : Stored(rows, c) /\ ~Stored(rows', c)} = script.plan.pruned
          /\ Counts(rows \ rows', script.plan.pruned) = script.plan.counts]_vars
  BY <1>1
<1> QED BY <1>2, RetentionInvariantHolds, PTL DEF Spec, AppliedAsPreviewed

\* A request comes by a case made from the very e-mail its user reviewed, and
\* a stored case keeps its e-mail and its place in the history.
THEOREM ReviewedIsFound == Spec => FoundAsReviewed
<1>1. ASSUME RetentionInvariant, [Next]_vars, NEW q \in Requests,
             requests'[q].pc = "found", requests[q].pc # "found"
      PROVE  /\ Stored(rows', requests[q].case)
             /\ stored'[requests[q].case].body = requests[q].body
  <2>1. ASSUME MatchingCase(requests[q].case, requests[q].body) = "ok", UNCHANGED <<rows, stored>>
        PROVE  /\ Stored(rows', requests[q].case)
               /\ stored'[requests[q].case].body = requests[q].body
    BY <2>1 DEF MatchingCase, Stored
  <2>goes. ASSUME NEW p \in Requests, NEW pc, GoTo(p, pc)
        PROVE  requests'[q].pc = IF q = p THEN pc ELSE requests[q].pc
    <3> DEFINE next == [requests[p] EXCEPT !.pc = pc]
    <3>1. requests' = [requests EXCEPT ![p] = next]
      BY <2>goes DEF GoTo
    <3>2. next.pc = pc
      BY <1>1 DEF RetentionInvariant, TypeOK
    <3>3. DOMAIN requests = Requests
      BY <1>1 DEF RetentionInvariant, TypeOK
    <3> HIDE DEF next
    <3> QED BY <3>1, <3>2, <3>3
  <2>answers. ASSUME NEW p \in Requests, NEW code, Answer(p, code)
        PROVE  requests'[q].pc = IF q = p THEN "answered" ELSE requests[q].pc
    <3> DEFINE next == [[Idle EXCEPT !.pc = "answered"] EXCEPT !.answer = code]
    <3>1. requests' = [requests EXCEPT ![p] = next]
      BY <2>answers DEF Answer
    <3>2. next.pc = "answered"
      BY DEF Idle
    <3>3. DOMAIN requests = Requests
      BY <1>1 DEF RetentionInvariant, TypeOK
    <3> HIDE DEF next
    <3> QED BY <3>1, <3>2, <3>3
  <2>2. ASSUME NEW p \in Requests, Lookup(p) \/ ResolveConflict(p)
        PROVE  p = q /\ MatchingCase(requests[q].case, requests[q].body) = "ok"
    <3>1. MatchingCase(requests[p].case, requests[p].body)
            \in {"absent", "ok", "INBOUND_EMAIL_CHANGED"}
      BY DEF MatchingCase
    <3>2. CASE MatchingCase(requests[p].case, requests[p].body) = "ok"
      <4>1. GoTo(p, "found")
        BY <2>2, <3>2 DEF Lookup, ResolveConflict
      <4> QED BY <1>1, <2>goes, <3>2, <4>1
    <3>3. CASE MatchingCase(requests[p].case, requests[p].body) # "ok"
      <4>1. GoTo(p, "retrieving") \/ \E code \in Codes : Answer(p, code)
        BY <2>2, <3>1, <3>3, CodesAre DEF Lookup, ResolveConflict
      <4> QED BY <1>1, <2>goes, <2>answers, <4>1
    <3> QED BY <3>2, <3>3
  <2>3. ASSUME NEW p \in Requests,
               \/ Post(p) \/ ReviewInbound(p) \/ Retrieve(p) \/ Unavailable(p)
               \/ CreateCase(p) \/ Respond(p)
        PROVE  FALSE
    <3>1. CASE Post(p)
      BY <1>1, <3>1 DEF Post, RetentionInvariant, TypeOK
    <3>2. CASE ReviewInbound(p) \/ Retrieve(p) \/ Unavailable(p) \/ CreateCase(p)
      <4>1. \/ \E pc \in {"reviewed", "creating", "conflicted", "pruning"} : GoTo(p, pc)
            \/ \E code : Answer(p, code)
        BY <3>2 DEF ReviewInbound, Retrieve, Unavailable, CreateCase
      <4> QED BY <1>1, <2>goes, <2>answers, <4>1
    <3>3. CASE Respond(p)
      BY <1>1, <3>3 DEF Respond, RetentionInvariant, TypeOK
    <3> QED BY <2>3, <3>1, <3>2, <3>3
  <2>4. CASE Commit
    <3>1. txn.by # None /\ txn.pos > Len(DeleteOrder) /\ rows' = View
      BY <2>4 DEF Commit
    <3>2. txn.by = q /\ txn.by # "script"
      <4>1. txn.by # "script"
        BY <1>1, <2>4 DEF Commit
      <4>2. txn.by \in Requests /\ requests' = [requests EXCEPT ![txn.by].pc = "found"]
        BY <1>1, <2>4, <3>1, <4>1, InProgress DEF Commit, GoTo
      <4>3. \A p \in Requests : requests'[p].pc = IF p = txn.by THEN "found" ELSE requests[p].pc
        BY <1>1, <4>2, GoesTo DEF RetentionInvariant
      <4> QED BY <1>1, <4>1, <4>3
    <3>3. requests[q].case \in CaseIds /\ Stored(View, requests[q].case)
      BY <1>1, <3>1, <3>2, CommitLeaves
    <3>4. stored'[requests[q].case] = [at |-> now, body |-> requests[q].body]
      BY <2>4, <3>2, <3>3 DEF Commit
    <3> QED BY <3>1, <3>3, <3>4
  <2>5. CASE DeleteFails \/ PlanChanged
    <3>1. txn.by # None /\ RolledBack /\ UNCHANGED <<rows, stored>>
      BY <2>5 DEF DeleteFails, PlanChanged, RolledBack
    <3>2. txn.by # "script" => \A p \in Requests :
             requests'[p].pc = IF p = txn.by THEN "conflicted" ELSE requests[p].pc
      BY <1>1, <3>1, InProgress, GoesTo DEF RolledBack, GoTo, RetentionInvariant
    <3> QED BY <1>1, <3>1, <3>2 DEF RolledBack
  <2>6. ~(UNCHANGED requests)
    BY <1>1
  <2> QED BY <1>1, <2>1, <2>2, <2>3, <2>4, <2>5, <2>6
          DEF Next, vars, CheckInbox, EditMail, Lookup, ResolveConflict, Preview, Apply,
              ApplyTimesOut, Delete, Work
<1>2. ASSUME RetentionInvariant, [Next]_vars, NEW c \in CaseIds, Stored(rows, c), Stored(rows', c)
      PROVE  stored'[c] = stored[c]
  <2>1. CASE Commit
    <3>1. /\ txn.by # None /\ txn.pos > Len(DeleteOrder) /\ rows' = View
          /\ txn.by \in Requests \/ txn.by = "script"
      BY <1>2, <2>1, InProgress DEF Commit
    <3>2. txn.by # "script" => c # requests[txn.by].case
      BY <1>2, <3>1, CommitLeaves
    <3> QED BY <1>2, <2>1, <3>1, <3>2 DEF Commit
  <2> QED BY <1>2, <2>1, CommitsChangeCases
<1>3. RetentionInvariant /\ [Next]_vars =>
        [/\ \A q \in Requests : requests'[q].pc = "found" /\ requests[q].pc # "found" =>
               /\ Stored(rows', requests[q].case)
               /\ stored'[requests[q].case].body = requests[q].body
         /\ \A c \in CaseIds : Stored(rows, c) /\ Stored(rows', c) => stored'[c] = stored[c]]_vars
  BY <1>1, <1>2
<1> QED BY <1>3, RetentionInvariantHolds, PTL DEF Spec, FoundAsReviewed
=============================================================================
