------------------------ MODULE CaseWorkspaceProofs ------------------------
(* Proofs about CaseWorkspace, for any number of cases, analyses,            *)
(* operations and polls, and about SupplierEmail, whose e-mail the page's     *)
(* panel reviews and sends.                                                   *)
EXTENDS CaseWorkspace, SupplierEmail, TLAPS

-----------------------------------------------------------------------------
(* The inductive invariant *)

\* The operations about a decision; the hook calls three of them "planning".
DecisionOps == {"approve", "reject", "retryPlanning", "playback", "planning", "email",
                "retryAction"}
PollingOps == {"approve", "retryPlanning", "playback", "planning"}
PlainOps == {"initializing", "listing", "creating", "analyzing"}
ReopenPhases == {"case", "analysis", "decision", "related", "confirm"}
Phases == ReopenPhases \union {"runtime", "get", "post", "reply", "poll", "execution"}
MaybeCase == Cases \union {NoCase}
MaybeDecision == Decisions \union {NoDecision}

CaseRecord == [exists : BOOLEAN, analysis : 0 .. MaxAnalyses, decided : 0 .. MaxAnalyses,
               stage : [Analyses -> Stages], cleared : 0 .. MaxAnalyses]
Task == [token : Nat \ {0}, op : DecisionOps \union PlainOps \union {"reopening"},
         phase : Phases, case : MaybeCase, analysis : 0 .. MaxAnalyses,
         decision : MaybeDecision, stage : Stages, changed : BOOLEAN, polls : Nat]
Page == [case : MaybeCase, analysis : 0 .. MaxAnalyses, decision : MaybeDecision,
         stage : Stages, actions : MaybeDecision, playback : MaybeDecision,
         email : MaybeDecision, controls : SUBSET {"new_analysis", "decide",
                                   "retry_action_planning", "start_playback"}]
InboxStates == [phase : {"ready", "create", "analyze", "analyzed", "open", "gone"},
                case : MaybeCase, token : Nat]
FinalStates == [case : Cases, analysis : Analyses, phase : {"post", "refresh", "receipt"}]

ServerTypes == cases \in [Cases -> CaseRecord]
HookTypes ==
    /\ mounted \in BOOLEAN /\ version \in Nat /\ emailVersion \in Nat
    /\ bookmark \in MaybeCase /\ shown \in Page
    /\ inbox \in InboxStates
    /\ inbox.phase # "ready" => inbox.case \in Cases
RequestTypes ==
    /\ tasks \subseteq Task
    /\ loads \subseteq [version : Nat, decision : Decisions]
    /\ finals \subseteq FinalStates

\* Only the newest token can be active, and a token has one operation.
TokensInOrder ==
    /\ active \in {0, version} /\ (~mounted => active = 0)
    /\ \A t \in tasks : t.token <= version
    /\ \A t, u \in tasks : t.token = u.token => t = u

LoadsInOrder == \A l \in loads : l.version <= emailVersion

\* What an operation carries while it is in flight.
CarriesItsDecision(t) ==
    /\ t.op \in DecisionOps => t.decision # NoDecision
    /\ t.op \in PlainOps => t.decision = NoDecision
    /\ t.op \in {"approve", "reject"} => t.decision.case = t.case
    /\ t.phase \in {"poll", "execution"} => t.op \in PollingOps
    /\ t.op \in {"creating", "analyzing", "reopening"} => t.case \in Cases

\* What a reopening has read so far.
ReadInOrder(t) ==
    t.op = "reopening" =>
        /\ t.phase \in ReopenPhases
        /\ t.decision # NoDecision => t.decision.case = t.case
        /\ t.phase \in {"decision", "related"} => t.decision # NoDecision
        /\ t.phase \in {"related", "confirm"} /\ t.decision # NoDecision =>
              t.decision.analysis = t.analysis
        /\ t.phase \in {"case", "analysis", "decision"} \/ t.decision = NoDecision =>
              t.stage = "none" /\ t.polls = 0

\* What a reopening has read is what the case still is, unless its row moved.
ReadIsCurrent(t) ==
    t.op = "reopening" /\ ~t.changed /\ t.phase # "case" =>
        LET s == cases[t.case]
        IN  /\ t.analysis = s.analysis
            /\ t.phase \in {"analysis", "decision"} => t.decision = CurrentDecision(t.case)
            /\ t.phase \in {"related", "confirm"} =>
                  t.decision = IF s.decided # 0 /\ s.decided = s.analysis
                               THEN CurrentDecision(t.case) ELSE NoDecision
            /\ t.phase \in {"related", "confirm"} /\ t.decision # NoDecision =>
                  (Stage(t.decision) \in Planned) = (t.stage \in Planned)

ServerInOrder == \A c \in Cases : cases[c].analysis = 0 => cases[c].decided = 0

\* Whoever shows an analysis or offers an operation shows a case.
PageHasCase == shown.controls # {} \/ shown.analysis # 0 => shown.case \in Cases

\* What is shown while an operation holds the page.  No e-mail is on its way
\* to a page that is being reopened.
OperationMatchesPage(t) ==
    /\ Valid(t) =>
          /\ t.op \in {"email", "playback", "retryPlanning", "retryAction"}
                \/ t.phase = "execution" => shown.decision # NoDecision
          /\ t.op \in {"analyzing", "reject"} => shown.case = t.case
    /\ mounted /\ t.op = "reopening" /\ t.token = version =>
          \A l \in loads : l.version # emailVersion

WorkspaceInvariant ==
    /\ ServerTypes /\ HookTypes /\ RequestTypes /\ TokensInOrder /\ LoadsInOrder
    /\ ServerInOrder /\ PageHasCase
    /\ \A t \in tasks : CarriesItsDecision(t) /\ ReadInOrder(t)
    /\ \A t \in tasks : ReadIsCurrent(t)
    /\ \A t \in tasks : OperationMatchesPage(t)
-----------------------------------------------------------------------------
(* Operations in flight: how a step leaves the others *)

\* finish: the operation is gone, and the others are as valid as before.
LEMMA FinishFacts ==
    ASSUME TokensInOrder, RequestTypes, HookTypes, NEW t \in tasks, Finish(t),
           UNCHANGED <<mounted, version>>
    PROVE  /\ TokensInOrder' /\ tasks' \subseteq tasks
           /\ \A u \in tasks' : Valid(u)' => Valid(u)
           /\ Valid(t) \/ (mounted /\ t.token = version) =>
                 \A u \in tasks' : ~Valid(u)' /\ u.token # version
<1>1. tasks' = tasks \ {t} /\ active' = IF mounted /\ active = t.token THEN 0 ELSE active
  BY DEF Finish
<1>2. \A u \in tasks : u.token \in Nat \ {0}
  BY DEF RequestTypes, Task
<1>3. active \in {0, version} /\ (~mounted => active = 0)
  BY DEF TokensInOrder
<1>4. TokensInOrder'
  BY <1>1, <1>3 DEF TokensInOrder
<1>5. \A u \in tasks' : Valid(u)' => Valid(u)
  BY <1>1, <1>2 DEF Valid
<1>6. ASSUME Valid(t) \/ (mounted /\ t.token = version), NEW u \in tasks'
      PROVE  ~Valid(u)' /\ u.token # version
  <2>1. active' = 0 /\ t.token = version
    BY <1>1, <1>2, <1>3, <1>6 DEF Valid
  <2>2. u.token # 0 /\ u.token # t.token
    BY <1>1, <1>2 DEF TokensInOrder
  <2> QED BY <2>1, <2>2 DEF Valid
<1> QED BY <1>1, <1>4, <1>5, <1>6

\* The operation goes on under its token.
LEMMA GoOnFacts ==
    ASSUME TokensInOrder, NEW t \in tasks, NEW next, next.token = t.token, GoOn(t, next),
           UNCHANGED <<mounted, version>>
    PROVE  /\ TokensInOrder' /\ tasks' = (tasks \ {t}) \union {next}
           /\ Valid(next)' <=> Valid(t)
           /\ \A u \in tasks : Valid(u)' <=> Valid(u)
<1>1. tasks' = (tasks \ {t}) \union {next} /\ active' = active
  BY DEF GoOn
<1>2. TokensInOrder'
  BY <1>1 DEF TokensInOrder
<1> QED BY <1>1, <1>2 DEF Valid

\* begin: the new operation holds the page, and no other does.
LEMMA BeginFacts ==
    ASSUME TokensInOrder, RequestTypes, HookTypes, NEW new,
           mounted, UNCHANGED mounted, version' \in Nat, version' > version,
           active' = version', new.token = version', NEW kept \in SUBSET tasks, tasks' = kept \union {new}
    PROVE  /\ TokensInOrder'
           /\ \A u \in kept : ~Valid(u)' /\ u.token # version'
<1>1. version \in Nat /\ \A u \in tasks : u.token \in Nat /\ u.token <= version
  BY DEF TokensInOrder, RequestTypes, HookTypes, Task
<1>2. \A u \in kept : u.token # version' /\ u.token <= version'
  BY <1>1
<1>3. TokensInOrder'
  BY <1>1, <1>2 DEF TokensInOrder
<1> QED BY <1>2, <1>3 DEF Valid

\* The same operation, whether a write has marked it or not.
SameTask(u, t) ==
    /\ u.token = t.token /\ u.op = t.op /\ u.phase = t.phase /\ u.case = t.case
    /\ u.analysis = t.analysis /\ u.decision = t.decision /\ u.stage = t.stage
    /\ u.polls = t.polls
    /\ u = t \/ u.changed

\* A write to a case marks its reopenings, and leaves the operations otherwise.
LEMMA TouchFacts ==
    ASSUME NEW c, NEW ts \in SUBSET Task
    PROVE  /\ Touch(c, ts) \subseteq Task
           /\ \A u \in Touch(c, ts) : \E t \in ts :
                 /\ SameTask(u, t)
                 /\ u.op = "reopening" /\ ~u.changed => t = u /\ u.case # c
           /\ \A u, v \in Touch(c, ts) :
                 (\A s, t \in ts : s.token = t.token => s = t) /\ u.token = v.token => u = v
<1> DEFINE marked(t) == [t EXCEPT !.changed = TRUE]
           image(t) == IF t.op = "reopening" /\ t.case = c THEN marked(t) ELSE t
<1>1. Touch(c, ts) = {image(t) : t \in ts}
  BY DEF Touch
<1>2. ASSUME NEW t \in ts
      PROVE  /\ image(t) \in Task /\ SameTask(image(t), t)
             /\ image(t).op = "reopening" /\ ~image(t).changed => t = image(t) /\ image(t).case # c
  <2>1. marked(t) \in Task /\ marked(t).changed = TRUE /\ SameTask(marked(t), t)
    BY DEF Task, SameTask
  <2>2. SameTask(t, t)
    BY DEF SameTask
  <2> HIDE DEF marked
  <2> QED BY <2>1, <2>2 DEF SameTask
<1> HIDE DEF image
<1>3. ASSUME NEW u \in Touch(c, ts), NEW v \in Touch(c, ts), u.token = v.token,
             \A s, t \in ts : s.token = t.token => s = t
      PROVE  u = v
  <2>1. PICK s \in ts, t \in ts : u = image(s) /\ v = image(t)
    BY <1>1
  <2>2. s.token = t.token
    BY <1>2, <1>3, <2>1 DEF SameTask
  <2> QED BY <1>3, <2>1, <2>2
<1> QED BY <1>1, <1>2, <1>3

-----------------------------------------------------------------------------
(* Kinds of steps that keep the invariant *)

\* A write after which a reopening would read the same of the case.
SameReading(c) ==
    /\ cases'[c].analysis = cases[c].analysis /\ cases'[c].decided = cases[c].decided
    /\ \A a \in Analyses : (cases'[c].stage[a] \in Planned) = (cases[c].stage[a] \in Planned)

LEMMA StillCurrent ==
    ASSUME NEW t \in Task, CarriesItsDecision(t), ReadInOrder(t), ReadIsCurrent(t),
           SameReading(t.case)
    PROVE  ReadIsCurrent(t)'
<1> SUFFICES ASSUME t.op = "reopening", ~t.changed, t.phase # "case"
             PROVE  ReadIsCurrent(t)'
  BY DEF ReadIsCurrent
<1>1. CurrentDecision(t.case)' = CurrentDecision(t.case)
  BY DEF SameReading, CurrentDecision
<1>2. ASSUME t.decision # NoDecision
      PROVE  (Stage(t.decision)' \in Planned) = (Stage(t.decision) \in Planned)
  <2>1. t.decision.case = t.case /\ t.decision.analysis \in Analyses
    BY <1>2 DEF ReadInOrder, Task, MaybeDecision, Decisions
  <2> QED BY <2>1 DEF SameReading, Stage
<1> QED BY <1>1, <1>2 DEF ReadIsCurrent, SameReading

\* What a step that writes nothing leaves as it was on the server.
LEMMA NothingRead ==
    ASSUME UNCHANGED cases, NEW c
    PROVE  SameReading(c)
BY DEF SameReading

\* What a step leaves of the page to the operations that go on.
PageKept == /\ UNCHANGED <<mounted, active, version, emailVersion>> /\ loads' \subseteq loads
            /\ shown'.case = shown.case
            /\ shown.decision # NoDecision => shown'.decision # NoDecision

\* The parts of the invariant that are not about operations in flight.
Surroundings ==
    /\ ServerTypes /\ HookTypes /\ LoadsInOrder /\ ServerInOrder /\ PageHasCase
    /\ loads \subseteq [version : Nat, decision : Decisions]
    /\ finals \subseteq FinalStates

LEMMA MatchesKeptPage ==
    ASSUME NEW t, OperationMatchesPage(t), PageKept,
           NEW u, u.token = t.token, u.op = t.op, u.case = t.case,
           u.phase = "execution" => t.phase = "execution"
    PROVE  OperationMatchesPage(u)'
<1>1. Valid(u)' <=> Valid(t)
  BY DEF Valid, PageKept
<1> QED BY <1>1 DEF OperationMatchesPage, PageKept

\* An operation that does not hold the page has nothing to match.
LEMMA MatchesVacuously ==
    ASSUME NEW t, ~Valid(t)', t.token # version'
    PROVE  OperationMatchesPage(t)'
BY DEF OperationMatchesPage

\* A step that leaves the operations in flight alone.
LEMMA QuietStep ==
    ASSUME WorkspaceInvariant, Surroundings', PageKept, UNCHANGED tasks,
           \A c \in Cases : SameReading(c)
    PROVE  WorkspaceInvariant'
<1>1. TokensInOrder' /\ RequestTypes'
  BY DEF WorkspaceInvariant, TokensInOrder, RequestTypes, PageKept, Surroundings
<1>2. ASSUME NEW t \in tasks
      PROVE  CarriesItsDecision(t) /\ ReadInOrder(t) /\ ReadIsCurrent(t)'
             /\ OperationMatchesPage(t)'
  <2>1. /\ t \in Task /\ CarriesItsDecision(t) /\ ReadInOrder(t) /\ ReadIsCurrent(t)
        /\ OperationMatchesPage(t)
    BY DEF WorkspaceInvariant, RequestTypes
  <2>2. ReadIsCurrent(t)'
    <3>1. CASE t.op = "reopening"
      BY <2>1, <3>1, StillCurrent DEF CarriesItsDecision
    <3> QED BY <3>1 DEF ReadIsCurrent
  <2> QED BY <2>1, <2>2, MatchesKeptPage
<1> QED BY <1>1, <1>2 DEF WorkspaceInvariant, Surroundings, CarriesItsDecision, ReadInOrder

\* A write to a case that marks its reopenings; the operation that wrote, if
\* it is one of the page's, goes on.
LEMMA TouchedStep ==
    ASSUME WorkspaceInvariant, Surroundings', PageKept,
           NEW c \in Cases, \A b \in Cases \ {c} : cases'[b] = cases[b],
           NEW kept \in SUBSET tasks, NEW more \in SUBSET Task,
           tasks' = Touch(c, kept) \union more,
           \A m, n \in more : m = n,
           \A n \in more : /\ CarriesItsDecision(n) /\ n.op # "reopening"
                           /\ \E t \in tasks \ kept :
                                 /\ n.token = t.token /\ n.op = t.op /\ n.case = t.case
                                 /\ n.phase = "execution" => t.phase = "execution"
    PROVE  WorkspaceInvariant'
<1>1. tasks \subseteq Task /\ TokensInOrder
  BY DEF WorkspaceInvariant, RequestTypes
<1>2. kept \in SUBSET Task
  BY <1>1
<1>3. /\ Touch(c, kept) \subseteq Task
      /\ \A u \in Touch(c, kept) : \E t \in kept :
            /\ SameTask(u, t)
            /\ u.op = "reopening" /\ ~u.changed => t = u /\ u.case # c
      /\ \A u, v \in Touch(c, kept) :
            (\A s, t \in kept : s.token = t.token => s = t) /\ u.token = v.token => u = v
  BY <1>2, TouchFacts
<1>4. \A s, t \in tasks : s.token = t.token => s = t
  BY <1>1 DEF TokensInOrder
<1>5. TokensInOrder'
  <2>1. \A u \in tasks' : \E t \in tasks : u.token = t.token
    BY <1>3 DEF SameTask
  <2>2. ASSUME NEW u \in tasks', NEW v \in tasks', u.token = v.token
        PROVE  u = v
    <3>1. CASE u \in Touch(c, kept) /\ v \in Touch(c, kept)
      BY <1>3, <1>4, <2>2, <3>1
    <3>2. ASSUME NEW x \in Touch(c, kept), NEW y \in more
          PROVE  x.token # y.token
      <4>1. PICK t \in kept : x.token = t.token
        BY <1>3 DEF SameTask
      <4>2. PICK s \in tasks \ kept : y.token = s.token
        OBVIOUS
      <4> QED BY <1>4, <4>1, <4>2
    <3> QED BY <2>2, <3>1, <3>2
  <2> QED BY <1>1, <2>1, <2>2 DEF TokensInOrder, PageKept
<1>6. RequestTypes'
  BY <1>3 DEF RequestTypes, Surroundings
<1>7. ASSUME NEW u \in tasks'
      PROVE  CarriesItsDecision(u) /\ ReadInOrder(u) /\ ReadIsCurrent(u)'
             /\ OperationMatchesPage(u)'
  <2>1. CASE u \in more
    <3>1. PICK t \in tasks : /\ u.token = t.token /\ u.op = t.op /\ u.case = t.case
                             /\ u.phase = "execution" => t.phase = "execution"
      BY <2>1
    <3>2. OperationMatchesPage(t)
      BY DEF WorkspaceInvariant
    <3>3. OperationMatchesPage(u)'
      BY <3>1, <3>2, MatchesKeptPage
    <3> QED BY <2>1, <3>3 DEF ReadInOrder, ReadIsCurrent
  <2>2. CASE u \in Touch(c, kept)
    <3>1. PICK t \in kept : /\ SameTask(u, t)
                            /\ u.op = "reopening" /\ ~u.changed => t = u /\ u.case # c
      BY <1>3, <2>2
    <3>2. /\ t \in Task /\ CarriesItsDecision(t) /\ ReadInOrder(t) /\ ReadIsCurrent(t)
          /\ OperationMatchesPage(t)
      BY <1>1 DEF WorkspaceInvariant
    <3>3. CarriesItsDecision(u) /\ ReadInOrder(u)
      BY <3>1, <3>2 DEF SameTask, CarriesItsDecision, ReadInOrder
    <3>4. OperationMatchesPage(u)'
      BY <3>1, <3>2, MatchesKeptPage DEF SameTask
    <3>5. ReadIsCurrent(u)'
      <4>1. CASE u.op = "reopening" /\ ~u.changed
        <5>1. t = u /\ u.case \in Cases \ {c}
          BY <3>1, <3>3, <4>1 DEF CarriesItsDecision
        <5>2. SameReading(u.case)
          BY <5>1 DEF SameReading
        <5> QED BY <3>2, <5>1, <5>2, StillCurrent
      <4> QED BY <4>1 DEF ReadIsCurrent
    <3> QED BY <3>3, <3>4, <3>5
  <2> QED BY <2>1, <2>2
<1> QED BY <1>5, <1>6, <1>7 DEF WorkspaceInvariant, Surroundings, CarriesItsDecision, ReadInOrder
\* A new operation takes the page; those before it no longer matter to it.
LEMMA BeginStep ==
    ASSUME WorkspaceInvariant, Surroundings', mounted, UNCHANGED <<mounted, cases>>,
           version' \in Nat, version' > version, active' = version',
           NEW new \in Task, new.token = version',
           NEW kept \in SUBSET tasks, tasks' = kept \union {new},
           CarriesItsDecision(new), ReadInOrder(new), ReadIsCurrent(new)',
           OperationMatchesPage(new)'
    PROVE  WorkspaceInvariant'
<1>1. TokensInOrder /\ RequestTypes /\ HookTypes
  BY DEF WorkspaceInvariant
<1>2. TokensInOrder' /\ \A u \in kept : ~Valid(u)' /\ u.token # version'
  BY <1>1, BeginFacts
<1>3. RequestTypes'
  BY <1>1 DEF RequestTypes, Surroundings
<1>4. ASSUME NEW t \in kept
      PROVE  CarriesItsDecision(t) /\ ReadInOrder(t) /\ ReadIsCurrent(t)'
             /\ OperationMatchesPage(t)'
  <2>1. CarriesItsDecision(t) /\ ReadInOrder(t) /\ ReadIsCurrent(t)
    BY DEF WorkspaceInvariant
  <2>2. ReadIsCurrent(t)'
    BY <2>1 DEF ReadIsCurrent, CurrentDecision, Stage
  <2> QED BY <1>2, <2>1, <2>2, MatchesVacuously
<1> QED BY <1>2, <1>3, <1>4 DEF WorkspaceInvariant, Surroundings, CarriesItsDecision, ReadInOrder

\* The operation of the newest token may change the page as it ends.
LEMMA FinishStep ==
    ASSUME WorkspaceInvariant, Surroundings', UNCHANGED <<mounted, version, cases>>,
           NEW t \in tasks, Finish(t),
           \/ Valid(t) \/ (mounted /\ t.token = version)
           \/ UNCHANGED <<shown, emailVersion, loads>>
    PROVE  WorkspaceInvariant'
<1>1. TokensInOrder /\ RequestTypes /\ HookTypes
  BY DEF WorkspaceInvariant
<1>2. /\ TokensInOrder' /\ tasks' \subseteq tasks
      /\ \A u \in tasks' : Valid(u)' => Valid(u)
      /\ Valid(t) \/ (mounted /\ t.token = version) =>
            \A u \in tasks' : ~Valid(u)' /\ u.token # version
  BY <1>1, FinishFacts
<1>3. RequestTypes'
  BY <1>1, <1>2 DEF RequestTypes, Surroundings
<1>4. ASSUME NEW u \in tasks'
      PROVE  CarriesItsDecision(u) /\ ReadInOrder(u) /\ ReadIsCurrent(u)'
             /\ OperationMatchesPage(u)'
  <2>1. CarriesItsDecision(u) /\ ReadInOrder(u) /\ ReadIsCurrent(u) /\ OperationMatchesPage(u)
    BY <1>2 DEF WorkspaceInvariant
  <2>2. ReadIsCurrent(u)'
    BY <2>1 DEF ReadIsCurrent, CurrentDecision, Stage
  <2>3. OperationMatchesPage(u)'
    <3>1. CASE Valid(t) \/ (mounted /\ t.token = version)
      BY <1>2, <3>1, MatchesVacuously
    <3>2. CASE UNCHANGED <<shown, emailVersion, loads>>
      BY <1>2, <2>1, <3>2 DEF OperationMatchesPage
    <3> QED BY <3>1, <3>2
  <2> QED BY <2>1, <2>2, <2>3
<1> QED BY <1>2, <1>3, <1>4 DEF WorkspaceInvariant, Surroundings, CarriesItsDecision, ReadInOrder

\* An operation goes on to its next request.
LEMMA GoOnStep ==
    ASSUME WorkspaceInvariant, Surroundings', UNCHANGED <<mounted, version>>,
           \A c \in Cases : SameReading(c),
           NEW t \in tasks, NEW next \in Task, next.token = t.token, GoOn(t, next),
           CarriesItsDecision(next), ReadInOrder(next), ReadIsCurrent(next)',
           OperationMatchesPage(next)',
           Valid(t) \/ UNCHANGED <<shown, emailVersion, loads>>
    PROVE  WorkspaceInvariant'
<1>1. TokensInOrder /\ RequestTypes /\ HookTypes
  BY DEF WorkspaceInvariant
<1>2. /\ TokensInOrder' /\ tasks' = (tasks \ {t}) \union {next}
      /\ \A u \in tasks : Valid(u)' <=> Valid(u)
  BY <1>1, GoOnFacts
<1>3. RequestTypes'
  BY <1>1, <1>2 DEF RequestTypes, Surroundings
<1>4. ASSUME NEW u \in tasks \ {t}
      PROVE  CarriesItsDecision(u) /\ ReadInOrder(u) /\ ReadIsCurrent(u)'
             /\ OperationMatchesPage(u)'
  <2>1. /\ u \in Task /\ CarriesItsDecision(u) /\ ReadInOrder(u) /\ ReadIsCurrent(u)
        /\ OperationMatchesPage(u)
    BY <1>1 DEF WorkspaceInvariant, RequestTypes
  <2>2. ReadIsCurrent(u)'
    <3>1. CASE u.op = "reopening"
      BY <2>1, <3>1, StillCurrent DEF CarriesItsDecision
    <3> QED BY <3>1 DEF ReadIsCurrent
  <2>3. OperationMatchesPage(u)'
    <3>1. CASE Valid(t)
      <4>1. t.token = version /\ t.token \in Nat \ {0} /\ active = version /\ u.token # t.token
        BY <1>1, <3>1 DEF Valid, TokensInOrder, RequestTypes, Task
      <4>2. ~Valid(u) /\ u.token # version
        BY <4>1 DEF Valid
      <4> QED BY <1>2, <4>2, MatchesVacuously
    <3>2. CASE UNCHANGED <<shown, emailVersion, loads>>
      BY <1>2, <2>1, <3>2 DEF OperationMatchesPage
    <3> QED BY <3>1, <3>2
  <2> QED BY <2>1, <2>2, <2>3
<1> QED BY <1>2, <1>3, <1>4 DEF WorkspaceInvariant, Surroundings, CarriesItsDecision, ReadInOrder
-----------------------------------------------------------------------------
(* The initial states, and the steps of others on the server *)

LEMMA InitInOrder ==
    ASSUME Init
    PROVE  WorkspaceInvariant
<1> USE WorkspaceAssumption
<1> DEFINE first == [token |-> 1, op |-> "initializing", phase |-> "runtime", case |-> NoCase,
                     analysis |-> 0, decision |-> NoDecision, stage |-> "none",
                     changed |-> FALSE, polls |-> 0]
<1>1. ServerTypes /\ ServerInOrder
  BY DEF Init, ServerTypes, ServerInOrder, CaseRecord, Stages
<1>2. first \in Task
  BY DEF Task, PlainOps, Phases, MaybeCase, MaybeDecision, Stages
<1>3. EmptyWorkspace \in Page
  BY DEF EmptyWorkspace, Page, MaybeCase, MaybeDecision, Stages
<1>4. HookTypes
  BY <1>3 DEF Init, HookTypes, MaybeCase, InboxStates
<1>5. PageHasCase
  BY DEF Init, PageHasCase, EmptyWorkspace
<1>6. tasks = {first} /\ loads = {} /\ finals = {} /\ active = 1 /\ version = 1 /\ mounted = TRUE
  BY DEF Init
<1>7. RequestTypes /\ TokensInOrder /\ LoadsInOrder
  BY <1>2, <1>6 DEF RequestTypes, TokensInOrder, LoadsInOrder
<1>8. /\ CarriesItsDecision(first) /\ ReadInOrder(first) /\ ReadIsCurrent(first)
      /\ OperationMatchesPage(first)
  BY DEF CarriesItsDecision, ReadInOrder, ReadIsCurrent, OperationMatchesPage, DecisionOps,
         PollingOps
<1> QED BY <1>1, <1>4, <1>5, <1>6, <1>7, <1>8 DEF WorkspaceInvariant

\* What a write to one case keeps.
LEMMA WriteFacts ==
    ASSUME WorkspaceInvariant, NEW c \in Cases, NEW s \in CaseRecord,
           s.analysis = 0 => s.decided = 0, cases' = [cases EXCEPT ![c] = s],
           UNCHANGED <<mounted, active, version, emailVersion, shown, bookmark, loads>>,
           inbox' \in InboxStates,
           inbox'.phase # "ready" => inbox'.case \in Cases,
           finals' \subseteq FinalStates
    PROVE  /\ Surroundings' /\ PageKept
           /\ cases'[c] = s /\ \A b \in Cases \ {c} : cases'[b] = cases[b]
<1>1. cases \in [Cases -> CaseRecord]
  BY DEF WorkspaceInvariant, ServerTypes
<1>2. cases'[c] = s /\ \A b \in Cases \ {c} : cases'[b] = cases[b]
  BY <1>1
<1>3. ServerTypes' /\ ServerInOrder'
  BY <1>1, <1>2 DEF ServerTypes, ServerInOrder, WorkspaceInvariant
<1>4. HookTypes' /\ LoadsInOrder' /\ PageHasCase' /\ PageKept
  BY DEF WorkspaceInvariant, HookTypes, LoadsInOrder, PageHasCase, PageKept
<1> QED BY <1>2, <1>3, <1>4 DEF Surroundings, WorkspaceInvariant, RequestTypes

\* The record of a case after an analysis.
LEMMA AnalysedFacts ==
    ASSUME ServerTypes, ServerInOrder, NEW c \in Cases
    PROVE  \E s \in CaseRecord : /\ Analysed(c) = [cases EXCEPT ![c] = s]
                                 /\ s.analysis # 0
<1> DEFINE n == IF cases[c].analysis = 0 \/ (~live /\ cases[c].analysis < MaxAnalyses)
                THEN cases[c].analysis + 1 ELSE cases[c].analysis
           s == [cases[c] EXCEPT !.analysis = n]
<1>1. cases[c] \in CaseRecord
  BY DEF ServerTypes
<1>2. n \in 0 .. MaxAnalyses /\ n # 0
  BY <1>1, WorkspaceAssumption DEF CaseRecord
<1>3. Analysed(c) = [cases EXCEPT ![c] = s]
  BY DEF Analysed
<1> HIDE DEF n
<1>4. s \in CaseRecord /\ s.analysis # 0
  BY <1>1, <1>2 DEF CaseRecord
<1> QED BY <1>3, <1>4

\* The record of a case after a decision or its planning.
LEMMA StagedFacts ==
    ASSUME ServerTypes, NEW d \in Decisions, NEW stage \in Stages
    PROVE  LET c == d.case
               plan == [cases[c] EXCEPT !.stage[d.analysis] = stage]
               decide == [plan EXCEPT !.decided = d.analysis]
           IN  /\ [cases EXCEPT ![c].stage[d.analysis] = stage] = [cases EXCEPT ![c] = plan]
               /\ Decided(d, stage) = [cases EXCEPT ![c] = decide]
               /\ plan \in CaseRecord /\ decide \in CaseRecord
               /\ plan.analysis = cases[c].analysis /\ plan.decided = cases[c].decided
               /\ decide.analysis = cases[c].analysis /\ decide.decided = d.analysis
               /\ plan.exists = cases[c].exists /\ plan.cleared = cases[c].cleared
               /\ \A a \in Analyses : plan.stage[a] = IF a = d.analysis THEN stage
                                                      ELSE cases[c].stage[a]
<1> DEFINE c == d.case
           stages == [cases[c].stage EXCEPT ![d.analysis] = stage]
           plan == [cases[c] EXCEPT !.stage = stages]
           decide == [plan EXCEPT !.decided = d.analysis]
<1>1. cases[c] \in CaseRecord /\ c \in Cases /\ d.analysis \in Analyses
      /\ d.analysis \in 0 .. MaxAnalyses
  BY DEF ServerTypes, Decisions, Analyses
<1>2. /\ stages \in [Analyses -> Stages]
      /\ \A a \in Analyses : stages[a] = IF a = d.analysis THEN stage ELSE cases[c].stage[a]
  BY <1>1 DEF CaseRecord
<1>3. [cases EXCEPT ![c].stage[d.analysis] = stage] = [cases EXCEPT ![c] = plan]
  OBVIOUS
<1>4. Decided(d, stage) = [cases EXCEPT ![c] = decide]
  BY <1>1 DEF Decided, ServerTypes
<1> HIDE DEF stages
<1>5. /\ plan \in CaseRecord /\ decide \in CaseRecord
      /\ plan.analysis = cases[c].analysis /\ plan.decided = cases[c].decided
      /\ decide.analysis = cases[c].analysis /\ decide.decided = d.analysis
      /\ plan.exists = cases[c].exists /\ plan.cleared = cases[c].cleared
      /\ plan.stage = stages
  BY <1>1, <1>2 DEF CaseRecord
<1> QED BY <1>2, <1>3, <1>4, <1>5 DEF stages
LEMMA DecidedFacts ==
    ASSUME ServerTypes, NEW d \in Decisions, NEW stage \in Stages
    PROVE  \E s \in CaseRecord : /\ Decided(d, stage) = [cases EXCEPT ![d.case] = s]
                                 /\ s.analysis = cases[d.case].analysis
<1> DEFINE plan == [cases[d.case] EXCEPT !.stage[d.analysis] = stage]
           decide == [plan EXCEPT !.decided = d.analysis]
<1>1. /\ Decided(d, stage) = [cases EXCEPT ![d.case] = decide]
      /\ decide \in CaseRecord /\ decide.analysis = cases[d.case].analysis
  BY StagedFacts
<1> HIDE DEF decide
<1> QED BY <1>1

\* A step of others on one case.
LEMMA OtherWrite ==
    ASSUME WorkspaceInvariant, NEW c \in Cases, NEW s \in CaseRecord,
           s.analysis = 0 => s.decided = 0, cases' = [cases EXCEPT ![c] = s],
           UNCHANGED <<mounted, active, version, emailVersion, shown, bookmark, loads>>,
           tasks' = Touch(c, tasks),
           inbox' \in InboxStates,
           inbox'.phase # "ready" => inbox'.case \in Cases,
           finals' \subseteq FinalStates
    PROVE  WorkspaceInvariant'
<1>1. Surroundings' /\ PageKept /\ \A b \in Cases \ {c} : cases'[b] = cases[b]
  BY WriteFacts
<1> DEFINE more == {}
<1>2. /\ tasks' = Touch(c, tasks) \union more /\ tasks \in SUBSET tasks /\ more \in SUBSET Task
      /\ \A n \in more : FALSE
  OBVIOUS
<1> HIDE DEF more
<1> QED BY <1>1, <1>2, TouchedStep

LEMMA OthersWrite ==
    ASSUME WorkspaceInvariant,
           \/ \E c \in Cases : OtherAnalyses(c) \/ OtherDecides(c) \/ SubmitProposal(c)
           \/ \E d \in Decisions : WorkerPlans(d)
    PROVE  WorkspaceInvariant'
<1>1. ServerTypes /\ ServerInOrder /\ HookTypes /\ RequestTypes
  BY DEF WorkspaceInvariant
<1>2. /\ inbox \in InboxStates
      /\ inbox.phase # "ready" => inbox.case \in Cases
      /\ finals \subseteq FinalStates
  BY <1>1 DEF HookTypes, RequestTypes
<1>3. /\ \A c \in Cases : cases[c] \in CaseRecord
      /\ \A d \in Decisions : d.case \in Cases /\ cases[d.case] \in CaseRecord
  BY <1>1 DEF ServerTypes, Decisions
<1>4. ASSUME NEW c \in Cases, OtherAnalyses(c)
      PROVE  WorkspaceInvariant'
  <2>1. PICK s \in CaseRecord : Analysed(c) = [cases EXCEPT ![c] = s] /\ s.analysis # 0
    BY <1>1, AnalysedFacts
  <2>2. /\ cases' = [cases EXCEPT ![c] = s] /\ tasks' = Touch(c, tasks)
        /\ UNCHANGED <<mounted, active, version, emailVersion, shown, bookmark, loads, finals,
                       inbox>>
    BY <1>4, <2>1 DEF OtherAnalyses, refVars
  <2> QED BY <1>2, <2>1, <2>2, OtherWrite
<1>5. ASSUME NEW c \in Cases, OtherDecides(c)
      PROVE  WorkspaceInvariant'
  <2>1. cases[c].analysis # 0
    BY <1>5 DEF OtherDecides, ControlsOf
  <2> DEFINE e == Ref(c, cases[c].analysis)
  <2>2. e \in Decisions /\ e.case = c
    BY <1>3, <2>1, WorkspaceAssumption DEF Ref, Decisions, Analyses, CaseRecord
  <2>3. PICK stage \in {"pending", "rejected"} : cases' = Decided(e, stage)
    BY <1>5 DEF OtherDecides
  <2> HIDE DEF e
  <2>4. stage \in Stages
    BY DEF Stages
  <2>5. PICK s \in CaseRecord : cases' = [cases EXCEPT ![c] = s] /\ s.analysis # 0
    BY <1>1, <2>1, <2>2, <2>3, <2>4, DecidedFacts
  <2>6. /\ tasks' = Touch(c, tasks)
        /\ UNCHANGED <<mounted, active, version, emailVersion, shown, bookmark, loads, finals,
                       inbox>>
    BY <1>5 DEF OtherDecides, refVars
  <2> QED BY <1>2, <2>5, <2>6, OtherWrite
<1>6. ASSUME NEW c \in Cases, SubmitProposal(c)
      PROVE  WorkspaceInvariant'
  <2> DEFINE s == [cases[c] EXCEPT !.cleared = shown.analysis]
  <2>1. shown.analysis \in 0 .. MaxAnalyses
    BY <1>1 DEF HookTypes, Page
  <2>2. s \in CaseRecord /\ s.analysis = cases[c].analysis /\ s.decided = cases[c].decided
    BY <1>3, <2>1 DEF CaseRecord
  <2>3. cases' = [cases EXCEPT ![c] = s]
    BY <1>6 DEF SubmitProposal
  <2>4. /\ tasks' = Touch(c, tasks)
        /\ UNCHANGED <<mounted, active, version, emailVersion, shown, bookmark, loads, finals,
                       inbox>>
    BY <1>6 DEF SubmitProposal, refVars
  <2>5. s.analysis = 0 => s.decided = 0
    BY <1>1, <2>2 DEF ServerInOrder
  <2> HIDE DEF s
  <2> QED BY <1>2, <2>2, <2>3, <2>4, <2>5, OtherWrite
<1>7. ASSUME NEW d \in Decisions, WorkerPlans(d)
      PROVE  WorkspaceInvariant'
  <2>1. PICK stage \in {"planned", "failed"} :
           cases' = [cases EXCEPT ![d.case].stage[d.analysis] = stage]
    BY <1>7 DEF WorkerPlans
  <2>2. stage \in Stages
    BY DEF Stages
  <2>3. PICK s \in CaseRecord : /\ cases' = [cases EXCEPT ![d.case] = s]
                                /\ s.analysis = cases[d.case].analysis
                                /\ s.decided = cases[d.case].decided
    BY <1>1, <2>1, <2>2, StagedFacts
  <2>4. /\ tasks' = Touch(d.case, tasks)
        /\ UNCHANGED <<mounted, active, version, emailVersion, shown, bookmark, loads, finals,
                       inbox>>
    BY <1>7 DEF WorkerPlans, refVars
  <2>5. s.analysis = 0 => s.decided = 0
    BY <1>1, <1>3, <2>3 DEF ServerInOrder
  <2> QED BY <1>2, <1>3, <2>3, <2>4, <2>5, OtherWrite
<1> QED BY <1>4, <1>5, <1>6, <1>7

LEMMA PanelsWrite ==
    ASSUME WorkspaceInvariant, InboxAnalyzed \/ \E f \in finals : FinalizeCommit(f)
    PROVE  WorkspaceInvariant'
<1>1. ServerTypes /\ ServerInOrder /\ HookTypes /\ RequestTypes
  BY DEF WorkspaceInvariant
<1>2. /\ inbox \in InboxStates
      /\ inbox.phase # "ready" => inbox.case \in Cases
      /\ finals \subseteq FinalStates
  BY <1>1 DEF HookTypes, RequestTypes
<1>3. ASSUME NEW f \in finals, FinalizeCommit(f)
      PROVE  WorkspaceInvariant'
  <2>1. f \in FinalStates
    BY <1>2
  <2> DEFINE e == Ref(f.case, f.analysis)
  <2>2. /\ f.case \in Cases /\ e \in Decisions /\ e.case = f.case
        /\ f.analysis # 0 /\ cases[f.case].analysis = f.analysis
    BY <1>3, <2>1 DEF Ref, Decisions, Analyses, FinalizeCommit, FinalStates
  <2>3. cases' = Decided(e, "pending")
    BY <1>3 DEF FinalizeCommit
  <2> HIDE DEF e
  <2>4. "pending" \in Stages
    BY DEF Stages
  <2>5. PICK s \in CaseRecord : cases' = [cases EXCEPT ![f.case] = s] /\ s.analysis # 0
    BY <1>1, <2>2, <2>3, <2>4, DecidedFacts
  <2>6. /\ tasks' = Touch(f.case, tasks)
        /\ UNCHANGED <<mounted, active, version, emailVersion, shown, bookmark, loads, inbox>>
        /\ finals' = (finals \ {f}) \union {[f EXCEPT !.phase = "refresh"]}
    BY <1>3 DEF FinalizeCommit, refVars
  <2>7. [f EXCEPT !.phase = "refresh"] \in FinalStates
    BY <2>1 DEF FinalStates
  <2>8. finals' \subseteq FinalStates
    BY <1>2, <2>6, <2>7
  <2> QED BY <1>2, <2>2, <2>5, <2>6, <2>8, OtherWrite
<1>4. CASE InboxAnalyzed
  <2>1. inbox.case \in Cases
    BY <1>2, <1>4 DEF InboxAnalyzed
  <2>2. PICK s \in CaseRecord : /\ Analysed(inbox.case) = [cases EXCEPT ![inbox.case] = s]
                                /\ s.analysis # 0
    BY <1>1, <2>1, AnalysedFacts
  <2>3. /\ cases' = [cases EXCEPT ![inbox.case] = s] /\ tasks' = Touch(inbox.case, tasks)
        /\ UNCHANGED <<mounted, active, version, emailVersion, shown, bookmark, loads, finals>>
        /\ inbox' = [inbox EXCEPT !.phase = "analyzed"]
    BY <1>4, <2>2 DEF InboxAnalyzed, refVars
  <2>4. inbox' \in InboxStates /\ inbox'.case \in Cases
    BY <1>2, <2>1, <2>3 DEF InboxStates
  <2> QED BY <1>2, <2>1, <2>2, <2>3, <2>4, OtherWrite
<1> QED BY <1>3, <1>4
-----------------------------------------------------------------------------
(* The writes of the page's own operations *)

\* The committed operation waits for its answer.
Answered(n, t) ==
    /\ n \in Task /\ CarriesItsDecision(n)
    /\ n.token = t.token /\ n.op = t.op /\ n.case = t.case /\ n.decision = t.decision
    /\ n.phase = "reply"

LEMMA AnswerFacts ==
    ASSUME NEW t \in Task, CarriesItsDecision(t), NEW a \in 0 .. MaxAnalyses, NEW stage \in Stages
    PROVE  /\ Answered([t EXCEPT !.phase = "reply"], t)
           /\ Answered([t EXCEPT !.phase = "reply", !.analysis = a], t)
           /\ Answered([t EXCEPT !.phase = "reply", !.stage = stage], t)
<1> DEFINE plain == [t EXCEPT !.phase = "reply"]
           analysed == [t EXCEPT !.phase = "reply", !.analysis = a]
           decided == [t EXCEPT !.phase = "reply", !.stage = stage]
<1>1. "reply" \in Phases
  BY DEF Phases
<1>2. /\ plain \in Task /\ plain.token = t.token /\ plain.op = t.op /\ plain.case = t.case
      /\ plain.decision = t.decision /\ plain.phase = "reply"
  BY <1>1 DEF Task
<1>3. /\ analysed \in Task /\ analysed.token = t.token /\ analysed.op = t.op
      /\ analysed.case = t.case /\ analysed.decision = t.decision /\ analysed.phase = "reply"
  BY <1>1 DEF Task
<1>4. /\ decided \in Task /\ decided.token = t.token /\ decided.op = t.op
      /\ decided.case = t.case /\ decided.decision = t.decision /\ decided.phase = "reply"
  BY <1>1 DEF Task
<1> HIDE DEF plain, analysed, decided
<1>5. CarriesItsDecision(plain) /\ CarriesItsDecision(analysed) /\ CarriesItsDecision(decided)
  BY <1>2, <1>3, <1>4 DEF CarriesItsDecision
<1>6. Answered(plain, t) /\ Answered(analysed, t) /\ Answered(decided, t)
  BY <1>2, <1>3, <1>4, <1>5 DEF Answered
<1> QED BY <1>6 DEF plain, analysed, decided

LEMMA CommitTouches ==
    ASSUME WorkspaceInvariant, NEW t \in tasks, t.op # "reopening",
           NEW c \in Cases, NEW s \in CaseRecord, s.analysis = 0 => s.decided = 0,
           cases' = [cases EXCEPT ![c] = s],
           UNCHANGED <<mounted, active, version, emailVersion, shown, bookmark, loads, finals,
                       inbox>>,
           NEW next, Answered(next, t), tasks' = Touch(c, tasks \ {t}) \union {next}
    PROVE  WorkspaceInvariant'
<1>1. HookTypes /\ RequestTypes
  BY DEF WorkspaceInvariant
<1>2. Surroundings' /\ PageKept /\ \A b \in Cases \ {c} : cases'[b] = cases[b]
  BY <1>1, WriteFacts DEF HookTypes, RequestTypes
<1> DEFINE kept == tasks \ {t}
           more == {next}
<1>3. /\ kept \in SUBSET tasks /\ more \in SUBSET Task /\ tasks' = Touch(c, kept) \union more
      /\ t \in tasks \ kept /\ \A n \in more : n = next
  BY DEF Answered
<1>4. \A n \in more : /\ CarriesItsDecision(n) /\ n.op # "reopening"
                      /\ \E u \in tasks \ kept :
                            /\ n.token = u.token /\ n.op = u.op /\ n.case = u.case
                            /\ n.phase = "execution" => u.phase = "execution"
  BY <1>3 DEF Answered
<1>5. \A m, n \in more : m = n
  OBVIOUS
<1> HIDE DEF kept, more
<1> QED BY <1>2, <1>3, <1>4, <1>5, TouchedStep

LEMMA CommitStep ==
    ASSUME WorkspaceInvariant, NEW t \in tasks, t.op # "reopening", NEW next, Answered(next, t),
           Surroundings', UNCHANGED <<mounted, version, emailVersion, shown, loads>>,
           \A c \in Cases : SameReading(c), GoOn(t, next)
    PROVE  WorkspaceInvariant'
<1>1. OperationMatchesPage(t) /\ TokensInOrder
  BY DEF WorkspaceInvariant
<1>2. next \in Task /\ CarriesItsDecision(next) /\ next.token = t.token /\ next.op # "reopening"
      /\ next.op = t.op /\ next.case = t.case /\ next.phase # "execution"
  BY DEF Answered
<1>3. ReadInOrder(next) /\ ReadIsCurrent(next)'
  BY <1>2 DEF ReadInOrder, ReadIsCurrent
<1>4. Valid(next)' <=> Valid(t)
  BY <1>1, <1>2, GoOnFacts
<1>5. OperationMatchesPage(next)'
  BY <1>1, <1>2, <1>4 DEF OperationMatchesPage
<1> QED BY <1>2, <1>3, <1>5, GoOnStep

LEMMA CommitsKeep ==
    ASSUME WorkspaceInvariant, NEW t \in tasks,
           \/ CreateCommit(t) \/ AnalyzeCommit(t) \/ DecideCommit(t)
           \/ RetryPlanningCommit(t) \/ StartPlaybackCommit(t)
    PROVE  WorkspaceInvariant'
<1>1. /\ ServerTypes /\ ServerInOrder /\ HookTypes /\ RequestTypes /\ LoadsInOrder /\ PageHasCase
      /\ t \in Task /\ CarriesItsDecision(t)
  BY DEF WorkspaceInvariant, RequestTypes
<1>2. /\ \A c \in Cases : cases[c] \in CaseRecord
      /\ t.op \in DecisionOps => t.decision \in Decisions
      /\ t.op \in {"creating", "analyzing"} => t.case \in Cases
  BY <1>1 DEF ServerTypes, CarriesItsDecision, Task, MaybeDecision
<1>3. CASE CreateCommit(t)
  <2> DEFINE s == [cases[t.case] EXCEPT !.exists = TRUE]
             next == [t EXCEPT !.phase = "reply"]
  <2>1. t.op = "creating" /\ t.case \in Cases
    BY <1>2, <1>3 DEF CreateCommit
  <2>2. /\ s \in CaseRecord /\ s.analysis = cases[t.case].analysis
        /\ s.decided = cases[t.case].decided /\ s.stage = cases[t.case].stage
    BY <1>2, <2>1 DEF CaseRecord
  <2>3. cases' = [cases EXCEPT ![t.case] = s] /\ GoOn(t, next)
    BY <1>3 DEF CreateCommit
  <2>4. UNCHANGED <<mounted, active, version, emailVersion, shown, bookmark, loads, finals, inbox>>
    BY <1>3 DEF CreateCommit, GoOn
  <2>5. Answered(next, t)
    <3>1. 0 \in 0 .. MaxAnalyses /\ "none" \in Stages
      BY WorkspaceAssumption DEF Stages
    <3> QED BY <1>1, <3>1, AnswerFacts
  <2> HIDE DEF s, next
  <2>6. s.analysis = 0 => s.decided = 0
    BY <1>1, <2>1, <2>2 DEF ServerInOrder
  <2>7. Surroundings' /\ cases'[t.case] = s /\ \A b \in Cases \ {t.case} : cases'[b] = cases[b]
    BY <1>1, <2>1, <2>2, <2>3, <2>4, <2>6, WriteFacts DEF HookTypes, RequestTypes
  <2>8. \A c \in Cases : SameReading(c)
    BY <2>2, <2>7 DEF SameReading
  <2> QED BY <2>1, <2>3, <2>4, <2>5, <2>7, <2>8, CommitStep
<1>4. CASE AnalyzeCommit(t)
  <2> DEFINE n == cases'[t.case].analysis
             next == [t EXCEPT !.phase = "reply", !.analysis = n]
  <2>1. t.op = "analyzing" /\ t.case \in Cases
    BY <1>2, <1>4 DEF AnalyzeCommit
  <2>2. PICK s \in CaseRecord : /\ Analysed(t.case) = [cases EXCEPT ![t.case] = s]
                                /\ s.analysis # 0
    BY <1>1, <2>1, AnalysedFacts
  <2>3. /\ cases' = [cases EXCEPT ![t.case] = s]
        /\ UNCHANGED <<mounted, active, version, emailVersion, shown, bookmark, loads, finals,
                       inbox>>
        /\ tasks' = Touch(t.case, tasks \ {t}) \union {next}
    BY <1>4, <2>2 DEF AnalyzeCommit, refVars
  <2>4. n \in 0 .. MaxAnalyses
    BY <1>1, <2>1, <2>3 DEF ServerTypes, CaseRecord
  <2> HIDE DEF n
  <2>5. Answered(next, t)
    <3>1. "none" \in Stages
      BY DEF Stages
    <3> QED BY <1>1, <2>4, <3>1, AnswerFacts
  <2> HIDE DEF next
  <2> QED BY <2>1, <2>2, <2>3, <2>5, CommitTouches
<1>5. CASE DecideCommit(t)
  <2> DEFINE stage == IF t.op = "approve" THEN "pending" ELSE "rejected"
             old == Stage(t.decision)
             new == [t EXCEPT !.phase = "reply", !.stage = stage]
             again == [t EXCEPT !.phase = "reply", !.stage = old]
  <2>1. /\ t.op \in {"approve", "reject"} /\ t.op # "reopening" /\ t.decision \in Decisions
        /\ t.decision.case = t.case /\ t.case \in Cases
        /\ cases[t.case].analysis = t.decision.analysis /\ t.decision.analysis # 0
    BY <1>1, <1>2, <1>5 DEF DecideCommit, DecisionOps, CarriesItsDecision, Decisions, Analyses
  <2>2. stage \in Stages /\ old \in Stages
    BY <1>2, <2>1 DEF Stages, Stage, CaseRecord, Decisions
  <2>3. UNCHANGED <<mounted, active, version, emailVersion, shown, bookmark, loads, finals, inbox>>
    BY <1>5 DEF DecideCommit, refVars
  <2>4. \/ /\ cases' = Decided(t.decision, stage)
           /\ tasks' = Touch(t.case, tasks \ {t}) \union {new}
        \/ tasks' = (tasks \ {t}) \union {again} /\ UNCHANGED cases
    BY <1>5 DEF DecideCommit
  <2> HIDE DEF stage, old
  <2>5. Answered(new, t) /\ Answered(again, t)
    <3>1. 0 \in 0 .. MaxAnalyses
      BY WorkspaceAssumption
    <3> QED BY <1>1, <2>2, <3>1, AnswerFacts
  <2> HIDE DEF new, again
  <2>6. CASE cases' = Decided(t.decision, stage) /\ tasks' = Touch(t.case, tasks \ {t}) \union {new}
    <3>1. PICK s \in CaseRecord : /\ Decided(t.decision, stage) = [cases EXCEPT ![t.decision.case] = s]
                                  /\ s.analysis = cases[t.decision.case].analysis
      BY <1>1, <2>1, <2>2, DecidedFacts
    <3>2. cases' = [cases EXCEPT ![t.case] = s] /\ s.analysis # 0
      BY <2>1, <2>6, <3>1, Zenon
    <3> QED BY <2>1, <2>3, <2>5, <2>6, <3>2, CommitTouches
  <2>7. CASE tasks' = (tasks \ {t}) \union {again} /\ UNCHANGED cases
    <3>1. Surroundings'
      BY <1>1, <2>3, <2>7 DEF Surroundings, ServerTypes, HookTypes, LoadsInOrder, ServerInOrder,
                              PageHasCase, RequestTypes
    <3>2. GoOn(t, again)
      BY <2>3, <2>7 DEF GoOn
    <3> QED BY <2>1, <2>3, <2>5, <2>7, <3>1, <3>2, CommitStep, NothingRead
  <2> QED BY <2>4, <2>6, <2>7
<1>6. CASE RetryPlanningCommit(t)
  <2> DEFINE next == [t EXCEPT !.phase = "reply", !.stage = "pending"]
             plan == [cases[t.decision.case] EXCEPT !.stage[t.decision.analysis] = "pending"]
  <2>1. t.op = "retryPlanning" /\ t.decision \in Decisions /\ t.decision.case \in Cases
    BY <1>2, <1>6 DEF RetryPlanningCommit, DecisionOps, Decisions
  <2>2. "pending" \in Stages
    BY DEF Stages
  <2>3. /\ cases' = [cases EXCEPT ![t.decision.case].stage[t.decision.analysis] = "pending"]
        /\ tasks' = Touch(t.decision.case, tasks \ {t}) \union {next}
        /\ UNCHANGED <<mounted, active, version, emailVersion, shown, bookmark, loads, finals,
                       inbox>>
    BY <1>6 DEF RetryPlanningCommit, refVars
  <2>4. /\ cases' = [cases EXCEPT ![t.decision.case] = plan] /\ plan \in CaseRecord
        /\ plan.analysis = cases[t.decision.case].analysis
        /\ plan.decided = cases[t.decision.case].decided
    BY <1>1, <2>1, <2>2, <2>3, StagedFacts
  <2>5. Answered(next, t)
    <3>1. 0 \in 0 .. MaxAnalyses
      BY WorkspaceAssumption
    <3> QED BY <1>1, <2>2, <3>1, AnswerFacts
  <2> HIDE DEF next, plan
  <2>6. plan.analysis = 0 => plan.decided = 0
    BY <1>1, <2>1, <2>4 DEF ServerInOrder
  <2> QED BY <2>1, <2>3, <2>4, <2>5, <2>6, CommitTouches
<1>7. CASE StartPlaybackCommit(t)
  <2> DEFINE stage == cases'[t.decision.case].stage[t.decision.analysis]
             next == [t EXCEPT !.phase = "reply", !.stage = stage]
             plan == [cases[t.decision.case] EXCEPT !.stage[t.decision.analysis] = "playing"]
  <2>1. t.op = "playback" /\ t.decision \in Decisions /\ t.decision.case \in Cases
    BY <1>2, <1>7 DEF StartPlaybackCommit, DecisionOps, Decisions
  <2>2. "playing" \in Stages /\ "playing" \in Planned
    BY DEF Stages, Planned
  <2>3. /\ cases' = IF Stage(t.decision) = "planned"
                    THEN [cases EXCEPT ![t.decision.case].stage[t.decision.analysis] = "playing"]
                    ELSE cases
        /\ GoOn(t, next) /\ Stage(t.decision) \in Planned
    BY <1>7 DEF StartPlaybackCommit
  <2>9. UNCHANGED <<mounted, active, version, emailVersion, shown, bookmark, loads, finals, inbox>>
    BY <1>7 DEF StartPlaybackCommit, GoOn
  <2>4. /\ [cases EXCEPT ![t.decision.case].stage[t.decision.analysis] = "playing"]
              = [cases EXCEPT ![t.decision.case] = plan]
        /\ plan \in CaseRecord
        /\ plan.analysis = cases[t.decision.case].analysis
        /\ plan.decided = cases[t.decision.case].decided
        /\ \A a \in Analyses : plan.stage[a] = IF a = t.decision.analysis THEN "playing"
                                               ELSE cases[t.decision.case].stage[a]
    BY <1>1, <2>1, <2>2, StagedFacts
  <2> HIDE DEF plan
  <2>5. Surroundings' /\ \A c \in Cases : SameReading(c)
    <3>1. CASE Stage(t.decision) = "planned"
      <4>1. cases' = [cases EXCEPT ![t.decision.case] = plan]
        BY <2>3, <2>4, <3>1
      <4>2. plan.analysis = 0 => plan.decided = 0
        BY <1>1, <2>1, <2>4 DEF ServerInOrder
      <4>3. /\ Surroundings' /\ cases'[t.decision.case] = plan
            /\ \A b \in Cases \ {t.decision.case} : cases'[b] = cases[b]
        <5>1. /\ inbox' \in InboxStates
              /\ inbox'.phase # "ready" => inbox'.case \in Cases
              /\ finals' \subseteq FinalStates
          BY <1>1, <2>9 DEF HookTypes, RequestTypes
        <5>2. plan \in CaseRecord /\ t.decision.case \in Cases
          BY <2>1, <2>4
        <5> QED BY <2>9, <4>1, <4>2, <5>1, <5>2, WriteFacts
      <4>4. SameReading(t.decision.case)
        <5>1. \A a \in Analyses : (plan.stage[a] \in Planned)
                                  = (cases[t.decision.case].stage[a] \in Planned)
          BY <2>2, <2>3, <2>4 DEF Stage
        <5> QED BY <2>4, <4>3, <5>1 DEF SameReading
      <4> QED BY <4>3, <4>4 DEF SameReading
    <3>2. CASE Stage(t.decision) # "planned"
      <4>1. UNCHANGED cases
        BY <2>3, <3>2
      <4>2. Surroundings'
        BY <1>1, <2>9, <4>1 DEF Surroundings, ServerTypes, HookTypes, LoadsInOrder, ServerInOrder,
                                PageHasCase, RequestTypes
      <4> QED BY <4>1, <4>2, NothingRead
    <3> QED BY <3>1, <3>2
  <2>6. stage \in Stages
    BY <2>1, <2>5 DEF Surroundings, ServerTypes, CaseRecord, Decisions
  <2> HIDE DEF stage
  <2>7. Answered(next, t)
    <3>1. 0 \in 0 .. MaxAnalyses
      BY WorkspaceAssumption
    <3> QED BY <1>1, <2>6, <3>1, AnswerFacts
  <2> HIDE DEF next
  <2> QED BY <2>1, <2>3, <2>5, <2>7, <2>9, CommitStep
<1> QED BY <1>3, <1>4, <1>5, <1>6, <1>7
-----------------------------------------------------------------------------
(* Steps that leave the operations in flight alone *)

\* What holds of the page before any step.
LEMMA PageTypes ==
    ASSUME WorkspaceInvariant
    PROVE  /\ mounted \in BOOLEAN /\ version \in Nat /\ emailVersion \in Nat
           /\ bookmark \in MaybeCase /\ shown \in Page
           /\ inbox \in InboxStates /\ (inbox.phase # "ready" => inbox.case \in Cases)
           /\ finals \subseteq FinalStates
           /\ loads \subseteq [version : Nat, decision : Decisions]
           /\ \A l \in loads : l.version <= emailVersion
           /\ cases \in [Cases -> CaseRecord]
           /\ \A c \in Cases : cases[c].analysis = 0 => cases[c].decided = 0
           /\ shown.controls # {} \/ shown.analysis # 0 => shown.case \in Cases
           /\ \A t \in tasks : t \in Task /\ CarriesItsDecision(t) /\ ReadInOrder(t)
BY DEF WorkspaceInvariant, HookTypes, RequestTypes, LoadsInOrder, ServerTypes, ServerInOrder,
       PageHasCase

\* The surroundings of a step that writes nothing on the server.
LEMMA PageStep ==
    ASSUME WorkspaceInvariant, UNCHANGED cases,
           mounted' \in BOOLEAN, version' \in Nat, emailVersion' \in Nat,
           bookmark' \in MaybeCase, shown' \in Page,
           shown'.controls # {} \/ shown'.analysis # 0 => shown'.case \in Cases,
           inbox' \in InboxStates, inbox'.phase # "ready" => inbox'.case \in Cases,
           finals' \subseteq FinalStates,
           loads' \subseteq [version : Nat, decision : Decisions],
           \A l \in loads' : l.version <= emailVersion'
    PROVE  Surroundings'
BY DEF WorkspaceInvariant, Surroundings, HookTypes, RequestTypes, LoadsInOrder, ServerTypes,
       ServerInOrder, PageHasCase

LEMMA QuietWrites ==
    ASSUME WorkspaceInvariant, InboxCreated \/ \E d \in Decisions : PlaybackCompletes(d)
    PROVE  WorkspaceInvariant'
<1> USE PageTypes
<1>1. ASSUME NEW d \in Decisions, PlaybackCompletes(d)
      PROVE  WorkspaceInvariant'
  <2> DEFINE plan == [cases[d.case] EXCEPT !.stage[d.analysis] = "played"]
  <2>1. "played" \in Stages /\ d.case \in Cases /\ ServerTypes
    BY DEF Stages, Decisions, WorkspaceInvariant
  <2>2. /\ [cases EXCEPT ![d.case].stage[d.analysis] = "played"] = [cases EXCEPT ![d.case] = plan]
        /\ plan \in CaseRecord
        /\ plan.analysis = cases[d.case].analysis /\ plan.decided = cases[d.case].decided
        /\ \A a \in Analyses : plan.stage[a] = IF a = d.analysis THEN "played"
                                               ELSE cases[d.case].stage[a]
    BY <2>1, StagedFacts
  <2>3. /\ cases' = [cases EXCEPT ![d.case].stage[d.analysis] = "played"]
        /\ cases[d.case].stage[d.analysis] = "playing"
    BY <1>1 DEF PlaybackCompletes, Stage
  <2>9. UNCHANGED <<mounted, active, version, emailVersion, shown, bookmark, tasks, loads,
                    finals, inbox>>
    BY <1>1 DEF PlaybackCompletes, refVars
  <2> HIDE DEF plan
  <2>4. cases' = [cases EXCEPT ![d.case] = plan] /\ (plan.analysis = 0 => plan.decided = 0)
    BY <2>1, <2>2, <2>3
  <2>5. /\ inbox' \in InboxStates /\ (inbox'.phase # "ready" => inbox'.case \in Cases)
        /\ finals' \subseteq FinalStates
    BY <2>9
  <2>6. /\ Surroundings' /\ PageKept /\ cases'[d.case] = plan
        /\ \A b \in Cases \ {d.case} : cases'[b] = cases[b]
    <3>1. plan \in CaseRecord /\ d.case \in Cases
      BY <2>1, <2>2
    <3> QED BY <2>4, <2>5, <2>9, <3>1, WriteFacts
  <2>7. \A a \in Analyses : (plan.stage[a] \in Planned) = (cases[d.case].stage[a] \in Planned)
    BY <2>2, <2>3 DEF Planned
  <2>8. \A c \in Cases : SameReading(c)
    BY <2>2, <2>6, <2>7 DEF SameReading
  <2> QED BY <2>6, <2>8, <2>9, QuietStep
<1>2. CASE InboxCreated
  <2> DEFINE c == inbox.case
             s == [cases[c] EXCEPT !.exists = TRUE]
  <2>1. c \in Cases
    BY <1>2 DEF InboxCreated
  <2>2. /\ s \in CaseRecord /\ s.analysis = cases[c].analysis /\ s.decided = cases[c].decided
        /\ s.stage = cases[c].stage
    BY <2>1 DEF CaseRecord
  <2>3. /\ cases' = [cases EXCEPT ![c] = s]
        /\ UNCHANGED <<mounted, active, version, emailVersion, shown, bookmark, tasks, loads,
                       finals>>
        /\ inbox' = [inbox EXCEPT !.phase = IF cases[c].analysis = 0 THEN "analyze"
                                            ELSE "analyzed"]
    BY <1>2 DEF InboxCreated, refVars, serverVars
  <2>4. inbox' \in InboxStates /\ inbox'.case \in Cases
    BY <2>1, <2>3 DEF InboxStates
  <2> HIDE DEF s
  <2>5. /\ Surroundings' /\ PageKept /\ cases'[c] = s
        /\ \A b \in Cases \ {c} : cases'[b] = cases[b]
    BY <2>1, <2>2, <2>3, <2>4, WriteFacts
  <2>6. \A b \in Cases : SameReading(b)
    BY <2>2, <2>5 DEF SameReading
  <2> QED BY <2>3, <2>5, <2>6, QuietStep
<1> QED BY <1>1, <1>2

LEMMA PanelsKeep ==
    ASSUME WorkspaceInvariant, InboxFails \/ Finalize \/ \E c \in Cases : InboxCreate(c)
    PROVE  WorkspaceInvariant'
<1> USE PageTypes
<1>1. /\ UNCHANGED <<cases, mounted, active, version, emailVersion, shown, bookmark, tasks, loads>>
  BY DEF InboxCreate, InboxFails, Finalize, serverVars, refVars
<1>2. PageKept /\ \A b \in Cases : SameReading(b)
  BY <1>1, NothingRead DEF PageKept
<1>3. inbox' \in InboxStates /\ (inbox'.phase # "ready" => inbox'.case \in Cases)
  BY DEF InboxCreate, InboxFails, Finalize, InboxStates, MaybeCase
<1>4. finals' \subseteq FinalStates
  <2>1. CASE Finalize
    <3>1. shown.case \in Cases /\ shown.analysis \in Analyses
      BY <2>1, WorkspaceAssumption DEF Finalize, ApprovalPanelShown, Page, Analyses
    <3> QED BY <2>1, <3>1 DEF Finalize, FinalStates
  <2> QED BY <2>1 DEF InboxCreate, InboxFails
<1> QED BY <1>1, <1>2, <1>3, <1>4, PageStep, QuietStep

LEMMA FinalsKeep ==
    ASSUME WorkspaceInvariant, NEW f \in finals, FinalizeRefresh(f) \/ FinalizeEnds(f)
    PROVE  WorkspaceInvariant'
<1> USE PageTypes
<1>1. UNCHANGED <<cases, mounted, active, version, emailVersion, shown, bookmark, tasks, loads,
                  inbox>>
  BY DEF FinalizeRefresh, FinalizeEnds, serverVars, refVars
<1>2. PageKept /\ \A b \in Cases : SameReading(b)
  BY <1>1, NothingRead DEF PageKept
<1>3. [f EXCEPT !.phase = "receipt"] \in FinalStates
  BY DEF FinalStates
<1>4. finals' \subseteq FinalStates
  BY <1>3 DEF FinalizeRefresh, FinalizeEnds
<1> QED BY <1>1, <1>2, <1>4, PageStep, QuietStep

LEMMA EmailAnswerKeeps ==
    ASSUME WorkspaceInvariant, NEW l \in loads, EmailAnswer(l)
    PROVE  WorkspaceInvariant'
<1> USE PageTypes
<1>1. /\ UNCHANGED <<cases, mounted, active, version, emailVersion, bookmark, tasks, finals, inbox>>
      /\ loads' = loads \ {l}
      /\ shown' = [shown EXCEPT !.email = l.decision] \/ shown' = shown
  BY DEF EmailAnswer, serverVars, refVars
<1>2. /\ shown' \in Page /\ shown'.case = shown.case /\ shown'.decision = shown.decision
      /\ shown'.controls = shown.controls /\ shown'.analysis = shown.analysis
  BY <1>1 DEF Page, MaybeDecision
<1>3. PageKept /\ \A b \in Cases : SameReading(b)
  BY <1>1, <1>2, NothingRead DEF PageKept
<1> QED BY <1>1, <1>2, <1>3, PageStep, QuietStep

LEMMA UnmountKeeps ==
    ASSUME WorkspaceInvariant, Unmount
    PROVE  WorkspaceInvariant'
<1> USE PageTypes
<1>1. /\ UNCHANGED <<cases, shown, bookmark, tasks, loads, finals, inbox>>
      /\ mounted' = FALSE /\ active' = 0 /\ version' = version + 1
      /\ emailVersion' = emailVersion + 1
  BY DEF Unmount, serverVars
<1>2. Surroundings'
  <2>1. \A l \in loads : l.version \in Nat /\ l.version <= emailVersion
    OBVIOUS
  <2>2. \A l \in loads' : l.version <= emailVersion'
    BY <1>1, <2>1
  <2>3. mounted' \in BOOLEAN
    BY <1>1, Zenon
  <2>4. version' \in Nat /\ emailVersion' \in Nat
    BY <1>1
  <2> QED BY <1>1, <2>2, <2>3, <2>4, PageStep
<1>3. TokensInOrder' /\ RequestTypes'
  BY <1>1 DEF WorkspaceInvariant, TokensInOrder, RequestTypes, Task
<1>4. ASSUME NEW t \in tasks
      PROVE  ReadIsCurrent(t)' /\ OperationMatchesPage(t)'
  BY <1>1 DEF WorkspaceInvariant, ReadIsCurrent, CurrentDecision, Stage, OperationMatchesPage, Valid
<1> QED BY <1>1, <1>2, <1>3, <1>4 DEF WorkspaceInvariant, Surroundings, CarriesItsDecision,
                                      ReadInOrder
-----------------------------------------------------------------------------
(* Steps that begin an operation *)

LEMMA NewTaskFacts ==
    ASSUME WorkspaceInvariant, NEW op \in DecisionOps \union PlainOps \union {"reopening"},
           NEW phase \in Phases, NEW c \in MaybeCase, NEW d \in MaybeDecision
    PROVE  LET new == NewTask(op, phase, c, d)
           IN  /\ new \in Task /\ new.token = version + 1 /\ new.op = op /\ new.phase = phase
               /\ new.case = c /\ new.decision = d /\ new.stage = "none" /\ new.analysis = 0
               /\ new.polls = 0 /\ ~new.changed
<1>1. version + 1 \in Nat \ {0} /\ 0 \in 0 .. MaxAnalyses /\ "none" \in Stages
  BY PageTypes, WorkspaceAssumption DEF Stages
<1> QED BY <1>1 DEF NewTask, Task

\* A click begins an operation with its first request; the page stays.
LEMMA ClickBegins ==
    ASSUME WorkspaceInvariant, NEW op \in DecisionOps \union PlainOps,
           NEW phase \in {"get", "post"}, NEW c \in MaybeCase, NEW d \in MaybeDecision,
           Begin(op, phase, c, d),
           UNCHANGED <<cases, emailVersion, shown, bookmark, loads, finals, inbox>>,
           op \in DecisionOps => d # NoDecision, op \in PlainOps => d = NoDecision,
           op \in {"approve", "reject"} => d.case = c,
           op \in {"creating", "analyzing"} => c \in Cases,
           op \in {"email", "playback", "retryPlanning", "retryAction"} =>
              shown.decision # NoDecision,
           op \in {"analyzing", "reject"} => shown.case = c
    PROVE  WorkspaceInvariant'
<1>1. phase \in Phases /\ phase \notin {"poll", "execution"}
  BY DEF Phases
<1>2. PICK new \in Task : /\ new = NewTask(op, phase, c, d)
                          /\ new.token = version + 1 /\ new.op = op /\ new.phase = phase
                          /\ new.case = c /\ new.decision = d
  BY <1>1, NewTaskFacts
<1>3. /\ mounted /\ version' = version + 1 /\ active' = version + 1 /\ UNCHANGED mounted
      /\ tasks' = tasks \union {new}
  BY <1>2 DEF Begin, CanBegin
<1>4. Surroundings'
  <2>1. mounted' \in BOOLEAN
    BY <1>3, PageTypes, Zenon
  <2>2. version' \in Nat
    BY <1>3, PageTypes
  <2> QED BY <1>3, <2>1, <2>2, PageTypes, PageStep
<1>5. op # "reopening"
  BY DEF DecisionOps, PlainOps
<1>6. CarriesItsDecision(new) /\ ReadInOrder(new) /\ ReadIsCurrent(new)'
  BY <1>1, <1>2, <1>5 DEF CarriesItsDecision, ReadInOrder, ReadIsCurrent
<1>7. OperationMatchesPage(new)'
  BY <1>1, <1>2, <1>5 DEF OperationMatchesPage
<1>8. version' \in Nat /\ version' > version
  BY <1>3, PageTypes
<1> QED BY <1>2, <1>3, <1>4, <1>6, <1>7, <1>8, BeginStep

LEMMA ClicksKeep ==
    ASSUME WorkspaceInvariant,
           \/ ListCases \/ RetryAction \/ EmailAction \/ Analyze \/ RetryPlanning \/ StartPlayback
           \/ \E c \in Cases : Create(c)
           \/ \E kind \in {"approve", "reject"} : Decide(kind)
    PROVE  WorkspaceInvariant'
<1>1. /\ shown \in Page /\ shown.case \in MaybeCase /\ shown.decision \in MaybeDecision
      /\ shown.analysis \in 0 .. MaxAnalyses
      /\ shown.controls # {} \/ shown.analysis # 0 => shown.case \in Cases
      /\ NoDecision \in MaybeDecision /\ NoCase \in MaybeCase /\ Cases \subseteq MaybeCase
  BY PageTypes DEF Page, MaybeDecision, MaybeCase
<1>2. CASE ListCases
  <2>1. /\ Begin("listing", "get", NoCase, NoDecision)
        /\ UNCHANGED <<cases, emailVersion, shown, bookmark, loads, finals, inbox>>
    BY <1>2 DEF ListCases, serverVars
  <2> QED BY <1>1, <2>1, ClickBegins DEF PlainOps, DecisionOps
<1>3. CASE RetryAction
  <2>1. /\ Begin("retryAction", "post", shown.case, shown.decision)
        /\ shown.decision # NoDecision
        /\ UNCHANGED <<cases, emailVersion, shown, bookmark, loads, finals, inbox>>
    BY <1>3 DEF RetryAction, serverVars
  <2> QED BY <1>1, <2>1, ClickBegins DEF PlainOps, DecisionOps
<1>4. CASE EmailAction
  <2>1. /\ Begin("email", "post", shown.case, shown.decision)
        /\ shown.decision # NoDecision
        /\ UNCHANGED <<cases, emailVersion, shown, bookmark, loads, finals, inbox>>
    BY <1>4 DEF EmailAction, serverVars
  <2> QED BY <1>1, <2>1, ClickBegins DEF PlainOps, DecisionOps
<1>5. CASE Analyze
  <2>1. /\ Begin("analyzing", "post", shown.case, NoDecision)
        /\ shown.controls # {}
        /\ UNCHANGED <<cases, emailVersion, shown, bookmark, loads, finals, inbox>>
    BY <1>5 DEF Analyze, serverVars
  <2> QED BY <1>1, <2>1, ClickBegins DEF PlainOps, DecisionOps
<1>6. CASE RetryPlanning
  <2>1. /\ Begin("retryPlanning", "post", shown.case, shown.decision)
        /\ shown.decision # NoDecision
        /\ UNCHANGED <<cases, emailVersion, shown, bookmark, loads, finals, inbox>>
    BY <1>6 DEF RetryPlanning, serverVars
  <2> QED BY <1>1, <2>1, ClickBegins DEF PlainOps, DecisionOps
<1>7. CASE StartPlayback
  <2>1. /\ Begin("playback", "post", shown.case, shown.decision)
        /\ shown.decision # NoDecision
        /\ UNCHANGED <<cases, emailVersion, shown, bookmark, loads, finals, inbox>>
    BY <1>7 DEF StartPlayback, serverVars
  <2> QED BY <1>1, <2>1, ClickBegins DEF PlainOps, DecisionOps
<1>8. ASSUME NEW c \in Cases, Create(c)
      PROVE  WorkspaceInvariant'
  <2>1. /\ Begin("creating", "post", c, NoDecision)
        /\ UNCHANGED <<cases, emailVersion, shown, bookmark, loads, finals, inbox>>
    BY <1>8 DEF Create, serverVars
  <2> QED BY <1>1, <2>1, ClickBegins DEF PlainOps, DecisionOps
<1>9. ASSUME NEW kind \in {"approve", "reject"}, Decide(kind)
      PROVE  WorkspaceInvariant'
  <2> DEFINE d == Ref(shown.case, shown.analysis)
  <2>1. /\ Begin(kind, "post", shown.case, d)
        /\ shown.controls # {} /\ shown.analysis # 0
        /\ UNCHANGED <<cases, emailVersion, shown, bookmark, loads, finals, inbox>>
    BY <1>9 DEF Decide, serverVars
  <2>2. d \in Decisions /\ d.case = shown.case
    BY <1>1, <2>1, WorkspaceAssumption DEF Ref, Decisions, Analyses
  <2>3. d \in MaybeDecision /\ d # NoDecision
    BY <2>2, WorkspaceAssumption DEF MaybeDecision, Decisions, Analyses
  <2> HIDE DEF d
  <2>4. kind \in DecisionOps /\ kind \notin PlainOps
    BY DEF DecisionOps, PlainOps
  <2>5. kind \notin {"creating", "analyzing", "email", "playback", "retryPlanning", "retryAction"}
    OBVIOUS
  <2> QED BY <1>1, <2>1, <2>2, <2>3, <2>4, <2>5, ClickBegins
<1> QED BY <1>2, <1>3, <1>4, <1>5, <1>6, <1>7, <1>8, <1>9
\* A reopening begins with an empty page.
LEMMA ReopeningBegins ==
    ASSUME WorkspaceInvariant, NEW c \in Cases, mounted, version' = version + 1,
           active' = version + 1, UNCHANGED <<mounted, cases, bookmark, finals>>,
           NEW kept \in SUBSET tasks,
           tasks' = kept \union {NewTask("reopening", "case", c, NoDecision)},
           shown' = EmptyWorkspace, ClearEmail,
           inbox' \in InboxStates, inbox'.phase # "ready" => inbox'.case \in Cases
    PROVE  WorkspaceInvariant'
<1>1. "case" \in Phases /\ c \in MaybeCase /\ NoDecision \in MaybeDecision
  BY DEF Phases, ReopenPhases, MaybeCase, MaybeDecision
<1>2. PICK new \in Task : /\ new = NewTask("reopening", "case", c, NoDecision)
                          /\ new.token = version + 1 /\ new.op = "reopening"
                          /\ new.phase = "case" /\ new.case = c /\ new.decision = NoDecision
                          /\ new.stage = "none" /\ new.polls = 0 /\ ~new.changed
  BY <1>1, NewTaskFacts
<1>3. tasks' = kept \union {new}
  BY <1>2
<1>4. /\ EmptyWorkspace \in Page /\ EmptyWorkspace.controls = {} /\ EmptyWorkspace.analysis = 0
  BY <1>1, WorkspaceAssumption DEF EmptyWorkspace, Page, MaybeCase, Stages
<1>5. emailVersion' \in Nat /\ loads' = loads /\ \A l \in loads : l.version < emailVersion'
  <2>1. \A l \in loads : l.version \in Nat /\ l.version <= emailVersion /\ emailVersion \in Nat
    BY PageTypes
  <2>2. emailVersion' = emailVersion + 1 /\ loads' = loads
    BY DEF ClearEmail
  <2>3. emailVersion' \in Nat
    BY <2>2, PageTypes
  <2> QED BY <2>1, <2>2, <2>3
<1>6. Surroundings'
  <2>1. mounted' \in BOOLEAN
    BY PageTypes, Zenon
  <2>2. /\ version' \in Nat /\ bookmark' \in MaybeCase /\ finals' \subseteq FinalStates
        /\ loads' \subseteq [version : Nat, decision : Decisions]
    BY <1>5, PageTypes
  <2>3. \A l \in loads' : l.version <= emailVersion'
    BY <1>5, PageTypes
  <2> QED BY <1>4, <1>5, <2>1, <2>2, <2>3, PageStep
<1>7. CarriesItsDecision(new) /\ ReadInOrder(new) /\ ReadIsCurrent(new)'
  BY <1>2 DEF CarriesItsDecision, ReadInOrder, ReadIsCurrent, ReopenPhases, DecisionOps, PlainOps
<1>8. OperationMatchesPage(new)'
  <2>1. \A l \in loads' : l.version # emailVersion'
    BY <1>5, PageTypes
  <2> QED BY <1>2, <2>1 DEF OperationMatchesPage
<1>9. version' > version /\ version' \in Nat
  BY PageTypes
<1> QED BY <1>2, <1>3, <1>6, <1>7, <1>8, <1>9, BeginStep

LEMMA ReopensKeep ==
    ASSUME WorkspaceInvariant, InboxOpens \/ \E c \in Cases : Reopen(c)
    PROVE  WorkspaceInvariant'
<1>1. inbox \in InboxStates /\ (inbox.phase # "ready" => inbox.case \in Cases)
  BY PageTypes
<1>2. ASSUME NEW c \in Cases, Reopen(c)
      PROVE  WorkspaceInvariant'
  <2>1. /\ mounted /\ version' = version + 1 /\ active' = version + 1
        /\ UNCHANGED <<mounted, cases, bookmark, finals>>
        /\ tasks' = tasks \union {NewTask("reopening", "case", c, NoDecision)}
        /\ shown' = EmptyWorkspace /\ ClearEmail /\ inbox' = inbox
    BY <1>2 DEF Reopen, Begin, CanBegin, serverVars
  <2> QED BY <1>1, <2>1, ReopeningBegins
<1>3. CASE InboxOpens
  <2>1. UNCHANGED <<cases, mounted, bookmark, finals>> /\ inbox.phase = "analyzed" /\ mounted
    BY <1>3 DEF InboxOpens, serverVars
  <2>2. CASE CanBegin
    <3>1. /\ version' = version + 1 /\ active' = version + 1
          /\ tasks' = tasks \union {NewTask("reopening", "case", inbox.case, NoDecision)}
          /\ inbox' = [inbox EXCEPT !.phase = "open", !.token = version + 1]
          /\ shown' = EmptyWorkspace /\ ClearEmail
      BY <1>3, <2>2 DEF InboxOpens
    <3>2. version + 1 \in Nat
      BY PageTypes
    <3>3. inbox' \in InboxStates /\ inbox'.case \in Cases
      BY <1>1, <2>1, <3>1, <3>2 DEF InboxStates
    <3> QED BY <1>1, <2>1, <3>1, <3>3, ReopeningBegins
  <2>3. CASE ~CanBegin
    <3>1. /\ UNCHANGED <<version, active, tasks, shown, emailVersion, loads>>
          /\ inbox' = [inbox EXCEPT !.phase = "gone"]
      BY <1>3, <2>3 DEF InboxOpens
    <3>2. inbox' \in InboxStates /\ inbox'.case \in Cases
      BY <1>1, <2>1, <3>1 DEF InboxStates
    <3>3. PageKept /\ \A b \in Cases : SameReading(b)
      BY <2>1, <3>1, NothingRead DEF PageKept
    <3>4. Surroundings'
      BY <2>1, <3>1, <3>2, PageTypes, PageStep
    <3> QED BY <3>1, <3>3, <3>4, QuietStep
  <2> QED BY <2>2, <2>3
<1> QED BY <1>2, <1>3

LEMMA RemountKeeps ==
    ASSUME WorkspaceInvariant, Remount
    PROVE  WorkspaceInvariant'
<1> DEFINE begun == NewTask("initializing", "runtime", NoCase, NoDecision)
<1>1. /\ begun \in Task /\ begun.token = version + 1 /\ begun.op = "initializing"
      /\ begun.phase = "runtime" /\ begun.decision = NoDecision
  <2>1. /\ "initializing" \in PlainOps /\ "runtime" \in Phases
        /\ NoCase \in MaybeCase /\ NoDecision \in MaybeDecision
    BY DEF PlainOps, Phases, MaybeCase, MaybeDecision
  <2> QED BY <2>1, NewTaskFacts
<1>2. /\ tasks' = tasks \union {[begun EXCEPT !.token = version + 2]}
      /\ mounted /\ version' = version + 2 /\ active' = version + 2
      /\ emailVersion' = emailVersion + 1
      /\ UNCHANGED <<mounted, cases, shown, bookmark, loads, finals, inbox>>
  BY DEF Remount, serverVars
<1>3. version + 2 \in Nat \ {0} /\ version' \in Nat /\ version' > version /\ emailVersion' \in Nat
  BY <1>2, PageTypes
<1> HIDE DEF begun
<1>4. PICK new \in Task : /\ new = [begun EXCEPT !.token = version + 2]
                          /\ new.token = version + 2 /\ new.op = "initializing"
                          /\ new.phase = "runtime" /\ new.decision = NoDecision
  <2> DEFINE renewed == [begun EXCEPT !.token = version + 2]
  <2>1. /\ renewed \in Task /\ renewed.token = version + 2 /\ renewed.op = "initializing"
        /\ renewed.phase = "runtime" /\ renewed.decision = NoDecision
    BY <1>1, <1>3 DEF Task
  <2> HIDE DEF renewed
  <2>2. \E new \in Task : /\ new = renewed
                          /\ new.token = version + 2 /\ new.op = "initializing"
                          /\ new.phase = "runtime" /\ new.decision = NoDecision
    BY <2>1
  <2> QED BY <2>2 DEF renewed
<1>5. tasks' = tasks \union {new}
  BY <1>2, <1>4
<1>6. Surroundings'
  <2>1. mounted' \in BOOLEAN
    BY <1>2, PageTypes, Zenon
  <2>2. \A l \in loads : l.version \in Nat /\ l.version <= emailVersion /\ emailVersion \in Nat
    BY PageTypes
  <2>3. \A l \in loads' : l.version <= emailVersion'
    BY <1>2, <2>2
  <2> QED BY <1>2, <1>3, <2>1, <2>3, PageTypes, PageStep
<1>7. /\ CarriesItsDecision(new) /\ ReadInOrder(new) /\ ReadIsCurrent(new)'
      /\ OperationMatchesPage(new)'
  BY <1>4 DEF CarriesItsDecision, ReadInOrder, ReadIsCurrent, OperationMatchesPage, DecisionOps
<1> QED BY <1>2, <1>3, <1>4, <1>5, <1>6, <1>7, BeginStep

LEMMA AcceptKeeps ==
    ASSUME WorkspaceInvariant, NEW f \in finals, AcceptFinalDecision(f)
    PROVE  WorkspaceInvariant'
<1> DEFINE d == Ref(f.case, f.analysis)
<1>1. f.case \in Cases /\ d \in Decisions /\ d \in MaybeDecision /\ d # NoDecision
  <2>1. f.case \in Cases /\ f.analysis \in Analyses
    BY PageTypes DEF FinalStates
  <2>2. d \in Decisions
    BY <2>1 DEF Ref, Decisions
  <2> QED BY <2>1, <2>2, WorkspaceAssumption DEF MaybeDecision, Decisions, Analyses
<1>2. /\ mounted /\ finals' = finals \ {f}
      /\ shown' = [shown EXCEPT !.decision = d, !.stage = "pending"]
      /\ UNCHANGED <<cases, mounted, emailVersion, bookmark, loads, inbox>>
  BY DEF AcceptFinalDecision, serverVars
<1> HIDE DEF d
<1>3. /\ shown' \in Page /\ shown'.decision = d /\ shown'.case = shown.case
      /\ shown'.controls = shown.controls /\ shown'.analysis = shown.analysis
  BY <1>1, <1>2, PageTypes DEF Page, Stages
<1>4. ASSUME version' \in Nat
      PROVE  Surroundings'
  <2>1. mounted' \in BOOLEAN
    BY <1>2, PageTypes, Zenon
  <2> QED BY <1>2, <1>3, <1>4, <2>1, PageTypes, PageStep
<1>5. CASE CanBegin
  <2> DEFINE begun == NewTask("planning", "poll", f.case, d)
  <2>1. /\ begun \in Task /\ begun.token = version + 1 /\ begun.op = "planning"
        /\ begun.phase = "poll" /\ begun.decision = d
    <3>1. "planning" \in DecisionOps /\ "poll" \in Phases /\ f.case \in MaybeCase
      BY <1>1 DEF DecisionOps, Phases, MaybeCase
    <3> QED BY <1>1, <3>1, NewTaskFacts
  <2>2. /\ tasks' = tasks \union {[begun EXCEPT !.stage = "pending"]}
        /\ version' = version + 1 /\ active' = version + 1
    BY <1>5 DEF AcceptFinalDecision, d
  <2> HIDE DEF begun
  <2>3. PICK new \in Task : /\ new = [begun EXCEPT !.stage = "pending"]
                            /\ new.token = version + 1 /\ new.op = "planning"
                            /\ new.phase = "poll" /\ new.decision = d
    <3> DEFINE polling == [begun EXCEPT !.stage = "pending"]
    <3>1. /\ polling \in Task /\ polling.token = version + 1 /\ polling.op = "planning"
          /\ polling.phase = "poll" /\ polling.decision = d
      BY <2>1 DEF Task, Stages
    <3> HIDE DEF polling
    <3>2. \E new \in Task : /\ new = polling
                            /\ new.token = version + 1 /\ new.op = "planning"
                            /\ new.phase = "poll" /\ new.decision = d
      BY <3>1
    <3> QED BY <3>2 DEF polling
  <2>4. tasks' = tasks \union {new} /\ version' \in Nat /\ version' > version
    BY <2>2, <2>3, PageTypes
  <2>5. Surroundings'
    BY <1>4, <2>4
  <2>6. /\ CarriesItsDecision(new) /\ ReadInOrder(new) /\ ReadIsCurrent(new)'
        /\ OperationMatchesPage(new)'
    BY <1>1, <2>3 DEF CarriesItsDecision, ReadInOrder, ReadIsCurrent, OperationMatchesPage,
                      PollingOps, PlainOps
  <2> QED BY <1>2, <2>2, <2>3, <2>4, <2>5, <2>6, BeginStep
<1>6. CASE ~CanBegin
  <2>1. UNCHANGED <<version, active, tasks>>
    BY <1>6 DEF AcceptFinalDecision
  <2>2. PageKept /\ \A b \in Cases : SameReading(b)
    BY <1>1, <1>2, <1>3, <2>1, NothingRead DEF PageKept
  <2>3. Surroundings'
    BY <1>4, <2>1, PageTypes
  <2> QED BY <2>1, <2>2, <2>3, QuietStep
<1> QED BY <1>5, <1>6
-----------------------------------------------------------------------------
(* Steps that end an operation *)

\* The page as an operation leaves it that ends.
LEMMA EndsKeep ==
    ASSUME WorkspaceInvariant, NEW t \in tasks, Finish(t),
           UNCHANGED <<mounted, version, cases, finals>>,
           Valid(t) \/ (mounted /\ t.token = version) \/ UNCHANGED <<shown, emailVersion, loads>>,
           emailVersion' \in Nat, bookmark' \in MaybeCase, shown' \in Page,
           shown'.controls # {} \/ shown'.analysis # 0 => shown'.case \in Cases,
           inbox' \in InboxStates, inbox'.phase # "ready" => inbox'.case \in Cases,
           loads' \subseteq [version : Nat, decision : Decisions],
           \A l \in loads' : l.version <= emailVersion'
    PROVE  WorkspaceInvariant'
<1>1. mounted' \in BOOLEAN
  BY PageTypes, Zenon
<1>2. version' \in Nat /\ finals' \subseteq FinalStates
  BY PageTypes
<1>3. Surroundings'
  BY <1>1, <1>2, PageStep
<1> QED BY <1>3, FinishStep

\* Nothing of the page changes with it.
LEMMA EndsQuietly ==
    ASSUME WorkspaceInvariant, NEW t \in tasks, Finish(t),
           UNCHANGED <<mounted, version, cases, finals, shown, emailVersion, loads, bookmark>>,
           \/ inbox' = inbox
           \/ inbox.phase # "ready" /\ inbox' = [inbox EXCEPT !.phase = "gone"]
    PROVE  WorkspaceInvariant'
<1>1. inbox' \in InboxStates /\ (inbox'.phase # "ready" => inbox'.case \in Cases)
  BY PageTypes DEF InboxStates
<1>2. \A l \in loads' : l.version <= emailVersion'
  BY PageTypes
<1> QED BY <1>1, <1>2, PageTypes, EndsKeep

\* An operation's supplier e-mail read, and the clearing of the one before.
LEMMA LoadFacts ==
    ASSUME WorkspaceInvariant, NEW d, (LoadEmail(d) /\ d \in Decisions) \/ ClearEmail
    PROVE  /\ emailVersion' \in Nat /\ loads' \subseteq [version : Nat, decision : Decisions]
           /\ \A l \in loads' : l.version <= emailVersion'
           /\ \A l \in loads' : l.version = emailVersion' => l.decision = d
           /\ (ClearEmail => \A l \in loads' : l.version # emailVersion')
<1>1. \A l \in loads : /\ l \in [version : Nat, decision : Decisions] /\ l.version \in Nat
                       /\ l.version <= emailVersion
  BY PageTypes
<1>2. emailVersion \in Nat /\ emailVersion' = emailVersion + 1
  BY PageTypes DEF LoadEmail, ClearEmail
<1>3. \A l \in loads : l.version < emailVersion'
  BY <1>1, <1>2
<1>4. CASE ClearEmail
  BY <1>1, <1>2, <1>3, <1>4 DEF ClearEmail
<1>5. CASE LoadEmail(d) /\ d \in Decisions /\ ~ClearEmail
  <2> DEFINE new == [version |-> emailVersion + 1, decision |-> d]
  <2>1. new \in [version : Nat, decision : Decisions] /\ new.version = emailVersion' /\ new.decision = d
    BY <1>2, <1>5
  <2>2. loads' = loads \union {new}
    BY <1>5 DEF LoadEmail
  <2> HIDE DEF new
  <2> QED BY <1>1, <1>2, <1>3, <1>5, <2>1, <2>2
<1> QED BY <1>4, <1>5

LEMMA EmptyPage ==
    /\ EmptyWorkspace \in Page /\ EmptyWorkspace.controls = {} /\ EmptyWorkspace.analysis = 0
BY WorkspaceAssumption DEF EmptyWorkspace, Page, MaybeCase, MaybeDecision, Stages

LEMMA FailKeeps ==
    ASSUME WorkspaceInvariant, NEW t \in tasks, Fail(t)
    PROVE  WorkspaceInvariant'
<1>1. /\ Finish(t) /\ UNCHANGED <<mounted, version, cases, finals, bookmark>>
      /\ \/ inbox' = inbox
         \/ inbox.phase # "ready" /\ inbox' = [inbox EXCEPT !.phase = "gone"]
  BY DEF Fail, serverVars
<1>2. CASE t.op = "reopening" /\ mounted /\ t.token = version
  <2>1. shown' = EmptyWorkspace /\ ClearEmail
    BY <1>2 DEF Fail
  <2>2. /\ emailVersion' \in Nat /\ loads' \subseteq [version : Nat, decision : Decisions]
        /\ \A l \in loads' : l.version <= emailVersion'
    BY <2>1, LoadFacts
  <2>3. /\ inbox' \in InboxStates /\ (inbox'.phase # "ready" => inbox'.case \in Cases)
        /\ bookmark' \in MaybeCase
    BY <1>1, PageTypes DEF InboxStates
  <2> QED BY <1>1, <1>2, <2>1, <2>2, <2>3, EmptyPage, EndsKeep
<1>3. CASE ~(t.op = "reopening" /\ mounted /\ t.token = version)
  BY <1>1, <1>3, EndsQuietly DEF Fail
<1> QED BY <1>2, <1>3

LEMMA PlainEnds ==
    ASSUME WorkspaceInvariant, NEW t \in tasks, PlainAnswer(t) \/ EmailActionAnswer(t)
    PROVE  WorkspaceInvariant'
<1>1. CASE PlainAnswer(t)
  BY <1>1, EndsQuietly DEF PlainAnswer, serverVars
<1>2. CASE EmailActionAnswer(t)
  <2>1. /\ Finish(t) /\ t.op = "email"
        /\ UNCHANGED <<mounted, version, cases, finals, emailVersion, bookmark, loads, inbox>>
    BY <1>2 DEF EmailActionAnswer, serverVars
  <2>2. CASE Valid(t)
    <3>1. t.decision \in MaybeDecision
      BY PageTypes DEF Task
    <3>2. shown' = [shown EXCEPT !.email = t.decision]
      BY <1>2, <2>2 DEF EmailActionAnswer
    <3>3. /\ shown' \in Page /\ shown'.controls = shown.controls
          /\ shown'.analysis = shown.analysis /\ shown'.case = shown.case
      BY <3>1, <3>2, PageTypes DEF Page
    <3> QED BY <2>1, <2>2, <3>3, PageTypes, EndsKeep
  <2>3. CASE ~Valid(t)
    BY <1>2, <2>1, <2>3, EndsQuietly DEF EmailActionAnswer
  <2> QED BY <2>2, <2>3
<1> QED BY <1>1, <1>2

\* A created case and a new analysis replace the page.
LEMMA RepliesEnd ==
    ASSUME WorkspaceInvariant, NEW t \in tasks, CreateReply(t) \/ AnalyzeReply(t)
    PROVE  WorkspaceInvariant'
<1>1. /\ Finish(t) /\ UNCHANGED <<mounted, version, cases, finals, inbox>>
      /\ t \in Task /\ t.op \in {"creating", "analyzing"}
  BY PageTypes DEF CreateReply, AnalyzeReply, serverVars
<1>2. CASE ~Valid(t)
  <2>1. UNCHANGED <<shown, bookmark, emailVersion, loads>>
    BY <1>2 DEF CreateReply, AnalyzeReply
  <2> QED BY <1>1, <2>1, EndsQuietly
<1>3. CASE Valid(t)
  <2>1. t.case \in Cases /\ t.analysis \in 0 .. MaxAnalyses
    BY <1>1, PageTypes DEF CarriesItsDecision, Task
  <2>2. bookmark' = t.case /\ ClearEmail
    BY <1>3 DEF CreateReply, AnalyzeReply
  <2>3. bookmark' \in MaybeCase
    BY <2>1, <2>2 DEF MaybeCase
  <2>4. /\ emailVersion' \in Nat /\ loads' \subseteq [version : Nat, decision : Decisions]
        /\ \A l \in loads' : l.version <= emailVersion'
    BY <2>2, LoadFacts
  <2>5. CASE CreateReply(t)
    <3>1. shown' = [EmptyWorkspace EXCEPT !.case = t.case, !.controls = {"new_analysis"}]
      BY <1>3, <2>5 DEF CreateReply
    <3>2. shown' \in Page /\ shown'.case = t.case
      BY <2>1, <3>1, EmptyPage DEF Page, MaybeCase
    <3> QED BY <1>1, <1>3, <2>1, <2>3, <2>4, <3>2, PageTypes, EndsKeep
  <2>6. CASE AnalyzeReply(t)
    <3>1. shown' = [EmptyWorkspace EXCEPT !.case = shown.case, !.analysis = t.analysis,
                                          !.controls = {"decide"}]
          /\ t.op = "analyzing"
      BY <1>3, <2>6 DEF AnalyzeReply
    <3>2. shown.case = t.case
      BY <1>3, <3>1 DEF WorkspaceInvariant, OperationMatchesPage
    <3>3. shown' \in Page /\ shown'.case = t.case
      BY <2>1, <3>1, <3>2, EmptyPage DEF Page, MaybeCase
    <3> QED BY <1>1, <1>3, <2>1, <2>3, <2>4, <3>3, PageTypes, EndsKeep
  <2> QED BY <2>5, <2>6, <1>1 DEF CreateReply, AnalyzeReply
<1> QED BY <1>2, <1>3

LEMMA ConfirmKeeps ==
    ASSUME WorkspaceInvariant, NEW t \in tasks, ReopenConfirm(t)
    PROVE  WorkspaceInvariant'
<1>1. /\ Finish(t) /\ UNCHANGED <<mounted, version, cases, finals>>
      /\ t.op = "reopening" /\ t.phase = "confirm"
      /\ \/ inbox' = inbox
         \/ inbox.phase # "ready" /\ inbox' = [inbox EXCEPT !.phase = "gone"]
  BY DEF ReopenConfirm, serverVars
<1>2. CASE ~(mounted /\ t.token = version)
  <2>1. UNCHANGED <<shown, bookmark, emailVersion, loads>>
    BY <1>2 DEF ReopenConfirm
  <2> QED BY <1>1, <2>1, EndsQuietly
<1>3. CASE mounted /\ t.token = version
  <2>1. t \in Task /\ CarriesItsDecision(t) /\ ReadInOrder(t)
    BY PageTypes
  <2>2. t.case \in Cases /\ t.case \in MaybeCase
    BY <1>1, <2>1 DEF CarriesItsDecision, MaybeCase
  <2>3. shown' = Reopened(t) /\ bookmark' = t.case
    BY <1>3 DEF ReopenConfirm
  <2>4. Reopened(t) \in Page /\ Reopened(t).case = t.case
    <3>1. ControlsOf(t.case) \subseteq {"new_analysis", "decide", "retry_action_planning",
                                        "start_playback"}
      BY DEF ControlsOf
    <3>2. t.analysis \in 0 .. MaxAnalyses /\ t.decision \in MaybeDecision /\ t.stage \in Stages
          /\ NoDecision \in MaybeDecision
      BY <2>1 DEF Task, MaybeDecision
    <3> DEFINE actions == IF t.stage \in Planned THEN t.decision ELSE NoDecision
               playback == IF t.polls = 1 THEN t.decision ELSE NoDecision
    <3>3. actions \in MaybeDecision /\ playback \in MaybeDecision
      BY <3>2
    <3> HIDE DEF actions, playback
    <3>4. Reopened(t) = [case |-> t.case, analysis |-> t.analysis, decision |-> t.decision,
                         stage |-> t.stage, actions |-> actions, playback |-> playback,
                         email |-> NoDecision, controls |-> ControlsOf(t.case)]
      BY DEF Reopened, actions, playback
    <3> QED BY <2>2, <3>1, <3>2, <3>3, <3>4 DEF Page
  <2>5. /\ emailVersion' \in Nat /\ loads' \subseteq [version : Nat, decision : Decisions]
        /\ \A l \in loads' : l.version <= emailVersion'
    <3>1. CASE t.stage \in Planned
      <4>1. t.decision # NoDecision
        BY <1>1, <2>1, <3>1 DEF ReadInOrder, Planned
      <4>2. t.decision \in Decisions
        BY <2>1, <4>1 DEF Task, MaybeDecision
      <4>3. LoadEmail(t.decision)
        BY <1>3, <3>1 DEF ReopenConfirm
      <4> QED BY <4>2, <4>3, LoadFacts
    <3>2. CASE t.stage \notin Planned
      <4>1. UNCHANGED <<emailVersion, loads>>
        BY <1>3, <3>2 DEF ReopenConfirm
      <4> QED BY <4>1, PageTypes
    <3> QED BY <3>1, <3>2
  <2>6. /\ inbox' \in InboxStates /\ (inbox'.phase # "ready" => inbox'.case \in Cases)
    BY <1>1, PageTypes DEF InboxStates
  <2> QED BY <1>1, <1>3, <2>2, <2>3, <2>4, <2>5, <2>6, EndsKeep
<1> QED BY <1>2, <1>3

LEMMA RuntimeAnswerKeeps ==
    ASSUME WorkspaceInvariant, NEW t \in tasks, RuntimeAnswer(t)
    PROVE  WorkspaceInvariant'
<1>1. UNCHANGED <<cases, mounted, bookmark, finals, inbox>>
  BY DEF RuntimeAnswer, serverVars
<1>2. CASE Valid(t) /\ bookmark # NoCase /\ version < MaxOperations
  <2>1. /\ version' = version + 1 /\ active' = version + 1 /\ shown' = EmptyWorkspace /\ ClearEmail
        /\ tasks' = (tasks \ {t}) \union {NewTask("reopening", "case", bookmark, NoDecision)}
    BY <1>2 DEF RuntimeAnswer
  <2>2. mounted /\ bookmark \in Cases
    BY <1>2, PageTypes DEF Valid, MaybeCase
  <2>3. tasks \ {t} \in SUBSET tasks
    OBVIOUS
  <2> QED BY <1>1, <2>1, <2>2, <2>3, PageTypes, ReopeningBegins
<1>3. CASE ~(Valid(t) /\ bookmark # NoCase /\ version < MaxOperations)
  <2>1. Finish(t) /\ UNCHANGED <<version, shown, emailVersion, loads>>
    BY <1>3 DEF RuntimeAnswer
  <2> QED BY <1>1, <2>1, EndsQuietly
<1> QED BY <1>2, <1>3
-----------------------------------------------------------------------------
(* Steps of an operation that goes on *)

\* A reopening goes on with its next read.
LEMMA ReadsOn ==
    ASSUME WorkspaceInvariant, NEW t \in tasks, t.op = "reopening",
           NEW next \in Task, next.token = t.token, next.op = "reopening", next.case = t.case,
           GoOn(t, next), ReadInOrder(next), ReadIsCurrent(next),
           UNCHANGED <<cases, mounted, version, emailVersion, shown, bookmark, loads, finals, inbox>>
    PROVE  WorkspaceInvariant'
<1>1. /\ CarriesItsDecision(t) /\ OperationMatchesPage(t) /\ TokensInOrder
  BY DEF WorkspaceInvariant
<1>2. CarriesItsDecision(next)
  BY <1>1 DEF CarriesItsDecision, ReadInOrder, ReopenPhases, DecisionOps, PlainOps
<1>3. ReadIsCurrent(next)'
  BY DEF ReadIsCurrent, CurrentDecision, Stage
<1>4. Valid(next)' <=> Valid(t)
  BY <1>1, GoOnFacts
<1>5. OperationMatchesPage(next)'
  BY <1>1, <1>4 DEF OperationMatchesPage, ReadInOrder, ReopenPhases
<1>6. Surroundings'
  <2>1. mounted' \in BOOLEAN
    BY PageTypes, Zenon
  <2> QED BY <2>1, PageTypes, PageStep
<1> QED BY <1>2, <1>3, <1>5, <1>6, GoOnStep, NothingRead

LEMMA ReopenReadsKeep ==
    ASSUME WorkspaceInvariant, NEW t \in tasks,
           ReopenCase(t) \/ ReopenAnalysis(t) \/ ReopenDecision(t) \/ ReopenRelated(t)
    PROVE  WorkspaceInvariant'
<1>1. /\ t \in Task /\ CarriesItsDecision(t) /\ ReadInOrder(t) /\ t.op = "reopening"
      /\ ReadIsCurrent(t) /\ t.case \in Cases
  BY PageTypes DEF ReopenCase, ReopenAnalysis, ReopenDecision, ReopenRelated, WorkspaceInvariant,
                   CarriesItsDecision
<1>2. UNCHANGED <<cases, mounted, version, emailVersion, shown, bookmark, loads, finals, inbox>>
  BY DEF ReopenCase, ReopenAnalysis, ReopenDecision, ReopenRelated, serverVars
<1>3. ReopenPhases \subseteq Phases /\ NoDecision \in MaybeDecision
  BY DEF Phases, MaybeDecision
<1>4. cases[t.case] \in CaseRecord
  BY <1>1, PageTypes
<1>5. CASE ReopenCase(t)
  <2> DEFINE phase == IF cases[t.case].analysis = 0 THEN "confirm" ELSE "analysis"
             a == cases[t.case].analysis
             d == CurrentDecision(t.case)
             next == [t EXCEPT !.phase = phase, !.analysis = a, !.decision = d, !.changed = FALSE]
  <2>1. /\ phase \in {"confirm", "analysis"} /\ phase \in Phases
        /\ a \in 0 .. MaxAnalyses /\ a = cases[t.case].analysis
        /\ phase = "confirm" <=> a = 0
    BY <1>3, <1>4 DEF CaseRecord, ReopenPhases
  <2>2. /\ d \in MaybeDecision /\ d = CurrentDecision(t.case)
        /\ d # NoDecision => d.case = t.case
        /\ a = 0 => d = NoDecision
    <3>1. cases[t.case].decided # 0 => Ref(t.case, cases[t.case].decided) \in Decisions
      BY <1>1, <1>4 DEF Ref, Decisions, CaseRecord, Analyses
    <3>2. cases[t.case].analysis = 0 => cases[t.case].decided = 0
      BY <1>1, PageTypes
    <3> QED BY <3>1, <3>2 DEF CurrentDecision, MaybeDecision, Ref
  <2>3. GoOn(t, next) /\ t.phase = "case"
    BY <1>5 DEF ReopenCase
  <2> HIDE DEF phase, a, d
  <2>4. /\ next \in Task /\ next.token = t.token /\ next.op = "reopening" /\ next.case = t.case
        /\ next.phase = phase /\ next.analysis = a /\ next.decision = d /\ next.changed = FALSE
        /\ next.stage = t.stage /\ next.polls = t.polls
    BY <1>1, <2>1, <2>2 DEF Task
  <2> HIDE DEF next
  <2>5. ReadInOrder(next)
    BY <1>1, <2>1, <2>2, <2>3, <2>4 DEF ReadInOrder, ReopenPhases
  <2>6. ReadIsCurrent(next)
    <3>1. cases[t.case].analysis = 0 => cases[t.case].decided = 0
      BY <1>1, PageTypes
    <3> QED BY <2>1, <2>2, <2>4, <3>1 DEF ReadIsCurrent, CurrentDecision
  <2> QED BY <1>1, <1>2, <2>3, <2>4, <2>5, <2>6, ReadsOn
<1>6. CASE ReopenAnalysis(t)
  <2> DEFINE phase == IF t.decision = NoDecision THEN "confirm" ELSE "decision"
             next == [t EXCEPT !.phase = phase]
  <2>1. /\ phase \in {"confirm", "decision"} /\ phase \in Phases
        /\ phase = "confirm" <=> t.decision = NoDecision
    BY <1>3 DEF ReopenPhases
  <2>2. GoOn(t, next) /\ t.phase = "analysis"
    BY <1>6 DEF ReopenAnalysis
  <2> HIDE DEF phase
  <2>3. /\ next \in Task /\ next.token = t.token /\ next.op = "reopening" /\ next.case = t.case
        /\ next.phase = phase /\ next.analysis = t.analysis /\ next.decision = t.decision
        /\ next.changed = t.changed /\ next.stage = t.stage /\ next.polls = t.polls
    BY <1>1, <2>1 DEF Task
  <2> HIDE DEF next
  <2>4. ReadInOrder(next)
    BY <1>1, <2>1, <2>2, <2>3 DEF ReadInOrder, ReopenPhases
  <2>5. ReadIsCurrent(next)
    <3>1. CurrentDecision(t.case) = NoDecision => cases[t.case].decided = 0
      <4>1. cases[t.case].decided # 0 => Ref(t.case, cases[t.case].decided) # NoDecision
        BY <1>1, <1>4, WorkspaceAssumption DEF Ref, CaseRecord, Analyses
      <4> QED BY <4>1 DEF CurrentDecision
    <3> QED BY <1>1, <2>1, <2>2, <2>3, <3>1 DEF ReadIsCurrent
  <2> QED BY <1>1, <1>2, <2>2, <2>3, <2>4, <2>5, ReadsOn
<1>7. CASE ReopenDecision(t)
  <2>1. t.phase = "decision" /\ t.decision \in Decisions /\ t.decision.case = t.case
    BY <1>1, <1>7 DEF ReopenDecision, ReadInOrder, Task, MaybeDecision
  <2>2. ~t.changed => /\ t.analysis = cases[t.case].analysis
                      /\ t.decision = CurrentDecision(t.case)
    BY <1>1, <2>1 DEF ReadIsCurrent
  <2>3. ~t.changed => t.decision.analysis = cases[t.case].decided /\ cases[t.case].decided # 0
    <3>1. t.decision # NoDecision
      BY <2>1, WorkspaceAssumption DEF Decisions, Analyses
    <3> QED BY <2>2, <3>1 DEF CurrentDecision, Ref
  <2>4. CASE t.decision.analysis # t.analysis
    <3> DEFINE next == [t EXCEPT !.phase = "confirm", !.decision = NoDecision]
    <3>1. GoOn(t, next)
      BY <1>7, <2>4 DEF ReopenDecision
    <3>2. /\ next \in Task /\ next.token = t.token /\ next.op = "reopening" /\ next.case = t.case
          /\ next.phase = "confirm" /\ next.analysis = t.analysis /\ next.decision = NoDecision
          /\ next.changed = t.changed /\ next.stage = t.stage /\ next.polls = t.polls
      BY <1>1, <1>3 DEF Task, ReopenPhases
    <3> HIDE DEF next
    <3>3. ReadInOrder(next)
      BY <1>1, <2>1, <3>2 DEF ReadInOrder, ReopenPhases
    <3>4. ReadIsCurrent(next)
      BY <2>2, <2>3, <2>4, <3>2 DEF ReadIsCurrent
    <3> QED BY <1>1, <1>2, <3>1, <3>2, <3>3, <3>4, ReadsOn
  <2>5. CASE t.decision.analysis = t.analysis
    <3> DEFINE stage == Stage(t.decision)
               next == [t EXCEPT !.phase = "related", !.stage = stage]
    <3>1. GoOn(t, next)
      BY <1>7, <2>5 DEF ReopenDecision
    <3>2. stage \in Stages
      BY <1>4, <2>1 DEF Stage, CaseRecord, Decisions
    <3> HIDE DEF stage
    <3>3. /\ next \in Task /\ next.token = t.token /\ next.op = "reopening" /\ next.case = t.case
          /\ next.phase = "related" /\ next.analysis = t.analysis /\ next.decision = t.decision
          /\ next.changed = t.changed /\ next.stage = stage /\ next.polls = t.polls
      BY <1>1, <1>3, <3>2 DEF Task, ReopenPhases
    <3> HIDE DEF next
    <3>4. t.decision # NoDecision
      BY <2>1, WorkspaceAssumption DEF Decisions, Analyses
    <3>5. ReadInOrder(next)
      BY <1>1, <2>1, <2>5, <3>3, <3>4 DEF ReadInOrder, ReopenPhases
    <3>6. ReadIsCurrent(next)
      BY <2>2, <2>3, <2>5, <3>3 DEF ReadIsCurrent, stage
    <3> QED BY <1>1, <1>2, <3>1, <3>3, <3>5, <3>6, ReadsOn
  <2> QED BY <2>4, <2>5
<1>8. CASE ReopenRelated(t)
  <2> DEFINE polls == IF Stage(t.decision) \in {"playing", "played"} THEN 1 ELSE 0
             next == [t EXCEPT !.phase = "confirm", !.polls = polls]
  <2>1. GoOn(t, next) /\ t.phase = "related"
    BY <1>8 DEF ReopenRelated
  <2>2. polls \in Nat
    OBVIOUS
  <2> HIDE DEF polls
  <2>3. /\ next \in Task /\ next.token = t.token /\ next.op = "reopening" /\ next.case = t.case
        /\ next.phase = "confirm" /\ next.analysis = t.analysis /\ next.decision = t.decision
        /\ next.changed = t.changed /\ next.stage = t.stage
    BY <1>1, <1>3, <2>2 DEF Task, ReopenPhases
  <2> HIDE DEF next
  <2>4. ReadInOrder(next)
    BY <1>1, <2>1, <2>3 DEF ReadInOrder, ReopenPhases
  <2>5. ReadIsCurrent(next)
    BY <1>1, <2>1, <2>3 DEF ReadIsCurrent
  <2> QED BY <1>1, <1>2, <2>1, <2>3, <2>4, <2>5, ReadsOn
<1> QED BY <1>5, <1>6, <1>7, <1>8
\* An operation about a decision goes on, and may have changed the page.
LEMMA GoesOn ==
    ASSUME WorkspaceInvariant, NEW t \in tasks, t.op \in PollingOps,
           NEW next \in Task, next.token = t.token, next.op = t.op, next.case = t.case,
           next.decision = t.decision, next.phase \in {"poll", "execution"},
           next.phase = "execution" /\ Valid(t) => shown'.decision # NoDecision,
           t.op \in {"playback", "retryPlanning"} /\ Valid(t) => shown'.decision # NoDecision,
           GoOn(t, next), UNCHANGED <<cases, mounted, version, bookmark, finals, inbox>>,
           shown' \in Page, shown'.controls # {} \/ shown'.analysis # 0 => shown'.case \in Cases,
           Valid(t) \/ UNCHANGED <<shown, emailVersion, loads>>,
           ClearEmail \/ UNCHANGED <<emailVersion, loads>>
    PROVE  WorkspaceInvariant'
<1>1. CarriesItsDecision(t) /\ TokensInOrder
  BY DEF WorkspaceInvariant
<1>2. t.op \in DecisionOps /\ t.op # "reopening" /\ t.op \notin {"analyzing", "reject"}
      /\ t.op \notin PlainOps /\ t.op \notin {"creating", "email", "retryAction"}
  BY DEF PollingOps, DecisionOps, PlainOps
<1>3. CarriesItsDecision(next) /\ ReadInOrder(next) /\ ReadIsCurrent(next)'
  BY <1>1, <1>2 DEF CarriesItsDecision, ReadInOrder, ReadIsCurrent
<1>4. Valid(next)' <=> Valid(t)
  BY <1>1, GoOnFacts
<1>5. OperationMatchesPage(next)'
  BY <1>2, <1>4 DEF OperationMatchesPage
<1>6. Surroundings'
  <2>1. mounted' \in BOOLEAN
    BY PageTypes, Zenon
  <2>2. /\ emailVersion' \in Nat /\ loads' \subseteq [version : Nat, decision : Decisions]
        /\ \A l \in loads' : l.version <= emailVersion'
    <3>1. CASE ClearEmail
      BY <3>1, LoadFacts
    <3> QED BY <3>1, PageTypes
  <2> QED BY <2>1, <2>2, PageTypes, PageStep
<1> QED BY <1>3, <1>5, <1>6, GoOnStep, NothingRead

\* The operation with its next phase.
LEMMA NextPhaseFacts ==
    ASSUME NEW t \in Task, NEW phase \in {"poll", "execution"}
    PROVE  LET on == [t EXCEPT !.phase = phase]
           IN  /\ on \in Task /\ on.token = t.token /\ on.op = t.op /\ on.case = t.case
               /\ on.decision = t.decision /\ on.phase = phase
BY DEF Task, Phases

\* What a page keeps when only its decision and its stage are renewed.
LEMMA RenewedPage ==
    ASSUME WorkspaceInvariant, NEW d \in MaybeDecision, NEW stage \in Stages
    PROVE  LET new == [shown EXCEPT !.decision = d, !.stage = stage]
           IN  /\ new \in Page /\ new.decision = d /\ new.case = shown.case
               /\ new.analysis = shown.analysis /\ new.controls = shown.controls
BY PageTypes DEF Page

LEMMA ReplyKeeps ==
    ASSUME WorkspaceInvariant, NEW t \in tasks, Reply(t)
    PROVE  WorkspaceInvariant'
<1>1. /\ UNCHANGED <<cases, mounted, version, emailVersion, bookmark, loads, finals, inbox>>
      /\ t.op \in {"approve", "reject", "retryPlanning", "playback"}
  BY DEF Reply, serverVars
<1>2. t \in Task /\ CarriesItsDecision(t) /\ OperationMatchesPage(t)
  BY PageTypes DEF WorkspaceInvariant
<1>3. t.decision \in MaybeDecision /\ t.stage \in Stages /\ t.decision # NoDecision
      /\ "rejected" \in Stages
  BY <1>1, <1>2 DEF Task, CarriesItsDecision, DecisionOps, Stages
<1>4. CASE ~Valid(t)
  <2>1. Finish(t) /\ UNCHANGED shown
    BY <1>4 DEF Reply
  <2> QED BY <1>1, <2>1, EndsQuietly
<1>5. CASE Valid(t) /\ t.op = "reject"
  <2> DEFINE controls == (shown.controls \ {"decide"}) \union {"new_analysis"}
  <2>1. /\ Finish(t)
        /\ shown' = [shown EXCEPT !.decision = t.decision, !.stage = "rejected",
                                  !.controls = controls]
    BY <1>5 DEF Reply
  <2>2. controls \in SUBSET {"new_analysis", "decide", "retry_action_planning", "start_playback"}
    BY PageTypes DEF Page
  <2> HIDE DEF controls
  <2>3. shown' \in Page /\ shown'.case = shown.case
    BY <1>3, <2>1, <2>2, PageTypes DEF Page
  <2>4. shown.case \in Cases
    <3>1. shown.case = t.case /\ t.decision.case = t.case
      BY <1>2, <1>5 DEF OperationMatchesPage, CarriesItsDecision
    <3> QED BY <1>3, <3>1 DEF MaybeDecision, Decisions
  <2> QED BY <1>1, <1>5, <2>1, <2>3, <2>4, PageTypes, EndsKeep
<1>6. CASE Valid(t) /\ t.op # "reject"
  <2> DEFINE next == [t EXCEPT !.phase = "poll"]
  <2>1. GoOn(t, next)
    BY <1>1, <1>6 DEF Reply
  <2>2. /\ next \in Task /\ next.token = t.token /\ next.op = t.op /\ next.case = t.case
        /\ next.decision = t.decision /\ next.phase = "poll"
    BY <1>2, NextPhaseFacts
  <2> HIDE DEF next
  <2>3. t.op \in PollingOps
    BY <1>1, <1>6 DEF PollingOps
  <2>4. CASE t.op = "playback"
    <3>1. shown' = [shown EXCEPT !.playback = t.decision]
      BY <1>6, <2>4 DEF Reply
    <3>2. /\ shown' \in Page /\ shown'.decision = shown.decision /\ shown'.case = shown.case
          /\ shown'.analysis = shown.analysis /\ shown'.controls = shown.controls
      BY <1>3, <3>1, PageTypes DEF Page
    <3>3. shown.decision # NoDecision
      BY <1>2, <1>6, <2>4 DEF OperationMatchesPage
    <3> QED BY <1>1, <1>6, <2>1, <2>2, <2>3, <3>2, <3>3, PageTypes, GoesOn
  <2>5. CASE t.op # "playback"
    <3>1. shown' = [shown EXCEPT !.decision = t.decision, !.stage = t.stage]
      BY <1>6, <2>5 DEF Reply
    <3>2. /\ shown' \in Page /\ shown'.decision = t.decision /\ shown'.case = shown.case
          /\ shown'.analysis = shown.analysis /\ shown'.controls = shown.controls
      BY <1>3, <3>1, RenewedPage
    <3> QED BY <1>1, <1>3, <1>6, <2>1, <2>2, <2>3, <3>2, PageTypes, GoesOn
  <2> QED BY <2>4, <2>5
<1> QED BY <1>4, <1>5, <1>6

LEMMA PollKeeps ==
    ASSUME WorkspaceInvariant, NEW t \in tasks, Poll(t) \/ PollTimesOut(t)
    PROVE  WorkspaceInvariant'
<1>1. CASE PollTimesOut(t)
  BY <1>1, FailKeeps DEF PollTimesOut
<1>2. CASE Poll(t)
  <2>1. /\ UNCHANGED <<cases, mounted, version, emailVersion, shown, bookmark, loads, finals, inbox>>
        /\ t.phase = "poll"
    BY <1>2 DEF Poll, serverVars
  <2>2. CASE ~Valid(t)
    <3>1. Finish(t)
      BY <1>2, <2>2 DEF Poll
    <3> QED BY <2>1, <3>1, EndsQuietly
  <2>3. CASE Valid(t)
    <3> DEFINE stage == Stage(t.decision)
               n == t.polls + 1
               next == [t EXCEPT !.stage = stage, !.polls = n]
    <3>1. GoOn(t, next)
      BY <1>2, <2>3 DEF Poll
    <3>2. t \in Task /\ CarriesItsDecision(t) /\ OperationMatchesPage(t)
      BY PageTypes DEF WorkspaceInvariant
    <3>3. t.op \in PollingOps /\ t.decision \in Decisions
      BY <2>1, <3>2 DEF CarriesItsDecision, Task, MaybeDecision, PollingOps, DecisionOps
    <3>4. stage \in Stages /\ n \in Nat
      BY <3>2, <3>3, PageTypes DEF Stage, CaseRecord, Decisions, Task
    <3> HIDE DEF stage, n
    <3>5. /\ next \in Task /\ next.token = t.token /\ next.op = t.op /\ next.case = t.case
          /\ next.decision = t.decision /\ next.phase = "poll"
      BY <2>1, <3>2, <3>4 DEF Task
    <3> HIDE DEF next
    <3>6. t.op \in {"playback", "retryPlanning"} => shown.decision # NoDecision
      BY <2>3, <3>2 DEF OperationMatchesPage
    <3> QED BY <2>1, <3>1, <3>3, <3>5, <3>6, PageTypes, GoesOn
  <2> QED BY <2>2, <2>3
<1> QED BY <1>1, <1>2

\* The controls of a page once planning is over.
LEMMA ControlFacts ==
    ASSUME WorkspaceInvariant, NEW t
    PROVE  /\ PlanningControls(t, shown.controls)
                 \in SUBSET {"new_analysis", "decide", "retry_action_planning", "start_playback"}
           /\ PlanningControls(t, shown.controls) # {} => shown.case \in Cases
<1>1. /\ shown.controls \subseteq {"new_analysis", "decide", "retry_action_planning",
                                   "start_playback"}
      /\ shown.case \in MaybeCase
  BY PageTypes DEF Page
<1> QED BY <1>1 DEF PlanningControls, MaybeCase

LEMMA PolledKeeps ==
    ASSUME WorkspaceInvariant, NEW t \in tasks, Polled(t)
    PROVE  WorkspaceInvariant'
<1>1. UNCHANGED <<cases, mounted, version, bookmark, finals, inbox>> /\ t.phase = "poll"
  BY DEF Polled, serverVars
<1>2. t \in Task /\ CarriesItsDecision(t) /\ OperationMatchesPage(t)
  BY PageTypes DEF WorkspaceInvariant
<1>3. /\ t.op \in PollingOps /\ t.decision \in MaybeDecision /\ t.decision # NoDecision
      /\ t.stage \in Stages
  BY <1>1, <1>2 DEF CarriesItsDecision, Task, PollingOps, DecisionOps
<1> DEFINE next == [t EXCEPT !.phase = "execution"]
<1>4. /\ next \in Task /\ next.token = t.token /\ next.op = t.op /\ next.case = t.case
      /\ next.decision = t.decision /\ next.phase = "execution"
  BY <1>2, NextPhaseFacts
<1>5. CASE ~Valid(t)
  <2>1. Finish(t) /\ UNCHANGED <<shown, emailVersion, loads>>
    BY <1>5 DEF Polled
  <2> QED BY <1>1, <2>1, EndsQuietly
<1>6. CASE Valid(t) /\ t.op = "playback"
  <2>1. GoOn(t, next) /\ UNCHANGED <<shown, emailVersion, loads>>
    BY <1>6 DEF Polled
  <2> HIDE DEF next
  <2>2. shown.decision # NoDecision
    BY <1>2, <1>6 DEF OperationMatchesPage
  <2> QED BY <1>1, <1>3, <1>4, <2>1, <2>2, PageTypes, GoesOn
<1>7. CASE Valid(t) /\ t.op # "playback"
  <2> DEFINE email == IF t.stage \in Planned THEN NoDecision ELSE shown.email
             controls == IF t.op = "retryPlanning" /\ t.stage \in Planned THEN shown.controls
                         ELSE PlanningControls(t, shown.controls)
  <2>1. /\ shown' = [shown EXCEPT !.decision = t.decision, !.stage = t.stage, !.email = email,
                                  !.controls = controls]
        /\ IF t.stage \in Planned
           THEN GoOn(t, next) /\ ClearEmail
           ELSE Finish(t) /\ UNCHANGED <<emailVersion, loads>>
    BY <1>7 DEF Polled
  <2>2. email \in MaybeDecision
    BY PageTypes DEF Page, MaybeDecision
  <2>3. /\ controls \in SUBSET {"new_analysis", "decide", "retry_action_planning",
                                "start_playback"}
        /\ controls # {} => shown.case \in Cases
    BY ControlFacts, PageTypes DEF Page
  <2> HIDE DEF email, controls, next
  <2>4. /\ shown' \in Page /\ shown'.decision = t.decision /\ shown'.case = shown.case
        /\ shown'.analysis = shown.analysis /\ shown'.controls = controls
    BY <1>3, <2>1, <2>2, <2>3, PageTypes DEF Page
  <2>5. shown'.controls # {} \/ shown'.analysis # 0 => shown'.case \in Cases
    BY <2>3, <2>4, PageTypes
  <2>6. CASE t.stage \in Planned
    BY <1>1, <1>3, <1>4, <1>7, <2>1, <2>4, <2>5, <2>6, GoesOn
  <2>7. CASE t.stage \notin Planned
    BY <1>1, <1>7, <2>1, <2>4, <2>5, <2>7, PageTypes, EndsKeep
  <2> QED BY <2>6, <2>7
<1> QED BY <1>5, <1>6, <1>7

LEMMA LoadExecutionKeeps ==
    ASSUME WorkspaceInvariant, NEW t \in tasks, LoadExecution(t)
    PROVE  WorkspaceInvariant'
<1>1. /\ UNCHANGED <<cases, mounted, version, bookmark, finals, inbox>> /\ t.phase = "execution"
      /\ Finish(t)
  BY DEF LoadExecution, serverVars
<1>2. CASE ~Valid(t)
  BY <1>1, <1>2, EndsQuietly DEF LoadExecution
<1>3. CASE Valid(t)
  <2> DEFINE email == IF t.op = "playback" THEN shown.email ELSE NoDecision
             controls == IF t.op = "retryPlanning" THEN PlanningControls(t, shown.controls)
                         ELSE shown.controls
  <2>1. /\ shown' = [shown EXCEPT !.actions = t.decision, !.email = email, !.controls = controls]
        /\ LoadEmail(t.decision) \/ UNCHANGED <<emailVersion, loads>>
    BY <1>3 DEF LoadExecution
  <2>2. t.decision \in MaybeDecision /\ t.decision \in Decisions
    BY <1>1, PageTypes DEF CarriesItsDecision, Task, PollingOps, DecisionOps, MaybeDecision
  <2>3. email \in MaybeDecision
    BY PageTypes DEF Page, MaybeDecision
  <2>4. /\ controls \in SUBSET {"new_analysis", "decide", "retry_action_planning",
                                "start_playback"}
        /\ controls # {} => shown.case \in Cases
    BY ControlFacts, PageTypes DEF Page
  <2> HIDE DEF email, controls
  <2>5. /\ shown' \in Page /\ shown'.case = shown.case
        /\ shown'.analysis = shown.analysis /\ shown'.controls = controls
    BY <2>1, <2>2, <2>3, <2>4, PageTypes DEF Page
  <2>6. shown'.controls # {} \/ shown'.analysis # 0 => shown'.case \in Cases
    BY <2>4, <2>5, PageTypes
  <2>7. /\ emailVersion' \in Nat /\ loads' \subseteq [version : Nat, decision : Decisions]
        /\ \A l \in loads' : l.version <= emailVersion'
    <3>1. CASE LoadEmail(t.decision)
      BY <2>2, <3>1, LoadFacts
    <3> QED BY <2>1, <3>1, PageTypes
  <2> QED BY <1>1, <1>3, <2>5, <2>6, <2>7, PageTypes, EndsKeep
<1> QED BY <1>2, <1>3
-----------------------------------------------------------------------------
(* The invariant *)

LEMMA NextKeeps ==
    ASSUME WorkspaceInvariant, [Next]_vars
    PROVE  WorkspaceInvariant'
<1>1. CASE UNCHANGED vars
  <2>1. UNCHANGED <<cases, mounted, active, version, emailVersion, shown, bookmark, tasks, loads,
                    finals, inbox>>
    BY <1>1 DEF vars
  <2>2. PageKept /\ \A c \in Cases : SameReading(c)
    BY <2>1, NothingRead DEF PageKept
  <2>3. Surroundings'
    BY <2>1 DEF WorkspaceInvariant, Surroundings, HookTypes, RequestTypes, LoadsInOrder,
                ServerTypes, ServerInOrder, PageHasCase
  <2> QED BY <2>1, <2>2, <2>3, QuietStep
<1>2. CASE \E c \in Cases : OtherAnalyses(c) \/ OtherDecides(c)
  BY <1>2, OthersWrite
<1>3. CASE \E d \in Decisions : WorkerPlans(d) \/ PlaybackCompletes(d)
  BY <1>3, OthersWrite, QuietWrites
<1>4. CASE Remount \/ Unmount
  BY <1>4, RemountKeeps, UnmountKeeps
<1>5. CASE Click
  BY <1>5, ClicksKeep, ReopensKeep, PanelsKeep, OthersWrite DEF Click
<1>6. CASE \E t \in tasks : Advance(t) \/ Fail(t)
  <2>1. PICK t \in tasks : Advance(t) \/ Fail(t)
    BY <1>6
  <2> QED BY <2>1, RuntimeAnswerKeeps, PlainEnds, CommitsKeep, RepliesEnd, ReopenReadsKeep,
             ConfirmKeeps, ReplyKeeps, PollKeeps, PolledKeeps, LoadExecutionKeeps, FailKeeps
             DEF Advance
<1>7. CASE \E l \in loads : EmailAnswer(l)
  BY <1>7, EmailAnswerKeeps
<1>8. CASE \E f \in finals : \/ FinalizeCommit(f) \/ FinalizeRefresh(f) \/ FinalizeEnds(f)
                             \/ AcceptFinalDecision(f)
  BY <1>8, PanelsWrite, FinalsKeep, AcceptKeeps
<1>9. CASE InboxCreated \/ InboxAnalyzed \/ InboxFails \/ InboxOpens
  BY <1>9, QuietWrites, PanelsWrite, PanelsKeep, ReopensKeep
<1> QED BY <1>1, <1>2, <1>3, <1>4, <1>5, <1>6, <1>7, <1>8, <1>9 DEF Next

\* No token is given out twice, only the newest can be valid, a reopening
\* knows what it has read and whether that still stands, and an operation
\* finds the page as it left it (begin, finish and isCurrent of the hook).
THEOREM WorkspaceInvariantHolds == Spec => []WorkspaceInvariant
<1>1. Init => WorkspaceInvariant
  BY InitInOrder
<1>2. WorkspaceInvariant /\ [Next]_vars => WorkspaceInvariant'
  BY NextKeeps
<1> QED BY <1>1, <1>2, PTL DEF Spec
-----------------------------------------------------------------------------
(* The page never mixes the records of two cases *)

\* The page stays, and so does what is in flight for it.
LEMMA SamePage ==
    ASSUME WorkspaceInvariant, PageSound,
           UNCHANGED <<mounted, emailVersion, shown>>, loads' \subseteq loads,
           \A u \in tasks' : Valid(u)' /\ u.op # "reopening" /\ u.decision # NoDecision =>
              \/ u.decision = Ref(shown.case, shown.analysis)
              \/ \E t \in tasks : Valid(t) /\ t.op = u.op /\ t.decision = u.decision
    PROVE  PageSound'
BY DEF PageSound, Coherent, InFlightMatches

\* The step of an operation that leaves the token and the page to it.
LEMMA SameOperations ==
    ASSUME WorkspaceInvariant, PageSound,
           UNCHANGED <<mounted, active, emailVersion, shown>>, loads' \subseteq loads,
           \A u \in tasks' : \E t \in tasks :
              u.token = t.token /\ u.op = t.op /\ u.decision = t.decision
    PROVE  PageSound'
<1>1. \A u \in tasks' : Valid(u)' => \E t \in tasks : Valid(t) /\ t.op = u.op
                                                         /\ t.decision = u.decision
  BY DEF Valid
<1> QED BY <1>1, SamePage

LEMMA OthersSound ==
    ASSUME WorkspaceInvariant, PageSound,
           \/ \E c \in Cases : \/ OtherAnalyses(c) \/ OtherDecides(c) \/ SubmitProposal(c)
                               \/ InboxCreate(c)
           \/ \E d \in Decisions : WorkerPlans(d) \/ PlaybackCompletes(d)
           \/ \E f \in finals : FinalizeCommit(f) \/ FinalizeRefresh(f) \/ FinalizeEnds(f)
           \/ InboxAnalyzed \/ InboxCreated \/ InboxFails \/ Finalize
    PROVE  PageSound'
<1>1. UNCHANGED <<mounted, active, emailVersion, shown, loads>>
  BY DEF OtherAnalyses, OtherDecides, SubmitProposal, InboxCreate, WorkerPlans, PlaybackCompletes,
         FinalizeCommit, FinalizeRefresh, FinalizeEnds, InboxAnalyzed, InboxCreated, InboxFails,
         Finalize, refVars
<1>2. UNCHANGED tasks \/ \E c : tasks' = Touch(c, tasks)
  BY DEF OtherAnalyses, OtherDecides, SubmitProposal, InboxCreate, WorkerPlans, PlaybackCompletes,
         FinalizeCommit, FinalizeRefresh, FinalizeEnds, InboxAnalyzed, InboxCreated, InboxFails,
         Finalize
<1>3. CASE UNCHANGED tasks
  BY <1>1, <1>3, SameOperations
<1>4. CASE \E c : tasks' = Touch(c, tasks)
  <2>1. PICK c : tasks' = Touch(c, tasks)
    BY <1>4
  <2>2. tasks \in SUBSET Task
    BY PageTypes
  <2>3. \A u \in Touch(c, tasks) : \E s \in tasks : SameTask(u, s)
    BY <2>2, TouchFacts
  <2>4. \A u \in tasks' : \E s \in tasks :
           u.token = s.token /\ u.op = s.op /\ u.decision = s.decision
    BY <2>1, <2>3 DEF SameTask
  <2> QED BY <1>1, <2>4, SameOperations
<1> QED BY <1>2, <1>3, <1>4

LEMMA CommitSound ==
    ASSUME WorkspaceInvariant, PageSound, NEW t \in tasks, NEW next,
           next.token = t.token, next.op = t.op, next.decision = t.decision,
           \/ tasks' = (tasks \ {t}) \union {next}
           \/ \E c : tasks' = Touch(c, tasks \ {t}) \union {next},
           UNCHANGED <<mounted, active, emailVersion, shown, loads>>
    PROVE  PageSound'
<1>1. CASE tasks' = (tasks \ {t}) \union {next}
  BY <1>1, SameOperations
<1>2. CASE \E c : tasks' = Touch(c, tasks \ {t}) \union {next}
  <2>1. PICK c : tasks' = Touch(c, tasks \ {t}) \union {next}
    BY <1>2
  <2>2. tasks \ {t} \in SUBSET Task
    BY PageTypes
  <2>3. \A u \in Touch(c, tasks \ {t}) : \E s \in tasks \ {t} : SameTask(u, s)
    BY <2>2, TouchFacts
  <2>4. \A u \in tasks' : \E s \in tasks :
           u.token = s.token /\ u.op = s.op /\ u.decision = s.decision
    BY <2>1, <2>3 DEF SameTask
  <2> QED BY <2>4, SameOperations
<1> QED BY <1>1, <1>2

LEMMA CommitsSound ==
    ASSUME WorkspaceInvariant, PageSound, NEW t \in tasks,
           \/ CreateCommit(t) \/ AnalyzeCommit(t) \/ DecideCommit(t)
           \/ RetryPlanningCommit(t) \/ StartPlaybackCommit(t)
    PROVE  PageSound'
<1>1. UNCHANGED <<mounted, active, emailVersion, shown, loads>>
  BY DEF CreateCommit, AnalyzeCommit, DecideCommit, RetryPlanningCommit, StartPlaybackCommit,
         refVars, GoOn
<1>2. t \in Task
  BY PageTypes
<1>3. CASE CreateCommit(t)
  <2> DEFINE next == [t EXCEPT !.phase = "reply"]
  <2>1. next.token = t.token /\ next.op = t.op /\ next.decision = t.decision
    BY <1>2 DEF Task
  <2>2. tasks' = (tasks \ {t}) \union {next}
    BY <1>3 DEF CreateCommit, GoOn
  <2> HIDE DEF next
  <2> QED BY <1>1, <2>1, <2>2, CommitSound
<1>4. CASE AnalyzeCommit(t)
  <2> DEFINE next == [t EXCEPT !.phase = "reply", !.analysis = cases'[t.case].analysis]
  <2>1. next.token = t.token /\ next.op = t.op /\ next.decision = t.decision
    BY <1>2 DEF Task
  <2>2. tasks' = Touch(t.case, tasks \ {t}) \union {next}
    BY <1>4 DEF AnalyzeCommit
  <2> HIDE DEF next
  <2> QED BY <1>1, <2>1, <2>2, CommitSound
<1>5. CASE DecideCommit(t)
  <2> DEFINE stage == IF t.op = "approve" THEN "pending" ELSE "rejected"
             new == [t EXCEPT !.phase = "reply", !.stage = stage]
             again == [t EXCEPT !.phase = "reply", !.stage = Stage(t.decision)]
  <2>1. /\ new.token = t.token /\ new.op = t.op /\ new.decision = t.decision
        /\ again.token = t.token /\ again.op = t.op /\ again.decision = t.decision
    BY <1>2 DEF Task
  <2>2. \/ tasks' = Touch(t.case, tasks \ {t}) \union {new}
        \/ tasks' = (tasks \ {t}) \union {again}
    BY <1>5 DEF DecideCommit
  <2> HIDE DEF new, again
  <2>3. CASE tasks' = Touch(t.case, tasks \ {t}) \union {new}
    BY <1>1, <2>1, <2>3, CommitSound
  <2>4. CASE tasks' = (tasks \ {t}) \union {again}
    BY <1>1, <2>1, <2>4, CommitSound
  <2> QED BY <2>2, <2>3, <2>4
<1>6. CASE RetryPlanningCommit(t)
  <2> DEFINE next == [t EXCEPT !.phase = "reply", !.stage = "pending"]
  <2>1. next.token = t.token /\ next.op = t.op /\ next.decision = t.decision
    BY <1>2 DEF Task
  <2>2. tasks' = Touch(t.decision.case, tasks \ {t}) \union {next}
    BY <1>6 DEF RetryPlanningCommit
  <2> HIDE DEF next
  <2> QED BY <1>1, <2>1, <2>2, CommitSound
<1>7. CASE StartPlaybackCommit(t)
  <2> DEFINE next == [t EXCEPT !.phase = "reply",
                               !.stage = cases'[t.decision.case].stage[t.decision.analysis]]
  <2>1. next.token = t.token /\ next.op = t.op /\ next.decision = t.decision
    BY <1>2 DEF Task
  <2>2. tasks' = (tasks \ {t}) \union {next}
    BY <1>7 DEF StartPlaybackCommit, GoOn
  <2> HIDE DEF next
  <2> QED BY <1>1, <2>1, <2>2, CommitSound
<1> QED BY <1>3, <1>4, <1>5, <1>6, <1>7
\* An operation that ends leaves nothing of its own.
LEMMA FinishSound ==
    ASSUME WorkspaceInvariant, PageSound, NEW t \in tasks, Finish(t),
           UNCHANGED <<mounted, version, shown, emailVersion, loads>>
    PROVE  PageSound'
<1>1. tasks' \subseteq tasks /\ \A u \in tasks' : Valid(u)' => Valid(u)
  BY FinishFacts DEF WorkspaceInvariant
<1> QED BY <1>1, SamePage

\* An operation that begins is about the page.
LEMMA BeginsSound ==
    ASSUME WorkspaceInvariant, PageSound, NEW new, mounted, UNCHANGED mounted,
           active' = version + 1, NEW kept \in SUBSET tasks, tasks' = kept \union {new},
           Coherent',
           new.op = "reopening" \/ new.decision = NoDecision
              \/ new.decision = Ref(shown'.case, shown'.analysis),
           \A l \in loads' : l.version = emailVersion' => l.decision = shown'.decision
    PROVE  PageSound'
<1>1. \A u \in kept : u.token <= version /\ u.token \in Nat /\ version \in Nat
  BY PageTypes DEF WorkspaceInvariant, TokensInOrder, Task
<1>2. \A u \in kept : ~Valid(u)'
  BY <1>1 DEF Valid
<1> QED BY <1>2 DEF PageSound, InFlightMatches

LEMMA BegunTask ==
    ASSUME NEW op, NEW phase, NEW c, NEW d
    PROVE  \E new : new = NewTask(op, phase, c, d) /\ new.op = op /\ new.decision = d
<1> DEFINE task == NewTask(op, phase, c, d)
<1>1. task.op = op /\ task.decision = d
  BY DEF NewTask
<1> HIDE DEF task
<1>2. \E new : new = task /\ new.op = op /\ new.decision = d
  BY <1>1
<1> QED BY <1>2 DEF task

LEMMA ClicksSound ==
    ASSUME WorkspaceInvariant, PageSound,
           \/ ListCases \/ RetryAction \/ EmailAction \/ Analyze \/ RetryPlanning \/ StartPlayback
           \/ \E c \in Cases : Create(c)
           \/ \E kind \in {"approve", "reject"} : Decide(kind)
    PROVE  PageSound'
<1>1. UNCHANGED <<mounted, emailVersion, shown, loads>>
  BY DEF ListCases, RetryAction, EmailAction, Analyze, RetryPlanning, StartPlayback, Create,
         Decide, Begin
<1>2. \E op, phase, c, d : /\ Begin(op, phase, c, d)
                           /\ d = NoDecision \/ d = Ref(shown.case, shown.analysis)
  BY DEF ListCases, RetryAction, EmailAction, Analyze, RetryPlanning, StartPlayback, Create,
         Decide, PageSound, Coherent
<1>3. PICK op, phase, c, d : /\ Begin(op, phase, c, d)
                             /\ d = NoDecision \/ d = Ref(shown.case, shown.analysis)
  BY <1>2
<1>4. PICK new : new = NewTask(op, phase, c, d) /\ new.decision = d
  BY BegunTask
<1>5. /\ mounted /\ active' = version + 1 /\ tasks' = tasks \union {new}
  BY <1>3, <1>4 DEF Begin, CanBegin
<1>6. Coherent' /\ \A l \in loads' : l.version = emailVersion' => l.decision = shown'.decision
  BY <1>1, <1>5 DEF PageSound, Coherent, InFlightMatches
<1> QED BY <1>1, <1>3, <1>4, <1>5, <1>6, BeginsSound

LEMMA EmptyCoherent ==
    ASSUME shown' = EmptyWorkspace
    PROVE  Coherent'
BY DEF Coherent, EmptyWorkspace

LEMMA ReopensSound ==
    ASSUME WorkspaceInvariant, PageSound,
           InboxOpens \/ (\E c \in Cases : Reopen(c)) \/ \E t \in tasks : RuntimeAnswer(t)
    PROVE  PageSound'
<1> DEFINE Reopening(c, kept) ==
           /\ mounted /\ UNCHANGED mounted /\ active' = version + 1
           /\ tasks' = kept \union {NewTask("reopening", "case", c, NoDecision)}
           /\ shown' = EmptyWorkspace /\ ClearEmail
<1>1. ASSUME NEW c, NEW kept \in SUBSET tasks, Reopening(c, kept)
      PROVE  PageSound'
  <2>1. PICK new : new = NewTask("reopening", "case", c, NoDecision) /\ new.op = "reopening"
    BY BegunTask
  <2>2. Coherent'
    BY <1>1, EmptyCoherent
  <2>3. \A l \in loads' : l.version # emailVersion'
    BY <1>1, LoadFacts
  <2> QED BY <1>1, <2>1, <2>2, <2>3, BeginsSound
<1>2. CASE \E c \in Cases : Reopen(c)
  <2>1. PICK c \in Cases : Reopen(c)
    BY <1>2
  <2>2. Reopening(c, tasks)
    BY <2>1 DEF Reopen, Begin, CanBegin
  <2> HIDE DEF Reopening
  <2> QED BY <1>1, <2>2
<1>3. CASE InboxOpens
  <2>1. CASE CanBegin
    <3>1. Reopening(inbox.case, tasks)
      BY <1>3, <2>1 DEF InboxOpens
    <3> HIDE DEF Reopening
    <3> QED BY <1>1, <3>1
  <2>2. CASE ~CanBegin
    <3>1. UNCHANGED <<mounted, active, tasks, shown, emailVersion, loads>>
      BY <1>3, <2>2 DEF InboxOpens
    <3> QED BY <3>1, SameOperations
  <2> QED BY <2>1, <2>2
<1>4. CASE \E t \in tasks : RuntimeAnswer(t)
  <2>1. PICK t \in tasks : RuntimeAnswer(t)
    BY <1>4
  <2>2. CASE Valid(t) /\ bookmark # NoCase /\ version < MaxOperations
    <3>1. Reopening(bookmark, tasks \ {t})
      BY <2>1, <2>2 DEF RuntimeAnswer, Valid
    <3> HIDE DEF Reopening
    <3> QED BY <1>1, <3>1
  <2>3. CASE ~(Valid(t) /\ bookmark # NoCase /\ version < MaxOperations)
    <3>1. Finish(t) /\ UNCHANGED <<mounted, version, shown, emailVersion, loads>>
      BY <2>1, <2>3 DEF RuntimeAnswer
    <3> QED BY <3>1, FinishSound
  <2> QED BY <2>2, <2>3
<1> QED BY <1>2, <1>3, <1>4
LEMMA LeavingSound ==
    ASSUME WorkspaceInvariant, PageSound, Remount \/ Unmount
    PROVE  PageSound'
<1>1. Coherent' /\ UNCHANGED <<shown, loads>>
  BY DEF Remount, Unmount, PageSound, Coherent
<1>2. CASE Unmount
  BY <1>1, <1>2 DEF Unmount, PageSound, InFlightMatches, Valid
<1>3. CASE Remount
  <2>1. /\ mounted /\ UNCHANGED mounted /\ active' = version + 2 /\ emailVersion' = emailVersion + 1
    BY <1>3 DEF Remount
  <2> DEFINE begun == NewTask("initializing", "runtime", NoCase, NoDecision)
             new == [begun EXCEPT !.token = version + 2]
  <2>2. new.decision = NoDecision
    BY DEF NewTask
  <2>3. tasks' = tasks \union {new}
    BY <1>3 DEF Remount
  <2> HIDE DEF new
  <2>4. \A u \in tasks : u.token <= version /\ u.token \in Nat /\ version \in Nat
    BY PageTypes DEF WorkspaceInvariant, TokensInOrder, Task
  <2>5. \A u \in tasks : ~Valid(u)'
    BY <2>1, <2>4 DEF Valid
  <2>6. \A l \in loads : l.version \in Nat /\ l.version <= emailVersion /\ emailVersion \in Nat
    BY PageTypes
  <2>7. \A l \in loads : l.version # emailVersion'
    BY <2>1, <2>6
  <2> QED BY <1>1, <2>2, <2>3, <2>5, <2>7 DEF PageSound, InFlightMatches
<1> QED BY <1>2, <1>3

LEMMA EmailAnswerSound ==
    ASSUME WorkspaceInvariant, PageSound, NEW l \in loads, EmailAnswer(l)
    PROVE  PageSound'
<1>1. /\ UNCHANGED <<mounted, active, emailVersion, tasks>> /\ loads' \subseteq loads
      /\ \/ shown' = shown
         \/ EmailCurrent(l) /\ shown' = [shown EXCEPT !.email = l.decision]
  BY DEF EmailAnswer, refVars
<1>2. CASE shown' = shown
  BY <1>1, <1>2, SameOperations
<1>3. CASE EmailCurrent(l) /\ shown' = [shown EXCEPT !.email = l.decision]
  <2>1. l.decision = shown.decision
    BY <1>3 DEF EmailCurrent, PageSound, InFlightMatches
  <2>2. /\ shown'.case = shown.case /\ shown'.analysis = shown.analysis
        /\ shown'.decision = shown.decision /\ shown'.actions = shown.actions
        /\ shown'.playback = shown.playback /\ shown'.email = shown.decision
    BY <1>3, <2>1, PageTypes DEF Page
  <2>3. Coherent'
    BY <2>2 DEF PageSound, Coherent
  <2> QED BY <1>1, <2>2, <2>3 DEF PageSound, InFlightMatches, Valid
<1> QED BY <1>1, <1>2, <1>3

\* An answer that renews the decision on the page, or what belongs to it,
\* with the decision of the case and analysis on the page.
LEMMA RenewedSound ==
    ASSUME WorkspaceInvariant, PageSound, NEW d, d = Ref(shown.case, shown.analysis),
           shown'.case = shown.case, shown'.analysis = shown.analysis, shown'.decision = d,
           shown'.actions \in {shown.actions, d}, shown'.playback \in {shown.playback, d},
           shown'.email \in {shown.email, d, NoDecision}
    PROVE  /\ Coherent'
           /\ \A l \in loads : mounted /\ l.version = emailVersion => l.decision = d
<1>1. shown.decision \in {NoDecision, d}
  BY DEF PageSound, Coherent
<1>2. \A l \in loads : l.decision # NoDecision
  BY PageTypes, WorkspaceAssumption DEF Decisions, Analyses
<1>3. Coherent'
  BY <1>1 DEF PageSound, Coherent
<1> QED BY <1>1, <1>2, <1>3 DEF PageSound, InFlightMatches

\* Only the operation that holds the page is valid.
LEMMA OnlyValid ==
    ASSUME WorkspaceInvariant, NEW t \in tasks, Valid(t), NEW u \in tasks, u # t
    PROVE  ~Valid(u)
BY DEF WorkspaceInvariant, TokensInOrder, Valid

LEMMA AcceptSound ==
    ASSUME WorkspaceInvariant, PageSound, NEW f \in finals, AcceptFinalDecision(f),
           ~LateFinalDecision
    PROVE  PageSound'
<1> DEFINE d == Ref(f.case, f.analysis)
<1>1. f.case = shown.case /\ f.analysis = shown.analysis
  BY DEF LateFinalDecision
<1>2. shown' = [shown EXCEPT !.decision = d, !.stage = "pending"]
      /\ mounted /\ UNCHANGED <<mounted, emailVersion, loads>>
  BY DEF AcceptFinalDecision
<1>3. d = Ref(shown.case, shown.analysis)
  BY <1>1
<1> HIDE DEF d
<1>4. /\ shown'.case = shown.case /\ shown'.analysis = shown.analysis /\ shown'.decision = d
      /\ shown'.actions = shown.actions /\ shown'.playback = shown.playback
      /\ shown'.email = shown.email
  BY <1>2, PageTypes DEF Page
<1>5. Coherent' /\ \A l \in loads : mounted /\ l.version = emailVersion => l.decision = d
  BY <1>3, <1>4, RenewedSound
<1>6. CASE CanBegin
  <2> DEFINE begun == NewTask("planning", "poll", f.case, d)
             polling == [begun EXCEPT !.stage = "pending"]
  <2>1. polling.decision = d
    BY DEF NewTask
  <2>2. tasks' = tasks \union {polling} /\ active' = version + 1
    BY <1>6 DEF AcceptFinalDecision, d
  <2> HIDE DEF polling
  <2>3. PICK new : new = polling /\ new.decision = d
    BY <2>1
  <2>4. tasks' = tasks \union {new}
    BY <2>2, <2>3
  <2> QED BY <1>2, <1>3, <1>4, <1>5, <2>2, <2>3, <2>4, BeginsSound
<1>7. CASE ~CanBegin
  <2>1. UNCHANGED <<active, tasks>>
    BY <1>7 DEF AcceptFinalDecision
  <2> QED BY <1>2, <1>4, <1>5, <2>1 DEF PageSound, InFlightMatches, Valid
<1> QED BY <1>6, <1>7
\* The operation of the newest token ends with a page of its own.
LEMMA NewPageSound ==
    ASSUME WorkspaceInvariant, NEW t \in tasks, Finish(t), UNCHANGED <<mounted, version>>,
           Valid(t) \/ (mounted /\ t.token = version), Coherent',
           \A l \in loads' : mounted /\ l.version = emailVersion' => l.decision = shown'.decision
    PROVE  PageSound'
<1>1. \A u \in tasks' : ~Valid(u)'
  BY FinishFacts DEF WorkspaceInvariant
<1> QED BY <1>1 DEF PageSound, InFlightMatches

\* What a valid operation about a decision knows: the decision is the page's.
LEMMA ItsDecision ==
    ASSUME WorkspaceInvariant, PageSound, NEW t \in tasks, Valid(t), t.op \in DecisionOps
    PROVE  /\ t.decision = Ref(shown.case, shown.analysis)
           /\ t.op \in {"email", "playback", "retryPlanning"} \/ t.phase = "execution" =>
                 shown.decision = t.decision
<1>1. t.decision # NoDecision /\ t.op # "reopening"
  BY PageTypes DEF CarriesItsDecision, DecisionOps
<1>2. t.op \in {"email", "playback", "retryPlanning"} \/ t.phase = "execution" =>
         shown.decision # NoDecision
  BY DEF WorkspaceInvariant, OperationMatchesPage
<1> QED BY <1>1, <1>2 DEF PageSound, InFlightMatches, Coherent

LEMMA AnswersSound ==
    ASSUME WorkspaceInvariant, PageSound, NEW t \in tasks,
           \/ PlainAnswer(t) \/ EmailActionAnswer(t) \/ CreateReply(t) \/ AnalyzeReply(t)
           \/ ReopenConfirm(t) \/ Fail(t)
    PROVE  PageSound'
<1>1. Finish(t) /\ UNCHANGED <<mounted, version>>
  BY DEF PlainAnswer, EmailActionAnswer, CreateReply, AnalyzeReply, ReopenConfirm, Fail
<1>2. CASE UNCHANGED <<shown, emailVersion, loads>>
  BY <1>1, <1>2, FinishSound
<1>3. CASE EmailActionAnswer(t) /\ Valid(t)
  <2>1. shown' = [shown EXCEPT !.email = t.decision] /\ UNCHANGED <<emailVersion, loads>>
    BY <1>3 DEF EmailActionAnswer
  <2>2. /\ t.decision = Ref(shown.case, shown.analysis) /\ shown.decision = t.decision
    BY <1>3, ItsDecision DEF EmailActionAnswer, DecisionOps
  <2>3. /\ shown'.case = shown.case /\ shown'.analysis = shown.analysis
        /\ shown'.decision = t.decision /\ shown'.actions = shown.actions
        /\ shown'.playback = shown.playback /\ shown'.email = t.decision
    BY <2>1, <2>2, PageTypes DEF Page
  <2>4. /\ Coherent'
        /\ \A l \in loads : mounted /\ l.version = emailVersion => l.decision = t.decision
    BY <2>2, <2>3, RenewedSound
  <2> QED BY <1>1, <1>3, <2>1, <2>3, <2>4, NewPageSound
<1>4. CASE (CreateReply(t) \/ AnalyzeReply(t)) /\ Valid(t)
  <2>1. ClearEmail
    BY <1>4 DEF CreateReply, AnalyzeReply
  <2>2. \A l \in loads' : l.version # emailVersion'
    BY <2>1, LoadFacts
  <2>3. Coherent'
    <3>1. \/ shown' = [EmptyWorkspace EXCEPT !.case = t.case, !.controls = {"new_analysis"}]
          \/ shown' = [EmptyWorkspace EXCEPT !.case = shown.case, !.analysis = t.analysis,
                                             !.controls = {"decide"}]
      BY <1>4 DEF CreateReply, AnalyzeReply
    <3>2. /\ shown'.decision = NoDecision /\ shown'.actions = NoDecision
          /\ shown'.playback = NoDecision /\ shown'.email = NoDecision
      BY <3>1 DEF EmptyWorkspace
    <3> QED BY <3>2 DEF Coherent
  <2> QED BY <1>1, <1>4, <2>2, <2>3, NewPageSound
<1>5. CASE ReopenConfirm(t) /\ mounted /\ t.token = version
  <2>1. t \in Task /\ ReadInOrder(t) /\ t.op = "reopening" /\ t.phase = "confirm"
        /\ shown' = Reopened(t)
    BY <1>5, PageTypes DEF ReopenConfirm
  <2>2. shown'.decision = t.decision /\ shown'.case = t.case /\ shown'.analysis = t.analysis
        /\ shown'.actions \in {t.decision, NoDecision}
        /\ shown'.playback \in {t.decision, NoDecision} /\ shown'.email = NoDecision
    BY <2>1 DEF Reopened
  <2>3. t.decision # NoDecision => t.decision = Ref(t.case, t.analysis)
    <3>1. t.decision # NoDecision => /\ t.decision \in Decisions /\ t.decision.case = t.case
                                     /\ t.decision.analysis = t.analysis
      BY <2>1 DEF ReadInOrder, Task, MaybeDecision
    <3> QED BY <3>1 DEF Decisions, Ref
  <2>4. Coherent'
    BY <2>2, <2>3 DEF Coherent
  <2>5. \A l \in loads' : mounted /\ l.version = emailVersion' => l.decision = shown'.decision
    <3>1. CASE t.stage \in Planned
      <4>1. t.decision \in Decisions
        BY <2>1, <3>1 DEF ReadInOrder, Planned, Task, MaybeDecision
      <4>2. LoadEmail(t.decision)
        BY <1>5, <3>1 DEF ReopenConfirm
      <4> QED BY <2>2, <4>1, <4>2, LoadFacts
    <3>2. CASE t.stage \notin Planned
      <4>1. UNCHANGED <<emailVersion, loads>>
        BY <1>5, <3>2 DEF ReopenConfirm
      <4>2. \A l \in loads : l.version # emailVersion
        BY <1>5, <2>1 DEF WorkspaceInvariant, OperationMatchesPage
      <4> QED BY <4>1, <4>2
    <3> QED BY <3>1, <3>2
  <2> QED BY <1>1, <1>5, <2>4, <2>5, NewPageSound
<1>6. CASE Fail(t) /\ t.op = "reopening" /\ mounted /\ t.token = version
  <2>1. shown' = EmptyWorkspace /\ ClearEmail
    BY <1>6 DEF Fail
  <2>2. \A l \in loads' : l.version # emailVersion'
    BY <2>1, LoadFacts
  <2> QED BY <1>1, <1>6, <2>1, <2>2, EmptyCoherent, NewPageSound
<1> QED BY <1>2, <1>3, <1>4, <1>5, <1>6
        DEF PlainAnswer, EmailActionAnswer, CreateReply, AnalyzeReply, ReopenConfirm, Fail

\* An operation that goes on, and the page it renews.
LEMMA GoesOnSound ==
    ASSUME WorkspaceInvariant, PageSound, NEW t \in tasks, NEW next, next.token = t.token,
           next.op = t.op, next.decision = t.decision \/ t.op = "reopening", GoOn(t, next),
           UNCHANGED <<mounted, version>>,
           \/ UNCHANGED <<shown, emailVersion, loads>>
           \/ /\ Valid(t) /\ Coherent'
              /\ t.decision = Ref(shown'.case, shown'.analysis)
              /\ \A l \in loads' : mounted /\ l.version = emailVersion' => l.decision = shown'.decision
    PROVE  PageSound'
<1>1. /\ tasks' = (tasks \ {t}) \union {next} /\ (Valid(next)' <=> Valid(t))
      /\ \A u \in tasks : Valid(u)' <=> Valid(u)
  BY GoOnFacts DEF WorkspaceInvariant
<1>2. CASE UNCHANGED <<shown, emailVersion, loads>>
  BY <1>1, <1>2 DEF PageSound, Coherent, InFlightMatches
<1>3. CASE /\ Valid(t) /\ Coherent'
           /\ t.decision = Ref(shown'.case, shown'.analysis)
           /\ \A l \in loads' : mounted /\ l.version = emailVersion' => l.decision = shown'.decision
  <2>1. \A u \in tasks \ {t} : ~Valid(u)'
    BY <1>1, <1>3, OnlyValid
  <2> QED BY <1>1, <1>3, <2>1 DEF PageSound, InFlightMatches
<1> QED BY <1>2, <1>3

LEMMA ReopenReadsSound ==
    ASSUME WorkspaceInvariant, PageSound, NEW t \in tasks,
           ReopenCase(t) \/ ReopenAnalysis(t) \/ ReopenDecision(t) \/ ReopenRelated(t)
    PROVE  PageSound'
<1>1. /\ t \in Task /\ t.op = "reopening"
      /\ UNCHANGED <<mounted, version, emailVersion, shown, loads>>
  BY PageTypes DEF ReopenCase, ReopenAnalysis, ReopenDecision, ReopenRelated
<1>2. ASSUME NEW next, next.token = t.token, next.op = t.op, GoOn(t, next)
      PROVE  PageSound'
  BY <1>1, <1>2, GoesOnSound
<1>3. CASE ReopenCase(t)
  <2> DEFINE next == [t EXCEPT !.phase = IF cases[t.case].analysis = 0 THEN "confirm" ELSE "analysis",
                               !.analysis = cases[t.case].analysis,
                               !.decision = CurrentDecision(t.case), !.changed = FALSE]
  <2>1. next.token = t.token /\ next.op = t.op
    BY <1>1 DEF Task
  <2>2. GoOn(t, next)
    BY <1>3 DEF ReopenCase
  <2> HIDE DEF next
  <2> QED BY <1>2, <2>1, <2>2
<1>4. CASE ReopenAnalysis(t)
  <2> DEFINE next == [t EXCEPT !.phase = IF t.decision = NoDecision THEN "confirm" ELSE "decision"]
  <2>1. next.token = t.token /\ next.op = t.op
    BY <1>1 DEF Task
  <2>2. GoOn(t, next)
    BY <1>4 DEF ReopenAnalysis
  <2> HIDE DEF next
  <2> QED BY <1>2, <2>1, <2>2
<1>5. CASE ReopenDecision(t)
  <2> DEFINE dropped == [t EXCEPT !.phase = "confirm", !.decision = NoDecision]
             read == [t EXCEPT !.phase = "related", !.stage = Stage(t.decision)]
  <2>1. /\ dropped.token = t.token /\ dropped.op = t.op
        /\ read.token = t.token /\ read.op = t.op
    BY <1>1 DEF Task
  <2>2. GoOn(t, dropped) \/ GoOn(t, read)
    BY <1>5 DEF ReopenDecision
  <2> HIDE DEF dropped, read
  <2> QED BY <1>2, <2>1, <2>2
<1>6. CASE ReopenRelated(t)
  <2> DEFINE next == [t EXCEPT !.phase = "confirm",
                               !.polls = IF Stage(t.decision) \in {"playing", "played"}
                                         THEN 1 ELSE 0]
  <2>1. next.token = t.token /\ next.op = t.op
    BY <1>1 DEF Task
  <2>2. GoOn(t, next)
    BY <1>6 DEF ReopenRelated
  <2> HIDE DEF next
  <2> QED BY <1>2, <2>1, <2>2
<1> QED BY <1>3, <1>4, <1>5, <1>6
\* The answers of an operation about a decision renew the page with it.
LEMMA DecisionAnswersSound ==
    ASSUME WorkspaceInvariant, PageSound, NEW t \in tasks,
           Reply(t) \/ Poll(t) \/ PollTimesOut(t) \/ Polled(t) \/ LoadExecution(t)
    PROVE  PageSound'
<1>1. UNCHANGED <<mounted, version>>
  BY DEF Reply, Poll, PollTimesOut, Fail, Polled, LoadExecution
<1>2. t \in Task /\ CarriesItsDecision(t)
  BY PageTypes
<1>3. CASE PollTimesOut(t)
  BY <1>3, AnswersSound DEF PollTimesOut
<1>4. t.op \in DecisionOps \/ PollTimesOut(t)
  BY <1>2 DEF Reply, Poll, Polled, LoadExecution, CarriesItsDecision, DecisionOps, PollingOps
<1>5. CASE ~Valid(t) /\ ~PollTimesOut(t)
  <2>1. Finish(t) /\ UNCHANGED <<shown, emailVersion, loads>>
    BY <1>5 DEF Reply, Poll, Polled, LoadExecution
  <2> QED BY <1>1, <2>1, FinishSound
<1>6. CASE Valid(t) /\ ~PollTimesOut(t)
  <2> DEFINE d == t.decision
  <2>1. /\ d = Ref(shown.case, shown.analysis)
        /\ t.op \in {"email", "playback", "retryPlanning"} \/ t.phase = "execution" =>
              shown.decision = d
    BY <1>4, <1>6, ItsDecision
  <2>2. d \in Decisions
    BY <1>2, <1>4, <1>6 DEF CarriesItsDecision, Task, MaybeDecision
  <2>3. /\ \A l \in loads : mounted /\ l.version = emailVersion => l.decision = shown.decision
        /\ Coherent
    BY DEF PageSound, InFlightMatches
  <2> DEFINE polled == [t EXCEPT !.stage = Stage(t.decision), !.polls = t.polls + 1]
             polling == [t EXCEPT !.phase = "poll"]
             loading == [t EXCEPT !.phase = "execution"]
  <2>4. /\ polled.token = t.token /\ polled.op = t.op /\ polled.decision = d
        /\ polling.token = t.token /\ polling.op = t.op /\ polling.decision = d
        /\ loading.token = t.token /\ loading.op = t.op /\ loading.decision = d
    BY <1>2 DEF Task
  <2>5. CASE Poll(t)
    <3>1. GoOn(t, polled) /\ UNCHANGED <<shown, emailVersion, loads>>
      BY <1>6, <2>5 DEF Poll
    <3> HIDE DEF polled, d
    <3> QED BY <1>1, <2>4, <3>1, GoesOnSound DEF d
  <2>6. CASE Reply(t)
    <3>1. UNCHANGED <<emailVersion, loads>>
      BY <2>6 DEF Reply
    <3>2. CASE t.op = "reject"
      <4>1. /\ Finish(t)
            /\ shown' = [shown EXCEPT !.decision = d, !.stage = "rejected",
                             !.controls = (shown.controls \ {"decide"}) \union {"new_analysis"}]
        BY <1>6, <2>6, <3>2 DEF Reply
      <4>2. /\ shown'.case = shown.case /\ shown'.analysis = shown.analysis
            /\ shown'.decision = d /\ shown'.actions = shown.actions
            /\ shown'.playback = shown.playback /\ shown'.email = shown.email
        BY <4>1, PageTypes DEF Page
      <4>3. Coherent' /\ \A l \in loads : mounted /\ l.version = emailVersion => l.decision = d
        BY <2>1, <4>2, RenewedSound
      <4> QED BY <1>1, <1>6, <3>1, <4>1, <4>2, <4>3, NewPageSound
    <3>3. CASE t.op # "reject"
      <4>1. /\ GoOn(t, polling)
            /\ \/ t.op = "playback" /\ shown' = [shown EXCEPT !.playback = d]
               \/ shown' = [shown EXCEPT !.decision = d, !.stage = t.stage]
        BY <1>6, <2>6, <3>3 DEF Reply
      <4>2. /\ shown'.case = shown.case /\ shown'.analysis = shown.analysis
            /\ shown'.decision = d /\ shown'.actions = shown.actions
            /\ shown'.playback \in {shown.playback, d} /\ shown'.email = shown.email
        BY <2>1, <4>1, PageTypes DEF Page
      <4>3. Coherent' /\ \A l \in loads : mounted /\ l.version = emailVersion => l.decision = d
        BY <2>1, <4>2, RenewedSound
      <4>4. t.decision = Ref(shown'.case, shown'.analysis)
        BY <2>1, <4>2
      <4> HIDE DEF polling
      <4> QED BY <1>1, <1>6, <2>4, <3>1, <4>1, <4>2, <4>3, <4>4, GoesOnSound
    <3> QED BY <3>2, <3>3
  <2>7. CASE Polled(t) /\ t.op = "playback"
    <3>1. GoOn(t, loading) /\ UNCHANGED <<shown, emailVersion, loads>>
      BY <1>6, <2>7 DEF Polled
    <3> HIDE DEF loading
    <3> QED BY <1>1, <2>4, <3>1, GoesOnSound
  <2>8. CASE Polled(t) /\ t.op # "playback"
    <3> DEFINE email == IF t.stage \in Planned THEN NoDecision ELSE shown.email
               controls == IF t.op = "retryPlanning" /\ t.stage \in Planned THEN shown.controls
                           ELSE PlanningControls(t, shown.controls)
    <3>1. /\ shown' = [shown EXCEPT !.decision = d, !.stage = t.stage, !.email = email,
                                    !.controls = controls]
          /\ IF t.stage \in Planned
             THEN GoOn(t, loading) /\ ClearEmail
             ELSE Finish(t) /\ UNCHANGED <<emailVersion, loads>>
      BY <1>6, <2>8 DEF Polled
    <3>2. email \in {shown.email, NoDecision}
      OBVIOUS
    <3> HIDE DEF email, controls, loading
    <3>3. /\ shown'.case = shown.case /\ shown'.analysis = shown.analysis
          /\ shown'.decision = d /\ shown'.actions = shown.actions
          /\ shown'.playback = shown.playback /\ shown'.email = email
      BY <3>1, PageTypes DEF Page
    <3>4. Coherent' /\ \A l \in loads : mounted /\ l.version = emailVersion => l.decision = d
      BY <2>1, <3>2, <3>3, RenewedSound
    <3>5. CASE t.stage \in Planned
      <4>1. \A l \in loads' : l.version # emailVersion'
        BY <3>1, <3>5, LoadFacts
      <4>2. t.decision = Ref(shown'.case, shown'.analysis)
        BY <2>1, <3>3
      <4> QED BY <1>1, <1>6, <2>4, <3>1, <3>4, <3>5, <4>1, <4>2, GoesOnSound
    <3>6. CASE t.stage \notin Planned
      BY <1>1, <1>6, <3>1, <3>3, <3>4, <3>6, NewPageSound
    <3> QED BY <3>5, <3>6
  <2>9. CASE LoadExecution(t)
    <3> DEFINE email == IF t.op = "playback" THEN shown.email ELSE NoDecision
               controls == IF t.op = "retryPlanning" THEN PlanningControls(t, shown.controls)
                           ELSE shown.controls
    <3>1. /\ shown' = [shown EXCEPT !.actions = d, !.email = email, !.controls = controls]
          /\ LoadEmail(d) \/ UNCHANGED <<emailVersion, loads>>
          /\ Finish(t) /\ t.phase = "execution"
      BY <1>6, <2>9 DEF LoadExecution
    <3>2. email \in {shown.email, NoDecision}
      OBVIOUS
    <3> HIDE DEF email, controls
    <3>3. /\ shown'.case = shown.case /\ shown'.analysis = shown.analysis
          /\ shown'.decision = d /\ shown'.actions = d
          /\ shown'.playback = shown.playback /\ shown'.email = email
      BY <2>1, <3>1, PageTypes DEF Page
    <3>4. Coherent' /\ \A l \in loads : mounted /\ l.version = emailVersion => l.decision = d
      BY <2>1, <3>2, <3>3, RenewedSound
    <3>5. \A l \in loads' : mounted /\ l.version = emailVersion' => l.decision = d
      <4>1. CASE LoadEmail(d)
        BY <2>2, <4>1, LoadFacts
      <4> QED BY <3>1, <3>4, <4>1
    <3> QED BY <1>1, <1>6, <3>1, <3>3, <3>4, <3>5, NewPageSound
  <2> QED BY <1>6, <2>5, <2>6, <2>7, <2>8, <2>9
<1> QED BY <1>3, <1>5, <1>6

\* No answer, however late and to whatever request, mixes the records of two
\* cases or analyses on the page, or leaves a request in flight that could
\* (isCurrent and supplierEmailLoadVersion of the hook), but for a final
\* approval accepted on another page than it was given on.
THEOREM CoherenceIsKept == Spec => AnswersKeepCoherence
<1>1. Init => PageSound
  BY DEF Init, PageSound, Coherent, InFlightMatches, EmptyWorkspace
<1>2. ASSUME WorkspaceInvariant, [Next]_vars, PageSound, ~LateFinalDecision
      PROVE  PageSound'
  <2>1. CASE UNCHANGED vars
    BY <1>2, <2>1, SameOperations DEF vars
  <2>2. CASE \E c \in Cases : OtherAnalyses(c) \/ OtherDecides(c)
    BY <1>2, <2>2, OthersSound
  <2>3. CASE \E d \in Decisions : WorkerPlans(d) \/ PlaybackCompletes(d)
    BY <1>2, <2>3, OthersSound
  <2>4. CASE Remount \/ Unmount
    BY <1>2, <2>4, LeavingSound
  <2>5. CASE Click
    BY <1>2, <2>5, ClicksSound, ReopensSound, OthersSound DEF Click
  <2>6. CASE \E t \in tasks : Advance(t) \/ Fail(t)
    <3>1. PICK t \in tasks : Advance(t) \/ Fail(t)
      BY <2>6
    <3> QED BY <1>2, <3>1, ReopensSound, CommitsSound, AnswersSound, ReopenReadsSound,
               DecisionAnswersSound DEF Advance
  <2>7. CASE \E l \in loads : EmailAnswer(l)
    BY <1>2, <2>7, EmailAnswerSound
  <2>8. CASE \E f \in finals : \/ FinalizeCommit(f) \/ FinalizeRefresh(f) \/ FinalizeEnds(f)
                               \/ AcceptFinalDecision(f)
    BY <1>2, <2>8, OthersSound, AcceptSound
  <2>9. CASE InboxCreated \/ InboxAnalyzed \/ InboxFails \/ InboxOpens
    BY <1>2, <2>9, OthersSound, ReopensSound
  <2> QED BY <1>2, <2>1, <2>2, <2>3, <2>4, <2>5, <2>6, <2>7, <2>8, <2>9 DEF Next
<1> QED BY <1>1, <1>2, WorkspaceInvariantHolds, PTL DEF Spec, AnswersKeepCoherence

\* What a reopening shows is what the server holds at that moment, although
\* four requests read it: the row's timestamp stands for all of it (reopen).
THEOREM OneInstantIsShown == Spec => ReopenShowsOneInstant
<1>1. ASSUME WorkspaceInvariant, NEW t \in tasks, ReopenConfirm(t), shown' # shown
      PROVE  /\ shown'.analysis = cases[t.case].analysis
             /\ shown'.decision = IF cases[t.case].decided # 0
                                     /\ cases[t.case].decided = cases[t.case].analysis
                                  THEN CurrentDecision(t.case) ELSE NoDecision
             /\ shown'.decision # NoDecision =>
                   (Stage(shown'.decision) \in Planned) = (shown'.stage \in Planned)
  <2>1. t.op = "reopening" /\ t.phase = "confirm" /\ ~t.changed /\ shown' = Reopened(t)
    BY <1>1 DEF ReopenConfirm, ReopenUnchanged
  <2>2. /\ shown'.analysis = t.analysis /\ shown'.decision = t.decision
        /\ shown'.stage = t.stage
    BY <2>1 DEF Reopened
  <2>3. ReadIsCurrent(t)
    BY <1>1 DEF WorkspaceInvariant
  <2>4. /\ t.analysis = cases[t.case].analysis
        /\ t.decision = IF cases[t.case].decided # 0
                           /\ cases[t.case].decided = cases[t.case].analysis
                        THEN CurrentDecision(t.case) ELSE NoDecision
        /\ t.decision # NoDecision =>
              (Stage(t.decision) \in Planned) = (t.stage \in Planned)
    BY <2>1, <2>3 DEF ReadIsCurrent
  <2> QED BY <2>2, <2>4
<1>2. WorkspaceInvariant /\ [Next]_vars =>
         [\A t \in tasks : ReopenConfirm(t) /\ shown' # shown =>
             /\ shown'.analysis = cases[t.case].analysis
             /\ shown'.decision = IF cases[t.case].decided # 0
                                     /\ cases[t.case].decided = cases[t.case].analysis
                                  THEN CurrentDecision(t.case) ELSE NoDecision
             /\ shown'.decision # NoDecision =>
                   (Stage(shown'.decision) \in Planned) = (shown'.stage \in Planned)]_vars
  BY <1>1
<1> QED BY <1>2, WorkspaceInvariantHolds, PTL DEF Spec, ReopenShowsOneInstant

-----------------------------------------------------------------------------
(* The e-mail that the page's panel sends: SupplierEmail, for any number of *)
(* send requests, revisions and attempts                                    *)

USE BoundsAssumption

Promises == AtMostOneCopy /\ SentAsReviewed /\ StatusTruthful

LEMMA IdleType == Idle \in Sending /\ Idle.phase = "idle"
  BY DEF Idle, Sending, Outcome

LEMMA InitInvariant == EmailInit => EmailInvariant
  BY IdleType DEF EmailInit, SendStatus, EmailInvariant, TypeOK, SendersMatch, CorrelationsFresh,
     AnswersTruthful, ReviewsMatch, AtMostOneCopy, SentAsReviewed, StatusTruthful, Released

\* While the e-mail may be edited, nothing of it is under way.
LEMMA EditableQuiet ==
    ASSUME EmailInvariant, Editable
    PROVE  /\ wire = {} /\ delivered = {}
           /\ \A h \in Senders : send[h].phase \notin {"claimed", "posted", "answered"}
           /\ \A a \in replies : a.outcome # "accepted"
  BY DEF EmailInvariant, Editable, StatusTruthful, SendersMatch, Released, AnswersTruthful

LEMMA ContentInvariant ==
    ASSUME EmailInvariant, NEW r \in Nat \ {0}, Draft(r),
           revision = 0 \/ Editable,
           UNCHANGED <<current, reviewed, send, sends, wire, replies, delivered>>
    PROVE  EmailInvariant'
<1>1. /\ wire = {} /\ delivered = {}
      /\ \A h \in Senders : send[h].phase \notin {"claimed", "posted", "answered"}
      /\ \A a \in replies : a.outcome # "accepted"
  <2>1. CASE revision = 0
    <3>1. Editable \/ (status = "draft" /\ endorsed = 0)
      BY <2>1 DEF EmailInvariant, ReviewsMatch
    <3>2. wire = {} /\ delivered = {}
      BY <3>1, EditableQuiet DEF EmailInvariant, StatusTruthful, Released
    <3> QED BY <3>1, <3>2, EditableQuiet
            DEF EmailInvariant, SendersMatch, AnswersTruthful
  <2>2. CASE Editable
    BY <2>2, EditableQuiet
  <2> QED BY <2>1, <2>2
<1>2. TypeOK'
  BY DEF EmailInvariant, TypeOK, Draft, SendStatus
<1>3. SendersMatch'
  BY <1>1 DEF EmailInvariant, SendersMatch
<1>4. CorrelationsFresh' /\ AnswersTruthful'
  BY <1>1 DEF EmailInvariant, TypeOK, CorrelationsFresh, AnswersTruthful, Released, Draft
<1>5. ReviewsMatch'
  BY DEF ReviewsMatch, Draft
<1>6. Promises'
  BY <1>1 DEF Promises, AtMostOneCopy, SentAsReviewed, StatusTruthful, Released, Draft
<1> QED BY <1>2, <1>3, <1>4, <1>5, <1>6 DEF EmailInvariant, Promises

LEMMA ReviewInvariant ==
    ASSUME EmailInvariant, NEW r \in 1..MaxRevisions, Review(r)
    PROVE  EmailInvariant'
<1> USE DEF Review, EmailInvariant
<1>1. status = "draft" /\ revision > 0
  BY DEF ReviewsMatch, TypeOK
<1>2. /\ wire = {} /\ delivered = {}
      /\ \A h \in Senders : send[h].phase \notin {"claimed", "posted", "answered"}
      /\ \A a \in replies : a.outcome # "accepted"
  BY <1>1, EditableQuiet DEF Editable
<1>3. TypeOK' /\ ReviewsMatch'
  BY DEF TypeOK, ReviewsMatch
<1>4. SendersMatch' /\ CorrelationsFresh' /\ AnswersTruthful'
  BY <1>2 DEF SendersMatch, CorrelationsFresh, AnswersTruthful, Released
<1>5. AtMostOneCopy' /\ SentAsReviewed' /\ StatusTruthful'
  BY <1>1, <1>2 DEF AtMostOneCopy, SentAsReviewed, StatusTruthful, Released
<1> QED BY <1>3, <1>4, <1>5

\* A step that only moves one send request, to a phase before its claim.
LEMMA MoveInvariant ==
    ASSUME EmailInvariant, NEW h \in Senders, NEW s \in Sending,
           s.phase \in {"idle", "read"}, s.phase = "read" => s.revision > 0,
           send' = [send EXCEPT ![h] = s],
           UNCHANGED <<current, row, reviewed, sends, wire, replies, delivered>>
    PROVE  EmailInvariant'
<1> USE DEF EmailInvariant, row
<1>1. send' \in [Senders -> Sending] /\ send'[h] = s
      /\ \A g \in Senders : g # h => send'[g] = send[g]
  BY DEF TypeOK
<1>2. TypeOK' /\ CorrelationsFresh' /\ ReviewsMatch'
  BY <1>1 DEF TypeOK, CorrelationsFresh, ReviewsMatch, Released
<1>3. SendersMatch' /\ AnswersTruthful'
  BY <1>1 DEF SendersMatch, AnswersTruthful, Released
<1>4. AtMostOneCopy' /\ SentAsReviewed' /\ StatusTruthful'
  BY DEF AtMostOneCopy, SentAsReviewed, StatusTruthful, Released
<1> QED BY <1>2, <1>3, <1>4

LEMMA SendReadInvariant ==
    ASSUME EmailInvariant, NEW h \in Senders, NEW r \in 1..MaxRevisions, SendRead(h, r)
    PROVE  EmailInvariant'
<1> DEFINE s == [phase |-> "read", revision |-> r, correlation |-> 0,
                 outcome |-> "uncertain"]
<1>1. s \in Sending /\ s.phase = "read" /\ s.revision > 0
  BY DEF Sending, Outcome
<1>2. send' = [send EXCEPT ![h] = s]
  BY DEF SendRead
<1> HIDE DEF s
<1> QED BY <1>1, <1>2, MoveInvariant DEF SendRead

LEMMA SendClaimInvariant ==
    ASSUME EmailInvariant, NEW h \in Senders, SendClaim(h)
    PROVE  EmailInvariant'
<1> USE DEF EmailInvariant, SendClaim, Claimable
<1>1. send[h] \in Sending /\ send[h].revision > 0 /\ send[h].revision \in Nat
  BY DEF TypeOK, SendersMatch, Sending
<1>2. /\ wire = {} /\ delivered = {}
      /\ \A g \in Senders : send[g].phase \notin {"claimed", "posted", "answered"}
      /\ \A a \in replies : a.outcome # "accepted"
  BY EditableQuiet
<1>3. endorsed = send[h].revision /\ status' = "submitting" /\ correlation' = sends + 1
  OBVIOUS
<1>4. /\ send' \in [Senders -> Sending]
      /\ send'[h].phase = "claimed" /\ send'[h].correlation = sends + 1
      /\ send'[h].revision = send[h].revision
      /\ \A g \in Senders : g # h => send'[g] = send[g]
  <2> DEFINE s == [phase |-> "claimed", revision |-> send[h].revision,
                   correlation |-> sends + 1, outcome |-> send[h].outcome]
  <2>1. s \in Sending /\ s.phase = "claimed" /\ s.correlation = sends + 1
        /\ s.revision = send[h].revision
    BY <1>1 DEF TypeOK, Sending
  <2>2. send' = [send EXCEPT ![h] = s] /\ send \in [Senders -> Sending]
    BY DEF TypeOK
  <2> HIDE DEF s
  <2> QED BY <2>1, <2>2
<1>5. TypeOK' /\ ReviewsMatch'
  BY <1>1, <1>3, <1>4 DEF TypeOK, ReviewsMatch, SendStatus
<1>6. CorrelationsFresh'
  BY <1>2, <1>3 DEF TypeOK, CorrelationsFresh, Released
<1>7. SendersMatch'
  BY <1>1, <1>2, <1>3, <1>4 DEF TypeOK, SendersMatch, CorrelationsFresh, Released
<1>8. AnswersTruthful'
  BY <1>2, <1>4 DEF AnswersTruthful, Released
<1>9. AtMostOneCopy' /\ SentAsReviewed' /\ StatusTruthful'
  BY <1>2, <1>3 DEF AtMostOneCopy, SentAsReviewed, StatusTruthful, Released
<1> QED BY <1>5, <1>6, <1>7, <1>8, <1>9

\* The request leaves: the first and only message of this correlation id.
LEMMA SubmitInvariant ==
    ASSUME EmailInvariant, NEW h \in Senders, Submit(h)
    PROVE  EmailInvariant'
<1> USE DEF EmailInvariant, row
<1>1. /\ send[h] \in Sending /\ send[h].phase = "claimed"
      /\ status = "submitting" /\ correlation = send[h].correlation
      /\ endorsed = send[h].revision
      /\ wire = {} /\ delivered = {}
      /\ \A a \in replies : a.correlation # send[h].correlation
  BY DEF Submit, TypeOK, SendersMatch, Released
<1>2. revision = send[h].revision /\ send[h].revision \in reviewed
  BY <1>1 DEF ReviewsMatch
<1>3. CASE wire' = wire \union {MessageOf(h)} /\ send' = [send EXCEPT ![h].phase = "posted"]
  <2>1. /\ send' \in [Senders -> Sending]
        /\ send'[h].phase = "posted" /\ send'[h].correlation = send[h].correlation
        /\ send'[h].revision = send[h].revision
        /\ \A g \in Senders : g # h => send'[g] = send[g]
    BY <1>1, <1>3 DEF TypeOK, Sending
  <2> DEFINE m == MessageOf(h)
  <2>2. /\ m \in Message /\ m.correlation = send[h].correlation
        /\ m.revision = send[h].revision /\ wire' = {m}
    BY <1>1, <1>3 DEF MessageOf, Message, Sending
  <2> HIDE DEF m
  <2>3. TypeOK' /\ ReviewsMatch' /\ CorrelationsFresh'
    BY <1>1, <2>1, <2>2 DEF Submit, TypeOK, ReviewsMatch, CorrelationsFresh, Released
  <2>4. SendersMatch'
    BY <1>1, <2>1 DEF Submit, SendersMatch
  <2>5. AnswersTruthful'
    BY <1>1, <2>1, <2>2 DEF Submit, AnswersTruthful, SendersMatch, Released
  <2>6. AtMostOneCopy' /\ SentAsReviewed' /\ StatusTruthful'
    BY <1>1, <1>2, <2>2 DEF Submit, AtMostOneCopy, SentAsReviewed, StatusTruthful, Released
  <2> QED BY <2>3, <2>4, <2>5, <2>6
<1>4. CASE /\ send' = [send EXCEPT ![h].phase = "answered", ![h].outcome = "failed"]
           /\ UNCHANGED wire
  <2>1. /\ send' \in [Senders -> Sending]
        /\ send'[h].phase = "answered" /\ send'[h].correlation = send[h].correlation
        /\ send'[h].revision = send[h].revision /\ send'[h].outcome = "failed"
        /\ \A g \in Senders : g # h => send'[g] = send[g]
    BY <1>1, <1>4 DEF TypeOK, Sending, Outcome
  <2>2. TypeOK' /\ ReviewsMatch' /\ CorrelationsFresh'
    BY <1>1, <1>4, <2>1 DEF Submit, TypeOK, ReviewsMatch, CorrelationsFresh, Released
  <2>3. SendersMatch' /\ AnswersTruthful'
    BY <1>1, <1>4, <2>1 DEF Submit, SendersMatch, AnswersTruthful, Released
  <2>4. AtMostOneCopy' /\ SentAsReviewed' /\ StatusTruthful'
    BY <1>1, <1>4 DEF Submit, AtMostOneCopy, SentAsReviewed, StatusTruthful, Released
  <2> QED BY <2>2, <2>3, <2>4
<1> QED BY <1>3, <1>4 DEF Submit

LEMMA AnswerInvariant ==
    ASSUME EmailInvariant, NEW h \in Senders, Answer(h)
    PROVE  EmailInvariant'
<1> USE DEF EmailInvariant, row
<1>1. PICK o \in Outcome :
         /\ \/ [correlation |-> send[h].correlation, outcome |-> o] \in replies
            \/ o = "uncertain"
         /\ send' = [send EXCEPT ![h].phase = "answered", ![h].outcome = o]
  BY DEF Answer, UnansweredOutcome
<1>2. /\ send[h] \in Sending /\ send[h].phase = "posted"
      /\ correlation = send[h].correlation
  BY DEF Answer, TypeOK, SendersMatch
<1>3. /\ o = "failed" => Released = {}
      /\ o = "accepted" => delivered # {}
  BY <1>1, <1>2 DEF AnswersTruthful, CorrelationsFresh
<1>4. /\ send' \in [Senders -> Sending]
      /\ send'[h].phase = "answered" /\ send'[h].correlation = send[h].correlation
      /\ send'[h].revision = send[h].revision /\ send'[h].outcome = o
      /\ \A g \in Senders : g # h => send'[g] = send[g]
  BY <1>1, <1>2 DEF TypeOK, Sending
<1>5. TypeOK' /\ ReviewsMatch' /\ CorrelationsFresh'
  BY <1>4 DEF Answer, TypeOK, ReviewsMatch, CorrelationsFresh, Released
<1>6. SendersMatch'
  BY <1>2, <1>4 DEF Answer, SendersMatch
<1>7. AnswersTruthful'
  BY <1>3, <1>4 DEF Answer, AnswersTruthful, Released
<1>8. AtMostOneCopy' /\ SentAsReviewed' /\ StatusTruthful'
  BY DEF Answer, AtMostOneCopy, SentAsReviewed, StatusTruthful, Released
<1> QED BY <1>5, <1>6, <1>7, <1>8

LEMMA SettleInvariant ==
    ASSUME EmailInvariant, NEW h \in Senders, Settle(h)
    PROVE  EmailInvariant'
<1> USE DEF EmailInvariant, Settle
<1>1. /\ send[h] \in Sending /\ send[h].phase = "answered"
      /\ status = "submitting" /\ correlation = send[h].correlation
      /\ send[h].outcome \in Outcome
  BY DEF TypeOK, SendersMatch, Sending
<1>2. status' = send[h].outcome
  BY <1>1
<1>3. /\ send' \in [Senders -> Sending] /\ send'[h].phase = "idle"
      /\ \A g \in Senders : g # h => send'[g] = send[g]
  BY IdleType DEF TypeOK
<1>4. \A g \in Senders : send'[g].phase \notin {"claimed", "posted", "answered"}
  BY <1>1, <1>3 DEF SendersMatch
<1>5. TypeOK' /\ ReviewsMatch' /\ CorrelationsFresh'
  BY <1>1, <1>2, <1>3
  DEF TypeOK, ReviewsMatch, CorrelationsFresh, Released, Outcome, SendStatus
<1>6. SendersMatch' /\ AnswersTruthful'
  BY <1>3, <1>4 DEF SendersMatch, AnswersTruthful, Released
<1>7. AtMostOneCopy' /\ SentAsReviewed'
  BY <1>1, <1>2 DEF AtMostOneCopy, SentAsReviewed, Released
<1>8. StatusTruthful'
  BY <1>1, <1>2 DEF StatusTruthful, AnswersTruthful, Released, Outcome
<1> QED BY <1>5, <1>6, <1>7, <1>8

LEMMA ProviderInvariant ==
    ASSUME EmailInvariant, NEW m \in wire, Provider(m)
    PROVE  EmailInvariant'
<1> USE DEF EmailInvariant, Provider, row
<1>1. /\ m \in Released /\ m \notin delivered /\ m \in Message
      /\ wire = {m} /\ delivered = {}
      /\ correlation = m.correlation
  BY DEF Released, TypeOK, AtMostOneCopy, CorrelationsFresh
<1>2. \A h \in Senders :
         /\ send[h].phase # "claimed"
         /\ send[h].phase = "answered" => send[h].outcome = "uncertain"
  BY <1>1 DEF SendersMatch, AnswersTruthful, TypeOK, Sending, Outcome
<1>3. \A a \in replies : a.correlation = m.correlation => a.outcome = "uncertain"
  BY <1>1 DEF AnswersTruthful, TypeOK, Outcome
<1>4. \A a \in replies : a.outcome # "accepted"
  BY <1>1 DEF AnswersTruthful
<1>5. m.correlation <= sends /\ m.correlation \in Nat
  BY <1>1 DEF CorrelationsFresh, Message
<1>6. CASE Deliver(m)
  <2>1. wire' = {} /\ delivered' = {m}
    BY <1>1, <1>6 DEF Deliver
  <2>2. PICK o \in {"accepted", "uncertain"} :
           replies' = replies \union {[correlation |-> m.correlation, outcome |-> o]}
    BY <1>6 DEF Deliver
  <2>3. TypeOK' /\ ReviewsMatch'
    BY <1>1, <1>5, <2>1, <2>2 DEF TypeOK, ReviewsMatch, Outcome
  <2>4. CorrelationsFresh' /\ SendersMatch'
    BY <1>1, <1>2, <1>5, <2>1, <2>2 DEF CorrelationsFresh, SendersMatch, Released
  <2>5. AnswersTruthful'
    BY <1>2, <1>3, <1>4, <2>1, <2>2 DEF AnswersTruthful, Released
  <2>6. AtMostOneCopy' /\ SentAsReviewed' /\ StatusTruthful'
    BY <1>1, <2>1 DEF AtMostOneCopy, SentAsReviewed, StatusTruthful, Released
  <2> QED BY <2>3, <2>4, <2>5, <2>6
<1>7. CASE Discard(m)
  <2>1. wire' = {} /\ delivered' = {}
    BY <1>1, <1>7 DEF Discard
  <2>2. PICK o \in {"failed", "uncertain"} :
           replies' = replies \union {[correlation |-> m.correlation, outcome |-> o]}
    BY <1>7 DEF Discard
  <2>3. TypeOK' /\ ReviewsMatch'
    BY <1>1, <1>5, <2>1, <2>2 DEF TypeOK, ReviewsMatch, Outcome
  <2>4. CorrelationsFresh' /\ SendersMatch'
    BY <1>1, <1>2, <1>5, <2>1, <2>2 DEF CorrelationsFresh, SendersMatch, Released
  <2>5. AnswersTruthful'
    BY <1>2, <1>3, <1>4, <2>1, <2>2 DEF AnswersTruthful, Released
  <2>6. AtMostOneCopy' /\ SentAsReviewed' /\ StatusTruthful'
    BY <1>1, <2>1 DEF AtMostOneCopy, SentAsReviewed, StatusTruthful, Released
  <2> QED BY <2>3, <2>4, <2>5, <2>6
<1> QED BY <1>6, <1>7

LEMMA NextInvariant == EmailInvariant /\ [EmailNext]_emailVars => EmailInvariant'
<1> SUFFICES ASSUME EmailInvariant, [EmailNext]_emailVars PROVE EmailInvariant'
  OBVIOUS
<1>1. CASE UNCHANGED emailVars \/ ReplaceApproval
  BY <1>1 DEF emailVars, row, ReplaceApproval, EmailInvariant, TypeOK, SendersMatch,
     CorrelationsFresh, AnswersTruthful, ReviewsMatch, AtMostOneCopy,
     SentAsReviewed, StatusTruthful, Released
<1>2. CASE Open \/ \E r \in 1..MaxRevisions : Save(r)
  <2>1. PICK r \in Nat \ {0} : Draft(r)
    BY <1>2 DEF Open, Save
  <2> QED BY <1>2, <2>1, ContentInvariant DEF Open, Save
<1>3. CASE \E r \in 1..MaxRevisions : Review(r)
  BY <1>3, ReviewInvariant
<1>4. ASSUME NEW h \in Senders, NEW r \in 1..MaxRevisions, SendRead(h, r)
      PROVE  EmailInvariant'
  BY <1>4, SendReadInvariant
<1>5. ASSUME NEW h \in Senders, SendClaim(h) \/ Submit(h) PROVE EmailInvariant'
  BY <1>5, SendClaimInvariant, SubmitInvariant
<1>6. ASSUME NEW h \in Senders, Answer(h) \/ Settle(h) PROVE EmailInvariant'
  BY <1>6, AnswerInvariant, SettleInvariant
<1>7. ASSUME NEW h \in Senders, Stop(h) PROVE EmailInvariant'
  BY <1>7, MoveInvariant, IdleType DEF Stop
<1>8. ASSUME NEW m \in wire, Provider(m) PROVE EmailInvariant'
  BY <1>8, ProviderInvariant
<1> QED BY <1>1, <1>2, <1>3, <1>4, <1>5, <1>6, <1>7, <1>8 DEF EmailNext

\* The inductive invariant of the e-mail, its senders and the provider.
THEOREM EmailInvariantHolds == EmailSpec => []EmailInvariant
  BY InitInvariant, NextInvariant, PTL DEF EmailSpec

\* No retry, race, lost answer or crash makes the supplier get a second copy.
THEOREM SuppliersGetOneCopy == EmailSpec => []AtMostOneCopy
<1>1. EmailInvariant => AtMostOneCopy
  BY DEF EmailInvariant
<1> QED BY <1>1, EmailInvariantHolds, PTL

\* What leaves is the reviewed revision the case keeps showing.
THEOREM OnlyReviewedIsSent == EmailSpec => []SentAsReviewed
<1>1. EmailInvariant => SentAsReviewed
  BY DEF EmailInvariant
<1> QED BY <1>1, EmailInvariantHolds, PTL

\* The recorded send status is never more definite than the facts.
THEOREM StatusIsTruthful == EmailSpec => []StatusTruthful
<1>1. EmailInvariant => StatusTruthful
  BY DEF EmailInvariant
<1> QED BY <1>1, EmailInvariantHolds, PTL

-----------------------------------------------------------------------------
(* The e-mail is reviewed mail *)

Claimed == \E h \in Senders : send[h].phase = "claimed"

\* Where the letter is, one place at a time.
OnePlace ==
    /\ wire # {} \/ Claimed => delivered = {}
    /\ Claimed => wire = {}
    /\ \A m \in wire : wire = {m}
    /\ Fate = "arrived" <=> delivered # {}
    /\ Fate = "underway" <=> wire # {} \/ Claimed
    /\ Fate = "unsent" <=> wire = {} /\ delivered = {} /\ ~Claimed

LEMMA FateFacts == EmailInvariant => OnePlace
<1> SUFFICES ASSUME EmailInvariant PROVE OnePlace
  OBVIOUS
<1>1. Claimed => Released = {}
  BY DEF Claimed, EmailInvariant, SendersMatch
<1>2. \A m \in wire : \A n \in wire \union delivered : n = m
  BY DEF EmailInvariant, AtMostOneCopy, Released
<1>3. \A m \in wire : wire = {m} /\ delivered = {}
  BY <1>2 DEF EmailInvariant, CorrelationsFresh
<1> QED BY <1>1, <1>3 DEF Released, Claimed, Fate, OnePlace

LEMMA FateFactsAfter == EmailInvariant' => OnePlace'
  BY FateFacts, PTL

\* While the e-mail may be edited or claimed, no letter is out.
LEMMA EditableUnsent ==
    ASSUME EmailInvariant, revision = 0 \/ Editable
    PROVE  Fate = "unsent" /\ status \in {"draft", "failed"} /\ wire = {} /\ delivered = {} /\ ~Claimed
<1>1. status \in {"draft", "failed"}
  BY DEF EmailInvariant, ReviewsMatch, Editable, TypeOK, SendStatus
<1>2. wire = {} /\ delivered = {} /\ ~Claimed
  BY <1>1 DEF EmailInvariant, StatusTruthful, SendersMatch, Claimed, Released
<1> QED BY <1>1, <1>2, FateFacts DEF OnePlace

LEMMA ContentRefines ==
    ASSUME EmailInvariant, EmailInvariant',
           \/ Open \/ ReplaceApproval \/ \E r \in 1..MaxRevisions : Save(r) \/ Review(r)
    PROVE  Letter!Next
<1>1. Fate' = Fate
  BY DEF Open, ReplaceApproval, Save, Review, Fate
<1>2. CASE Open \/ \E r \in 1..MaxRevisions : Save(r)
  <2>1. Fate = "unsent" /\ status \in {"draft", "failed"}
    BY <1>2, EditableUnsent DEF Open, Save
  <2>2. Letter!Write
    BY <1>1, <1>2, <2>1 DEF Open, Save, Draft, Letter!Write
  <2> QED BY <2>2 DEF Letter!Next
<1>3. ASSUME NEW r \in 1..MaxRevisions, Review(r) PROVE Letter!Next
  <2>1. endorsed = 0 /\ status = "draft" /\ revision > 0
    BY <1>3 DEF Review, EmailInvariant, ReviewsMatch
  <2>2. Letter!Endorse
    BY <1>1, <1>3, <2>1 DEF Review, Letter!Endorse
  <2> QED BY <2>2 DEF Letter!Next
<1>4. CASE ReplaceApproval
  BY <1>1, <1>4 DEF ReplaceApproval, row, Letter!Withdraw, Letter!Next
<1> QED BY <1>2, <1>3, <1>4

LEMMA ClaimRefines ==
    ASSUME EmailInvariant, EmailInvariant', NEW h \in Senders, SendClaim(h)
    PROVE  Letter!Next
<1>1. Editable /\ endorsed = send[h].revision /\ endorsed # 0 /\ current
  BY DEF SendClaim, Claimable, EmailInvariant, SendersMatch
<1>2. Fate = "unsent" /\ status \in {"draft", "failed"}
  BY <1>1, EditableUnsent
<1>3. Claimed'
  BY DEF SendClaim, Claimed, EmailInvariant, TypeOK
<1>4. Fate' = "underway"
  BY <1>3, FateFactsAfter DEF OnePlace
<1>5. endorsed = revision
  BY <1>1 DEF EmailInvariant, ReviewsMatch
<1>6. Letter!Dispatch
  BY <1>1, <1>2, <1>4, <1>5 DEF SendClaim, Letter!Dispatch
<1> QED BY <1>6 DEF Letter!Next

\* A request that moves on from its claim, or loses it, and the others stay.
LEMMA ClaimsPass ==
    ASSUME EmailInvariant, NEW h \in Senders, NEW s, s.phase # "claimed",
           send' = [send EXCEPT ![h] = s]
    PROVE  Claimed' <=> (Claimed /\ send[h].phase # "claimed")
<1>1. send \in [Senders -> Sending]
  BY DEF EmailInvariant, TypeOK
<1>2. /\ send'[h].phase # "claimed"
      /\ \A g \in Senders : g # h => send'[g] = send[g]
  BY <1>1
<1>3. \A g \in Senders : send[g].phase = "claimed" /\ send[h].phase = "claimed" => g = h
  BY DEF EmailInvariant, SendersMatch
<1> QED BY <1>2, <1>3 DEF Claimed

LEMMA SenderRefines ==
    ASSUME EmailInvariant, EmailInvariant', NEW h \in Senders,
           \/ \E r \in 1..MaxRevisions : SendRead(h, r)
           \/ Submit(h) \/ Answer(h) \/ Settle(h) \/ Stop(h)
    PROVE  [Letter!Next]_Letter!mailVars
<1>0. send \in [Senders -> Sending]
  BY DEF EmailInvariant, TypeOK
<1>1. CASE \E r \in 1..MaxRevisions : SendRead(h, r)
  <2>1. PICK r \in 1..MaxRevisions : SendRead(h, r)
    BY <1>1
  <2> DEFINE s == [phase |-> "read", revision |-> r, correlation |-> 0, outcome |-> "uncertain"]
  <2>2. s.phase = "read" /\ send' = [send EXCEPT ![h] = s] /\ send[h].phase = "idle"
    BY <2>1 DEF SendRead
  <2> HIDE DEF s
  <2>3. Claimed' = Claimed
    BY <2>2, ClaimsPass DEF Claimed
  <2>4. Fate' = Fate
    BY <2>1, <2>3 DEF SendRead, Fate, Claimed
  <2> QED BY <2>1, <2>4 DEF SendRead, row, Letter!mailVars
<1>2. CASE Submit(h)
  <2>1. /\ Claimed /\ Fate = "underway" /\ UNCHANGED <<current, row, delivered>>
        /\ delivered' = {}
    BY <1>2, FateFacts DEF OnePlace, Submit, Claimed
  <2>2. CASE wire' # {}
    <3>1. Fate' = "underway"
      BY <2>2, FateFactsAfter DEF OnePlace
    <3> QED BY <2>1, <3>1 DEF row, Letter!mailVars
  <2>3. CASE wire' = {}
    <3>1. send' = [send EXCEPT ![h] = [@ EXCEPT !.phase = "answered", !.outcome = "failed"]]
      BY <1>0, <1>2, <2>3 DEF Submit
    <3>2. [send[h] EXCEPT !.phase = "answered", !.outcome = "failed"].phase = "answered"
      BY <1>0 DEF Sending
    <3>3. ~Claimed'
      BY <1>2, <3>1, <3>2, ClaimsPass DEF Submit
    <3>4. Fate' = "unsent"
      BY <2>1, <2>3, <3>3, FateFactsAfter DEF OnePlace
    <3>5. Letter!Lose
      BY <2>1, <3>4 DEF row, Letter!Lose
    <3> QED BY <3>5 DEF Letter!Next
  <2> QED BY <2>2, <2>3
<1>3. CASE Answer(h)
  <2>1. PICK o \in Outcome : send' = [send EXCEPT ![h] = [@ EXCEPT !.phase = "answered", !.outcome = o]]
    BY <1>0, <1>3 DEF Answer
  <2>2. [send[h] EXCEPT !.phase = "answered", !.outcome = o].phase = "answered"
    BY <1>0 DEF Sending
  <2>3. Claimed' = Claimed
    BY <1>3, <2>1, <2>2, ClaimsPass DEF Answer, Claimed
  <2>4. Fate' = Fate
    BY <1>3, <2>3 DEF Answer, Fate, Claimed
  <2> QED BY <1>3, <2>4 DEF Answer, row, Letter!mailVars
<1>4. CASE Settle(h)
  <2>1. Claimed' = Claimed
    BY <1>4, ClaimsPass, IdleType DEF Settle, Claimed
  <2>2. Fate' = Fate
    BY <1>4, <2>1 DEF Settle, Fate, Claimed
  <2>3. status = "submitting" /\ status' = send[h].outcome /\ send[h].outcome \in Outcome
    BY <1>0, <1>4 DEF Settle, EmailInvariant, SendersMatch, Sending
  <2>4. /\ send[h].outcome = "failed" => Released = {}
        /\ send[h].outcome = "accepted" => delivered # {}
    BY <1>4 DEF Settle, EmailInvariant, AnswersTruthful
  <2>5. ~Claimed
    BY <1>4 DEF Settle, Claimed, EmailInvariant, SendersMatch
  <2>6. /\ send[h].outcome = "accepted" => Fate = "arrived"
        /\ send[h].outcome = "failed" => Fate = "unsent"
    BY <2>4, <2>5, FateFacts DEF OnePlace, Released
  <2>7. Letter!Tell(send[h].outcome)
    BY <1>4, <2>2, <2>3, <2>6 DEF Settle, Letter!Tell
  <2> QED BY <2>3, <2>7 DEF Letter!Next, Outcome
<1>5. CASE Stop(h)
  <2>1. Claimed' <=> (Claimed /\ send[h].phase # "claimed")
    BY <1>5, ClaimsPass, IdleType DEF Stop
  <2>2. CASE send[h].phase = "claimed"
    <3>1. Claimed /\ Fate = "underway" /\ wire = {} /\ delivered = {}
      BY <2>2, FateFacts DEF OnePlace, Claimed
    <3>2. Fate' = "unsent"
      BY <1>5, <2>1, <2>2, <3>1, FateFactsAfter DEF OnePlace, Stop
    <3>3. Letter!Lose
      BY <1>5, <3>1, <3>2 DEF Stop, row, Letter!Lose
    <3> QED BY <3>3 DEF Letter!Next
  <2>3. CASE send[h].phase # "claimed"
    <3>1. Fate' = Fate
      BY <1>5, <2>1, <2>3 DEF Stop, Fate, Claimed
    <3> QED BY <1>5, <3>1 DEF Stop, row, Letter!mailVars
  <2> QED BY <2>2, <2>3
<1> QED BY <1>1, <1>2, <1>3, <1>4, <1>5

LEMMA ProviderRefines ==
    ASSUME EmailInvariant, EmailInvariant', NEW m \in wire, Provider(m)
    PROVE  Letter!Next
<1>1. Fate = "underway" /\ wire' = {} /\ delivered = {} /\ ~Claimed
  BY FateFacts DEF OnePlace, Provider
<1>2. CASE Deliver(m)
  <2>1. Fate' = "arrived"
    BY <1>2, FateFactsAfter DEF OnePlace, Deliver
  <2>2. Letter!Arrive
    BY <1>1, <2>1 DEF Provider, row, Letter!Arrive
  <2> QED BY <2>2 DEF Letter!Next
<1>3. CASE Discard(m)
  <2>1. delivered' = {} /\ ~Claimed'
    BY <1>1, <1>3 DEF Discard, Provider, Claimed
  <2>2. Fate' = "unsent"
    BY <1>1, <2>1, FateFactsAfter DEF OnePlace
  <2>3. Letter!Lose
    BY <1>1, <2>2 DEF Provider, row, Letter!Lose
  <2> QED BY <2>3 DEF Letter!Next
<1> QED BY <1>2, <1>3 DEF Provider

\* Racing send requests, lost or late answers and dying processes never show:
\* for any number of them the e-mail behaves as a letter that is dispatched
\* only as reviewed, arrives at most once and of which only the truth is told.
THEOREM EmailIsReviewedMail == EmailSpec => ImplementsReviewedMail
<1>1. EmailInit => Letter!Init
  BY IdleType DEF EmailInit, Letter!Init, Fate
<1>2. EmailInvariant /\ EmailInvariant' /\ [EmailNext]_emailVars => [Letter!Next]_Letter!mailVars
  <2> SUFFICES ASSUME EmailInvariant, EmailInvariant', [EmailNext]_emailVars
               PROVE  [Letter!Next]_Letter!mailVars
    OBVIOUS
  <2>1. CASE UNCHANGED emailVars
    BY <2>1 DEF emailVars, row, Fate, Letter!mailVars
  <2>2. CASE EmailNext
    BY <2>2, ContentRefines, ClaimRefines, SenderRefines, ProviderRefines DEF EmailNext
  <2> QED BY <2>1, <2>2
<1> QED BY <1>1, <1>2, EmailInvariantHolds, PTL DEF EmailSpec, ImplementsReviewedMail, Letter!Spec
=============================================================================
