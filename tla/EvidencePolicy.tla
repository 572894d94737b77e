--------------------------- MODULE EvidencePolicy ---------------------------
(***************************************************************************)
(* services/policy/evidence.py: which evidence may carry an analysis, and  *)
(* what blocks when it may not.  An instant is a natural number; the       *)
(* retrieval clock and the scenario clock are different clocks.  A text    *)
(* field is only present or blank.  Never is an absent instant.            *)
(***************************************************************************)
EXTENDS Integers, FiniteSets

CONSTANTS Never,             \* no instant: None in the code
          RetrievalWindow    \* EVIDENCE_RETRIEVAL_WINDOW

Operational == {"operational_quantity", "operational_date", "qualification_state"}
Statements == {"supplier_statement", "collaboration_statement"}
AuthorityScopes == Operational \union Statements \union {"prerequisite_approval"}

EvidenceItem ==
    [id : STRING, kind : {"operational_fact", "source_statement",
                          "prerequisite_approval", "contextual_evidence"},
     scope : SUBSET AuthorityScopes,
     system : {"fabric", "sqlite", "work_iq", "server", "synthetic_fixture"},
     mode : {"live", "fallback"}, required : BOOLEAN,
     source_time : Nat \union {Never}, retrieved_at : Nat \union {Never},
     for_this_analysis : BOOLEAN, healthy : BOOLEAN,
     effective_at : Nat \union {Never}, expires_at : Nat \union {Never},
     uncertainty : {"certain", "uncertain", "conflicted"},
     citation : BOOLEAN, metadata : BOOLEAN]

SourceAuthority(system) ==
    CASE system \in {"fabric", "sqlite"} -> Operational
      [] system = "work_iq" -> Statements
      [] system = "server" -> {"prerequisite_approval"}
      [] system = "synthetic_fixture" -> Operational \union Statements

SourceRuntimeModes(system) ==
    CASE system \in {"fabric", "work_iq"} -> {"live"}
      [] system \in {"sqlite", "synthetic_fixture"} -> {"fallback"}
      [] system = "server" -> {"live", "fallback"}

KindAuthority(kind) ==
    CASE kind = "operational_fact" -> Operational
      [] kind \in {"source_statement", "contextual_evidence"} -> Statements
      [] kind = "prerequisite_approval" -> {"prerequisite_approval"}

ValidatedScope(item, mode) ==
    IF item.mode = mode /\ mode \in SourceRuntimeModes(item.system)
    THEN item.scope \intersect SourceAuthority(item.system) \intersect KindAuthority(item.kind)
    ELSE {}

-----------------------------------------------------------------------------
(* Conflicts between items, and who may resolve one *)

PersonaRoles(persona) ==
    CASE persona = "alex" -> {"material_planner", "response_approver"}
      [] persona = "jordan" -> {"quality_approver"}
      [] persona = "taylor" -> {"finance_approver"}
      [] OTHER -> {}

ScopeResolverRoles(scope) ==
    CASE scope = "qualification_state" -> {"quality_approver"}
      [] scope = "collaboration_statement" ->
            {"material_planner", "quality_approver", "response_approver"}
      [] scope = "prerequisite_approval" ->
            {"material_planner", "finance_approver", "quality_approver",
             "response_approver"}
      [] OTHER -> {"material_planner", "response_approver"}

\* _actor_is_authorized; entra: the persona's own Entra identity
ActorAuthorized(scope, actor) ==
    /\ actor.entra
    /\ actor.roles # {}
    /\ "agent" \notin actor.roles
    /\ actor.roles \subseteq PersonaRoles(actor.persona)
    /\ scope # {}
    /\ \E role \in actor.roles : \A s \in scope : role \in ScopeResolverRoles(s)

\* _validated_conflict_scope raises unless this holds
ConflictScopeValid(conflict, items, mode) ==
    /\ conflict.ids # {}
    /\ conflict.scope # {}
    /\ \A id \in conflict.ids :
          \E item \in items : item.id = id /\ conflict.scope \subseteq ValidatedScope(item, mode)

\* _resolution_is_valid
Resolves(resolution, conflict) ==
    /\ resolution.conflict = conflict.id
    /\ resolution.governing \in conflict.ids
    /\ ActorAuthorized(conflict.scope, resolution.actor)

Unresolved(bundle) ==
    {c \in bundle.conflicts : c.relevant /\ ~\E r \in bundle.resolutions : Resolves(r, c)}

ConflictedIds(bundle) == UNION {c.ids : c \in Unresolved(bundle)}

-----------------------------------------------------------------------------
(* One item *)

TimestampsOrdered(item) ==
    /\ item.source_time # Never
    /\ item.retrieved_at # Never
    /\ item.source_time <= item.retrieved_at

CurrentRetrieval(item) == item.for_this_analysis /\ item.healthy

\* Mutant: the window has a start and no end.
RetrievedSinceStart(item, at) ==
    item.retrieved_at # Never /\ at.started <= item.retrieved_at

RetrievalInWindow(item, at) ==
    /\ item.retrieved_at # Never
    /\ at.started <= item.retrieved_at
    /\ item.retrieved_at <= at.started + RetrievalWindow
    /\ item.retrieved_at <= at.recorded

BusinessValidity(item, at) ==
    CASE item.effective_at # Never /\ at.scenario < item.effective_at -> "not_yet_effective"
      [] item.expires_at # Never /\ at.scenario >= item.expires_at -> "expired"
      [] OTHER -> "valid"

\* _item_validation.  at: the analysis' clock readings and runtime mode.
ItemValidation(item, at, conflicted) ==
    LET scope == ValidatedScope(item, at.mode)
        scopeValid == /\ item.kind # "contextual_evidence"
                      /\ item.scope # {} /\ item.scope \subseteq scope
        liveWorkIQ == item.required /\ at.mode = "live" /\ item.system = "work_iq"
        current == /\ TimestampsOrdered(item) /\ CurrentRetrieval(item)
                   /\ RetrievalInWindow(item, at)
        validity == BusinessValidity(item, at)
        state == IF item.id \in conflicted THEN "conflicted" ELSE item.uncertainty
        codes == {c \in {"AUTHORITY_SCOPE_MISMATCH"} : ~scopeValid}
            \union {c \in {"REQUIRED_CITATION_MISSING"} : liveWorkIQ /\ ~item.citation}
            \union {c \in {"REQUIRED_SOURCE_METADATA_MISSING"} : liveWorkIQ /\ ~item.metadata}
            \union {c \in {"EVIDENCE_TIMESTAMP_STALE"} :
                       item.required /\ ~TimestampsOrdered(item)}
            \union {c \in {"RETRIEVAL_HEALTH_UNACCEPTABLE"} :
                       item.required /\ ~CurrentRetrieval(item)}
            \union {c \in {"EVIDENCE_RETRIEVAL_OUTSIDE_WINDOW"} :
                       item.required /\ ~RetrievalInWindow(item, at)}
            \union {c \in {"EVIDENCE_NOT_YET_EFFECTIVE"} :
                       item.required /\ validity = "not_yet_effective"}
            \union {c \in {"EVIDENCE_EXPIRED"} : item.required /\ validity = "expired"}
    IN  [scope |-> scope, freshness |-> IF current THEN "current" ELSE "stale",
         validity |-> validity, uncertainty |-> state, codes |-> codes,
         authoritative |-> /\ item.required /\ scopeValid /\ current
                           /\ validity = "valid" /\ state # "conflicted" /\ codes = {}]

-----------------------------------------------------------------------------
(* validate_required_evidence over a bundle: items, conflicts, resolutions *)

\* PolicyViolation: the analysis is refused, nothing is validated
PolicyViolation(bundle, at) ==
    \/ at.recorded < at.started
    \/ \E item \in bundle.items :
          item.retrieved_at # Never /\ item.retrieved_at > at.recorded
    \/ \E c \in bundle.conflicts : ~ConflictScopeValid(c, bundle.items, at.mode)
    \/ \E r \in bundle.resolutions : ~\E c \in bundle.conflicts : Resolves(r, c)

\* item_results by evidence id, and the codes that block every mitigation
ValidateRequiredEvidence(bundle, at) ==
    LET result == [id \in {item.id : item \in bundle.items} |->
            ItemValidation(CHOOSE item \in bundle.items : item.id = id, at,
                           ConflictedIds(bundle))]
        authoritative == UNION {result[id].scope :
                                id \in {i \in DOMAIN result : result[i].authoritative}}
        mismatch == ~(bundle.required_scope \subseteq authoritative)
        required == {item.id : item \in {i \in bundle.items : i.required}}
    IN  [items |-> result,
         global_codes |-> {c \in {"AUTHORITY_SCOPE_MISMATCH"} : mismatch},
         codes |-> UNION {result[id].codes : id \in required}
                   \union {c \in {"EVIDENCE_CONFLICT_UNRESOLVED"} : Unresolved(bundle) # {}}
                   \union {c \in {"AUTHORITY_SCOPE_MISMATCH"} : mismatch}]
=============================================================================
