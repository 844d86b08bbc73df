---------------------------- MODULE TenantRules ----------------------------
(***************************************************************************)
(* What a tenant's plan and features allow (governance/tenant.py), what the *)
(* policy engine answers to one request (governance/policy_engine.py), and  *)
(* how long a plan keeps an artifact (governance/retention.py).  All three  *)
(* are functions of their arguments.  Times are in minutes.                 *)
(***************************************************************************)
EXTENDS Integers, FiniteSets

Hour == 60
Day == 24 * Hour

AtMost(n, cap) == IF n < cap THEN n ELSE cap

-----------------------------------------------------------------------------
(* governance/tenant.py                                                      *)

PlanTier == {"FREE", "PRO", "MAX", "ENTERPRISE"}
FeatureFlag ==
    {"RESEARCH_ENABLED", "DEEPTHINK_ENABLED", "MEMORY_ENABLED", "EXPORT_ENABLED", "AUDIT_ENABLED"}
ToolKind == {"DOCS", "WEB", "NONE"}
TTLClassLabel == {Hour, Day, 10 * Day}

PLAN_TOOLS ==
    [FREE |-> {}, PRO |-> {"DOCS"}, MAX |-> {"DOCS", "WEB"}, ENTERPRISE |-> {"DOCS", "WEB"}]
PLAN_DEEPTHINK_PASSES == [FREE |-> 0, PRO |-> 1, MAX |-> 3, ENTERPRISE |-> 4]
PLAN_MEMORY_TTL_CAP == [FREE |-> Hour, PRO |-> Day, MAX |-> 10 * Day, ENTERPRISE |-> 10 * Day]

\* Deviation: the entries of the two largest plans are swapped.
FactsSwapped == [FREE |-> 8, PRO |-> 16, MAX |-> 32, ENTERPRISE |-> 24]

PLAN_MEMORY_MAX_FACTS == [FREE |-> 8, PRO |-> 16, MAX |-> 24, ENTERPRISE |-> 32]
PLAN_EXPORT_DEFAULT == [FREE |-> FALSE, PRO |-> FALSE, MAX |-> FALSE, ENTERPRISE |-> TRUE]

\* A configuration is its plan, its features, its regions, and whether its other
\* fields are well formed.
TenantConfig(Regions) ==
    [plan : PlanTier, features : SUBSET FeatureFlag, regions : SUBSET Regions, valid : BOOLEAN]

NoCaps == [research |-> FALSE, tools |-> {}, passes |-> 0, ttl |-> Hour, facts |-> 0, export |-> FALSE]

\* resolve_tenant_caps: hints only add notes to the answer.
Caps(cfg) ==
    IF ~cfg.valid THEN NoCaps
    ELSE LET has(f) == f \in cfg.features IN
         [research |-> has("RESEARCH_ENABLED"),
          tools |-> IF has("RESEARCH_ENABLED") THEN PLAN_TOOLS[cfg.plan] ELSE {},
          passes |-> IF has("DEEPTHINK_ENABLED") THEN PLAN_DEEPTHINK_PASSES[cfg.plan] ELSE 0,
          ttl |-> PLAN_MEMORY_TTL_CAP[cfg.plan],
          facts |-> IF has("MEMORY_ENABLED") THEN PLAN_MEMORY_MAX_FACTS[cfg.plan] ELSE 0,
          export |-> PLAN_EXPORT_DEFAULT[cfg.plan] /\ has("EXPORT_ENABLED")]

-----------------------------------------------------------------------------
(* governance/policy_engine.py                                               *)

OperationType ==
    {"TOOL_CALL", "MEMORY_READ", "MEMORY_WRITE_PHASE17", "MEMORY_WRITE_PHASE18", "LOGGING",
     "EXPORT_REQUEST", "ADMIN_ACTION"}

MAX_TOOL_CALLS == 32
MAX_MEMORY_FACTS == 64
DEFAULT_MEMORY_READ_MAX_FACTS == 32

Minimal == 0
Standard == 1
Verbose == 2
LoggingLevel == {Minimal, Standard, Verbose}

Scopes == {"basic", "audit"}

None == "none"

\* What a caller may ask for.  A field that is not there asks for the most: only the
\* clamp notes tell the two apart.  A dictionary that is not safe (a forbidden key,
\* a sentinel in a value) counts as no request at all.
RequestedParams(Regions) ==
    [tool : ToolKind \cup {None}, region : Regions \cup {None}, admin : BOOLEAN,
     calls : 0..MAX_TOOL_CALLS, facts : 0..MAX_MEMORY_FACTS, ttl : TTLClassLabel,
     log : LoggingLevel, scopes : SUBSET Scopes, safe : BOOLEAN]

NoRequest ==
    [tool |-> None, region |-> None, admin |-> FALSE, calls |-> MAX_TOOL_CALLS,
     facts |-> MAX_MEMORY_FACTS, ttl |-> 10 * Day, log |-> Verbose, scopes |-> Scopes,
     safe |-> TRUE]

Normalized(requested) == IF requested.safe THEN requested ELSE NoRequest

NoLimits ==
    [tools |-> {}, calls |-> 0, passes |-> 0, memory |-> FALSE, ttl |-> Hour, facts |-> 0,
     readFacts |-> 0, export |-> FALSE, scopes |-> {}, log |-> Minimal, regions |-> {}]

Decision(allowed, reason, limits) == [allowed |-> allowed, reason |-> reason, limits |-> limits]

FailClosed(reason) == Decision(FALSE, reason, NoLimits)

BaseLimits(cfg) ==
    LET caps == Caps(cfg) IN
    [tools |-> caps.tools, calls |-> AtMost(caps.passes * 2, MAX_TOOL_CALLS),
     passes |-> caps.passes, memory |-> caps.facts > 0, ttl |-> caps.ttl,
     facts |-> caps.facts, readFacts |-> AtMost(caps.facts, DEFAULT_MEMORY_READ_MAX_FACTS),
     export |-> caps.export, scopes |-> IF caps.export THEN {"basic"} ELSE {},
     log |-> Standard, regions |-> cfg.regions]

\* _check_operation_allowed; an administrator's request that names no action passes.
Denial(op, caps, requested) ==
    CASE op = "TOOL_CALL" /\ ~caps.research -> "FEATURE_DISABLED"
      [] op = "TOOL_CALL" /\ caps.research /\ requested.tool # None /\ requested.tool \notin caps.tools ->
            "TOOL_NOT_ALLOWED"
      [] op = "MEMORY_READ" /\ caps.facts = 0 -> "MEMORY_READ_NOT_ALLOWED"
      [] op \in {"MEMORY_WRITE_PHASE17", "MEMORY_WRITE_PHASE18"} /\ caps.facts = 0 ->
            "MEMORY_WRITE_NOT_ALLOWED"
      [] op = "EXPORT_REQUEST" /\ ~caps.export -> "EXPORT_NOT_ALLOWED"
      [] op = "ADMIN_ACTION" /\ requested.admin -> "ADMIN_NOT_ALLOWED"
      [] OTHER -> "ALLOWED"

\* Deviation: a lifetime is taken as it was requested.
ClampedButTtl(limits, requested) ==
    [limits EXCEPT !.calls = AtMost(@, requested.calls), !.ttl = requested.ttl,
                   !.facts = AtMost(@, requested.facts),
                   !.readFacts = AtMost(@, requested.facts),
                   !.log = AtMost(@, requested.log), !.scopes = @ \cap requested.scopes]

\* _apply_requested_clamping; the bounds of _enforce_bounds_and_ordering are above
\* every entry of the tables.
Clamped(limits, requested) ==
    [limits EXCEPT !.calls = AtMost(@, requested.calls), !.ttl = AtMost(@, requested.ttl),
                   !.facts = AtMost(@, requested.facts),
                   !.readFacts = AtMost(@, requested.facts),
                   !.log = AtMost(@, requested.log), !.scopes = @ \cap requested.scopes]

\* decide_policy.  A denied operation is answered with the limits before they are
\* clamped, a request that fails closed with none.
Decide(cfg, op, requested) ==
    LET asked == Normalized(requested)
        denial == Denial(op, Caps(cfg), asked)
    IN  IF ~cfg.valid THEN FailClosed("TENANT_INVALID")
        ELSE IF asked.region \notin cfg.regions \cup {None}
             THEN FailClosed("REGION_DISALLOWS_OPERATION")
        ELSE IF denial # "ALLOWED" THEN Decision(FALSE, denial, BaseLimits(cfg))
        ELSE Decision(TRUE, "ALLOWED", Clamped(BaseLimits(cfg), asked))

-----------------------------------------------------------------------------
(* governance/retention.py, for the log of memory events.                    *)

\* Deviation: the plan MAX keeps the log of memory events for as long as PRO does.
ShorterForMax == [FREE |-> Day, PRO |-> 7 * Day, MAX |-> 7 * Day, ENTERPRISE |-> 30 * Day]

\* get_retention_windows, MEMORY_EVENT_LOG; the plan of an invalid configuration counts.
Window == [FREE |-> Day, PRO |-> 7 * Day, MAX |-> 14 * Day, ENTERPRISE |-> 30 * Day]

BucketStart(t) == (t \div Hour) * Hour

\* get_memory_ttl_cutoff, with its margin of an hour.
TtlCutoff(cfg, t) == t - (Caps(cfg).ttl + Hour)

\* create_deletion_plan: an event is eligible up to this time.
Cutoff(cfg, t) == AtMost(BucketStart(t) - Window[cfg.plan], TtlCutoff(cfg, t))
=============================================================================
