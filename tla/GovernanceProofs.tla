-------------------------- MODULE GovernanceProofs --------------------------
(***************************************************************************)
(* Governance for every set of tenants, requests, facts and times: a request *)
(* only clamps, a tenant that loses its plan, features or regions gains      *)
(* nothing by it, and what the log would be worth without the events of a    *)
(* deletion plan.                                                          *)
(*                                                                         *)
(* The first two are facts about two configurations.  The last one replays   *)
(* two logs, so what a replay finds comes from MemoryProofs, instantiated    *)
(* with the log and the lifetimes of Governance (Mem).                       *)
(***************************************************************************)
EXTENDS Governance, FiniteSetTheorems, TLAPS

CapsType ==
    [research : BOOLEAN, tools : SUBSET ToolKind, passes : Nat, ttl : Nat, facts : Nat,
     export : BOOLEAN]

Limits ==
    [tools : SUBSET ToolKind, calls : Nat, passes : Nat, memory : BOOLEAN, ttl : Nat,
     facts : Nat, readFacts : Nat, export : BOOLEAN, scopes : SUBSET Scopes,
     log : LoggingLevel, regions : SUBSET Regions]

\* The tables of the plans have an entry of the right kind for each plan.
LEMMA Tables ==
    ASSUME NEW p \in PlanTier
    PROVE  /\ PLAN_TOOLS[p] \in SUBSET ToolKind
           /\ PLAN_DEEPTHINK_PASSES[p] \in Nat
           /\ PLAN_MEMORY_TTL_CAP[p] \in Nat /\ Hour <= PLAN_MEMORY_TTL_CAP[p]
           /\ PLAN_MEMORY_MAX_FACTS[p] \in Nat
           /\ PLAN_EXPORT_DEFAULT[p] \in BOOLEAN
  <1>1. CASE p = "FREE"
    BY <1>1 DEF PLAN_TOOLS, PLAN_DEEPTHINK_PASSES, PLAN_MEMORY_TTL_CAP, PLAN_MEMORY_MAX_FACTS,
                PLAN_EXPORT_DEFAULT, ToolKind, Hour, Day
  <1>2. CASE p = "PRO"
    BY <1>2 DEF PLAN_TOOLS, PLAN_DEEPTHINK_PASSES, PLAN_MEMORY_TTL_CAP, PLAN_MEMORY_MAX_FACTS,
                PLAN_EXPORT_DEFAULT, ToolKind, Hour, Day
  <1>3. CASE p = "MAX"
    BY <1>3 DEF PLAN_TOOLS, PLAN_DEEPTHINK_PASSES, PLAN_MEMORY_TTL_CAP, PLAN_MEMORY_MAX_FACTS,
                PLAN_EXPORT_DEFAULT, ToolKind, Hour, Day
  <1>4. CASE p = "ENTERPRISE"
    BY <1>4 DEF PLAN_TOOLS, PLAN_DEEPTHINK_PASSES, PLAN_MEMORY_TTL_CAP, PLAN_MEMORY_MAX_FACTS,
                PLAN_EXPORT_DEFAULT, ToolKind, Hour, Day
  <1> QED
    BY <1>1, <1>2, <1>3, <1>4 DEF PlanTier

\* A higher plan has at least as much of everything.
LEMMA TablesGrow ==
    ASSUME NEW p \in PlanTier, NEW q \in PlanTier, PlanRank[p] <= PlanRank[q]
    PROVE  /\ PLAN_TOOLS[p] \subseteq PLAN_TOOLS[q]
           /\ PLAN_DEEPTHINK_PASSES[p] <= PLAN_DEEPTHINK_PASSES[q]
           /\ PLAN_MEMORY_TTL_CAP[p] <= PLAN_MEMORY_TTL_CAP[q]
           /\ PLAN_MEMORY_MAX_FACTS[p] <= PLAN_MEMORY_MAX_FACTS[q]
           /\ PLAN_EXPORT_DEFAULT[p] => PLAN_EXPORT_DEFAULT[q]
  <1>1. CASE p = "FREE"
    BY <1>1, Tables DEF PlanTier, PlanRank, PLAN_TOOLS, PLAN_DEEPTHINK_PASSES,
           PLAN_MEMORY_TTL_CAP, PLAN_MEMORY_MAX_FACTS, PLAN_EXPORT_DEFAULT, Hour, Day
  <1>2. CASE p = "PRO"
    BY <1>2, Tables DEF PlanTier, PlanRank, PLAN_TOOLS, PLAN_DEEPTHINK_PASSES,
           PLAN_MEMORY_TTL_CAP, PLAN_MEMORY_MAX_FACTS, PLAN_EXPORT_DEFAULT, Hour, Day
  <1>3. CASE p = "MAX"
    BY <1>3, Tables DEF PlanTier, PlanRank, PLAN_TOOLS, PLAN_DEEPTHINK_PASSES,
           PLAN_MEMORY_TTL_CAP, PLAN_MEMORY_MAX_FACTS, PLAN_EXPORT_DEFAULT, Hour, Day
  <1>4. CASE p = "ENTERPRISE"
    BY <1>4, Tables DEF PlanTier, PlanRank, PLAN_TOOLS, PLAN_DEEPTHINK_PASSES,
           PLAN_MEMORY_TTL_CAP, PLAN_MEMORY_MAX_FACTS, PLAN_EXPORT_DEFAULT, Hour, Day
  <1> QED
    BY <1>1, <1>2, <1>3, <1>4 DEF PlanTier

-----------------------------------------------------------------------------
(* What a configuration gives.                                               *)

Configs == TenantConfig(Regions)

\* resolve_tenant_caps answers with caps of the right kind for each configuration.
LEMMA CapsTyped ==
    ASSUME NEW cfg \in Configs
    PROVE  Caps(cfg) \in CapsType
  <1>1. cfg.plan \in PlanTier
    BY DEF Configs, TenantConfig
  <1>2. CASE ~cfg.valid
    BY <1>2 DEF Caps, NoCaps, CapsType, ToolKind, Hour
  <1>3. CASE cfg.valid
    <2> DEFINE has(f) == f \in cfg.features
    <2>1. (IF has("RESEARCH_ENABLED") THEN PLAN_TOOLS[cfg.plan] ELSE {}) \in SUBSET ToolKind
      BY <1>1, Tables
    <2>2. (IF has("DEEPTHINK_ENABLED") THEN PLAN_DEEPTHINK_PASSES[cfg.plan] ELSE 0) \in Nat
      BY <1>1, Tables
    <2>3. (IF has("MEMORY_ENABLED") THEN PLAN_MEMORY_MAX_FACTS[cfg.plan] ELSE 0) \in Nat
      BY <1>1, Tables
    <2>4. (PLAN_EXPORT_DEFAULT[cfg.plan] /\ has("EXPORT_ENABLED")) \in BOOLEAN
      OBVIOUS
    <2>5. PLAN_MEMORY_TTL_CAP[cfg.plan] \in Nat
      BY <1>1, Tables
    <2>6. has("RESEARCH_ENABLED") \in BOOLEAN
      OBVIOUS
    <2> QED
      BY <1>3, <2>1, <2>2, <2>3, <2>4, <2>5, <2>6 DEF Caps, CapsType
  <1> QED
    BY <1>2, <1>3

\* A configuration that is lower has no more of anything.
LEMMA CapsGrow ==
    ASSUME NEW low \in Configs, NEW high \in Configs, Lower(low, high), low.valid
    PROVE  /\ Caps(low).research => Caps(high).research
           /\ Caps(low).tools \subseteq Caps(high).tools
           /\ Caps(low).passes <= Caps(high).passes
           /\ Caps(low).ttl <= Caps(high).ttl
           /\ Caps(low).facts <= Caps(high).facts
           /\ Caps(low).export => Caps(high).export
  <1>1. low.plan \in PlanTier /\ high.plan \in PlanTier
    BY DEF Configs, TenantConfig
  <1>2. PlanRank[low.plan] <= PlanRank[high.plan] /\ low.features \subseteq high.features
    BY DEF Lower
  <1>3. high.valid
    BY DEF Lower
  <1>4. /\ PLAN_TOOLS[low.plan] \subseteq PLAN_TOOLS[high.plan]
        /\ PLAN_DEEPTHINK_PASSES[low.plan] <= PLAN_DEEPTHINK_PASSES[high.plan]
        /\ PLAN_MEMORY_TTL_CAP[low.plan] <= PLAN_MEMORY_TTL_CAP[high.plan]
        /\ PLAN_MEMORY_MAX_FACTS[low.plan] <= PLAN_MEMORY_MAX_FACTS[high.plan]
        /\ PLAN_EXPORT_DEFAULT[low.plan] => PLAN_EXPORT_DEFAULT[high.plan]
    BY <1>1, <1>2, TablesGrow
  <1>5. /\ PLAN_DEEPTHINK_PASSES[high.plan] \in Nat
        /\ PLAN_MEMORY_MAX_FACTS[high.plan] \in Nat
    BY <1>1, Tables
  <1>6. /\ Caps(low).research => Caps(high).research
        /\ Caps(low).tools \subseteq Caps(high).tools
    BY <1>2, <1>3, <1>4 DEF Caps
  <1>7. Caps(low).passes <= Caps(high).passes
    BY <1>2, <1>3, <1>4, <1>5 DEF Caps
  <1>8. Caps(low).ttl <= Caps(high).ttl
    BY <1>3, <1>4 DEF Caps
  <1>9. Caps(low).facts <= Caps(high).facts
    BY <1>2, <1>3, <1>4, <1>5 DEF Caps
  <1>10. Caps(low).export => Caps(high).export
    BY <1>2, <1>3, <1>4 DEF Caps
  <1> QED
    BY <1>6, <1>7, <1>8, <1>9, <1>10

-----------------------------------------------------------------------------
(* What is asked, and what is denied.                                        *)

\* An unsafe request counts as none; a safe one is taken as it is.
LEMMA NormalizedTyped ==
    ASSUME NEW requested \in RequestedParams(Regions)
    PROVE  /\ Normalized(requested) \in RequestedParams(Regions)
           /\ requested.safe => Normalized(requested) = requested
  <1>1. NoRequest \in RequestedParams(Regions)
    BY DEF NoRequest, RequestedParams, ToolKind, MAX_TOOL_CALLS, MAX_MEMORY_FACTS, TTLClassLabel,
           LoggingLevel, Hour, Day
  <1> QED
    BY <1>1 DEF Normalized

\* An operation is allowed when the features and tools it needs are there.
Granted(op, caps, requested) ==
    /\ op = "TOOL_CALL" =>
          caps.research /\ (requested.tool = None \/ requested.tool \in caps.tools)
    /\ op \in {"MEMORY_READ", "MEMORY_WRITE_PHASE17", "MEMORY_WRITE_PHASE18"} => caps.facts # 0
    /\ op = "EXPORT_REQUEST" => caps.export
    /\ op = "ADMIN_ACTION" => ~requested.admin

\* _check_operation_allowed allows exactly what Granted says, and its reasons are its own.
LEMMA DenialGrants ==
    ASSUME NEW op \in OperationType, NEW caps \in CapsType,
           NEW requested \in RequestedParams(Regions)
    PROVE  /\ (Denial(op, caps, requested) = "ALLOWED") <=> Granted(op, caps, requested)
           /\ Denial(op, caps, requested) \notin {"TENANT_INVALID", "REGION_DISALLOWS_OPERATION"}
  <1>1. CASE op = "TOOL_CALL"
    BY <1>1 DEF Denial, Granted, CapsType
  <1>2. CASE op = "MEMORY_READ"
    BY <1>2 DEF Denial, Granted, CapsType
  <1>3. CASE op = "MEMORY_WRITE_PHASE17"
    BY <1>3 DEF Denial, Granted, CapsType
  <1>4. CASE op = "MEMORY_WRITE_PHASE18"
    BY <1>4 DEF Denial, Granted, CapsType
  <1>5. CASE op = "LOGGING"
    BY <1>5 DEF Denial, Granted, CapsType
  <1>6. CASE op = "EXPORT_REQUEST"
    BY <1>6 DEF Denial, Granted, CapsType
  <1>7. CASE op = "ADMIN_ACTION"
    BY <1>7 DEF Denial, Granted, CapsType
  <1> QED
    BY <1>1, <1>2, <1>3, <1>4, <1>5, <1>6, <1>7 DEF OperationType

-----------------------------------------------------------------------------
(* Limits, before and after they are clamped.                                *)

\* A clamp chooses the smaller of its two arguments.
LEMMA AtMostIsLeast ==
    ASSUME NEW n \in Int, NEW cap \in Int
    PROVE  /\ AtMost(n, cap) \in {n, cap}
           /\ AtMost(n, cap) <= n /\ AtMost(n, cap) <= cap
  BY DEF AtMost

\* The limits before they are clamped are of the right kind.
LEMMA BaseTyped ==
    ASSUME NEW cfg \in Configs
    PROVE  BaseLimits(cfg) \in Limits
  <1> DEFINE caps == Caps(cfg)
  <1>1. caps \in CapsType
    BY CapsTyped
  <1> HIDE DEF caps
  <1>2. AtMost(caps.passes * 2, MAX_TOOL_CALLS) \in Nat
    BY <1>1 DEF CapsType, AtMost, MAX_TOOL_CALLS
  <1>3. AtMost(caps.facts, DEFAULT_MEMORY_READ_MAX_FACTS) \in Nat
    BY <1>1 DEF CapsType, AtMost, DEFAULT_MEMORY_READ_MAX_FACTS
  <1>4. (IF caps.export THEN {"basic"} ELSE {}) \in SUBSET Scopes
    BY DEF Scopes
  <1>5. cfg.regions \in SUBSET Regions
    BY DEF Configs, TenantConfig
  <1>6. Standard \in LoggingLevel
    BY DEF LoggingLevel
  <1>7. (caps.facts > 0) \in BOOLEAN
    BY <1>1 DEF CapsType
  <1>8. BaseLimits(cfg) =
          [tools |-> caps.tools, calls |-> AtMost(caps.passes * 2, MAX_TOOL_CALLS),
           passes |-> caps.passes, memory |-> caps.facts > 0, ttl |-> caps.ttl,
           facts |-> caps.facts,
           readFacts |-> AtMost(caps.facts, DEFAULT_MEMORY_READ_MAX_FACTS),
           export |-> caps.export, scopes |-> IF caps.export THEN {"basic"} ELSE {},
           log |-> Standard, regions |-> cfg.regions]
    BY DEF BaseLimits, caps
  <1> QED
    BY <1>1, <1>2, <1>3, <1>4, <1>5, <1>6, <1>7, <1>8 DEF Limits, CapsType

\* So are they after.
LEMMA ClampedTyped ==
    ASSUME NEW limits \in Limits, NEW requested \in RequestedParams(Regions)
    PROVE  Clamped(limits, requested) \in Limits
  <1>1. /\ requested.calls \in Nat /\ requested.facts \in Nat /\ requested.ttl \in Nat
        /\ requested.log \in LoggingLevel
    BY DEF RequestedParams, TTLClassLabel, Hour, Day, MAX_TOOL_CALLS, MAX_MEMORY_FACTS
  <1>2. /\ AtMost(limits.calls, requested.calls) \in Nat
        /\ AtMost(limits.ttl, requested.ttl) \in Nat
        /\ AtMost(limits.facts, requested.facts) \in Nat
        /\ AtMost(limits.readFacts, requested.facts) \in Nat
        /\ AtMost(limits.log, requested.log) \in LoggingLevel
        /\ limits.scopes \cap requested.scopes \in SUBSET Scopes
    BY <1>1 DEF Limits, AtMost
  <1> QED
    BY <1>2 DEF Clamped, Limits

\* _apply_requested_clamping leaves no more than there was, nor than was requested.
LEMMA ClampedLess ==
    ASSUME NEW limits \in Limits, NEW requested \in RequestedParams(Regions)
    PROVE  /\ Less(Clamped(limits, requested), limits)
           /\ Clamped(limits, requested).calls <= requested.calls
           /\ Clamped(limits, requested).facts <= requested.facts
           /\ Clamped(limits, requested).readFacts <= requested.facts
           /\ Clamped(limits, requested).ttl <= requested.ttl
           /\ Clamped(limits, requested).log <= requested.log
           /\ Clamped(limits, requested).scopes \subseteq requested.scopes
  <1>1. /\ requested.calls \in Nat /\ requested.facts \in Nat /\ requested.ttl \in Nat
        /\ requested.log \in Nat
    BY DEF RequestedParams, TTLClassLabel, LoggingLevel, Minimal, Standard, Verbose, Hour, Day,
           MAX_TOOL_CALLS, MAX_MEMORY_FACTS
  <1>2. limits.log \in Nat
    BY DEF Limits, LoggingLevel, Minimal, Standard, Verbose
  <1> QED
    BY <1>1, <1>2 DEF Clamped, Limits, Less, AtMost

\* A lower configuration starts from no wider limits.
LEMMA BaseGrows ==
    ASSUME NEW low \in Configs, NEW high \in Configs, Lower(low, high), low.valid
    PROVE  Less(BaseLimits(low), BaseLimits(high))
  <1>1. Caps(low) \in CapsType /\ Caps(high) \in CapsType
    BY CapsTyped
  <1>2. /\ Caps(low).tools \subseteq Caps(high).tools
        /\ Caps(low).passes <= Caps(high).passes
        /\ Caps(low).ttl <= Caps(high).ttl
        /\ Caps(low).facts <= Caps(high).facts
        /\ Caps(low).export => Caps(high).export
    BY CapsGrow
  <1>3. low.regions \subseteq high.regions
    BY DEF Lower
  <1>4. AtMost(Caps(low).passes * 2, MAX_TOOL_CALLS) <= AtMost(Caps(high).passes * 2, MAX_TOOL_CALLS)
    BY <1>1, <1>2 DEF CapsType, AtMost, MAX_TOOL_CALLS
  <1>5. /\ AtMost(Caps(low).facts, DEFAULT_MEMORY_READ_MAX_FACTS)
              <= AtMost(Caps(high).facts, DEFAULT_MEMORY_READ_MAX_FACTS)
        /\ Caps(low).facts > 0 => Caps(high).facts > 0
    BY <1>1, <1>2 DEF CapsType, AtMost, DEFAULT_MEMORY_READ_MAX_FACTS
  <1>6. (IF Caps(low).export THEN {"basic"} ELSE {}) \subseteq
            (IF Caps(high).export THEN {"basic"} ELSE {})
    BY <1>2
  <1>7. /\ BaseLimits(low).tools = Caps(low).tools /\ BaseLimits(high).tools = Caps(high).tools
        /\ BaseLimits(low).regions = low.regions /\ BaseLimits(high).regions = high.regions
        /\ BaseLimits(low).scopes = IF Caps(low).export THEN {"basic"} ELSE {}
        /\ BaseLimits(high).scopes = IF Caps(high).export THEN {"basic"} ELSE {}
        /\ BaseLimits(low).export = Caps(low).export /\ BaseLimits(high).export = Caps(high).export
    BY DEF BaseLimits
  <1>8. /\ BaseLimits(low).calls <= BaseLimits(high).calls
        /\ BaseLimits(low).passes <= BaseLimits(high).passes
        /\ BaseLimits(low).facts <= BaseLimits(high).facts
        /\ BaseLimits(low).readFacts <= BaseLimits(high).readFacts
        /\ BaseLimits(low).ttl <= BaseLimits(high).ttl
        /\ BaseLimits(low).log <= BaseLimits(high).log
    BY <1>2, <1>4, <1>5 DEF BaseLimits, Standard
  <1>9. BaseLimits(low).memory => BaseLimits(high).memory
    BY <1>5 DEF BaseLimits
  <1> QED
    BY <1>2, <1>3, <1>6, <1>7, <1>8, <1>9 DEF Less

\* Clamping by the same request keeps the order of two limits.
LEMMA ClampedGrows ==
    ASSUME NEW a \in Limits, NEW b \in Limits, Less(a, b),
           NEW requested \in RequestedParams(Regions)
    PROVE  Less(Clamped(a, requested), Clamped(b, requested))
  <1>1. /\ requested.calls \in Nat /\ requested.facts \in Nat /\ requested.ttl \in Nat
        /\ requested.log \in Nat
    BY DEF RequestedParams, TTLClassLabel, LoggingLevel, Minimal, Standard, Verbose, Hour, Day,
           MAX_TOOL_CALLS, MAX_MEMORY_FACTS
  <1>2. a.log \in Nat /\ b.log \in Nat
    BY DEF Limits, LoggingLevel, Minimal, Standard, Verbose
  <1> QED
    BY <1>1, <1>2 DEF Clamped, Limits, Less, AtMost

-----------------------------------------------------------------------------
(* The decision.                                                             *)

\* Whatever a configuration is asked, its answer stays within what it gives.
LEMMA DecisionsClamp ==
    ASSUME NEW cfg \in Configs,
           NEW ask, ask.op \in OperationType, ask.requested \in RequestedParams(Regions)
    PROVE  WithinCaps(cfg, ask)
  <1> DEFINE asked == Normalized(ask.requested)
             decision == Decide(cfg, ask.op, ask.requested)
             denial == Denial(ask.op, Caps(cfg), asked)
             base == BaseLimits(cfg)
             Wide(limits) ==
                /\ limits.tools \subseteq Caps(cfg).tools /\ limits.calls <= 2 * Caps(cfg).passes
                /\ limits.passes <= Caps(cfg).passes /\ limits.ttl <= Caps(cfg).ttl
                /\ limits.facts <= Caps(cfg).facts /\ limits.readFacts <= Caps(cfg).facts
                /\ (limits.export => Caps(cfg).export)
                /\ (limits.scopes # {} => limits.export)
  <1>1. Caps(cfg) \in CapsType
    BY CapsTyped
  <1>2. /\ asked \in RequestedParams(Regions)
        /\ ask.requested.safe => asked = ask.requested
    BY NormalizedTyped
  <1>3. base \in Limits
    BY BaseTyped
  <1>4. Wide(base)
    BY <1>1, AtMostIsLeast
       DEF BaseLimits, CapsType, MAX_TOOL_CALLS, DEFAULT_MEMORY_READ_MAX_FACTS
  <1>5. Wide(NoLimits)
    <2>1. Hour <= Caps(cfg).ttl
      <3>1. CASE ~cfg.valid
        BY <3>1 DEF Caps, NoCaps, Hour
      <3>2. CASE cfg.valid
        <4>1. cfg.plan \in PlanTier
          BY DEF Configs, TenantConfig
        <4>2. Caps(cfg).ttl = PLAN_MEMORY_TTL_CAP[cfg.plan]
          BY <3>2 DEF Caps
        <4> QED
          BY <4>1, <4>2, Tables
      <3> QED
        BY <3>1, <3>2
    <2> QED
      BY <1>1, <2>1 DEF NoLimits, CapsType
  <1>6. CASE ~cfg.valid
    BY <1>5, <1>6 DEF Decide, FailClosed, Decision, WithinCaps
  <1>7. CASE cfg.valid /\ asked.region \notin cfg.regions \cup {None}
    <2>1. decision = FailClosed("REGION_DISALLOWS_OPERATION")
      BY <1>7 DEF Decide
    <2> QED
      BY <1>5, <2>1 DEF FailClosed, Decision, WithinCaps
  <1>8. denial \notin {"TENANT_INVALID", "REGION_DISALLOWS_OPERATION"}
    BY <1>1, <1>2, DenialGrants
  <1>9. CASE cfg.valid /\ asked.region \in cfg.regions \cup {None} /\ denial # "ALLOWED"
    <2>1. decision = Decision(FALSE, denial, base)
      BY <1>9 DEF Decide
    <2> QED
      BY <1>4, <1>8, <2>1 DEF Decision, WithinCaps
  <1>10. CASE cfg.valid /\ asked.region \in cfg.regions \cup {None} /\ denial = "ALLOWED"
    <2> DEFINE limits == Clamped(base, asked)
    <2>1. decision = Decision(TRUE, "ALLOWED", limits)
      BY <1>10 DEF Decide
    <2>2. /\ Less(limits, base)
          /\ limits.calls <= asked.calls /\ limits.facts <= asked.facts
          /\ limits.readFacts <= asked.facts /\ limits.ttl <= asked.ttl
          /\ limits.log <= asked.log /\ limits.scopes \subseteq asked.scopes
      BY <1>2, <1>3, ClampedLess
    <2>3. limits \in Limits
      BY <1>2, <1>3, ClampedTyped
    <2>4. limits.export = base.export
      BY <1>3 DEF Clamped, Limits
    <2>5. Wide(limits)
      <3> HIDE DEF limits, base
      <3> QED
        BY <1>1, <1>3, <1>4, <2>2, <2>3, <2>4 DEF Less, Limits, CapsType
    <2> QED
      BY <1>2, <1>10, <2>1, <2>2, <2>5 DEF Decision, WithinCaps
  <1> QED
    BY <1>6, <1>7, <1>9, <1>10

\* What a lower configuration is allowed, a higher one is, with no less of it.
LEMMA DecisionsGrow ==
    ASSUME NEW low \in Configs, NEW high \in Configs, Lower(low, high),
           NEW ask, ask.op \in OperationType, ask.requested \in RequestedParams(Regions)
    PROVE  NoMore(low, high, ask)
  <1> DEFINE asked == Normalized(ask.requested)
             after == Decide(low, ask.op, ask.requested)
             before == Decide(high, ask.op, ask.requested)
  <1> SUFFICES ASSUME after.allowed
               PROVE  before.allowed /\ Less(after.limits, before.limits)
    BY DEF NoMore
  <1>1. asked \in RequestedParams(Regions)
    BY NormalizedTyped
  <1>2. Caps(low) \in CapsType /\ Caps(high) \in CapsType
    BY CapsTyped
  <1>3. /\ low.valid /\ asked.region \in low.regions \cup {None}
        /\ Denial(ask.op, Caps(low), asked) = "ALLOWED"
        /\ after.limits = Clamped(BaseLimits(low), asked)
    BY DEF Decide, FailClosed, Decision
  <1>4. high.valid /\ asked.region \in high.regions \cup {None}
    BY <1>3 DEF Lower
  <1>5. Granted(ask.op, Caps(low), asked)
    BY <1>1, <1>2, <1>3, DenialGrants
  <1>6. Granted(ask.op, Caps(high), asked)
    BY <1>2, <1>3, <1>5, CapsGrow DEF Granted, CapsType
  <1>7. Denial(ask.op, Caps(high), asked) = "ALLOWED"
    BY <1>1, <1>2, <1>6, DenialGrants
  <1>8. before.allowed /\ before.limits = Clamped(BaseLimits(high), asked)
    BY <1>4, <1>7 DEF Decide, Decision
  <1>9. Less(BaseLimits(low), BaseLimits(high))
    BY <1>3, BaseGrows
  <1> QED
    BY <1>1, <1>3, <1>8, <1>9, BaseTyped, ClampedGrows

-----------------------------------------------------------------------------
(* The behaviours.                                                           *)

\* The tenant always has one of its configurations.
LEMMA TenantTyped == Spec => [](tenant \in Tenants)
  <1>1. Init => tenant \in Tenants
    BY DEF Init
  <1>2. tenant \in Tenants /\ [Next]_vars => (tenant \in Tenants)'
    BY DEF Next, vars, SetTenant, Write, Mark, create_deletion_plan, FailClosedPlan, Pass
  <1> QED
    BY <1>1, <1>2, PTL DEF Spec

\* policy_engine.py: "requested flags can only clamp down, never expand tenant caps",
\* for every tenant and every request.
THEOREM OnlyClamps == Spec => []RequestsOnlyClamp
  <1>1. tenant \in Tenants => RequestsOnlyClamp
    <2> SUFFICES ASSUME tenant \in Tenants, NEW ask \in Asks
                 PROVE  WithinCaps(tenant, ask)
      BY DEF RequestsOnlyClamp, Clamping
    <2> QED
      BY DecisionsClamp, GovernanceSettings DEF Configs
  <1> QED
    BY <1>1, TenantTyped, PTL

\* A tenant that loses its plan, features or regions gains nothing by it, whatever
\* step it loses them in.
THEOREM LoweringTakes == Spec => LoweringOnlyTakes
  <1>1. tenant \in Tenants /\ (tenant \in Tenants)' =>
           (Lower(tenant', tenant) => <<tenant', tenant>> \in NoWider)
    <2> SUFFICES ASSUME NEW low \in Tenants, NEW high \in Tenants, Lower(low, high)
                 PROVE  <<low, high>> \in NoWider
      OBVIOUS
    <2>1. \A ask \in Asks : NoMore(low, high, ask)
      BY DecisionsGrow, GovernanceSettings DEF Configs
    <2> QED
      BY <2>1 DEF NoWider
  <1> QED
    BY <1>1, TenantTyped, PTL DEF LoweringOnlyTakes

-----------------------------------------------------------------------------
(* The log of the tenant is a log of MemoryStore, about which all is known    *)
(* from MemoryProofs; nobody reads here.                                      *)

Mem ==
    INSTANCE MemoryProofs WITH
        Tiers <- MemoryTiers,
        PlanCap <- [FREE |-> 1, PRO |-> 2, MAX |-> 3],
        PlanDefault <- [FREE |-> 1, PRO |-> 2, MAX |-> 2],
        Ttl <- <<Hour, Day, 10 * Day>>,
        Bucket <- 1, PerCategory <- 25, Total <- 100,
        Reads <- {}, MAX_FACTS_HARD_LIMIT <- 1, MAX_PER_CATEGORY_HARD_LIMIT <- 1,
        MAX_TOTAL_CHARS_HARD_LIMIT <- 1

\* What MemoryProofs assumes of its constants is true of these.
LEMMA Settings == Mem!MemorySettings /\ Mem!ReadSettings
  <1>1. Mem!MemorySettings
    BY GovernedMemory, GovernanceSettings
       DEF Mem!MemorySettings, Mem!Classes, MemoryTiers, Hour, Day
  <1>2. Mem!ReadSettings
    BY DEF Mem!ReadSettings
  <1> QED
    BY <1>1, <1>2

\* The two instances of MemoryStore mean the same.
LEMMA SameMemory ==
    ASSUME NEW l, NEW v, NEW t
    PROVE  /\ Memory!Replay(l) = Mem!Replay(l)
           /\ Memory!Active(v, t) = Mem!Active(v, t)
           /\ \A kind, id : Memory!Marked(kind, id) = Mem!Marked(kind, id)
           /\ \A events : Memory!Appended(l, events) = Mem!Appended(l, events)
  <1>1. Memory!Replay(l) = Mem!Replay(l)
    BY DEF Memory!Replay, Mem!Replay, Memory!ReplayEvent, Mem!ReplayEvent, Memory!Put, Mem!Put,
           Memory!Nothing, Mem!Nothing
  <1>2. Memory!Active(v, t) = Mem!Active(v, t)
    BY DEF Memory!Active, Mem!Active
  <1>3. \A kind, id : Memory!Marked(kind, id) = Mem!Marked(kind, id)
    BY DEF Memory!Marked, Mem!Marked
  <1>4. \A events : Memory!Appended(l, events) = Mem!Appended(l, events)
    BY DEF Memory!Appended, Mem!Appended
  <1> QED
    BY <1>1, <1>2, <1>3, <1>4

\* A write or a mark appends events at the time of the clock.
LEMMA EventsAreAppended ==
    ASSUME now \in 0..MaxTime,
           (\E r \in Requests : Write(r)) \/ (\E id \in FactIds : Mark(id))
    PROVE  /\ \E events \in Seq(Mem!Events) : log' = Mem!Appended(log, events)
           /\ Stamped /\ UNCHANGED <<tenant, plan, now>>
  <1>1. ASSUME NEW r \in Requests, Write(r)
        PROVE  /\ \E events \in Seq(Mem!Events) : log' = Mem!Appended(log, events)
               /\ Stamped /\ UNCHANGED <<tenant, plan, now>>
    <2>1. Memory!Write(r) /\ Stamped /\ UNCHANGED <<tenant, plan>>
      BY <1>1 DEF Write
    <2>2. /\ Mem!Accepts(r.facts) /\ now' = now
          /\ log' = Mem!Appended(log, Mem!Told(r, now))
      BY <2>1 DEF Memory!Write, Memory!Accepts, Mem!Accepts, Memory!Appended, Mem!Appended,
                  Mem!Told, Memory!Added, Mem!Added, Memory!ExpiresAt, Mem!ExpiresAt,
                  Memory!Effective, Mem!Effective
    <2>3. Mem!Told(r, now) \in Seq(Mem!Adds)
      BY <2>2, Mem!ToldIs, Settings
    <2>4. Mem!Adds \subseteq Mem!Events
      BY DEF Mem!Adds, Mem!Events
    <2>5. Mem!Told(r, now) \in Seq(Mem!Events)
      BY <2>3, <2>4
    <2> QED
      BY <2>1, <2>2, <2>5
  <1>2. ASSUME NEW id \in FactIds, Mark(id)
        PROVE  /\ \E events \in Seq(Mem!Events) : log' = Mem!Appended(log, events)
               /\ Stamped /\ UNCHANGED <<tenant, plan, now>>
    <2>1. (Memory!MarkExpired(id) \/ Memory!Revoke(id)) /\ Stamped /\ UNCHANGED <<tenant, plan>>
      BY <1>2 DEF Mark
    <2>2. PICK kind \in {"expired", "revoked"} :
              log' = Memory!Appended(log, <<Memory!Marked(kind, id)>>) /\ now' = now
      BY <2>1 DEF Memory!MarkExpired, Memory!Revoke
    <2> DEFINE events == <<Mem!Marked(kind, id)>>
    <2>3. log' = Mem!Appended(log, events)
      BY <2>2, SameMemory
    <2>4. Mem!Marked(kind, id) \in Mem!Events
      BY DEF Mem!Events
    <2>5. events \in Seq(Mem!Events)
      BY <2>4
    <2> HIDE DEF events
    <2> QED
      BY <2>1, <2>2, <2>3, <2>5
  <1> QED
    BY <1>1, <1>2

\* What was made of the log: a log of events, their times in order and none after now.
LogIsStamped ==
    /\ log \in Seq(Mem!Events) /\ Len(log) <= MaxEvents
    /\ stamps \in Seq(Times) /\ Len(stamps) = Len(log)
    /\ now \in Times
    /\ \A n \in DOMAIN stamps : stamps[n] <= now
    /\ \A m, n \in DOMAIN stamps : m < n => stamps[m] <= stamps[n]

\* A plan takes events that were a whole window old when it was made, and no younger since.
PlanIsOld ==
    /\ plan \in [allowed : BOOLEAN, targets : SUBSET (1..Len(log)), of : PlanTier]
    /\ IsFiniteSet(plan.targets) /\ Cardinality(plan.targets) <= MAX_OPS_PER_RUN
    /\ ~plan.allowed => plan.targets = {}
    /\ \A n \in plan.targets : stamps[n] + Window[plan.of] <= now

GInv == tenant \in Tenants /\ LogIsStamped /\ PlanIsOld

\* The times of a log that has its times are numbers.
LEMMA TimesAreNat ==
    ASSUME NEW s \in Seq(Times), NEW n \in 1..Len(s)
    PROVE  s[n] \in Nat
  <1>1. s[n] \in Times
    OBVIOUS
  <1>2. Times \subseteq Nat
    BY GovernanceSettings
  <1> QED
    BY <1>1, <1>2

\* New events get the time of the clock, old ones keep theirs.
LEMMA StampsGrow ==
    ASSUME LogIsStamped, NEW events \in Seq(Mem!Events), log' = Mem!Appended(log, events),
           Stamped, UNCHANGED now
    PROVE  /\ LogIsStamped' /\ Len(log) <= Len(log')
           /\ \A n \in 1..Len(log) : stamps'[n] = stamps[n]
  <1> DEFINE k == Len(log)
             n == Len(log')
             new == [i \in 1..n - k |-> now]
  <1>1. /\ log' \in Seq(Mem!Events) /\ k <= n /\ n <= MaxEvents /\ k \in Nat /\ n \in Nat
    <2>1. log \in Seq(Mem!Events) /\ Len(log) <= MaxEvents
      BY DEF LogIsStamped
    <2>2. /\ log' \in Seq(Mem!Events) /\ Len(log) <= Len(log') /\ Len(log') <= MaxEvents
      BY <2>1, Mem!AppendedIs, Settings
    <2> QED
      BY <2>1, <2>2
  <1>2. /\ stamps \in Seq(Times) /\ Len(stamps) = k /\ now \in Times
        /\ \A i \in 1..k : stamps[i] <= now
        /\ \A i, j \in 1..k : i < j => stamps[i] <= stamps[j]
    BY DEF LogIsStamped
  <1>3. stamps' = stamps \o new
    BY DEF Stamped
  <1> HIDE DEF k, n
  <1>4. new \in Seq(Times) /\ Len(new) = n - k /\ \A i \in 1..n - k : new[i] = now
    <2>1. n - k \in Nat
      BY <1>1
    <2> QED
      BY <1>2, <2>1
  <1> HIDE DEF new
  <1>5. /\ stamps' \in Seq(Times) /\ Len(stamps') = n
        /\ \A i \in 1..k : stamps'[i] = stamps[i]
        /\ \A i \in 1..n : i > k => stamps'[i] = now
    <2>1. stamps \o new \in Seq(Times) /\ Len(stamps \o new) = k + (n - k)
      BY <1>2, <1>4
    <2>2. \A i \in 1..n : i > k => (stamps \o new)[i] = new[i - k] /\ i - k \in 1..n - k
      BY <1>1, <1>2, <1>4
    <2>3. \A i \in 1..k : (stamps \o new)[i] = stamps[i]
      BY <1>1, <1>2, <1>4
    <2> QED
      BY <1>1, <1>3, <1>4, <2>1, <2>2, <2>3
  <1>6. \A i \in 1..n : stamps'[i] <= now /\ stamps'[i] \in Times
    <2>1. now <= now
      BY <1>2, GovernanceSettings
    <2> QED
      BY <1>1, <1>2, <1>5, <2>1
  <1>7. \A i, j \in 1..n : i < j => stamps'[i] <= stamps'[j]
    <2> SUFFICES ASSUME NEW i \in 1..n, NEW j \in 1..n, i < j
                 PROVE  stamps'[i] <= stamps'[j]
      OBVIOUS
    <2>1. CASE j <= k
      BY <1>1, <1>2, <1>5, <2>1
    <2>2. CASE j > k
      BY <1>1, <1>5, <1>6, <2>2
    <2> QED
      BY <1>1, <2>1, <2>2
  <1>8. now' = now /\ DOMAIN stamps' = 1..n
    BY <1>5
  <1>9. LogIsStamped'
    <2>1. Len(log') = n
      BY DEF n
    <2> QED
      BY <1>1, <1>2, <1>5, <1>6, <1>7, <1>8, <2>1 DEF LogIsStamped
  <1> QED
    BY <1>1, <1>5, <1>9 DEF k, n

\* Each plan keeps the log of events longer than it keeps a fact.
LEMMA WindowOutlasts ==
    ASSUME NEW p \in PlanTier
    PROVE  Window[p] \in Nat /\ PLAN_MEMORY_TTL_CAP[p] <= Window[p]
  BY DEF PlanTier, Window, PLAN_MEMORY_TTL_CAP, Hour, Day

\* What is eligible is a window old.
LEMMA CutoffIsOld ==
    ASSUME NEW cfg \in Tenants, NEW t \in Nat, NEW x \in Nat, x <= Cutoff(cfg, t)
    PROVE  x + Window[cfg.plan] <= t
  <1>1. cfg \in TenantConfig(Regions) /\ cfg.plan \in PlanTier
    BY GovernanceSettings DEF TenantConfig
  <1>2. Window[cfg.plan] \in Nat
    BY <1>1, WindowOutlasts
  <1>3. BucketStart(t) \in Nat /\ BucketStart(t) <= t
    BY DEF BucketStart, Hour
  <1>4. TtlCutoff(cfg, t) \in Int
    <2>1. Caps(cfg).ttl \in Nat
      BY <1>1, CapsTyped DEF CapsType, Configs
    <2> QED
      BY <2>1 DEF TtlCutoff, Hour
  <1>5. Cutoff(cfg, t) <= BucketStart(t) - Window[cfg.plan]
    <2> DEFINE a == BucketStart(t) - Window[cfg.plan]
               b == TtlCutoff(cfg, t)
    <2>1. a \in Int /\ b \in Int
      BY <1>2, <1>3, <1>4
    <2>2. Cutoff(cfg, t) = IF a < b THEN a ELSE b
      BY DEF Cutoff, AtMost
    <2> HIDE DEF a, b
    <2>3. Cutoff(cfg, t) <= a
      BY <2>1, <2>2
    <2> QED
      BY <2>3 DEF a
  <1>6. Cutoff(cfg, t) \in Int
    BY <1>2, <1>3, <1>4 DEF Cutoff, AtMost
  <1> QED
    BY <1>2, <1>3, <1>5, <1>6

\* A new plan takes no more than it may, and nothing younger than a window.
LEMMA PlanStep ==
    ASSUME GInv, NEW ops \in OpsAsked, create_deletion_plan(ops)
    PROVE  GInv'
  <1>1. PICK targets \in FirstOf(Eligible, EffectiveMaxOps(ops)) :
            plan' = [allowed |-> TRUE, targets |-> targets, of |-> tenant.plan]
    BY DEF create_deletion_plan
  <1>2. /\ UNCHANGED <<tenant, log, stamps, now>> /\ tenant \in Tenants
        /\ Len(log) \in Nat /\ Len(stamps) = Len(log) /\ stamps \in Seq(Times) /\ now \in Nat
        /\ MAX_OPS_PER_RUN \in Nat /\ MAX_CANDIDATES_PROCESSED \in Nat
        /\ Times \subseteq Nat
    BY GovernanceSettings DEF create_deletion_plan, GInv, LogIsStamped
  <1>3. tenant.plan \in PlanTier
    BY <1>2, GovernanceSettings DEF TenantConfig
  <1>4. Eligible \subseteq 1..Len(log) /\ \A n \in Eligible : stamps[n] <= Cutoff(tenant, now)
    BY <1>2 DEF Eligible, AtMost
  <1>5. targets \subseteq Eligible
    BY DEF FirstOf
  <1>6. IsFiniteSet(Eligible) /\ IsFiniteSet(targets)
    <2>1. IsFiniteSet(1..Len(log))
      BY <1>2, FS_Interval
    <2>2. IsFiniteSet(Eligible)
      BY <1>4, <2>1, FS_Subset
    <2> QED
      BY <1>5, <2>2, FS_Subset
  <1>7. Cardinality(targets) <= MAX_OPS_PER_RUN
    <2>1. Cardinality(targets) = AtMost(Cardinality(Eligible), EffectiveMaxOps(ops))
      BY DEF FirstOf
    <2>2. Cardinality(Eligible) \in Nat
      BY <1>6, FS_CardinalityType
    <2>3. ops \in Nat /\ EffectiveMaxOps(ops) <= MAX_OPS_PER_RUN /\ EffectiveMaxOps(ops) \in Nat
      BY <1>2, GovernanceSettings DEF EffectiveMaxOps, AtMost
    <2> QED
      BY <1>2, <2>1, <2>2, <2>3 DEF AtMost
  <1>8. ASSUME NEW n \in targets
        PROVE  stamps[n] + Window[tenant.plan] <= now
    <2>1. n \in 1..Len(log) /\ stamps[n] <= Cutoff(tenant, now)
      BY <1>4, <1>5
    <2>2. stamps[n] \in Nat
      BY <1>2, <2>1, TimesAreNat
    <2> QED
      BY <1>2, <2>1, <2>2, CutoffIsOld
  <1>9. PlanIsOld'
    <2>1. plan'.targets = targets /\ plan'.of = tenant.plan /\ plan'.allowed = TRUE
      BY <1>1
    <2>2. plan' \in [allowed : BOOLEAN, targets : SUBSET (1..Len(log')), of : PlanTier]
      BY <1>1, <1>2, <1>3, <1>4, <1>5
    <2> QED
      BY <1>2, <1>6, <1>7, <1>8, <2>1, <2>2 DEF PlanIsOld
  <1> QED
    BY <1>2, <1>9 DEF GInv, LogIsStamped

\* Every step keeps the log stamped and the plan old.
LEMMA GStep == GInv /\ [Next]_vars => GInv'
  <1> SUFFICES ASSUME GInv, [Next]_vars
               PROVE  GInv'
    OBVIOUS
  <1>1. /\ tenant \in Tenants /\ LogIsStamped /\ PlanIsOld
        /\ Times \subseteq 0..MaxTime /\ MaxTime \in Nat /\ now \in Times
        /\ Len(log) \in Nat
    BY GovernanceSettings DEF GInv, LogIsStamped
  <1>2. ASSUME NEW cfg \in Tenants, SetTenant(cfg)
        PROVE  GInv'
    BY <1>1, <1>2 DEF SetTenant, GInv, LogIsStamped, PlanIsOld
  <1>3. CASE (\E r \in Requests : Write(r)) \/ (\E id \in FactIds : Mark(id))
    <2>1. PICK events \in Seq(Mem!Events) : log' = Mem!Appended(log, events)
      BY <1>1, <1>3, EventsAreAppended
    <2>2. Stamped /\ UNCHANGED <<tenant, plan, now>>
      BY <1>1, <1>3, EventsAreAppended
    <2>3. /\ LogIsStamped' /\ Len(log) <= Len(log')
          /\ \A n \in 1..Len(log) : stamps'[n] = stamps[n]
      BY <1>1, <2>1, <2>2, StampsGrow
    <2>4. Len(log') \in Nat
      BY <2>3 DEF LogIsStamped
    <2>5. PlanIsOld'
      <3>1. plan.targets \subseteq 1..Len(log)
        BY <1>1 DEF PlanIsOld
      <3>2. 1..Len(log) \subseteq 1..Len(log')
        BY <1>1, <2>3, <2>4
      <3>3. plan' \in [allowed : BOOLEAN, targets : SUBSET (1..Len(log')), of : PlanTier]
        BY <1>1, <2>2, <3>1, <3>2 DEF PlanIsOld
      <3>4. \A n \in plan.targets : stamps'[n] = stamps[n]
        BY <2>3, <3>1
      <3> QED
        BY <1>1, <2>2, <3>3, <3>4 DEF PlanIsOld
    <2> QED
      BY <1>1, <2>2, <2>3, <2>5 DEF GInv
  <1>4. ASSUME NEW ops \in OpsAsked, create_deletion_plan(ops)
        PROVE  GInv'
    BY <1>4, PlanStep
  <1>5. CASE FailClosedPlan
    <2>1. plan' = NoPlan /\ UNCHANGED <<tenant, log, stamps, now>>
      BY <1>5 DEF FailClosedPlan
    <2>2. PlanIsOld'
      <3>1. NoPlan \in [allowed : BOOLEAN, targets : SUBSET (1..Len(log)), of : PlanTier]
        BY DEF NoPlan, PlanTier
      <3>2. IsFiniteSet({}) /\ Cardinality({}) = 0 /\ MAX_OPS_PER_RUN \in Nat
        BY FS_EmptySet, GovernanceSettings
      <3>3. NoPlan.targets = {}
        BY DEF NoPlan
      <3> QED
        BY <2>1, <3>1, <3>2, <3>3 DEF PlanIsOld
    <2> QED
      BY <1>1, <2>1, <2>2 DEF GInv, LogIsStamped
  <1>6. ASSUME NEW t \in Times, Pass(t)
        PROVE  GInv'
    <2>1. t > now /\ now' = t /\ UNCHANGED <<tenant, log, stamps, plan>>
      BY <1>6 DEF Pass
    <2>2. now \in Nat /\ t \in Nat /\ Times \subseteq Nat
      BY <1>1
    <2>3. LogIsStamped'
      <3>1. \A n \in DOMAIN stamps : stamps[n] <= t
        <4>1. \A n \in DOMAIN stamps : stamps[n] <= now /\ stamps[n] \in Nat
          BY <1>1, TimesAreNat DEF LogIsStamped
        <4> QED
          BY <2>1, <2>2, <4>1
      <3> QED
        BY <1>1, <2>1, <3>1 DEF LogIsStamped
    <2>4. PlanIsOld'
      <3>1. ASSUME NEW n \in plan.targets
            PROVE  stamps[n] + Window[plan.of] <= t
        <4>1. n \in 1..Len(log) /\ stamps[n] + Window[plan.of] <= now /\ Window[plan.of] \in Nat
          BY <1>1, WindowOutlasts DEF PlanIsOld
        <4>2. stamps[n] \in Nat
          BY <1>1, <4>1, TimesAreNat DEF LogIsStamped
        <4> QED
          BY <2>1, <2>2, <4>1, <4>2
      <3> QED
        BY <1>1, <2>1, <3>1 DEF PlanIsOld
    <2> QED
      BY <1>1, <2>1, <2>3, <2>4 DEF GInv
  <1>7. CASE UNCHANGED vars
    BY <1>1, <1>7 DEF vars, GInv, LogIsStamped, PlanIsOld
  <1> QED
    BY <1>2, <1>3, <1>4, <1>5, <1>6, <1>7 DEF Next

\* The inductive invariant holds in every reachable state.
LEMMA GInvHolds == Spec => []GInv
  <1>1. Init => GInv
    <2> SUFFICES ASSUME Init
                 PROVE  GInv
      OBVIOUS
    <2>1. Len(<<>>) = 0 /\ <<>> \in Seq(Mem!Events) /\ <<>> \in Seq(Times) /\ DOMAIN <<>> = {}
      OBVIOUS
    <2>2. LogIsStamped
      BY <2>1, GovernanceSettings, GovernedMemory DEF Init, LogIsStamped
    <2>3. PlanIsOld
      <3>1. NoPlan \in [allowed : BOOLEAN, targets : SUBSET (1..Len(log)), of : PlanTier]
        BY DEF NoPlan, PlanTier
      <3>2. IsFiniteSet({}) /\ Cardinality({}) = 0 /\ MAX_OPS_PER_RUN \in Nat
        BY FS_EmptySet, GovernanceSettings
      <3>3. NoPlan.targets = {} /\ plan = NoPlan
        BY DEF NoPlan, Init
      <3>4. plan.targets = {}
        BY <3>3
      <3>5. plan \in [allowed : BOOLEAN, targets : SUBSET (1..Len(log)), of : PlanTier]
        BY <3>1, <3>3
      <3>6. IsFiniteSet(plan.targets) /\ Cardinality(plan.targets) <= MAX_OPS_PER_RUN
        BY <3>2, <3>4
      <3> QED
        BY <3>4, <3>5, <3>6 DEF PlanIsOld
    <2> QED
      BY <2>2, <2>3 DEF Init, GInv
  <1> QED
    BY <1>1, GStep, PTL DEF Spec

\* The log and its times stay in step, and a plan takes events of the log, no more of them
\* than its limit.
THEOREM TypeCorrect == Spec => []TypeOK
  <1>1. GInv => TypeOK
    <2> SUFFICES ASSUME GInv
                 PROVE  TypeOK
      OBVIOUS
    <2>1. DOMAIN log = 1..Len(log) /\ DOMAIN stamps = 1..Len(stamps)
      BY DEF GInv, LogIsStamped
    <2> QED
      BY <2>1 DEF GInv, LogIsStamped, PlanIsOld, TypeOK
  <1> QED
    BY <1>1, GInvHolds, PTL

-----------------------------------------------------------------------------
(* What the log says without some of its events.                             *)

\* f gives what is left of each of the first k events of l without those of T.
KeptRun(f, l, T, k) ==
    f = [n \in 0..k |->
            IF n = 0 THEN <<>>
            ELSE IF n \in T THEN f[n - 1] ELSE Append(f[n - 1], l[n])]

\* There is such an f.
LEMMA KeptExists ==
    ASSUME NEW l, NEW T
    PROVE  \A k \in Nat : \E f : KeptRun(f, l, T, k)
  <1> DEFINE S == {k \in Nat : \E f : KeptRun(f, l, T, k)}
  <1>1. 0 \in S
    <2> DEFINE f == [n \in 0..0 |-> <<>>]
    <2>1. f = [n \in 0..0 |->
                  IF n = 0 THEN <<>>
                  ELSE IF n \in T THEN f[n - 1] ELSE Append(f[n - 1], l[n])]
      OBVIOUS
    <2> QED
      BY <2>1 DEF KeptRun
  <1>2. ASSUME NEW k \in Nat, k \in S
        PROVE  k + 1 \in S
    <2>1. PICK f : KeptRun(f, l, T, k)
      BY <1>2
    <2> DEFINE last == IF k + 1 \in T THEN f[k] ELSE Append(f[k], l[k + 1])
               g == [n \in 0..(k + 1) |-> IF n = k + 1 THEN last ELSE f[n]]
    <2>2. ASSUME NEW n \in 0..(k + 1)
          PROVE  g[n] = IF n = 0 THEN <<>>
                        ELSE IF n \in T THEN g[n - 1] ELSE Append(g[n - 1], l[n])
      <3>1. CASE n = k + 1
        <4>1. n - 1 = k /\ n # 0 /\ k \in 0..(k + 1) /\ k # k + 1
          BY <3>1
        <4> QED
          BY <3>1, <4>1
      <3>2. CASE n = 0
        BY <3>2, <2>1 DEF KeptRun
      <3>3. CASE n # 0 /\ n # k + 1
        <4>1. n \in 0..k /\ n - 1 \in 0..(k + 1) /\ n - 1 # k + 1
          BY <3>3
        <4>2. f[n] = IF n \in T THEN f[n - 1] ELSE Append(f[n - 1], l[n])
          BY <2>1, <3>3, <4>1 DEF KeptRun
        <4>3. g[n] = f[n] /\ g[n - 1] = f[n - 1]
          BY <3>3, <4>1
        <4> HIDE DEF g
        <4> QED
          BY <3>3, <4>2, <4>3
      <3> QED
        BY <3>1, <3>2, <3>3
    <2>3. KeptRun(g, l, T, k + 1)
      BY <2>2 DEF KeptRun
    <2> QED
      BY <2>3
  <1>3. Nat \subseteq S
    <2> HIDE DEF S
    <2> QED
      BY <1>1, <1>2, Mem!SetInduction, Settings
  <1> QED
    BY <1>3

\* What such an f is at each event.
LEMMA KeptIs ==
    ASSUME NEW f, NEW l, NEW T, NEW k \in Nat, KeptRun(f, l, T, k)
    PROVE  /\ f[0] = <<>>
           /\ \A n \in 1..k : f[n] = IF n \in T THEN f[n - 1] ELSE Append(f[n - 1], l[n])
  <1>1. f[0] = <<>>
    BY DEF KeptRun
  <1>2. ASSUME NEW n \in 1..k
        PROVE  f[n] = IF n \in T THEN f[n - 1] ELSE Append(f[n - 1], l[n])
    <2>1. n \in 0..k /\ n # 0
      OBVIOUS
    <2> QED
      BY <2>1 DEF KeptRun
  <1> QED
    BY <1>1, <1>2

\* The log without the planned events, after each of its first events.
KeptUpTo == CHOOSE f : KeptRun(f, log, plan.targets, Len(log))

\* It is a log, and each event that is kept is one step of its replay.
LEMMA KeptSteps ==
    ASSUME LogIsStamped
    PROVE  /\ Left = KeptUpTo[Len(log)] /\ Mem!Replay(KeptUpTo[0]) = Mem!Nothing
           /\ \A n \in 0..Len(log) : KeptUpTo[n] \in Seq(Mem!Events)
           /\ \A n \in 1..Len(log) :
                 Mem!Replay(KeptUpTo[n]) =
                     IF n \in plan.targets THEN Mem!Replay(KeptUpTo[n - 1])
                     ELSE Mem!ReplayEvent(Mem!Replay(KeptUpTo[n - 1]), log[n])
  <1> DEFINE K == KeptUpTo
             S == {n \in Nat : n <= Len(log) => K[n] \in Seq(Mem!Events)}
  <1>1. Len(log) \in Nat /\ log \in Seq(Mem!Events)
    BY DEF LogIsStamped
  <1>2. KeptRun(K, log, plan.targets, Len(log))
    BY <1>1, KeptExists DEF KeptUpTo
  <1>3. K = CHOOSE f : f = [n \in 0..Len(log) |->
                               IF n = 0 THEN <<>>
                               ELSE IF n \in plan.targets THEN f[n - 1] ELSE Append(f[n - 1], log[n])]
    BY DEF KeptUpTo, KeptRun
  <1>4. Left = K[Len(log)]
    BY <1>3 DEF Left
  <1> HIDE DEF K
  <1>5. /\ K[0] = <<>>
        /\ \A n \in 1..Len(log) :
              K[n] = IF n \in plan.targets THEN K[n - 1] ELSE Append(K[n - 1], log[n])
    BY <1>1, <1>2, KeptIs
  <1>6. 0 \in S
    <2>1. <<>> \in Seq(Mem!Events)
      OBVIOUS
    <2> QED
      BY <1>5, <2>1
  <1>7. ASSUME NEW n \in Nat, n \in S, n + 1 <= Len(log)
        PROVE  K[n + 1] \in Seq(Mem!Events)
    <2>1. n + 1 \in 1..Len(log) /\ n + 1 - 1 = n /\ n <= Len(log)
      BY <1>1, <1>7
    <2>2. log[n + 1] \in Mem!Events /\ K[n] \in Seq(Mem!Events)
      BY <1>1, <1>7, <2>1
    <2>3. K[n + 1] = IF n + 1 \in plan.targets THEN K[n] ELSE Append(K[n], log[n + 1])
      BY <1>5, <2>1
    <2> QED
      BY <2>2, <2>3, Mem!OneMore, Settings
  <1>8. \A n \in Nat : n \in S => n + 1 \in S
    BY <1>7
  <1>9. Nat \subseteq S
    <2> HIDE DEF S
    <2> QED
      BY <1>6, <1>8, Mem!SetInduction, Settings
  <1>10. \A n \in 0..Len(log) : K[n] \in Seq(Mem!Events)
    BY <1>1, <1>9
  <1>11. ASSUME NEW n \in 1..Len(log)
         PROVE  Mem!Replay(K[n]) = IF n \in plan.targets THEN Mem!Replay(K[n - 1])
                                   ELSE Mem!ReplayEvent(Mem!Replay(K[n - 1]), log[n])
    <2>1. n - 1 \in 0..Len(log) /\ log[n] \in Mem!Events
      BY <1>1
    <2>2. K[n - 1] \in Seq(Mem!Events)
      BY <1>10, <2>1
    <2> QED
      BY <1>5, <2>1, <2>2, Mem!OneMore, Settings
  <1>12. Mem!Replay(K[0]) = Mem!Nothing
    <2>1. Mem!Replay(<<>>) = Mem!UpTo(<<>>)[Len(<<>>)] /\ Mem!UpTo(<<>>)[0] = Mem!Nothing
      <3>1. <<>> \in Seq(Mem!Events)
        OBVIOUS
      <3> QED
        BY <3>1, Mem!Steps, Settings
    <2>2. Len(<<>>) = 0
      OBVIOUS
    <2> QED
      BY <1>5, <2>1, <2>2
  <1> QED
    BY <1>4, <1>10, <1>11, <1>12 DEF K

\* The adds of an id among the first n events that no kept event revokes.
KeptAdds(n, id) ==
    {k \in (1..n) \ plan.targets :
        /\ log[k].kind = "added" /\ log[k].id = id
        /\ \A m \in (k..n) \ plan.targets : log[m] # Mem!Marked("revoked", id)}

\* What the kept ones of the first n events make of an id, in v.
KeptDeclares(v, n, id) ==
    /\ id \in DOMAIN v.facts \ v.revoked <=> KeptAdds(n, id) # {}
    /\ \A k \in KeptAdds(n, id) :
          (\A m \in KeptAdds(n, id) : k <= m) => v.facts[id] = log[k]
    /\ id \in v.expired => \E k \in 1..n : log[k] = Mem!Marked("expired", id)

\* A planned event changes nothing of it.
LEMMA SkippedDeclares ==
    ASSUME LogIsStamped, NEW n \in Nat, n + 1 <= Len(log), NEW id, NEW v, KeptDeclares(v, n, id),
           n + 1 \in plan.targets
    PROVE  KeptDeclares(v, n + 1, id)
  <1>1. 1..(n + 1) = 1..n \cup {n + 1} /\ \A k \in 1..n : k..(n + 1) = k..n \cup {n + 1}
    OBVIOUS
  <1>2. KeptAdds(n + 1, id) = KeptAdds(n, id)
    BY <1>1 DEF KeptAdds
  <1> QED
    BY <1>1, <1>2 DEF KeptDeclares

\* A kept event changes it as it changes the view.
LEMMA KeptEventDeclares ==
    ASSUME LogIsStamped, NEW n \in Nat, n + 1 <= Len(log), NEW id,
           NEW v \in Mem!Views, Mem!Filed(v), KeptDeclares(v, n, id),
           NEW e, e = log[n + 1], NEW w, w = Mem!ReplayEvent(v, e), n + 1 \notin plan.targets
    PROVE  w \in Mem!Views /\ Mem!Filed(w) /\ KeptDeclares(w, n + 1, id)
  <1> DEFINE before == KeptAdds(n, id)
             after == KeptAdds(n + 1, id)
  <1>1. /\ n + 1 \in 1..Len(log) /\ 1..(n + 1) = 1..n \cup {n + 1}
        /\ \A k \in 1..n : k..(n + 1) = k..n \cup {n + 1}
    BY DEF LogIsStamped
  <1>2. e \in Mem!Events
    BY <1>1 DEF LogIsStamped
  <1>3. w \in Mem!Views /\ Mem!Filed(w) /\ Mem!After(v, e, w)
    BY <1>2, Mem!ReplayIs, Settings
  <1>4. /\ e = Mem!Marked("revoked", id) <=> e.kind = "revoked" /\ e.id = id
        /\ e = Mem!Marked("expired", id) <=> e.kind = "expired" /\ e.id = id
        /\ e.kind \in {"added", "expired", "revoked"}
    <2>1. /\ e.kind \in {"added", "expired", "revoked"}
          /\ e.kind = "expired" => e = Mem!Marked("expired", e.id)
          /\ e.kind = "revoked" => e = Mem!Marked("revoked", e.id)
      BY <1>2, Mem!EventIs, Settings
    <2>2. /\ Mem!Marked("revoked", id).kind = "revoked" /\ Mem!Marked("revoked", id).id = id
          /\ Mem!Marked("expired", id).kind = "expired" /\ Mem!Marked("expired", id).id = id
      BY DEF Mem!Marked
    <2> QED
      BY <2>1, <2>2
  <1>5. id \in w.expired => \E k \in 1..(n + 1) : log[k] = Mem!Marked("expired", id)
    <2>1. id \in w.expired => id \in v.expired \/ e = Mem!Marked("expired", id)
      BY <1>3, <1>4 DEF Mem!After
    <2> QED
      BY <1>1, <2>1 DEF KeptDeclares
  <1>6. before \subseteq 1..n
    BY DEF KeptAdds
  <1>7. ASSUME e # Mem!Marked("revoked", id)
        PROVE  after = before \cup (IF e.kind = "added" /\ e.id = id THEN {n + 1} ELSE {})
    <2>1. \A m \in (n + 1)..(n + 1) : log[m] # Mem!Marked("revoked", id)
      BY <1>7
    <2> QED
      BY <1>1, <1>7, <2>1 DEF KeptAdds
  <1>8. CASE e = Mem!Marked("revoked", id)
    <2>1. after = {}
      <3>1. /\ log[n + 1] = Mem!Marked("revoked", id)
            /\ \A k \in 1..(n + 1) : n + 1 \in (k..(n + 1)) \ plan.targets
        BY <1>8
      <3> QED
        BY <3>1 DEF KeptAdds
    <2>2. id \in w.revoked
      BY <1>3, <1>4, <1>8 DEF Mem!After
    <2> QED
      BY <1>3, <1>5, <2>1, <2>2 DEF KeptDeclares
  <1>9. CASE e.kind = "added" /\ e.id = id
    <2>1. after = before \cup {n + 1}
      BY <1>4, <1>7, <1>9
    <2>2. id \in DOMAIN w.facts \ w.revoked
      BY <1>3, <1>9 DEF Mem!After
    <2>3. ASSUME NEW k \in after, \A m \in after : k <= m
          PROVE  w.facts[id] = log[k]
      <3>1. CASE before = {}
        <4>1. k = n + 1 /\ id \notin DOMAIN v.facts \ v.revoked
          BY <2>1, <3>1 DEF KeptDeclares
        <4> QED
          BY <1>3, <1>9, <2>2, <4>1 DEF Mem!After
      <3>2. CASE before # {}
        <4>1. id \in DOMAIN v.facts \ v.revoked
          BY <3>2 DEF KeptDeclares
        <4>2. k \in before /\ \A m \in before : k <= m
          BY <1>6, <2>1, <2>3, <3>2
        <4>3. v.facts[id] = log[k]
          BY <4>2 DEF KeptDeclares
        <4> QED
          BY <1>3, <1>9, <2>2, <4>1, <4>3 DEF Mem!After
      <3> QED
        BY <3>1, <3>2
    <2> QED
      BY <1>3, <1>5, <2>1, <2>2, <2>3 DEF KeptDeclares
  <1>10. CASE e # Mem!Marked("revoked", id) /\ ~(e.kind = "added" /\ e.id = id)
    <2>1. after = before
      BY <1>7, <1>10
    <2>2. id \in DOMAIN w.facts \ w.revoked <=> id \in DOMAIN v.facts \ v.revoked
      BY <1>3, <1>4, <1>10 DEF Mem!After
    <2>3. id \in DOMAIN w.facts => w.facts[id] = v.facts[id]
      BY <1>3, <1>10 DEF Mem!After
    <2> HIDE DEF before, after
    <2>4. \A k \in before : (\A m \in before : k <= m) => v.facts[id] = log[k]
      BY DEF KeptDeclares, before
    <2>5. id \in DOMAIN v.facts \ v.revoked <=> before # {}
      BY DEF KeptDeclares, before
    <2>6. \A k \in after : (\A m \in after : k <= m) => w.facts[id] = log[k]
      BY <2>1, <2>2, <2>3, <2>4, <2>5
    <2> QED
      BY <1>3, <1>5, <2>1, <2>2, <2>5, <2>6 DEF KeptDeclares, after
  <1> QED
    BY <1>8, <1>9, <1>10

\* The replay of what is left finds what the kept events say.
LEMMA LeftDeclares ==
    ASSUME LogIsStamped, NEW id
    PROVE  KeptDeclares(Mem!Replay(Left), Len(log), id)
  <1> DEFINE R(n) == Mem!Replay(KeptUpTo[n])
             Holds(n) == R(n) \in Mem!Views /\ Mem!Filed(R(n)) /\ KeptDeclares(R(n), n, id)
             S == {n \in Nat : n <= Len(log) => Holds(n)}
  <1>1. Len(log) \in Nat /\ log \in Seq(Mem!Events)
    BY DEF LogIsStamped
  <1>2. /\ R(0) = Mem!Nothing /\ R(Len(log)) = Mem!Replay(Left)
        /\ \A n \in 1..Len(log) :
              R(n) = IF n \in plan.targets THEN R(n - 1) ELSE Mem!ReplayEvent(R(n - 1), log[n])
    BY KeptSteps
  <1> HIDE DEF R
  <1>3. 0 \in S
    <2>1. Mem!Nothing \in Mem!Views /\ Mem!Filed(Mem!Nothing)
      BY Mem!NothingIs, Settings
    <2>2. KeptDeclares(Mem!Nothing, 0, id)
      BY DEF KeptDeclares, KeptAdds, Mem!Nothing
    <2> QED
      BY <1>2, <2>1, <2>2
  <1>4. ASSUME NEW n \in Nat, n \in S, n + 1 <= Len(log)
        PROVE  Holds(n + 1)
    <2>1. n + 1 \in 1..Len(log) /\ n + 1 - 1 = n /\ Holds(n)
      BY <1>1, <1>4
    <2>2. CASE n + 1 \in plan.targets
      <3>1. R(n + 1) = R(n)
        BY <1>2, <2>1, <2>2
      <3>2. KeptDeclares(R(n), n + 1, id)
        BY <1>4, <2>1, <2>2, SkippedDeclares
      <3> QED
        BY <2>1, <3>1, <3>2
    <2>3. CASE n + 1 \notin plan.targets
      <3>1. R(n + 1) = Mem!ReplayEvent(R(n), log[n + 1])
        BY <1>2, <2>1, <2>3
      <3> QED
        BY <1>4, <2>1, <2>3, <3>1, KeptEventDeclares
    <2> QED
      BY <2>2, <2>3
  <1>5. \A n \in Nat : n \in S => n + 1 \in S
    BY <1>4
  <1>6. Nat \subseteq S
    <2> HIDE DEF S
    <2> QED
      BY <1>3, <1>5, Mem!SetInduction, Settings
  <1>7. Holds(Len(log))
    BY <1>1, <1>6
  <1> QED
    BY <1>2, <1>7

-----------------------------------------------------------------------------
(* What a plan can lose.                                                     *)

\* An add that is no younger than a planned event and outlives today was written under a
\* plan with a longer lifetime: the window of the plan outlasts the lifetime of its facts.
LEMMA OutlivesThePlan ==
    ASSUME GInv, NEW m \in plan.targets, NEW k \in 1..m, log[k].kind = "added",
           log[k].until > now
    PROVE  Lowered(k)
  <1> DEFINE window == Window[plan.of]
             cap == PLAN_MEMORY_TTL_CAP[plan.of]
             until == log[k].until
             a == stamps[k]
             b == stamps[m]
  <1>1. /\ plan.of \in PlanTier /\ m \in 1..Len(log) /\ b + window <= now
        /\ Len(log) \in Nat /\ Len(stamps) = Len(log) /\ stamps \in Seq(Times)
    BY DEF GInv, LogIsStamped, PlanIsOld
  <1>2. /\ k \in 1..Len(log) /\ DOMAIN stamps = 1..Len(stamps) /\ k <= m
    BY <1>1
  <1>3. a \in Nat /\ b \in Nat
    BY <1>1, <1>2, TimesAreNat
  <1>4. a <= b
    <2>1. CASE k = m
      BY <2>1, <1>3
    <2>2. CASE k < m
      BY <1>1, <1>2, <2>2 DEF GInv, LogIsStamped
    <2> QED
      BY <1>1, <1>2, <2>1, <2>2
  <1>5. until \in Nat
    <2>1. log[k] \in Mem!Events
      BY <1>1, <1>2 DEF GInv, LogIsStamped
    <2>2. log[k] \in Mem!Adds
      BY <2>1, Mem!EventIs, Settings
    <2> QED
      BY <2>2, Mem!AddIs, Settings
  <1>6. window \in Nat /\ cap \in Nat /\ cap <= window
    BY <1>1, WindowOutlasts, Tables
  <1>7. now \in Nat
    <2>1. Times \subseteq Nat
      BY GovernanceSettings
    <2> QED
      BY <2>1 DEF GInv, LogIsStamped
  <1>8. until > now
    OBVIOUS
  <1> HIDE DEF window, cap, until, a, b
  <1>9. until - a > cap
    BY <1>1, <1>3, <1>4, <1>5, <1>6, <1>7, <1>8
  <1> QED
    BY <1>9 DEF Lowered, until, a, cap

\* What the log says of an id before and after the planned events are gone.
LEMMA BothDeclare ==
    ASSUME GInv, NEW id \in FactIds
    PROVE  /\ Mem!Declared(Mem!Replay(log), log, Len(log), id)
           /\ KeptDeclares(Mem!Replay(Left), Len(log), id)
  <1>1. LogIsStamped /\ log \in Seq(Mem!Events) /\ Len(log) \in 0..Len(log)
    BY DEF GInv, LogIsStamped
  <1>2. Mem!Declared(Mem!UpTo(log)[Len(log)], log, Len(log), id)
    BY <1>1, Mem!LogDeclares, Settings
  <1>3. Mem!Replay(log) = Mem!UpTo(log)[Len(log)]
    BY <1>1, Mem!Steps, Settings
  <1> QED
    BY <1>1, <1>2, <1>3, LeftDeclares

\* The first add of an id that counts, in the log and in what is left of it.
LEMMA FirstAdds ==
    ASSUME GInv, NEW id
    PROVE  /\ Mem!AddsSoFar(log, Len(log), id) # {} =>
                 \E f \in Mem!AddsSoFar(log, Len(log), id) :
                    \A m \in Mem!AddsSoFar(log, Len(log), id) : f <= m
           /\ KeptAdds(Len(log), id) # {} =>
                 \E f \in KeptAdds(Len(log), id) : \A m \in KeptAdds(Len(log), id) : f <= m
  <1>1. Mem!AddsSoFar(log, Len(log), id) \in SUBSET Nat /\ KeptAdds(Len(log), id) \in SUBSET Nat
    BY DEF GInv, LogIsStamped, Mem!AddsSoFar, KeptAdds
  <1> QED
    BY <1>1, Mem!Least, Settings

\* An add counts without the planned events but not with them: one of them revokes it.
LEMMA RevocationIsPlanned ==
    ASSUME GInv, NEW id, NEW k \in KeptAdds(Len(log), id),
           k \notin Mem!AddsSoFar(log, Len(log), id)
    PROVE  /\ LeavesRevoked(id) /\ k \in DOMAIN log \ plan.targets /\ log[k].kind = "added"
           /\ \E m \in plan.targets : k \in 1..m
  <1>1. /\ k \in (1..Len(log)) \ plan.targets /\ log[k].kind = "added" /\ log[k].id = id
        /\ \A m \in (k..Len(log)) \ plan.targets : log[m] # Mem!Marked("revoked", id)
    BY DEF KeptAdds
  <1>2. PICK m \in k..Len(log) : log[m] = Mem!Marked("revoked", id)
    BY <1>1 DEF Mem!AddsSoFar
  <1>3. m \in plan.targets
    BY <1>1, <1>2
  <1>4. m # k
    <2>1. Mem!Marked("revoked", id).kind = "revoked"
      BY DEF Mem!Marked
    <2> QED
      BY <1>1, <1>2, <2>1
  <1>5. k < m /\ k \in 1..m /\ DOMAIN log = 1..Len(log)
    BY <1>1, <1>2, <1>4 DEF GInv, LogIsStamped
  <1>6. log[m] = Memory!Marked("revoked", id)
    BY <1>2, SameMemory
  <1>7. LeavesRevoked(id)
    BY <1>1, <1>3, <1>5, <1>6 DEF LeavesRevoked
  <1> QED
    BY <1>1, <1>3, <1>5, <1>7

LEMMA LossIsExplained ==
    ASSUME GInv, NEW v, v = Mem!Replay(log), NEW w, w = Mem!Replay(Left),
           NEW id \in FactIds, id \in Mem!Active(v, now),
           id \notin Mem!Active(w, now) \/ w.facts[id] # v.facts[id]
    PROVE  \/ LeavesRevoked(id)
           \/ \E n \in plan.targets : log[n] = v.facts[id] /\ Lowered(n)
  <1> DEFINE adds == Mem!AddsSoFar(log, Len(log), id)
             kept == KeptAdds(Len(log), id)
  <1>1. Mem!Declared(v, log, Len(log), id) /\ KeptDeclares(w, Len(log), id)
    BY BothDeclare
  <1>2. /\ id \in DOMAIN v.facts \ v.revoked /\ id \notin v.expired
        /\ v.facts[id].until > now
    BY DEF Mem!Active
  <1>3. adds # {}
    BY <1>1, <1>2 DEF Mem!Declared
  <1>4. PICK f \in adds : \A m \in adds : f <= m
    BY <1>3, FirstAdds
  <1>5. v.facts[id] = log[f]
    BY <1>1, <1>4 DEF Mem!Declared
  <1>6. /\ f \in 1..Len(log) /\ log[f].kind = "added" /\ log[f].id = id
        /\ \A m \in f..Len(log) : log[m] # Mem!Marked("revoked", id)
    BY <1>4 DEF Mem!AddsSoFar
  <1>7. CASE f \in plan.targets
    <2>1. f \in 1..f
      BY <1>6
    <2>2. Lowered(f)
      BY <1>2, <1>5, <1>6, <1>7, <2>1, OutlivesThePlan
    <2> QED
      BY <1>5, <1>7, <2>2
  <1>8. CASE f \notin plan.targets
    <2>1. f \in kept
      BY <1>6, <1>8 DEF KeptAdds
    <2>2. PICK g \in kept : \A m \in kept : g <= m
      BY <2>1, FirstAdds
    <2>3. w.facts[id] = log[g] /\ id \in DOMAIN w.facts \ w.revoked
      BY <1>1, <2>1, <2>2 DEF KeptDeclares
    <2>4. id \notin w.expired
      BY <1>1, <1>2 DEF KeptDeclares, Mem!Declared
    <2>5. g # f
      BY <1>2, <1>5, <2>3, <2>4 DEF Mem!Active
    <2>6. g \notin adds
      <3>1. g <= f /\ g \in Nat /\ f \in Nat
        BY <1>6, <2>1, <2>2 DEF KeptAdds
      <3> HIDE DEF adds
      <3> QED
        BY <1>4, <2>5, <3>1
    <2> QED
      BY <2>2, <2>6, RevocationIsPlanned
  <1> QED
    BY <1>7, <1>8

LEMMA ReturnIsExplained ==
    ASSUME GInv, NEW v, v = Mem!Replay(log), NEW w, w = Mem!Replay(Left),
           NEW id \in FactIds, id \in v.revoked, id \in Mem!Active(w, now)
    PROVE  /\ LeavesRevoked(id)
           /\ \E n \in DOMAIN log \ plan.targets : log[n] = w.facts[id] /\ Lowered(n)
  <1>1. Mem!Declared(v, log, Len(log), id) /\ KeptDeclares(w, Len(log), id)
    BY BothDeclare
  <1>2. Mem!AddsSoFar(log, Len(log), id) = {}
    BY <1>1 DEF Mem!Declared
  <1>3. id \in DOMAIN w.facts \ w.revoked /\ w.facts[id].until > now
    BY DEF Mem!Active
  <1>4. KeptAdds(Len(log), id) # {}
    BY <1>1, <1>3 DEF KeptDeclares
  <1>5. PICK k \in KeptAdds(Len(log), id) : \A m \in KeptAdds(Len(log), id) : k <= m
    BY <1>4, FirstAdds
  <1>6. w.facts[id] = log[k]
    BY <1>1, <1>5 DEF KeptDeclares
  <1>7. /\ LeavesRevoked(id) /\ k \in DOMAIN log \ plan.targets /\ log[k].kind = "added"
        /\ \E m \in plan.targets : k \in 1..m
    BY <1>2, <1>5, RevocationIsPlanned
  <1>8. Lowered(k)
    BY <1>3, <1>6, <1>7, OutlivesThePlan
  <1> QED
    BY <1>6, <1>7, <1>8

\* retention.py, create_deletion_plan: a plan may be carried out at any time after it is
\* made.  It then loses a fact that can be read only if the tenant had a plan with a longer
\* lifetime when the fact was written, or if it takes a revocation and leaves an add that it
\* revoked; and a revoked fact comes back only if both are true of it.
THEOREM PruningLosesTheOld == Spec => []PruningIsSafe
  <1>1. GInv => PruningIsSafe
    <2> SUFFICES ASSUME GInv
                 PROVE  PruningIsSafe
      OBVIOUS
    <2> DEFINE v == Mem!Replay(log)
               w == Mem!Replay(Left)
    <2>1. /\ v = Memory!Replay(log) /\ w = Memory!Replay(Left)
          /\ Mem!Active(v, now) = Memory!Active(v, now)
          /\ Mem!Active(w, now) = Memory!Active(w, now)
      BY SameMemory
    <2>2. v \in Mem!Views
      <3>1. log \in Seq(Mem!Events) /\ Len(log) \in 0..Len(log)
        BY DEF GInv, LogIsStamped
      <3>2. Mem!UpTo(log)[Len(log)] \in Mem!Views
        BY <3>1, Mem!ViewsAre, Settings
      <3>3. v = Mem!UpTo(log)[Len(log)]
        BY <3>1, Mem!Steps, Settings
      <3> QED
        BY <3>2, <3>3
    <2>3. DOMAIN v.facts \subseteq FactIds /\ v.revoked \subseteq FactIds
      BY <2>2 DEF Mem!Views
    <2>4. Memory!Active(v, now) \subseteq FactIds
      BY <2>3 DEF Memory!Active
    <2>5. \A id \in FactIds :
             (id \in Mem!Active(v, now) /\ (id \notin Mem!Active(w, now) \/ w.facts[id] # v.facts[id]))
             => \/ LeavesRevoked(id)
                \/ \E n \in plan.targets : log[n] = v.facts[id] /\ Lowered(n)
      BY LossIsExplained
    <2>6. \A id \in FactIds :
             (id \in v.revoked /\ id \in Mem!Active(w, now))
             => /\ LeavesRevoked(id)
                /\ \E n \in DOMAIN log \ plan.targets : log[n] = w.facts[id] /\ Lowered(n)
      BY ReturnIsExplained
    <2> HIDE DEF v, w
    <2> QED
      BY <2>1, <2>3, <2>4, <2>5, <2>6 DEF PruningIsSafe
  <1> QED
    BY <1>1, GInvHolds, PTL
=============================================================================
