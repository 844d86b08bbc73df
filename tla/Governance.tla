----------------------------- MODULE Governance -----------------------------
(***************************************************************************)
(* A tenant whose plan changes while its memory is written and its old      *)
(* events are planned for deletion: governance/tenant.py, policy_engine.py  *)
(* and retention.py beside the event log of backend/app/memory.             *)
(*                                                                         *)
(* The executor of a deletion plan is a stub in the code, so no event is    *)
(* ever deleted; the properties say what the log would be worth without the *)
(* planned events, then and at any later time.                              *)
(***************************************************************************)
EXTENDS TenantRules, Sequences

CONSTANTS
    Regions,
    Tenants,            \* the configurations the tenant may have
    Asks,               \* what callers ask of decide_policy
    FactIds, Facts, Requests,           \* as in MemoryStore
    MaxEvents, MaxFactsPerWrite,        \* limits of the code
    MAX_CANDIDATES_PROCESSED, MAX_OPS_PER_RUN,
    OpsAsked,           \* max_ops_per_run of the callers, 0 for none
    Times,              \* the times at which something may happen
    MaxTime             \* bound on the clock

MemoryTiers == {"FREE", "PRO", "MAX"}

ASSUME GovernanceSettings ==
    /\ Tenants \subseteq TenantConfig(Regions)
    /\ \A a \in Asks : a.op \in OperationType /\ a.requested \in RequestedParams(Regions)
    /\ None \notin Regions
    /\ MaxTime \in Nat /\ Times \subseteq 0..MaxTime /\ 0 \in Times
    /\ OpsAsked \subseteq Nat
    /\ {MAX_CANDIDATES_PROCESSED, MAX_OPS_PER_RUN} \subseteq Nat

\* What MemoryStore asks of its facts and requests.
ASSUME GovernedMemory ==
    /\ FactIds \subseteq Nat
    /\ \A f \in Facts : f.id \in FactIds /\ f.rank \in Nat /\ f.sound \in BOOLEAN
    /\ \A r \in Requests : /\ r.facts \in Seq(Facts) /\ r.tier \in MemoryTiers
                          /\ r.requested \in 0..3
    /\ {MaxEvents, MaxFactsPerWrite} \subseteq Nat \ {0}

VARIABLES
    tenant,     \* the configuration in force
    log,        \* the memory events of the tenant's scope
    stamps,     \* when each of them was made
    now,        \* the clock, in minutes
    plan        \* the last deletion plan

vars == <<tenant, log, stamps, now, plan>>

Memory ==
    INSTANCE MemoryStore WITH
        Tiers <- MemoryTiers,
        PlanCap <- [FREE |-> 1, PRO |-> 2, MAX |-> 3],
        PlanDefault <- [FREE |-> 1, PRO |-> 2, MAX |-> 2],
        Ttl <- <<Hour, Day, 10 * Day>>,
        Bucket <- 1, PerCategory <- 25, Total <- 100

NoPlan == [allowed |-> FALSE, targets |-> {}, of |-> "FREE"]

Init ==
    /\ tenant \in Tenants
    /\ log = <<>> /\ stamps = <<>>
    /\ now = 0
    /\ plan = NoPlan

SetTenant(cfg) ==
    /\ tenant' = cfg
    /\ UNCHANGED <<log, stamps, now, plan>>

\* Each event carries the time it was made at.
Stamped == stamps' = stamps \o [n \in 1..Len(log') - Len(log) |-> now]

\* The memory knows no tier ENTERPRISE; its callers choose the tier.
TierOf(p) == IF p = "ENTERPRISE" THEN "MAX" ELSE p

\* A caller asks for the decision, then writes under the tier of the tenant's plan.
Write(r) ==
    /\ Decide(tenant, "MEMORY_WRITE_PHASE17", NoRequest).allowed
    /\ r.tier = TierOf(tenant.plan)
    /\ Memory!Write(r)
    /\ Stamped
    /\ UNCHANGED <<tenant, plan>>

Mark(id) ==
    /\ Memory!MarkExpired(id) \/ Memory!Revoke(id)
    /\ Stamped
    /\ UNCHANGED <<tenant, plan>>

-----------------------------------------------------------------------------
Eligible ==
    {n \in 1..AtMost(Len(log), MAX_CANDIDATES_PROCESSED) : stamps[n] <= Cutoff(tenant, now)}

\* Deviation: a caller may ask for more than the limit.
OpsAsAsked(ops) == IF ops = 0 THEN MAX_OPS_PER_RUN ELSE ops

EffectiveMaxOps(ops) == IF ops = 0 THEN MAX_OPS_PER_RUN ELSE AtMost(ops, MAX_OPS_PER_RUN)

\* The targets are sorted by bucket, and within a bucket by the hashes of their
\* records, which may be in any order; the first of them are taken.
FirstOf(eligible, size) ==
    {targets \in SUBSET eligible :
        /\ Cardinality(targets) = AtMost(Cardinality(eligible), size)
        /\ \A t \in targets, e \in eligible \ targets :
              BucketStart(stamps[t]) <= BucketStart(stamps[e])}

create_deletion_plan(ops) ==
    /\ \E targets \in FirstOf(Eligible, EffectiveMaxOps(ops)) :
          plan' = [allowed |-> TRUE, targets |-> targets, of |-> tenant.plan]
    /\ UNCHANGED <<tenant, log, stamps, now>>

\* The caller has no configuration of the tenant.
FailClosedPlan ==
    /\ plan' = NoPlan
    /\ UNCHANGED <<tenant, log, stamps, now>>

Pass(t) ==
    /\ t > now
    /\ now' = t
    /\ UNCHANGED <<tenant, log, stamps, plan>>

Next ==
    \/ \E cfg \in Tenants : SetTenant(cfg)
    \/ \E r \in Requests : Write(r)
    \/ \E id \in FactIds : Mark(id)
    \/ \E ops \in OpsAsked : create_deletion_plan(ops)
    \/ FailClosedPlan
    \/ \E t \in Times : Pass(t)

Spec == Init /\ [][Next]_vars

-----------------------------------------------------------------------------
(* Properties.                                                               *)

TypeOK ==
    /\ tenant \in Tenants
    /\ Len(log) <= MaxEvents /\ Len(stamps) = Len(log)
    /\ now \in Times
    /\ \A n \in DOMAIN stamps : stamps[n] \in Times /\ stamps[n] <= now
    /\ \A m, n \in DOMAIN stamps : m < n => stamps[m] <= stamps[n]
    /\ plan.targets \subseteq DOMAIN log /\ Cardinality(plan.targets) <= MAX_OPS_PER_RUN
    /\ plan.of \in PlanTier
    /\ (~plan.allowed => plan.targets = {})

\* policy_engine.py: "requested flags can only clamp down, never expand tenant caps".
\* Whatever the answer, no limit exceeds what the plan's features give; if the
\* operation is allowed, none exceeds a safe request either, and a request that
\* fails closed is given nothing.
WithinCaps(cfg, ask) ==
    LET decision == Decide(cfg, ask.op, ask.requested)
        limits == decision.limits
        caps == Caps(cfg)
    IN  /\ limits.tools \subseteq caps.tools /\ limits.calls <= 2 * caps.passes
        /\ limits.passes <= caps.passes /\ limits.ttl <= caps.ttl
        /\ limits.facts <= caps.facts /\ limits.readFacts <= caps.facts
        /\ (limits.export => caps.export)
        /\ (limits.scopes # {} => limits.export)
        /\ (decision.allowed /\ ask.requested.safe) =>
              /\ limits.calls <= ask.requested.calls /\ limits.facts <= ask.requested.facts
              /\ limits.readFacts <= ask.requested.facts
              /\ limits.ttl <= ask.requested.ttl /\ limits.log <= ask.requested.log
              /\ limits.scopes \subseteq ask.requested.scopes
              /\ ask.requested.region \in cfg.regions \cup {None}
        /\ (decision.reason \in {"TENANT_INVALID", "REGION_DISALLOWS_OPERATION"}) =>
              (~decision.allowed /\ limits = NoLimits)

Clamping == {cfg \in Tenants : \A ask \in Asks : WithinCaps(cfg, ask)}

RequestsOnlyClamp == tenant \in Clamping

PlanRank == [FREE |-> 1, PRO |-> 2, MAX |-> 3, ENTERPRISE |-> 4]

Lower(low, high) ==
    /\ PlanRank[low.plan] <= PlanRank[high.plan]
    /\ low.features \subseteq high.features /\ low.regions \subseteq high.regions
    /\ (low.valid => high.valid)

Less(a, b) ==
    /\ a.tools \subseteq b.tools /\ a.scopes \subseteq b.scopes /\ a.regions \subseteq b.regions
    /\ a.calls <= b.calls /\ a.passes <= b.passes /\ a.facts <= b.facts
    /\ a.readFacts <= b.readFacts /\ a.ttl <= b.ttl /\ a.log <= b.log
    /\ (a.export => b.export) /\ (a.memory => b.memory)

\* A tenant that loses features, regions or its plan gains nothing by it: what is
\* allowed after was allowed before, with limits at least as wide.
NoMore(low, high, ask) ==
    LET after == Decide(low, ask.op, ask.requested)
        before == Decide(high, ask.op, ask.requested)
    IN  after.allowed => (before.allowed /\ Less(after.limits, before.limits))

NoWider ==
    {c \in {<<low, high>> : low \in Tenants, high \in Tenants} :
        \A ask \in Asks : NoMore(c[1], c[2], ask)}

LoweringOnlyTakes == [][Lower(tenant', tenant) => <<tenant', tenant>> \in NoWider]_vars

\* The log as it would be without the planned events.
Left ==
    LET kept[n \in 0..Len(log)] ==
          IF n = 0 THEN <<>>
          ELSE IF n \in plan.targets THEN kept[n - 1] ELSE Append(kept[n - 1], log[n])
    IN kept[Len(log)]

\* Event n may outlive the plan the deletion was planned under: it was written under
\* a plan with a longer lifetime.
Lowered(n) == log[n].kind = "added" /\ log[n].until - stamps[n] > PLAN_MEMORY_TTL_CAP[plan.of]

\* The plan takes a revocation of the id and leaves an add that it revoked.
LeavesRevoked(id) ==
    \E m \in DOMAIN log \ plan.targets, n \in plan.targets :
        m < n /\ log[m].kind = "added" /\ log[m].id = id /\ log[n] = Memory!Marked("revoked", id)

\* retention.py, get_memory_ttl_cutoff: events before the cutoff "can be safely pruned".
\* A fact that can be read is lost by a plan, then or later, only if it was written
\* under a plan with a longer lifetime, or if the plan splits an earlier add from its
\* revocation; and a revoked fact comes back only if both are true of it.
PruningIsSafe ==
    LET v == Memory!Replay(log)
        w == Memory!Replay(Left)
        lost == {id \in Memory!Active(v, now) :
                    id \notin Memory!Active(w, now) \/ w.facts[id] # v.facts[id]}
    IN  /\ \A id \in lost :
              \/ LeavesRevoked(id)
              \/ \E n \in plan.targets : log[n] = v.facts[id] /\ Lowered(n)
        /\ \A id \in v.revoked \cap Memory!Active(w, now) :
              /\ LeavesRevoked(id)
              /\ \E n \in DOMAIN log \ plan.targets : log[n] = w.facts[id] /\ Lowered(n)
=============================================================================
