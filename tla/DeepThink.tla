----------------------------- MODULE DeepThink -----------------------------
(***************************************************************************)
(* Deep thinking (backend/app/deepthink): the router turns a request into a *)
(* plan of two to five passes, and the engine runs the passes in order over *)
(* the baseline decision.  Each pass proposes a patch, the validator takes  *)
(* or refuses it, and the run ends with the patched decision or, when       *)
(* anything stopped it, with the baseline.                                  *)
(***************************************************************************)
EXTENDS Integers, Sequences, FiniteSets

CONSTANTS
    Inputs,         \* the router inputs; a budget or timeout of -1 is "not given"
    Contexts,       \* the engine's flags, which may differ from the router's
    TierPasses, TierTimeout, TierBudget,    \* the tiers' settings
    MinTimeout, MinBudget,                  \* the least share of a pass
    Costs, Times    \* bounds: what one pass may cost and take

Tiers == DOMAIN TierPasses
Passes == {"REFINE", "COUNTERARG", "STRESS_TEST", "ALTERNATIVES", "REGRET"}

\* In percent, of the timeout and of the budget alike.
Weight == [REFINE |-> 30, COUNTERARG |-> 20, STRESS_TEST |-> 20, ALTERNATIVES |-> 15, REGRET |-> 15]

ASSUME DeepThinkSettings ==
    /\ TierPasses \in [Tiers -> 0..5]
    /\ {TierTimeout, TierBudget} \subseteq [Tiers -> Nat]
    /\ Inputs \subseteq [tier : Tiers, enabled : BOOLEAN, deep : BOOLEAN, breaker : BOOLEAN,
                         abuse : BOOLEAN, timeout : Int, budget : Int]
    /\ Contexts \subseteq [breaker : BOOLEAN, abuse : BOOLEAN]
    /\ {MinTimeout, MinBudget} \subseteq Nat \ {0, 1}
    /\ Costs \subseteq Nat /\ Times \subseteq Nat

VARIABLES
    input,          \* RouterInput
    plan,
    context,        \* the flags of EngineContext
    remaining,      \* context.budget_units_remaining
    elapsed,        \* context.now_ms() - start_time_ms
    strikes,        \* validator_strikes
    summaries,      \* pass_summaries
    initial,        \* initial_state
    current,        \* current_state: its action and the passes whose patches it has
    outcome         \* EngineOutput: why the run stopped and the final state

runVars == <<input, plan, context, remaining, elapsed, strikes, summaries, initial, current, outcome>>

Actions == {"ANSWER", "ASK_CLARIFY", "REFUSE", "FALLBACK"}
DecisionAction == {"ANSWER", "REFUSE", "FALLBACK"}

StopReason ==
    {"SUCCESS_COMPLETED", "BUDGET_EXHAUSTED", "PASS_LIMIT_REACHED", "TIMEOUT", "BREAKER_TRIPPED",
     "ENTITLEMENT_CAP", "ABUSE", "VALIDATION_FAIL", "INTERNAL_INCONSISTENCY"}

None == "none"

Total(s) ==
    LET sum[n \in 0..Len(s)] == IF n = 0 THEN 0 ELSE sum[n - 1] + s[n]
    IN sum[Len(s)]

Least(S) == CHOOSE n \in S : \A k \in S : n <= k

\* The reason of the first check that holds.
FirstReason(checks) ==
    LET n == Least({k \in DOMAIN checks : checks[k][1]} \cup {Len(checks) + 1})
    IN IF n > Len(checks) THEN None ELSE checks[n][2]

-----------------------------------------------------------------------------
(* The router.                                                               *)

TotalTimeout(in) == IF in.timeout = -1 THEN TierTimeout[in.tier] ELSE in.timeout
TotalBudget(in) == IF in.budget = -1 THEN TierBudget[in.tier] ELSE in.budget

PassCount(in) ==
    Least({TierPasses[in.tier], TotalTimeout(in) \div MinTimeout, TotalBudget(in) \div MinBudget, 5})

PassPlan(count) ==
    CASE count = 2 -> <<"REFINE", "STRESS_TEST">>
      [] count = 3 -> <<"REFINE", "COUNTERARG", "STRESS_TEST">>
      [] count = 4 -> <<"REFINE", "COUNTERARG", "ALTERNATIVES", "STRESS_TEST">>
      [] count = 5 -> <<"REFINE", "COUNTERARG", "STRESS_TEST", "ALTERNATIVES", "REGRET">>
      [] OTHER -> <<>>

\* _allocate_resource: by weight, rounded down; the rest is dealt in plan order;
\* a share below the least is raised to it, so the shares may exceed the total.
\* The code rounds a floating-point quotient: a share may differ by one there.
Allocation(passes, total, least) ==
    LET weights == Total([n \in 1..Len(passes) |-> Weight[passes[n]]])
        floor == [n \in 1..Len(passes) |-> (Weight[passes[n]] * total) \div weights]
        rest == total - Total(floor)
        dealt == [n \in 1..Len(passes) |-> floor[n] + (rest + Len(passes) - n) \div Len(passes)]
    IN [n \in 1..Len(passes) |-> IF dealt[n] < least THEN least ELSE dealt[n]]

Disabled(reason) == [passes |-> <<>>, timeouts |-> <<>>, budgets |-> <<>>, stop |-> reason]

BuildPlan(in) ==
    LET stop == FirstReason(<<
            <<~in.enabled \/ in.tier = "FREE", "ENTITLEMENT_CAP">>,
            <<in.breaker, "BREAKER_TRIPPED">>,
            <<in.abuse, "ABUSE">>,
            <<~in.deep \/ TierPasses[in.tier] = 0, "ENTITLEMENT_CAP">>,
            <<TotalTimeout(in) < 2 * MinTimeout \/ TotalBudget(in) <= 0, "BUDGET_EXHAUSTED">>,
            <<PassCount(in) < 2, "BUDGET_EXHAUSTED">> >>)
        passes == PassPlan(PassCount(in))
    IN IF stop # None THEN Disabled(stop)
       ELSE [passes |-> passes, stop |-> None,
             timeouts |-> Allocation(passes, TotalTimeout(in), MinTimeout),
             budgets |-> Allocation(passes, TotalBudget(in), MinBudget)]

-----------------------------------------------------------------------------
(* The passes and the validator.  A patch is what it sets the action to,     *)
(* "keep" when it changes texts only, "foreign" when it sets a field outside *)
(* the allowed ones.                                                         *)

\* What each pass may propose, given the action so far.  Which of its cases a pass
\* finds is left open: it reads that off the texts.
Refine == Actions \cup {"keep", "foreign"}

Counterargument(action) == {"keep"} \cup (IF action = "ANSWER" THEN {"ASK_CLARIFY"} ELSE {})

StressTest(action) == {"keep"} \cup (IF action # "ASK_CLARIFY" THEN {"ASK_CLARIFY"} ELSE {})

Alternatives(action) == {"keep"} \cup ({"ASK_CLARIFY", "FALLBACK"} \ {action})

Regret(action) == {"keep"} \cup (IF action = "ANSWER" THEN {"ASK_CLARIFY", "FALLBACK"} ELSE {})

Proposals(pass, action) ==
    CASE pass = "REFINE" -> Refine
      [] pass = "COUNTERARG" -> Counterargument(action)
      [] pass = "STRESS_TEST" -> StressTest(action)
      [] pass = "ALTERNATIVES" -> Alternatives(action)
      [] pass = "REGRET" -> Regret(action)

Valid(patch) == patch \in DecisionAction \cup {"keep"}

\* apply_delta.  It checks what validate_delta checked and so never raises.
Applied(d, pass, patch) ==
    [action |-> IF patch = "keep" THEN d.action ELSE patch, by |-> Append(d.by, pass)]

\* The time is what the injected clock advanced while the pass ran.
Summary(pass, patch, applied, cost, time) ==
    [pass |-> pass, patch |-> patch, applied |-> applied, cost |-> cost, time |-> time]

-----------------------------------------------------------------------------
(* The engine.                                                               *)

Baselines == [action : Actions, by : {<<>>}]

NotStarted == [reason |-> "not started"]
Pending == [reason |-> None]

\* Deviation: a stopped run delivers what it has.
DeliverPartial(reason) == outcome' = [reason |-> reason, final |-> current']

\* Every stop but a completed plan gives the baseline back.
Deliver(reason) ==
    outcome' = [reason |-> reason,
                final |-> IF reason = "SUCCESS_COMPLETED" THEN current' ELSE initial]

RunInit ==
    /\ input \in Inputs
    /\ plan = BuildPlan(input)
    /\ context \in Contexts
    /\ remaining = 0 /\ elapsed = 0 /\ strikes = 0
    /\ summaries = <<>>
    /\ initial \in Baselines /\ current = initial
    /\ outcome = NotStarted

\* The caller gives the engine the request's budget; its flags are its own.
Begin ==
    LET stop == FirstReason(<< <<plan.stop # None, plan.stop>>,
                               <<Len(plan.passes) > 5, "PASS_LIMIT_REACHED">> >>)
    IN
    /\ outcome = NotStarted
    /\ remaining' = TotalBudget(input)
    /\ UNCHANGED <<input, plan, context, elapsed, strikes, summaries, initial, current>>
    /\ IF stop = None THEN outcome' = Pending ELSE Deliver(stop)

Running == outcome = Pending

\* Deviation: the third strike ends the run.
OutOfStrikesAtThree(n) == n >= 3

OutOfStrikes(n) == n >= 2

\* Deviation: a run goes on when nothing is left.
StopBeforePassOverdraws ==
    FirstReason(<<
        <<context.abuse, "ABUSE">>,
        <<context.breaker, "BREAKER_TRIPPED">>,
        <<remaining < 0, "BUDGET_EXHAUSTED">>,
        <<elapsed >= Total(plan.timeouts), "TIMEOUT">>,
        <<OutOfStrikes(strikes), "VALIDATION_FAIL">>,
        <<Len(summaries) >= 5, "PASS_LIMIT_REACHED">> >>)

\* _check_stop_conditions, before each pass and not after the last.
StopBeforePass ==
    FirstReason(<<
        <<context.abuse, "ABUSE">>,
        <<context.breaker, "BREAKER_TRIPPED">>,
        <<remaining <= 0, "BUDGET_EXHAUSTED">>,
        <<elapsed >= Total(plan.timeouts), "TIMEOUT">>,
        <<OutOfStrikes(strikes), "VALIDATION_FAIL">>,
        <<Len(summaries) >= 5, "PASS_LIMIT_REACHED">> >>)

PassesLeft == Len(summaries) < Len(plan.passes)

Stop ==
    /\ Running /\ PassesLeft
    /\ StopBeforePass # None
    /\ UNCHANGED <<input, plan, context, remaining, elapsed, strikes, summaries, initial, current>>
    /\ Deliver(StopBeforePass)

CanRunPass == Running /\ PassesLeft /\ StopBeforePass = None

NextPass == plan.passes[Len(summaries) + 1]

\* The runner raises.
PassRaises(time) ==
    /\ CanRunPass
    /\ summaries' = Append(summaries, Summary(NextPass, "raised", FALSE, 0, time))
    /\ elapsed' = elapsed + time
    /\ UNCHANGED <<input, plan, context, remaining, strikes, initial, current>>
    /\ Deliver("INTERNAL_INCONSISTENCY")

\* The pass reports an error or no patch: it is paid for and the run goes on.
PassFails(cost, time) ==
    /\ CanRunPass
    /\ summaries' = Append(summaries, Summary(NextPass, "error", FALSE, cost, time))
    /\ remaining' = remaining - cost
    /\ elapsed' = elapsed + time
    /\ UNCHANGED <<input, plan, context, strikes, initial, current, outcome>>

PassProposes(patch, cost, time) ==
    /\ CanRunPass
    /\ patch \in Proposals(NextPass, current.action)
    /\ summaries' = Append(summaries, Summary(NextPass, patch, Valid(patch), cost, time))
    /\ remaining' = remaining - cost
    /\ elapsed' = elapsed + time
    /\ strikes' = IF Valid(patch) THEN strikes ELSE strikes + 1
    /\ current' = IF Valid(patch) THEN Applied(current, NextPass, patch) ELSE current
    /\ UNCHANGED <<input, plan, context, initial>>
    /\ IF OutOfStrikes(strikes') THEN Deliver("VALIDATION_FAIL") ELSE UNCHANGED outcome

Complete ==
    /\ Running /\ ~PassesLeft
    /\ UNCHANGED <<input, plan, context, remaining, elapsed, strikes, summaries, initial, current>>
    /\ Deliver("SUCCESS_COMPLETED")

RunStep ==
    \/ Begin
    \/ Stop
    \/ \E time \in Times : PassRaises(time)
    \/ \E cost \in Costs, time \in Times :
          \/ PassFails(cost, time)
          \/ \E patch \in Actions \cup {"keep", "foreign"} : PassProposes(patch, cost, time)
    \/ Complete

RunSpec == RunInit /\ [][RunStep]_runVars

Over == outcome \notin {NotStarted, Pending}

-----------------------------------------------------------------------------
Patches == Actions \cup {"keep", "foreign", "raised", "error"}
PassSummary == [pass : Passes, patch : Patches, applied : BOOLEAN, cost : Costs \cup {0}, time : Times]
Decided == [action : Actions, by : Seq(Passes)]

RunTypeOK ==
    /\ input \in Inputs
    /\ plan = BuildPlan(input)
    /\ context \in Contexts
    /\ remaining \in Int /\ elapsed \in Nat /\ strikes \in 0..2
    /\ summaries \in Seq(PassSummary) /\ Len(summaries) <= Len(plan.passes)
    /\ initial \in Baselines /\ current \in Decided
    /\ outcome \in {NotStarted, Pending} \cup [reason : StopReason, final : Decided]

\* What run_engine gives back: the baseline untouched, or the result of a whole plan in
\* which no runner raised, at most one patch was refused and every other patch counts,
\* in order, its action one the validator admits or the baseline's.  The engine lets a
\* pass err and one patch be refused (engine.py:219-231, validator.py:84); section 6 of
\* the contract (PHASE17_DEEP_THINKING_CONTRACT.md:187,195-198) wants the baseline then.
PatchedOrBaseline ==
    Over =>
        IF outcome.reason # "SUCCESS_COMPLETED" THEN outcome.final = initial
        ELSE LET refused == {n \in DOMAIN summaries :
                               ~summaries[n].applied /\ summaries[n].patch # "error"}
                 kept == {n \in DOMAIN summaries : summaries[n].applied}
             IN /\ [n \in DOMAIN summaries |-> summaries[n].pass] = plan.passes
                /\ \A n \in DOMAIN summaries : summaries[n].patch # "raised"
                /\ refused = {} \/ \E n \in DOMAIN summaries : refused = {n}
                /\ Len(outcome.final.by) = Cardinality(kept)
                /\ \A n \in kept :
                      outcome.final.by[Cardinality({k \in kept : k <= n})] = summaries[n].pass
                /\ outcome.final.action \in DecisionAction \cup {initial.action}

\* The time a plan grants: the caller's, and up to one least share more where a share was
\* raised to the least (router.py:285-290).
TimeGranted ==
    IF \A n \in DOMAIN plan.timeouts : plan.timeouts[n] > MinTimeout
    THEN TotalTimeout(input) ELSE TotalTimeout(input) + MinTimeout

\* engine.py, _check_stop_conditions: no pass begins once the budget is used up or the
\* time granted is over, so a run overdraws both by no more than its last pass, which
\* nothing cuts off.  The contract (:137) grants no overdraw, the router's comment (:257)
\* no raised total.
OverdrawsOnePass ==
    \A n \in DOMAIN summaries :
        LET spent == [k \in 1..n - 1 |-> summaries[k].cost]
            taken == [k \in 1..n - 1 |-> summaries[k].time]
        IN /\ Total(spent) < TotalBudget(input)
           /\ Total(taken) < TimeGranted

=============================================================================
