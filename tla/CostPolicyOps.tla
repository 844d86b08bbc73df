---------------------------- MODULE CostPolicyOps ----------------------------
(***************************************************************************)
(* CostPolicy of backend/app/cost as pure operators on one cost record: the *)
(* breaker, the global daily counter, the per-actor daily counters and the  *)
(* rolling window of one IP.  All of it is memory of one process.           *)
(***************************************************************************)
EXTENDS BreakerOps, FiniteSetsExt

CONSTANTS
    DayLength,        \* seconds per UTC day
    RequestMaxTokens, \* cost_request_max_tokens()
    RequestMaxOutput, \* cost_request_max_output_tokens()
    GlobalCap,        \* cost_global_daily_tokens()
    IpWindow, IpCap,  \* cost_ip_window_seconds(), cost_ip_window_tokens()
    ActorCap          \* cost_actor_daily_tokens(), 0 switches the check off

ASSUME CostSettings ==
    /\ DayLength \in Nat \ {0}
    /\ RequestMaxTokens \in Nat \ {0}
    /\ RequestMaxOutput \in Nat \ {0}
    /\ GlobalCap \in Nat
    /\ IpWindow \in Nat \ {0} /\ IpCap \in Nat
    /\ ActorCap \in Nat

Day(t) == t \div DayLength

\* DailyCounter: a count and the date it belongs to.
NoTokens == [day |-> 0, count |-> 0]

DailyTotal(d, t) == IF d.day = Day(t) THEN d.count ELSE 0

\* Deviation: yesterday's count is carried over.
DailyAddCarriesOver(d, n, t) == [day |-> Day(t), count |-> d.count + n]

DailyAdd(d, n, t) == [day |-> Day(t), count |-> DailyTotal(d, t) + n]

\* RollingWindowCounter: the buckets of one key, one entry per recorded call.
PruneWindow(w, t) == {e \in w : e.at >= t - IpWindow}

WindowTotal(w, t) == MapThenSumSet(LAMBDA e : e.tokens, PruneWindow(w, t))

WindowAdd(w, c, n, t) ==
    PruneWindow(w \cup {[at |-> t, call |-> c, tokens |-> n]}, t)

\* CostPolicy.__init__.
FreshCost(actors) ==
    [breaker |-> FreshBreaker, global |-> NoTokens,
     actor |-> [a \in actors |-> NoTokens], ip |-> {}]


\* Deviation: the daily budget is compared before the request is added to it.
ScopeIgnoresEstimate(c, a, input, output, t) ==
    IF input + output > RequestMaxTokens \/ output > RequestMaxOutput THEN "request_cap"
    ELSE IF ~Lets(c.breaker, t) THEN "breaker"
    ELSE IF DailyTotal(c.global, t) > GlobalCap THEN "global_daily"
    ELSE IF WindowTotal(c.ip, t) > IpCap THEN "ip_window"
    ELSE IF ActorCap > 0 /\ DailyTotal(c.actor[a], t) > ActorCap THEN "actor_daily"
    ELSE "none"

\* CostPolicy.precheck: the scope that refuses the request of actor a, if any.
\* The first that applies, in the order of the code.
Scope(c, a, input, output, t) ==
    LET est == input + output IN
    IF est > RequestMaxTokens \/ output > RequestMaxOutput THEN "request_cap"
    ELSE IF ~Lets(c.breaker, t) THEN "breaker"
    ELSE IF DailyTotal(c.global, t) + est > GlobalCap THEN "global_daily"
    ELSE IF WindowTotal(c.ip, t) + est > IpCap THEN "ip_window"
    ELSE IF ActorCap > 0 /\ DailyTotal(c.actor[a], t) + est > ActorCap THEN "actor_daily"
    ELSE "none"

\* What precheck leaves behind: it returns at the first refusal, so the state
\* after that point is the one it found.
AfterScope(c, scope, t) ==
    [c EXCEPT !.breaker = IF scope = "request_cap" THEN @ ELSE AfterPrecheck(@, t),
              !.ip = IF scope \in {"request_cap", "breaker", "global_daily"}
                     THEN @ ELSE PruneWindow(@, t)]

\* CostPolicy.record_success of call k of actor a.
RecordSuccess(c, a, k, tokens, t) ==
    [breaker |-> OnSuccess(c.breaker),
     global |-> DailyAdd(c.global, tokens, t),
     actor |-> [c.actor EXCEPT ![a] = DailyAdd(@, tokens, t)],
     ip |-> WindowAdd(c.ip, k, tokens, t)]

\* CostPolicy.record_failure of call k.
RecordFailure(c, k, is_provider_failure, t) ==
    IF is_provider_failure
    THEN [c EXCEPT !.breaker = OnFailure(@, k, t)]
    ELSE c
=============================================================================
