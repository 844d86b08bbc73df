----------------------------- MODULE BreakerOps -----------------------------
(***************************************************************************)
(* The circuit breaker of backend/app/cost/breaker.py as pure operators on  *)
(* one breaker record.  CostPolicy keeps one record per provider:model and  *)
(* the settings name one provider and one model, so a process uses one.     *)
(*                                                                          *)
(* The code's dictionary "second -> number of failures" is the set of its   *)
(* recorded failures, each with the second it was recorded in and the call  *)
(* that reported it: the sum of the dictionary's values is the cardinality. *)
(***************************************************************************)
EXTENDS Integers, FiniteSets

CONSTANTS
    Threshold,  \* cost_breaker_fail_threshold()
    Window,     \* cost_breaker_window_seconds()
    Cooldown    \* cost_breaker_cooldown_seconds()

\* The three getters of cost/budgets.py clamp their setting to at least 1.
ASSUME BreakerSettings ==
    /\ Threshold \in Nat \ {0}
    /\ Window \in Nat \ {0}
    /\ Cooldown \in Nat \ {0}

BreakerState == {"closed", "open", "half_open"}

FreshBreaker == [state |-> "closed", opened_at |-> 0, failures |-> {}]

\* CircuitBreaker._prune: forget the failures that left the window.
Prune(b, t) == [b EXCEPT !.failures = {f \in @ : f.at >= t - Window}]

\* Deviation: the wrong setting is compared with the time since the trip.
CooledAfterWindow(b, t) == t - b.opened_at >= Window

Cooled(b, t) == t - b.opened_at >= Cooldown

Tripped(b) == Cardinality(b.failures) >= Threshold

\* CircuitBreaker.precheck, the decision: does this request get through?
Lets(b, t) ==
    \/ b.state = "closed" /\ ~Tripped(Prune(b, t))
    \/ b.state = "open" /\ Cooled(b, t)
    \/ b.state = "half_open"

\* Deviation: the cooled breaker lets the probe through and stays open.
AfterPrecheckStaysOpen(b, t) == Prune(b, t)

\* CircuitBreaker.precheck, the state it leaves behind.
AfterPrecheck(b, t) ==
    LET p == Prune(b, t) IN
    IF p.state = "open" /\ Cooled(p, t)
    THEN [p EXCEPT !.state = "half_open"]
    ELSE IF p.state = "closed" /\ Tripped(p)
         THEN [p EXCEPT !.state = "open", !.opened_at = t]
         ELSE p

\* Deviation: strictly more failures than the threshold trip the breaker.
OnFailureOffByOne(b, c, t) ==
    LET p == Prune([b EXCEPT !.failures = @ \cup {[at |-> t, call |-> c]}], t) IN
    IF Cardinality(p.failures) > Threshold
    THEN [p EXCEPT !.state = "open", !.opened_at = t] ELSE p

\* Deviation: opened_at is moved back so that the cooldown is over at once.
OnFailureBackdated(b, c, t) ==
    LET p == Prune([b EXCEPT !.failures = @ \cup {[at |-> t, call |-> c]}], t) IN
    IF Tripped(p) THEN [p EXCEPT !.state = "open", !.opened_at = t - Cooldown] ELSE p

\* CircuitBreaker.on_failure for the failure reported by call c.
OnFailure(b, c, t) ==
    LET p == Prune([b EXCEPT !.failures = @ \cup {[at |-> t, call |-> c]}], t) IN
    IF Tripped(p) THEN [p EXCEPT !.state = "open", !.opened_at = t] ELSE p

\* Deviation: the failures outlive the success.
OnSuccessKeepsFailures(b) == [FreshBreaker EXCEPT !.failures = b.failures]

\* CircuitBreaker.on_success.
OnSuccess(b) == FreshBreaker
=============================================================================
