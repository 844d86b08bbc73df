---------------------------- MODULE SandboxOps ----------------------------
(***************************************************************************)
(* The sandbox of the research tools and its fixed window of calls           *)
(* (app/research/sandbox.py, ratelimit.py).  Both are functions from a state *)
(* and a time to a state and an answer: whoever calls keeps the state.        *)
(***************************************************************************)
EXTENDS Integers

CONSTANTS MaxCallsTotal, MaxCallsPerMinute, PerCallTimeout, TotalTimeout,
          Minute        \* window_seconds, in the unit of the clock

ASSUME SandboxCaps ==
    /\ MaxCallsTotal \in Nat /\ MaxCallsPerMinute \in Nat
    /\ PerCallTimeout \in Nat /\ TotalTimeout \in Nat
    /\ Minute \in Nat \ {0}

RateLimiterState == [windowStart : Nat, inWindow : Nat]
SandboxState == [startedAt : Nat, callsUsed : Nat, rate : RateLimiterState]

CreateSandboxState(now) ==
    [startedAt |-> now, callsUsed |-> 0, rate |-> [windowStart |-> now, inWindow |-> 0]]

WindowOver(r, now) == now >= r.windowStart + Minute

RateAllows(r, now) ==
    MaxCallsPerMinute > 0 /\ (WindowOver(r, now) \/ r.inWindow < MaxCallsPerMinute)

\* Deviation: the call that opens a window is not counted in it.
ConsumeOpensEmpty(r, now) ==
    IF WindowOver(r, now) THEN [windowStart |-> now, inWindow |-> 0]
    ELSE [r EXCEPT !.inWindow = @ + 1]

Consume(r, now) ==
    IF WindowOver(r, now) THEN [windowStart |-> now, inWindow |-> 1]
    ELSE [r EXCEPT !.inWindow = @ + 1]

Reason == {"TIMEOUT", "BUDGET_EXHAUSTED", "RATE_LIMITED", "SANDBOX_VIOLATION"}

\* The stops before the call, in their order; "NONE" lets it run.
RefusedFor(s, now) ==
    IF now - s.startedAt >= TotalTimeout THEN "TIMEOUT"
    ELSE IF s.callsUsed >= MaxCallsTotal THEN "BUDGET_EXHAUSTED"
    ELSE IF ~RateAllows(s.rate, now) THEN "RATE_LIMITED"
    ELSE "NONE"

\* Deviation: a refused call gives a call back.
ChargedRefunds(s, now) ==
    IF RefusedFor(s, now) # "NONE" THEN [s EXCEPT !.callsUsed = @ - 1]
    ELSE [s EXCEPT !.callsUsed = @ + 1, !.rate = Consume(@, now)]

\* A call that is refused costs nothing, any other costs one whatever comes of it.
Charged(s, now) ==
    IF RefusedFor(s, now) # "NONE" THEN s
    ELSE [s EXCEPT !.callsUsed = @ + 1, !.rate = Consume(@, now)]

\* A call known to take too long is charged and not made.
StoppedFor(s, now, duration, raises) ==
    IF RefusedFor(s, now) # "NONE" THEN RefusedFor(s, now)
    ELSE IF duration > PerCallTimeout THEN "TIMEOUT"
    ELSE IF raises THEN "SANDBOX_VIOLATION" ELSE "NONE"

=============================================================================
