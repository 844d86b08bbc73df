----------------------------- MODULE CostBreaker -----------------------------
(***************************************************************************)
(* The breaker of backend/app/cost between the concurrent /api/chat        *)
(* requests of one process.  A request prechecks the breaker in one event  *)
(* loop step, awaits the provider, and reports its outcome in a later one; *)
(* other requests run in between.  A request is one call with one id: it   *)
(* reports once, and a refused client sends a new attempt under the same   *)
(* idle slot.                                                              *)
(***************************************************************************)
EXTENDS BreakerOps

CONSTANTS
    Requests,   \* the request ids
    MaxTime     \* bound on the clock, in seconds

ASSUME MaxTimeIsNat == MaxTime \in Nat
ASSUME RequestsFinite == IsFiniteSet(Requests)

VARIABLES
    breaker,    \* the _BreakerState record
    now,        \* time.time(), whole seconds
    call        \* what became of each request

vars == <<breaker, now, call>>

Idle == [phase |-> "idle", at |-> 0, end |-> 0]

Failures == [at : Nat, call : Requests]

Call == [phase : {"idle", "inflight", "ok", "failed", "uncounted"},
         at : Nat, end : Nat]

TypeOK ==
    /\ breaker \in [state : BreakerState, opened_at : Nat, failures : SUBSET Failures]
    /\ now \in Nat
    /\ call \in [Requests -> Call]

\* A process starts with an empty CircuitBreaker and no request in flight.
Init ==
    /\ breaker = FreshBreaker
    /\ now = 0
    /\ call = [r \in Requests |-> Idle]

Tick ==
    /\ now < MaxTime
    /\ now' = now + 1
    /\ UNCHANGED <<breaker, call>>

\* CostPolicy.precheck lets the request through: it goes on to run_step5.
Admit(r) ==
    /\ call[r].phase = "idle"
    /\ Lets(breaker, now)
    /\ breaker' = AfterPrecheck(breaker, now)
    /\ call' = [call EXCEPT ![r] =
            [phase |-> "inflight", at |-> now, end |-> 0]]
    /\ UNCHANGED now

\* The breaker refuses: 503 with a Retry-After; the client may come back.
Refuse(r) ==
    /\ call[r].phase = "idle"
    /\ ~Lets(breaker, now)
    /\ breaker' = AfterPrecheck(breaker, now)
    /\ UNCHANGED <<now, call>>

\* The breaker lets the request through, a token budget checked after it
\* does not: 429, and the breaker keeps the state its precheck left.
BudgetRefuse(r) ==
    /\ call[r].phase = "idle"
    /\ Lets(breaker, now)
    /\ breaker' = AfterPrecheck(breaker, now)
    /\ UNCHANGED <<now, call>>

Settle(r, outcome) ==
    /\ call[r].phase = "inflight"
    /\ call' = [call EXCEPT ![r].phase = outcome, ![r].end = now]
    /\ UNCHANGED now

\* record_success: step 5 produced an answer.
Succeed(r) == Settle(r, "ok") /\ breaker' = OnSuccess(breaker)

\* record_failure with is_provider_failure: a provider error, or the total
\* timeout of the request.
Fail(r) == Settle(r, "failed") /\ breaker' = OnFailure(breaker, r, now)

\* record_failure without it: step 5 timed out on its own deadline or the
\* safety envelope blocked the text.
EndUncounted(r) == Settle(r, "uncounted") /\ UNCHANGED breaker

Next ==
    \/ Tick
    \/ \E r \in Requests : Admit(r)
    \/ \E r \in Requests : Refuse(r)
    \/ \E r \in Requests : BudgetRefuse(r)
    \/ \E r \in Requests : Succeed(r)
    \/ \E r \in Requests : Fail(r)
    \/ \E r \in Requests : EndUncounted(r)

Spec == Init /\ [][Next]_vars

-----------------------------------------------------------------------------
Inflight(r) == call[r].phase = "inflight"

\* A closed breaker never holds a full window of failures: on_failure opens
\* it in the step that records the last one, so the CLOSED branch of
\* precheck that would open it (lines 56-60) is never taken.
ClosedBelowThreshold ==
    breaker.state = "closed" => Cardinality(breaker.failures) < Threshold

\* The breaker probes only a whole cooldown after the failure that opened it
\* last, however many late failures moved opened_at in between.
HalfOpenAfterCooldown ==
    breaker.state = "half_open" => now >= breaker.opened_at + Cooldown

\* The state of the breaker is the one its failures and its clock call for: neither
\* closed with a full window nor probing before its time.
StateIsDue == ClosedBelowThreshold /\ HalfOpenAfterCooldown

\* Nobody is let through an open breaker: every call still in flight while
\* it is open was sent before, or in the second in which, it opened.
OpenAdmitsNobody ==
    breaker.state = "open" =>
        \A r \in Requests : Inflight(r) => call[r].at <= breaker.opened_at

\* The calls that count against the provider at time t: they failed inside
\* the window and no call succeeded in a later second than theirs.
Evidence(t) ==
    {[at |-> call[r].end, call |-> r] :
        r \in {q \in Requests :
                  /\ call[q].phase = "failed"
                  /\ call[q].end >= t - Window
                  /\ \A s \in Requests : call[s].phase = "ok" => call[s].end <= call[q].end}}

Trips ==
    /\ breaker'.state = "open"
    /\ breaker.state # "open" \/ breaker'.opened_at # breaker.opened_at

\* The breaker opens, or is held open longer, only on Threshold failures of real calls
\* inside one window and not on failures a success wiped out.  Out of half-open the
\* lock document asks for one failed probe (PHASE16_STEP3_COST_CONTROL_LOCK.md:38), so
\* one such failure is all that is asked here; on_failure asks for Threshold there too
\* (breaker.py:68), and a failed probe alone leaves the breaker half-open.
TripIsEarned ==
    [][Trips => Cardinality(Evidence(now)') >=
                    IF breaker.state = "half_open" THEN 1 ELSE Threshold]_vars

=============================================================================
