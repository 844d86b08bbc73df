-------------------------- MODULE CostBreakerProofs --------------------------
(***************************************************************************)
(* Proofs about CostBreaker, for every set of requests, every threshold,   *)
(* window and cooldown.  The inductive invariant adds to the checked ones  *)
(* what ties the breaker's failures to the calls that reported them.       *)
(***************************************************************************)
EXTENDS CostBreaker, FiniteSetTheorems, TLAPS

\* No call was sent or ended in the future.
CallsInThePast == \A r \in Requests : call[r].at <= now /\ call[r].end <= now

\* Every failure the breaker holds was reported by a call that failed in that
\* second, and no call succeeded after it.
FailuresAreReal ==
    /\ IsFiniteSet(breaker.failures)
    /\ \A f \in breaker.failures :
          /\ call[f.call].phase = "failed"
          /\ call[f.call].end = f.at
          /\ \A s \in Requests : call[s].phase = "ok" => call[s].end <= f.at

IInv ==
    /\ TypeOK
    /\ ClosedBelowThreshold
    /\ HalfOpenAfterCooldown
    /\ OpenAdmitsNobody
    /\ CallsInThePast
    /\ FailuresAreReal

BreakerType == [state : BreakerState, opened_at : Nat, failures : SUBSET Failures]

\* The calls that count against the provider now are a whole threshold.
FullEvidence == Cardinality(Evidence(now)) \in Nat /\ Cardinality(Evidence(now)) >= Threshold

\* What the code asks of every trip, of one out of half-open as well.
TripTakesThreshold == [][Trips => FullEvidence']_vars

-----------------------------------------------------------------------------
(* What the breaker's operators do to one record.                            *)

\* _prune only forgets failures, those older than the window.
LEMMA PruneForgets ==
    ASSUME NEW b \in BreakerType, NEW t \in Nat, IsFiniteSet(b.failures)
    PROVE  /\ Prune(b, t) \in BreakerType
           /\ Prune(b, t).state = b.state
           /\ Prune(b, t).opened_at = b.opened_at
           /\ Prune(b, t).failures \subseteq b.failures
           /\ \A f \in Prune(b, t).failures : f.at >= t - Window
           /\ IsFiniteSet(Prune(b, t).failures)
           /\ Cardinality(Prune(b, t).failures) <= Cardinality(b.failures)
  <1>1. /\ Prune(b, t).failures = {f \in b.failures : f.at >= t - Window}
        /\ Prune(b, t).state = b.state
        /\ Prune(b, t).opened_at = b.opened_at
        /\ Prune(b, t) \in BreakerType
    BY DEF Prune, BreakerType
  <1>2. Prune(b, t).failures \subseteq b.failures
    BY <1>1
  <1>3. /\ IsFiniteSet(Prune(b, t).failures)
        /\ Cardinality(Prune(b, t).failures) <= Cardinality(b.failures)
    BY <1>2, FS_Subset
  <1> QED
    BY <1>1, <1>2, <1>3

\* precheck of a breaker that is closed below the threshold never opens it.
LEMMA PrecheckNeverOpens ==
    ASSUME NEW b \in BreakerType, NEW t \in Nat, IsFiniteSet(b.failures),
           b.state = "closed" => Cardinality(b.failures) < Threshold
    PROVE  LET a == AfterPrecheck(b, t) IN
           /\ a \in BreakerType
           /\ a.opened_at = b.opened_at
           /\ a.failures = Prune(b, t).failures
           /\ \/ a.state = b.state /\ ~(b.state = "open" /\ Cooled(b, t))
              \/ a.state = "half_open" /\ b.state = "open" /\ Cooled(b, t)
  <1> DEFINE p == Prune(b, t)
  <1>1. /\ p \in BreakerType
        /\ p.state = b.state
        /\ p.opened_at = b.opened_at
        /\ IsFiniteSet(p.failures)
        /\ Cardinality(p.failures) <= Cardinality(b.failures)
    BY PruneForgets
  <1>2. Cardinality(p.failures) \in Nat /\ Cardinality(b.failures) \in Nat /\ Threshold \in Nat
    BY <1>1, FS_CardinalityType, BreakerSettings
  <1>3. p.state = "closed" => ~Tripped(p)
    BY <1>1, <1>2 DEF Tripped
  <1>4. Cooled(p, t) <=> Cooled(b, t)
    BY <1>1 DEF Cooled
  <1>5. CASE p.state = "open" /\ Cooled(p, t)
    <2>1. AfterPrecheck(b, t) = [p EXCEPT !.state = "half_open"]
      BY <1>5 DEF AfterPrecheck
    <2> QED
      BY <2>1, <1>1, <1>4, <1>5 DEF BreakerType, BreakerState
  <1>6. CASE ~(p.state = "open" /\ Cooled(p, t))
    <2>1. AfterPrecheck(b, t) = p
      BY <1>3, <1>6 DEF AfterPrecheck
    <2> QED
      BY <2>1, <1>1, <1>4, <1>6
  <1> QED
    BY <1>5, <1>6

\* on_failure holds the new failure and some old ones, and opens the breaker
\* exactly when they reach the threshold.
LEMMA OnFailureCounts ==
    ASSUME NEW b \in BreakerType, NEW c \in Requests, NEW t \in Nat,
           IsFiniteSet(b.failures)
    PROVE  LET a == OnFailure(b, c, t) IN
           /\ a \in BreakerType
           /\ IsFiniteSet(a.failures)
           /\ a.failures \subseteq b.failures \cup {[at |-> t, call |-> c]}
           /\ \A f \in a.failures : f.at >= t - Window
           /\ \/ /\ Cardinality(a.failures) >= Threshold
                 /\ a.state = "open" /\ a.opened_at = t
              \/ /\ Cardinality(a.failures) < Threshold
                 /\ a.state = b.state /\ a.opened_at = b.opened_at
  <1> DEFINE n == [at |-> t, call |-> c]
             e == [b EXCEPT !.failures = @ \cup {n}]
             p == Prune(e, t)
  <1>1. /\ e \in BreakerType
        /\ e.failures = b.failures \cup {n}
        /\ e.state = b.state
        /\ e.opened_at = b.opened_at
    BY DEF BreakerType, Failures
  <1>2. IsFiniteSet(e.failures)
    BY <1>1, FS_AddElement
  <1>3. /\ p \in BreakerType
        /\ p.state = e.state /\ p.opened_at = e.opened_at
        /\ p.failures \subseteq e.failures
        /\ \A f \in p.failures : f.at >= t - Window
        /\ IsFiniteSet(p.failures)
    BY <1>1, <1>2, PruneForgets
  <1>4. Cardinality(p.failures) \in Nat /\ Threshold \in Nat
    BY <1>3, FS_CardinalityType, BreakerSettings
  <1>5. OnFailure(b, c, t) =
          IF Tripped(p) THEN [p EXCEPT !.state = "open", !.opened_at = t] ELSE p
    BY DEF OnFailure
  <1>6. CASE Tripped(p)
    <2>1. OnFailure(b, c, t) = [p EXCEPT !.state = "open", !.opened_at = t]
      BY <1>5, <1>6
    <2>2. OnFailure(b, c, t).failures = p.failures
      BY <2>1, <1>3 DEF BreakerType
    <2> QED
      BY <2>1, <2>2, <1>1, <1>3, <1>6 DEF BreakerType, BreakerState, Tripped
  <1>7. CASE ~Tripped(p)
    <2>1. OnFailure(b, c, t) = p
      BY <1>5, <1>7
    <2>2. Cardinality(p.failures) < Threshold
      BY <1>4, <1>7 DEF Tripped
    <2> HIDE DEF e, p
    <2> QED
      BY <2>1, <2>2, <1>1, <1>3
  <1> QED
    BY <1>6, <1>7

-----------------------------------------------------------------------------
(* The inductive invariant, action by action.                                *)

LEMMA InitIInv == Init => IInv
  <1> SUFFICES ASSUME Init PROVE IInv
    OBVIOUS
  <1>1. breaker.failures = {} /\ IsFiniteSet({}) /\ Cardinality({}) = 0
    BY FS_EmptySet DEF Init, FreshBreaker
  <1>2. TypeOK
    BY DEF Init, TypeOK, FreshBreaker, BreakerState, Idle, Call
  <1>3. ClosedBelowThreshold
    BY <1>1, BreakerSettings DEF ClosedBelowThreshold
  <1>4. HalfOpenAfterCooldown /\ OpenAdmitsNobody
    BY DEF Init, FreshBreaker, HalfOpenAfterCooldown, OpenAdmitsNobody
  <1>5. CallsInThePast /\ FailuresAreReal
    BY <1>1 DEF Init, Idle, CallsInThePast, FailuresAreReal
  <1> QED
    BY <1>2, <1>3, <1>4, <1>5 DEF IInv

\* What the three prechecks share: the breaker is AfterPrecheck, which only
\* closed-open moves could have disturbed.
LEMMA PrecheckStep ==
    ASSUME IInv, breaker' = AfterPrecheck(breaker, now), now' = now
    PROVE  /\ breaker' \in BreakerType
           /\ ClosedBelowThreshold'
           /\ HalfOpenAfterCooldown'
           /\ IsFiniteSet(breaker.failures)'
           /\ breaker'.failures \subseteq breaker.failures
           /\ breaker'.state = "open" => breaker.state = "open" /\ ~Cooled(breaker, now)
           /\ breaker'.opened_at = breaker.opened_at
  <1> USE DEF IInv
  <1>1. breaker \in BreakerType /\ now \in Nat /\ IsFiniteSet(breaker.failures)
    BY DEF TypeOK, BreakerType, FailuresAreReal
  <1>2. breaker.state = "closed" => Cardinality(breaker.failures) < Threshold
    BY DEF ClosedBelowThreshold
  <1>3. /\ breaker' \in BreakerType
        /\ breaker'.opened_at = breaker.opened_at
        /\ breaker'.failures = Prune(breaker, now).failures
        /\ \/ breaker'.state = breaker.state /\ ~(breaker.state = "open" /\ Cooled(breaker, now))
           \/ breaker'.state = "half_open" /\ breaker.state = "open" /\ Cooled(breaker, now)
    BY <1>1, <1>2, PrecheckNeverOpens
  <1>4. /\ breaker'.failures \subseteq breaker.failures
        /\ IsFiniteSet(breaker'.failures)
        /\ Cardinality(breaker'.failures) <= Cardinality(breaker.failures)
    BY <1>1, <1>3, PruneForgets
  <1>5. Cardinality(breaker'.failures) \in Nat /\ Cardinality(breaker.failures) \in Nat
    BY <1>1, <1>4, FS_CardinalityType
  <1>6. ClosedBelowThreshold'
    BY <1>2, <1>3, <1>4, <1>5, BreakerSettings DEF ClosedBelowThreshold
  <1>7. HalfOpenAfterCooldown'
    BY <1>1, <1>3, BreakerSettings DEF HalfOpenAfterCooldown, Cooled, BreakerType
  <1> QED
    BY <1>3, <1>4, <1>6, <1>7

LEMMA AdmitStep ==
    ASSUME IInv, NEW r \in Requests, Admit(r)
    PROVE  IInv' /\ ~Trips
  <1> USE DEF IInv
  <1>1. /\ breaker' = AfterPrecheck(breaker, now) /\ now' = now
        /\ call[r].phase = "idle" /\ Lets(breaker, now)
    BY DEF Admit
  <1>2. call' = [call EXCEPT ![r] = [phase |-> "inflight", at |-> now, end |-> 0]]
    BY DEF Admit
  <1>3. /\ breaker' \in BreakerType
        /\ ClosedBelowThreshold'
        /\ HalfOpenAfterCooldown'
        /\ IsFiniteSet(breaker.failures)'
        /\ breaker'.failures \subseteq breaker.failures
        /\ breaker'.state = "open" => breaker.state = "open" /\ ~Cooled(breaker, now)
        /\ breaker'.opened_at = breaker.opened_at
    BY <1>1, PrecheckStep
  <1>4. breaker'.state # "open"
    BY <1>1, <1>3 DEF Lets
  <1>5. TypeOK'
    BY <1>1, <1>2, <1>3 DEF TypeOK, BreakerType, Call
  <1>6. OpenAdmitsNobody'
    BY <1>4 DEF OpenAdmitsNobody
  <1>7. CallsInThePast'
    BY <1>1, <1>2 DEF CallsInThePast, TypeOK, Call
  <1>8. FailuresAreReal'
    BY <1>1, <1>2, <1>3 DEF FailuresAreReal, TypeOK, Failures
  <1> QED
    BY <1>3, <1>4, <1>5, <1>6, <1>7, <1>8 DEF Trips

LEMMA RefusalStep ==
    ASSUME IInv, NEW r \in Requests, Refuse(r) \/ BudgetRefuse(r)
    PROVE  IInv' /\ ~Trips
  <1> USE DEF IInv
  <1>1. breaker' = AfterPrecheck(breaker, now) /\ now' = now /\ call' = call
    BY DEF Refuse, BudgetRefuse
  <1>2. /\ breaker' \in BreakerType
        /\ ClosedBelowThreshold'
        /\ HalfOpenAfterCooldown'
        /\ IsFiniteSet(breaker.failures)'
        /\ breaker'.failures \subseteq breaker.failures
        /\ breaker'.state = "open" => breaker.state = "open" /\ ~Cooled(breaker, now)
        /\ breaker'.opened_at = breaker.opened_at
    BY <1>1, PrecheckStep
  <1>3. TypeOK'
    BY <1>1, <1>2 DEF TypeOK, BreakerType
  <1>4. OpenAdmitsNobody'
    BY <1>1, <1>2 DEF OpenAdmitsNobody, Inflight
  <1>5. CallsInThePast'
    BY <1>1 DEF CallsInThePast
  <1>6. FailuresAreReal'
    BY <1>1, <1>2 DEF FailuresAreReal
  <1> QED
    BY <1>2, <1>3, <1>4, <1>5, <1>6 DEF Trips

LEMMA SucceedStep ==
    ASSUME IInv, NEW r \in Requests, Succeed(r)
    PROVE  IInv' /\ ~Trips
  <1> USE DEF IInv
  <1>1. /\ breaker' = FreshBreaker /\ now' = now /\ call[r].phase = "inflight"
        /\ call' = [call EXCEPT ![r].phase = "ok", ![r].end = now]
    BY DEF Succeed, Settle, OnSuccess
  <1>2. breaker'.failures = {} /\ breaker'.state = "closed"
    BY <1>1 DEF FreshBreaker
  <1>3. IsFiniteSet({}) /\ Cardinality({}) = 0
    BY FS_EmptySet
  <1>4. TypeOK'
    BY <1>1 DEF TypeOK, Call, FreshBreaker, BreakerState
  <1>5. ClosedBelowThreshold' /\ HalfOpenAfterCooldown' /\ OpenAdmitsNobody'
    BY <1>2, <1>3, BreakerSettings
       DEF ClosedBelowThreshold, HalfOpenAfterCooldown, OpenAdmitsNobody
  <1>6. CallsInThePast'
    BY <1>1 DEF CallsInThePast, TypeOK, Call
  <1>7. FailuresAreReal'
    BY <1>2, <1>3 DEF FailuresAreReal
  <1> QED
    BY <1>2, <1>4, <1>5, <1>6, <1>7 DEF Trips

\* A reported failure is the one new entry; whatever the outcome, every entry
\* of the new record is a failure of a call that no success came after.
LEMMA FailStep ==
    ASSUME IInv, NEW r \in Requests, Fail(r)
    PROVE  IInv' /\ (Trips => FullEvidence')
  <1> USE DEF IInv
  <1> DEFINE n == [at |-> now, call |-> r]
  <1>1. /\ breaker' = OnFailure(breaker, r, now) /\ now' = now
        /\ call[r].phase = "inflight"
        /\ call' = [call EXCEPT ![r].phase = "failed", ![r].end = now]
    BY DEF Fail, Settle
  <1>2. breaker \in BreakerType /\ now \in Nat /\ IsFiniteSet(breaker.failures)
    BY DEF TypeOK, BreakerType, FailuresAreReal
  <1>3. /\ breaker' \in BreakerType
        /\ IsFiniteSet(breaker'.failures)
        /\ breaker'.failures \subseteq breaker.failures \cup {n}
        /\ \A f \in breaker'.failures : f.at >= now - Window
        /\ \/ /\ Cardinality(breaker'.failures) >= Threshold
              /\ breaker'.state = "open" /\ breaker'.opened_at = now
           \/ /\ Cardinality(breaker'.failures) < Threshold
              /\ breaker'.state = breaker.state /\ breaker'.opened_at = breaker.opened_at
    BY <1>1, <1>2, OnFailureCounts
  <1>4. Cardinality(breaker'.failures) \in Nat /\ Threshold \in Nat
    BY <1>3, FS_CardinalityType, BreakerSettings
  <1>5. \A q \in Requests :
            /\ q # r => call'[q] = call[q]
            /\ call'[r].phase = "failed" /\ call'[r].end = now /\ call'[r].at = call[r].at
    BY <1>1 DEF TypeOK, Call
  <1>6. TypeOK'
    BY <1>1, <1>2, <1>3 DEF TypeOK, BreakerType, Call
  <1>7. ClosedBelowThreshold'
    BY <1>3 DEF ClosedBelowThreshold
  <1>8. HalfOpenAfterCooldown'
    BY <1>1, <1>3 DEF HalfOpenAfterCooldown
  <1>9. OpenAdmitsNobody'
    <2>1. \A q \in Requests : call[q].at <= now
      BY DEF CallsInThePast
    <2> QED
      BY <1>3, <1>5, <2>1 DEF OpenAdmitsNobody, Inflight
  <1>10. CallsInThePast'
    <2> SUFFICES ASSUME NEW q \in Requests
                 PROVE  call'[q].at <= now' /\ call'[q].end <= now'
      BY DEF CallsInThePast
    <2>1. call[q].at <= now /\ call[q].end <= now
      BY DEF CallsInThePast
    <2>2. now' = now /\ now \in Nat
      BY <1>1, <1>2
    <2>3. CASE q = r
      BY <1>5, <2>1, <2>2, <2>3
    <2>4. CASE q # r
      BY <1>5, <2>1, <2>2, <2>4
    <2> QED
      BY <2>3, <2>4
  <1>11. FailuresAreReal'
    <2> SUFFICES ASSUME NEW f \in breaker'.failures
                 PROVE  /\ call'[f.call].phase = "failed"
                        /\ call'[f.call].end = f.at
                        /\ \A s \in Requests : call'[s].phase = "ok" => call'[s].end <= f.at
      BY <1>3 DEF FailuresAreReal
    <2>1. CASE f = n
      BY <2>1, <1>1, <1>2, <1>5 DEF CallsInThePast
    <2>2. CASE f # n
      <3>1. f \in breaker.failures /\ f.call \in Requests
        BY <2>2, <1>2, <1>3 DEF BreakerType, Failures
      <3>2. f.call # r
        BY <3>1, <1>1 DEF FailuresAreReal
      <3> QED
        BY <3>1, <3>2, <1>5 DEF FailuresAreReal
    <2> QED
      BY <2>1, <2>2
  <1>12. Trips => FullEvidence'
    <2>1. breaker'.failures \subseteq Evidence(now)'
      <3> SUFFICES ASSUME NEW f \in breaker'.failures
                   PROVE  f \in Evidence(now)'
        OBVIOUS
      <3>1. /\ f = [at |-> f.at, call |-> f.call]
            /\ f.call \in Requests /\ f.at >= now - Window
        BY <1>3 DEF BreakerType, Failures
      <3>2. /\ call'[f.call].phase = "failed"
            /\ call'[f.call].end = f.at
            /\ \A s \in Requests : call'[s].phase = "ok" => call'[s].end <= f.at
        BY <1>11 DEF FailuresAreReal
      <3> QED
        BY <1>1, <3>1, <3>2 DEF Evidence
    <2>2. IsFiniteSet(Evidence(now)')
      <3> DEFINE Counting == {q \in Requests :
                    /\ call'[q].phase = "failed"
                    /\ call'[q].end >= now' - Window
                    /\ \A s \in Requests : call'[s].phase = "ok" => call'[s].end <= call'[q].end}
      <3>1. IsFiniteSet(Counting)
        BY RequestsFinite, FS_Subset
      <3> DEFINE report == [q \in Counting |-> [at |-> call'[q].end, call |-> q]]
      <3>2. Evidence(now)' = {report[q] : q \in Counting}
        BY DEF Evidence
      <3> HIDE DEF Counting
      <3>3. report \in Surjection(Counting, Evidence(now)')
        BY <3>2 DEF Surjection
      <3> QED
        BY <3>1, <3>3, FS_Surjection
    <2>3. Cardinality(breaker'.failures) <= Cardinality(Evidence(now)')
      BY <2>1, <2>2, FS_Subset
    <2>4. Cardinality(Evidence(now)') \in Nat
      BY <2>2, FS_CardinalityType
    <2>5. Trips => Cardinality(Evidence(now)') >= Threshold
      BY <1>3, <1>4, <2>3, <2>4 DEF Trips
    <2> QED
      BY <2>4, <2>5 DEF FullEvidence
  <1> QED
    BY <1>3, <1>6, <1>7, <1>8, <1>9, <1>10, <1>11, <1>12

LEMMA UncountedStep ==
    ASSUME IInv, NEW r \in Requests, EndUncounted(r)
    PROVE  IInv' /\ ~Trips
  <1> USE DEF IInv
  <1>1. /\ breaker' = breaker /\ now' = now /\ call[r].phase = "inflight"
        /\ call' = [call EXCEPT ![r].phase = "uncounted", ![r].end = now]
    BY DEF EndUncounted, Settle
  <1>2. TypeOK'
    BY <1>1 DEF TypeOK, Call
  <1>3. ClosedBelowThreshold' /\ HalfOpenAfterCooldown'
    BY <1>1 DEF ClosedBelowThreshold, HalfOpenAfterCooldown
  <1>4. OpenAdmitsNobody'
    BY <1>1 DEF OpenAdmitsNobody, Inflight, TypeOK, Call
  <1>5. CallsInThePast'
    BY <1>1 DEF CallsInThePast, TypeOK, Call
  <1>6. FailuresAreReal'
    BY <1>1 DEF FailuresAreReal, TypeOK, Call, Failures
  <1> QED
    BY <1>1, <1>2, <1>3, <1>4, <1>5, <1>6 DEF Trips

LEMMA TickStep ==
    ASSUME IInv, Tick
    PROVE  IInv' /\ ~Trips
  <1> USE DEF IInv
  <1>1. breaker' = breaker /\ call' = call /\ now \in Nat /\ now' = now + 1
    BY DEF Tick, TypeOK
  <1>2. TypeOK' /\ ClosedBelowThreshold' /\ FailuresAreReal'
    BY <1>1 DEF TypeOK, ClosedBelowThreshold, FailuresAreReal
  <1>3. HalfOpenAfterCooldown'
    BY <1>1, BreakerSettings DEF HalfOpenAfterCooldown, TypeOK
  <1>4. OpenAdmitsNobody'
    BY <1>1 DEF OpenAdmitsNobody, Inflight
  <1>5. CallsInThePast'
    BY <1>1 DEF CallsInThePast, TypeOK, Call
  <1> QED
    BY <1>1, <1>2, <1>3, <1>4, <1>5 DEF Trips

\* No step leaves the invariant, and a step that trips the breaker has the
\* evidence for it.
LEMMA NextStep ==
    ASSUME IInv, [Next]_vars
    PROVE  IInv' /\ (Trips => FullEvidence')
  <1>1. CASE UNCHANGED vars
    <2>1. breaker' = breaker /\ now' = now /\ call' = call
      BY <1>1 DEF vars
    <2>2. IInv'
      BY <2>1 DEF IInv, TypeOK, ClosedBelowThreshold, HalfOpenAfterCooldown,
                  OpenAdmitsNobody, Inflight, CallsInThePast, FailuresAreReal
    <2> QED
      BY <2>1, <2>2 DEF Trips
  <1>2. CASE Next
    BY <1>2, TickStep, AdmitStep, RefusalStep, SucceedStep, FailStep, UncountedStep DEF Next
  <1> QED
    BY <1>1, <1>2

-----------------------------------------------------------------------------
\* The inductive invariant holds in every reachable state.
THEOREM Invariance == Spec => []IInv
  <1>1. IInv /\ [Next]_vars => IInv'
    BY NextStep
  <1> QED
    BY <1>1, InitIInv, PTL DEF Spec

\* The breaker, the clock and the calls keep their types.
THEOREM TypeCorrect == Spec => []TypeOK
  BY Invariance, PTL DEF IInv

\* CircuitBreaker: a closed breaker is below its threshold, a half-open one has waited
\* a whole cooldown.
THEOREM StatesAreDue == Spec => []StateIsDue
  <1>1. IInv => StateIsDue
    BY DEF IInv, StateIsDue
  <1> QED
    BY <1>1, Invariance, PTL

\* CostPolicy.precheck: nobody is let through while the breaker is open.
THEOREM BreakerSafe == Spec => []OpenAdmitsNobody
  <1>1. IInv => OpenAdmitsNobody
    BY DEF IInv
  <1> QED
    BY <1>1, Invariance, PTL

\* CircuitBreaker: every trip takes a threshold of recent failures of real calls that no
\* later success has cleared, also where the lock document lets one failed probe re-open.
THEOREM TripsTakeThreshold == Spec => TripTakesThreshold
  <1>1. IInv /\ [Next]_vars => [Trips => FullEvidence']_vars
    BY NextStep
  <1> QED
    BY <1>1, Invariance, PTL DEF Spec, TripTakesThreshold

\* The breaker trips only on the failures it needs: real, recent, not cleared since.
THEOREM TripsAreEarned == Spec => TripIsEarned
  <1>1. FullEvidence' =>
            Cardinality(Evidence(now)') >= IF breaker.state = "half_open" THEN 1 ELSE Threshold
    <2> SUFFICES ASSUME FullEvidence'
                 PROVE  /\ Cardinality(Evidence(now)') >= 1
                        /\ Cardinality(Evidence(now)') >= Threshold
      OBVIOUS
    <2>1. /\ Cardinality(Evidence(now)') \in Nat
          /\ Cardinality(Evidence(now)') >= Threshold
      BY DEF FullEvidence
    <2> QED
      BY <2>1, BreakerSettings
  <1>2. [Trips => FullEvidence']_vars =>
            [Trips => Cardinality(Evidence(now)') >=
                          IF breaker.state = "half_open" THEN 1 ELSE Threshold]_vars
    BY <1>1
  <1> QED
    BY <1>2, TripsTakeThreshold, PTL DEF TripTakesThreshold, TripIsEarned

\* CircuitBreaker.on_failure: a probe that fails when the window holds no other failure
\* leaves the breaker half-open, whenever more than one failure is needed to trip it.
THEOREM FailedProbeKeepsProbing ==
    ASSUME IInv, NEW r \in Requests, Fail(r), breaker.state = "half_open",
           Threshold > 1, \A f \in breaker.failures : f.at < now - Window
    PROVE  breaker'.state = "half_open" /\ ~Trips
  <1> DEFINE n == [at |-> now, call |-> r]
  <1>1. breaker' = OnFailure(breaker, r, now)
    BY DEF Fail, Settle
  <1>2. /\ breaker \in BreakerType /\ now \in Nat /\ IsFiniteSet(breaker.failures)
        /\ \A f \in breaker.failures : f.at \in Nat
    BY DEF IInv, TypeOK, BreakerType, Failures, FailuresAreReal
  <1>3. /\ breaker'.failures \subseteq breaker.failures \cup {n}
        /\ \A f \in breaker'.failures : f.at >= now - Window
        /\ IsFiniteSet(breaker'.failures)
        /\ \/ Cardinality(breaker'.failures) >= Threshold
           \/ breaker'.state = breaker.state /\ breaker'.opened_at = breaker.opened_at
    BY <1>1, <1>2, OnFailureCounts
  <1>4. breaker'.failures \subseteq {n}
    BY <1>2, <1>3, BreakerSettings
  <1>5. Cardinality(breaker'.failures) <= 1 /\ Cardinality(breaker'.failures) \in Nat
    <2>1. IsFiniteSet({n}) /\ Cardinality({n}) = 1
      BY FS_Singleton
    <2> HIDE DEF n
    <2> QED
      BY <1>3, <1>4, <2>1, FS_Subset, FS_CardinalityType
  <1>6. ~(Cardinality(breaker'.failures) >= Threshold)
    BY <1>5, BreakerSettings
  <1> QED
    BY <1>3, <1>6 DEF Trips
=============================================================================
