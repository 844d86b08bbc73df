------------------------- MODULE ChatPipelineProofs -------------------------
(***************************************************************************)
(* ChatPipeline for any clients, budgets, timeouts, threads and failures:   *)
(* what the limits still bound when they are checked before the provider is  *)
(* awaited and charged after it, who is charged, and the types.              *)
(*                                                                         *)
(* Every step is one of five kinds (Quiet, Admits, Settles, TimePasses,      *)
(* Restarts), which say what it does to the day's budget, to the rows of     *)
(* today and to the requests in flight; the bounds are proved of the kinds.  *)
(***************************************************************************)
EXTENDS ChatPipeline, WellFoundedInduction, FiniteSetTheorems, TLAPS

-----------------------------------------------------------------------------
(* Numbers, the largest of a set and the sum of a function.                  *)

\* A set of natural numbers has a least member.
LEMMA LeastExists ==
    ASSUME NEW T \in SUBSET Nat, T # {}
    PROVE  \E n \in T : \A m \in T : n <= m
  <1> DEFINE R == OpToRel(<, Nat)
  <1>1. IsWellFoundedOn(R, Nat) /\ \A x, y \in Nat : <<y, x>> \in R <=> y < x
    BY NatLessThanWellFounded DEF OpToRel
  <1> HIDE DEF R
  <1>2. PICK n \in T : \A m \in T : ~(<<m, n>> \in R)
    BY <1>1, WFMin
  <1>3. \A m \in T : ~(m < n)
    BY <1>1, <1>2
  <1> QED
    BY <1>3

LEMMA SetInduction ==
    ASSUME NEW S, 0 \in S, \A n \in Nat : n \in S => n + 1 \in S
    PROVE  Nat \subseteq S
  <1> SUFFICES ASSUME Nat \ S # {}
               PROVE  FALSE
    OBVIOUS
  <1>1. PICK n \in Nat \ S : \A m \in Nat \ S : n <= m
    <2>1. Nat \ S \in SUBSET Nat
      OBVIOUS
    <2> QED
      BY <2>1, LeastExists
  <1>2. n # 0 /\ n - 1 \in Nat
    BY <1>1
  <1>3. n - 1 + 1 \in S
    BY <1>1, <1>2
  <1> QED
    BY <1>1, <1>2, <1>3

\* Largest is the bound of a finite set that its name says.
LEMMA LargestBounds ==
    ASSUME NEW S \in SUBSET Nat, IsFiniteSet(S)
    PROVE  Largest(S) \in Nat /\ \A n \in S : n <= Largest(S)
  <1> DEFINE Bound(m, T) == m \in T \cup {0} /\ \A n \in T : n <= m
             K == {k \in Nat : \A T \in SUBSET Nat :
                      IsFiniteSet(T) /\ Cardinality(T) = k => \E m : Bound(m, T)}
  <1>1. 0 \in K
    <2>1. \A T \in SUBSET Nat : IsFiniteSet(T) /\ Cardinality(T) = 0 => Bound(0, T)
      BY FS_EmptySet
    <2> QED
      BY <2>1
  <1>2. ASSUME NEW k \in Nat, k \in K,
               NEW T \in SUBSET Nat, IsFiniteSet(T), Cardinality(T) = k + 1
        PROVE  \E m : Bound(m, T)
    <2>1. PICK x \in T : TRUE
      <3>1. k + 1 # 0
        OBVIOUS
      <3>2. T # {}
        BY <1>2, <3>1, FS_EmptySet
      <3> QED
        BY <3>2
    <2>2. IsFiniteSet(T \ {x}) /\ Cardinality(T \ {x}) = k /\ T \ {x} \in SUBSET Nat
      <3>1. IsFiniteSet(T \ {x}) /\ Cardinality(T \ {x}) = Cardinality(T) - 1
        BY <1>2, FS_RemoveElement
      <3>2. k + 1 - 1 = k /\ T \ {x} \in SUBSET Nat
        OBVIOUS
      <3> QED
        BY <1>2, <3>1, <3>2
    <2>3. PICK m : Bound(m, T \ {x})
      BY <1>2, <2>2
    <2>4. CASE x <= m
      <3>1. Bound(m, T)
        BY <2>3, <2>4
      <3> QED
        BY <3>1
    <2>5. CASE ~(x <= m)
      <3>1. m \in Nat /\ x \in Nat
        BY <2>3
      <3>2. Bound(x, T)
        BY <2>3, <2>5, <3>1
      <3> QED
        BY <3>2
    <2> QED
      BY <2>4, <2>5
  <1>3. \A k \in Nat : k \in K => k + 1 \in K
    BY <1>2, SMTT(20)
  <1>4. Nat \subseteq K
    <2> HIDE DEF K
    <2> QED
      BY <1>1, <1>3, SetInduction
  <1>5. \E m : Bound(m, S)
    <2>1. Cardinality(S) \in K
      BY <1>4, FS_CardinalityType
    <2> QED
      BY <2>1
  <1> DEFINE largest == Largest(S)
  <1>6. largest \in S \cup {0} /\ \A n \in S : n <= largest
    BY <1>5 DEF Largest
  <1> HIDE DEF largest
  <1>7. largest \in Nat
    BY <1>6
  <1> QED
    BY <1>6, <1>7 DEF largest

One(T) == CHOOSE x \in T : TRUE

\* h gives the sum of f over each set of D.
Sums(h, f, D) ==
    h = [T \in D |-> IF T = {} THEN 0 ELSE f[One(T)] + h[T \ {One(T)}]]

UpToSize(S, k) == {T \in SUBSET S : Cardinality(T) <= k}

LEMMA SumsExist ==
    ASSUME NEW S, IsFiniteSet(S), NEW f
    PROVE  \E h : Sums(h, f, SUBSET S)
  <1> DEFINE K == {k \in Nat : \E h : Sums(h, f, UpToSize(S, k))}
  <1>1. \A T \in SUBSET S : /\ IsFiniteSet(T) /\ Cardinality(T) \in Nat
                            /\ Cardinality(T) <= Cardinality(S)
                            /\ T = {} <=> Cardinality(T) = 0
                            /\ T # {} => Cardinality(T \ {One(T)}) = Cardinality(T) - 1
    BY FS_Subset, FS_CardinalityType, FS_EmptySet, FS_RemoveElement DEF One
  <1>2. 0 \in K
    <2>1. UpToSize(S, 0) = {{}}
      <3>1. ASSUME NEW T \in SUBSET S
            PROVE  Cardinality(T) <= 0 <=> T = {}
        <4>1. Cardinality(T) \in Nat /\ (T = {} <=> Cardinality(T) = 0)
          BY <1>1
        <4> QED
          BY <4>1
      <3> QED
        BY <3>1 DEF UpToSize
    <2> DEFINE h == [T \in UpToSize(S, 0) |-> 0]
    <2>2. Sums(h, f, UpToSize(S, 0))
      BY <2>1 DEF Sums
    <2> QED
      BY <2>2
  <1>3. ASSUME NEW k \in Nat, k \in K
        PROVE  k + 1 \in K
    <2>1. PICK g : Sums(g, f, UpToSize(S, k))
      BY <1>3
    <2> DEFINE D == UpToSize(S, k + 1)
               h == [T \in D |-> IF Cardinality(T) = k + 1
                                 THEN f[One(T)] + g[T \ {One(T)}] ELSE g[T]]
    <2>2. ASSUME NEW T \in D
          PROVE  h[T] = IF T = {} THEN 0 ELSE f[One(T)] + h[T \ {One(T)}]
      <3> DEFINE U == T \ {One(T)}
      <3>1. T \in SUBSET S /\ Cardinality(T) \in Nat /\ Cardinality(T) <= k + 1
        BY <1>1 DEF UpToSize
      <3>2. CASE T = {}
        <4>1. Cardinality(T) = 0 /\ T \in UpToSize(S, k)
          <5>1. Cardinality(T) = 0
            BY <1>1, <3>1, <3>2
          <5> QED
            BY <3>1, <5>1 DEF UpToSize
        <4>2. h[T] = g[T] /\ g[T] = 0
          BY <2>1, <3>2, <4>1 DEF Sums
        <4> QED
          BY <3>2, <4>2
      <3>3. CASE T # {}
        <4>1. U \in SUBSET S /\ Cardinality(U) = Cardinality(T) - 1
          BY <1>1, <3>1, <3>3
        <4> HIDE DEF U
        <4>2. Cardinality(U) # k + 1 /\ Cardinality(U) <= k
          BY <3>1, <4>1
        <4>3. U \in D /\ U \in UpToSize(S, k)
          BY <3>1, <4>1, <4>2 DEF UpToSize
        <4>4. h[U] = g[U]
          BY <4>2, <4>3
        <4>5. h[T] = f[One(T)] + g[U]
          <5>1. CASE Cardinality(T) = k + 1
            BY <5>1 DEF U
          <5>2. CASE Cardinality(T) # k + 1
            <6>1. T \in UpToSize(S, k)
              BY <3>1, <5>2 DEF UpToSize
            <6>2. g[T] = f[One(T)] + g[U]
              BY <2>1, <3>3, <6>1 DEF Sums, U
            <6> QED
              BY <5>2, <6>2
          <5> QED
            BY <5>1, <5>2
        <4> QED
          BY <3>3, <4>4, <4>5 DEF U
      <3> QED
        BY <3>2, <3>3
    <2>3. Sums(h, f, D)
      BY <2>2 DEF Sums
    <2> HIDE DEF h
    <2> QED
      BY <2>3
  <1>4. Nat \subseteq K
    <2> HIDE DEF K
    <2> QED
      BY <1>2, <1>3, SetInduction
  <1>5. UpToSize(S, Cardinality(S)) = SUBSET S /\ Cardinality(S) \in Nat
    BY <1>1 DEF UpToSize
  <1> QED
    BY <1>4, <1>5

SumsOf(f, S) == CHOOSE h : Sums(h, f, SUBSET S)

LEMMA SumIs ==
    ASSUME NEW S, IsFiniteSet(S), NEW f, DOMAIN f = S
    PROVE  Sums(SumsOf(f, S), f, SUBSET S) /\ SumFunction(f) = SumsOf(f, S)[S]
  <1>1. Sums(SumsOf(f, S), f, SUBSET S)
    BY SumsExist DEF SumsOf
  <1>2. SumsOf(f, S) =
          CHOOSE h : h = [T \in SUBSET S |->
                            IF T = {} THEN 0
                            ELSE f[CHOOSE x \in T : TRUE] + h[T \ {CHOOSE x \in T : TRUE}]]
    BY DEF SumsOf, Sums, One
  <1>3. SumFunction(f) = SumsOf(f, S)[S]
    BY <1>2 DEF SumFunction, SumFunctionOnSet, FoldFunctionOnSet, MapThenFoldSet
  <1> QED
    BY <1>1, <1>3

\* One value grows, and the sum with it.
LEMMA SumGrows ==
    ASSUME NEW S, IsFiniteSet(S), NEW f \in [S -> Nat], NEW s \in S, NEW n \in Nat,
           NEW g, g = [f EXCEPT ![s] = @ + n]
    PROVE  SumFunction(f) \in Nat /\ SumFunction(g) = SumFunction(f) + n
  <1> DEFINE hf == SumsOf(f, S)
             hg == SumsOf(g, S)
             Agree(T) == /\ hf[T] \in Nat
                         /\ hg[T] = IF s \in T THEN hf[T] + n ELSE hf[T]
             K == {k \in Nat : \A T \in SUBSET S : Cardinality(T) = k => Agree(T)}
  <1>1. DOMAIN f = S /\ DOMAIN g = S
    OBVIOUS
  <1>2. /\ Sums(hf, f, SUBSET S) /\ SumFunction(f) = hf[S]
        /\ Sums(hg, g, SUBSET S) /\ SumFunction(g) = hg[S]
    BY <1>1, SumIs
  <1> HIDE DEF hf, hg
  <1>3. \A T \in SUBSET S : /\ IsFiniteSet(T) /\ Cardinality(T) \in Nat
                            /\ T = {} <=> Cardinality(T) = 0
                            /\ T # {} => One(T) \in T /\ Cardinality(T \ {One(T)}) = Cardinality(T) - 1
    BY FS_Subset, FS_CardinalityType, FS_EmptySet, FS_RemoveElement DEF One
  <1>4. ASSUME NEW T \in SUBSET S
        PROVE  /\ hf[T] = IF T = {} THEN 0 ELSE f[One(T)] + hf[T \ {One(T)}]
               /\ hg[T] = IF T = {} THEN 0 ELSE g[One(T)] + hg[T \ {One(T)}]
    BY <1>2 DEF Sums
  <1>5. 0 \in K
    <2>1. \A T \in SUBSET S : Cardinality(T) = 0 => T = {}
      BY <1>3
    <2>2. Agree({})
      BY <1>4
    <2> HIDE DEF Agree
    <2> QED
      BY <2>1, <2>2
  <1>6. ASSUME NEW k \in Nat, k \in K, NEW T \in SUBSET S, Cardinality(T) = k + 1
        PROVE  Agree(T)
    <2> DEFINE x == One(T)
               U == T \ {x}
    <2>1. T # {} /\ x \in T /\ U \in SUBSET S /\ Cardinality(U) = k
      <3>1. k + 1 # 0
        OBVIOUS
      <3>2. T # {}
        BY <1>3, <1>6, <3>1
      <3> QED
        BY <1>3, <1>6, <3>2
    <2>2. hf[T] = f[x] + hf[U] /\ hg[T] = g[x] + hg[U]
      BY <1>4, <2>1
    <2>3. s \in U <=> s \in T /\ s # x
      OBVIOUS
    <2> HIDE DEF x, U
    <2>4. Agree(U)
      BY <1>6, <2>1
    <2>5. f[x] \in Nat /\ g[x] = IF x = s THEN f[x] + n ELSE f[x]
      BY <2>1
    <2> QED
      BY <2>1, <2>2, <2>3, <2>4, <2>5
  <1>7. \A k \in Nat : k \in K => k + 1 \in K
    BY <1>6
  <1>8. Nat \subseteq K
    <2> HIDE DEF K
    <2> QED
      BY <1>5, <1>7, SetInduction
  <1>9. Agree(S)
    <2>1. Cardinality(S) \in K
      BY <1>8, FS_CardinalityType
    <2> QED
      BY <2>1
  <1> QED
    BY <1>2, <1>9

-----------------------------------------------------------------------------
(* The cost record.                                                          *)

Failures == [at : Nat, call : Slots]
Tally == [day : Nat, count : Nat]

CostRecord ==
    [breaker : [state : BreakerState, opened_at : Nat, failures : SUBSET Failures],
     global : Tally, actor : [Subjects -> Tally],
     ip : SUBSET [at : Nat, call : Slots, tokens : Nat]]

\* A day is a number, and a later moment is not on an earlier day.
LEMMA DaysPass ==
    ASSUME NEW t \in Nat
    PROVE  Day(t) \in Nat /\ Day(t) <= Day(t + 1)
  <1> DEFINE d == DayLength
             p == t \div d
             q == (t + 1) \div d
  <1>1. d \in Nat \ {0}
    BY CostSettings
  <1> HIDE DEF d
  <1>2. p \in Nat /\ d * p <= t /\ t < d * (p + 1)
    BY <1>1
  <1>3. q \in Nat /\ d * q <= t + 1 /\ t + 1 < d * (q + 1)
    BY <1>1
  <1> HIDE DEF p, q
  <1>4. p <= q
    <2> SUFFICES ASSUME q + 1 <= p
                 PROVE  FALSE
      BY <1>2, <1>3
    <2>1. d * (q + 1) <= d * p
      BY <1>1, <1>2, <1>3
    <2>2. d * p \in Nat /\ d * (q + 1) \in Nat
      BY <1>1, <1>2, <1>3
    <2> HIDE DEF p, q
    <2> QED
      BY <1>2, <1>3, <2>1, <2>2
  <1> QED
    BY <1>2, <1>4 DEF Day, p, q, d

LEMMA TotalIs ==
    ASSUME NEW d \in Tally, NEW n \in Nat, NEW t \in Nat
    PROVE  /\ DailyTotal(d, t) \in Nat
           /\ DailyAdd(d, n, t) \in Tally /\ DailyAdd(d, n, t).day = Day(t)
           /\ DailyTotal(DailyAdd(d, n, t), t) = DailyTotal(d, t) + n
  <1>1. Day(t) \in Nat
    BY DaysPass
  <1>2. DailyTotal(d, t) \in Nat
    BY DEF DailyTotal, Tally
  <1> QED
    BY <1>1, <1>2 DEF DailyAdd, DailyTotal, Tally

\* A fresh record holds nothing.
LEMMA FreshIs ==
    /\ FreshCost(Subjects) \in CostRecord /\ FreshCost(Subjects).global = NoTokens
    /\ FreshCost(Subjects).breaker.failures = {}
  BY DEF FreshCost, FreshBreaker, BreakerState, NoTokens, CostRecord, Tally

\* What lets a request through, and that asking changes neither total.
LEMMA ScopeIs ==
    ASSUME NEW c \in CostRecord, NEW a \in Subjects, NEW input \in Nat, NEW t \in Nat,
           NEW scope, scope = Scope(c, a, input, MaxOutput, t)
    PROVE  /\ scope \in Refusals \cup {"none"}
           /\ scope = "none" => /\ input + MaxOutput <= RequestMaxTokens
                                /\ DailyTotal(c.global, t) + input + MaxOutput <= GlobalCap
  <1>1. DailyTotal(c.global, t) \in Nat
    BY TotalIs DEF CostRecord
  <1>2. scope \in Refusals \cup {"none"}
    BY DEF Scope, Refusals
  <1>3. ASSUME scope = "none"
        PROVE  /\ ~(input + MaxOutput > RequestMaxTokens)
               /\ ~(DailyTotal(c.global, t) + (input + MaxOutput) > GlobalCap)
    BY <1>3 DEF Scope
  <1> QED
    BY <1>1, <1>2, <1>3, PipelineSettings, CostSettings

LEMMA PruneIs ==
    ASSUME NEW b \in [state : BreakerState, opened_at : Nat, failures : SUBSET Failures],
           NEW t \in Nat
    PROVE  /\ Prune(b, t) \in [state : BreakerState, opened_at : Nat, failures : SUBSET Failures]
           /\ Prune(b, t).failures \subseteq b.failures
  BY DEF Prune

LEMMA AfterScopeIs ==
    ASSUME NEW c \in CostRecord, NEW t \in Nat, NEW scope
    PROVE  /\ AfterScope(c, scope, t) \in CostRecord
           /\ AfterScope(c, scope, t).global = c.global
           /\ AfterScope(c, scope, t).breaker.failures \subseteq c.breaker.failures
  <1> DEFINE p == Prune(c.breaker, t)
             b == AfterPrecheck(c.breaker, t)
  <1>1. /\ p \in [state : BreakerState, opened_at : Nat, failures : SUBSET Failures]
        /\ p.failures \subseteq c.breaker.failures
    BY PruneIs DEF CostRecord
  <1>2. /\ b \in [state : BreakerState, opened_at : Nat, failures : SUBSET Failures]
        /\ b.failures = p.failures
    <2>1. b = IF p.state = "open" /\ Cooled(p, t) THEN [p EXCEPT !.state = "half_open"]
              ELSE IF p.state = "closed" /\ Tripped(p)
                   THEN [p EXCEPT !.state = "open", !.opened_at = t] ELSE p
      BY DEF AfterPrecheck
    <2> HIDE DEF p, b
    <2> QED
      BY <1>1, <2>1 DEF BreakerState
  <1>3. PruneWindow(c.ip, t) \subseteq c.ip
    BY DEF PruneWindow
  <1> DEFINE breaker == IF scope = "request_cap" THEN c.breaker ELSE b
             ip == IF scope \in {"request_cap", "breaker", "global_daily"}
                   THEN c.ip ELSE PruneWindow(c.ip, t)
  <1>4. AfterScope(c, scope, t) = [c EXCEPT !.breaker = breaker, !.ip = ip]
    BY DEF AfterScope
  <1>5. /\ breaker \in [state : BreakerState, opened_at : Nat, failures : SUBSET Failures]
        /\ breaker.failures \subseteq c.breaker.failures
        /\ ip \in SUBSET [at : Nat, call : Slots, tokens : Nat]
    BY <1>1, <1>2, <1>3 DEF CostRecord
  <1> HIDE DEF breaker, ip
  <1> QED
    BY <1>4, <1>5 DEF CostRecord

LEMMA RecordFailureIs ==
    ASSUME NEW c \in CostRecord, NEW k \in Slots, NEW t \in Nat, NEW ofProvider \in BOOLEAN
    PROVE  /\ RecordFailure(c, k, ofProvider, t) \in CostRecord
           /\ RecordFailure(c, k, ofProvider, t).global = c.global
           /\ RecordFailure(c, k, ofProvider, t).breaker.failures
                 \subseteq c.breaker.failures \cup {[at |-> t, call |-> k]}
  <1> DEFINE e == [c.breaker EXCEPT !.failures = @ \cup {[at |-> t, call |-> k]}]
             p == Prune(e, t)
             b == OnFailure(c.breaker, k, t)
  <1>1. /\ e \in [state : BreakerState, opened_at : Nat, failures : SUBSET Failures]
        /\ e.failures = c.breaker.failures \cup {[at |-> t, call |-> k]}
    BY DEF CostRecord, Failures
  <1> HIDE DEF e
  <1>2. /\ p \in [state : BreakerState, opened_at : Nat, failures : SUBSET Failures]
        /\ p.failures \subseteq e.failures
    BY <1>1, PruneIs
  <1>3. b = IF Tripped(p) THEN [p EXCEPT !.state = "open", !.opened_at = t] ELSE p
    BY DEF OnFailure, e
  <1> HIDE DEF p, b
  <1>4. /\ b \in [state : BreakerState, opened_at : Nat, failures : SUBSET Failures]
        /\ b.failures = p.failures
    BY <1>2, <1>3 DEF BreakerState
  <1>5. RecordFailure(c, k, ofProvider, t) = IF ofProvider THEN [c EXCEPT !.breaker = b] ELSE c
    BY DEF RecordFailure, b
  <1> QED
    BY <1>1, <1>2, <1>4, <1>5 DEF CostRecord

LEMMA RecordSuccessIs ==
    ASSUME NEW c \in CostRecord, NEW a \in Subjects, NEW k \in Slots, NEW n \in Nat, NEW t \in Nat
    PROVE  /\ RecordSuccess(c, a, k, n, t) \in CostRecord
           /\ RecordSuccess(c, a, k, n, t).global = DailyAdd(c.global, n, t)
           /\ RecordSuccess(c, a, k, n, t).breaker.failures = {}
  <1> DEFINE global == DailyAdd(c.global, n, t)
             actor == [c.actor EXCEPT ![a] = DailyAdd(@, n, t)]
             ip == WindowAdd(c.ip, k, n, t)
  <1>1. global \in Tally /\ DailyAdd(c.actor[a], n, t) \in Tally
    BY TotalIs DEF CostRecord
  <1>2. actor \in [Subjects -> Tally]
    BY <1>1 DEF CostRecord
  <1>3. ip \in SUBSET [at : Nat, call : Slots, tokens : Nat]
    BY DEF WindowAdd, PruneWindow, CostRecord
  <1>4. RecordSuccess(c, a, k, n, t) =
            [breaker |-> FreshBreaker, global |-> global, actor |-> actor, ip |-> ip]
    BY DEF RecordSuccess, OnSuccess
  <1> HIDE DEF global, actor, ip
  <1> QED
    BY <1>1, <1>2, <1>3, <1>4 DEF CostRecord, FreshBreaker, BreakerState, global

-----------------------------------------------------------------------------
(* The queue of the pool.                                                    *)

\* An attempt that is dropped leaves the others where they stood.
LEMMA RemovedIs ==
    ASSUME NEW q \in Seq(Slots), IsInjective(q), NEW r
    PROVE  /\ RemoveFirst(q, r) \in Seq(Slots) /\ IsInjective(RemoveFirst(q, r))
           /\ Range(RemoveFirst(q, r)) = Range(q) \ {r}
  <1>1. CASE ~(\E i \in 1..Len(q) : q[i] = r)
    BY <1>1 DEF RemoveFirst, Range
  <1>2. CASE \E i \in 1..Len(q) : q[i] = r
    <2> DEFINE I == {i \in 1..Len(q) : q[i] = r}
    <2>1. I \in SUBSET Nat /\ I # {}
      BY <1>2
    <2>2. \E i \in I : \A j \in I : i <= j
      <3> HIDE DEF I
      <3> QED
        BY <2>1, LeastExists
    <2>3. Min(I) \in I
      BY <2>2 DEF Min
    <2>4. RemoveFirst(q, r) = RemoveAt(q, Min(I))
      BY <1>2, <2>1 DEF RemoveFirst, SelectInSeq
    <2>5. PICK n \in 1..Len(q) : q[n] = r /\ RemoveFirst(q, r) = RemoveAt(q, n)
      BY <2>3, <2>4
    <2> DEFINE p == SubSeq(q, 1, n - 1) \o SubSeq(q, n + 1, Len(q))
    <2>6. RemoveFirst(q, r) = p
      BY <2>5 DEF RemoveAt
    <2>7. /\ p \in Seq(Slots) /\ Len(p) = Len(q) - 1 /\ DOMAIN p = 1..(Len(q) - 1)
          /\ \A i \in 1..(Len(q) - 1) : p[i] = IF i < n THEN q[i] ELSE q[i + 1]
      <3> DEFINE a == SubSeq(q, 1, n - 1)
                 b == SubSeq(q, n + 1, Len(q))
      <3>1. a \in Seq(Slots) /\ Len(a) = n - 1 /\ \A i \in 1..(n - 1) : a[i] = q[i]
        OBVIOUS
      <3>2. b \in Seq(Slots) /\ Len(b) = Len(q) - n /\ \A i \in 1..(Len(q) - n) : b[i] = q[n + i]
        OBVIOUS
      <3>3. p = a \o b
        OBVIOUS
      <3> HIDE DEF a, b, p
      <3>4. p \in Seq(Slots) /\ Len(p) = Len(q) - 1 /\ DOMAIN p = 1..(Len(q) - 1)
        BY <3>1, <3>2, <3>3
      <3>5. ASSUME NEW i \in 1..(Len(q) - 1)
            PROVE  p[i] = IF i < n THEN q[i] ELSE q[i + 1]
        <4>1. CASE i < n
          BY <3>1, <3>2, <3>3, <4>1
        <4>2. CASE ~(i < n)
          <5>1. i - (n - 1) \in 1..(Len(q) - n) /\ n + (i - (n - 1)) = i + 1
            BY <4>2
          <5>2. p[i] = b[i - (n - 1)]
            BY <3>1, <3>2, <3>3, <4>2, <5>1
          <5> QED
            BY <3>2, <4>2, <5>1, <5>2
        <4> QED
          BY <4>1, <4>2
      <3> QED
        BY <3>4, <3>5
    <2> HIDE DEF p
    <2>8. Len(q) \in Nat /\ DOMAIN q = 1..Len(q)
      OBVIOUS
    <2>9. \A i, j \in 1..Len(q) : q[i] = q[j] => i = j
      BY <2>8 DEF IsInjective
    <2>10. IsInjective(p)
      <3> SUFFICES ASSUME NEW i \in 1..(Len(q) - 1), NEW j \in 1..(Len(q) - 1), p[i] = p[j]
                   PROVE  i = j
        BY <2>7 DEF IsInjective
      <3>1. i \in 1..Len(q) /\ j \in 1..Len(q) /\ i + 1 \in 1..Len(q) /\ j + 1 \in 1..Len(q)
        BY <2>8
      <3> QED
        BY <2>7, <2>8, <2>9, <3>1
    <2>11. Range(p) \subseteq Range(q) \ {r}
      <3> SUFFICES ASSUME NEW i \in 1..(Len(q) - 1)
                   PROVE  p[i] \in Range(q) /\ p[i] # r
        BY <2>7 DEF Range
      <3>1. i \in 1..Len(q) /\ i + 1 \in 1..Len(q)
        BY <2>8
      <3>2. PICK k \in 1..Len(q) : p[i] = q[k] /\ k # n
        BY <2>7, <3>1
      <3> QED
        BY <2>5, <2>8, <2>9, <3>2 DEF Range
    <2>12. Range(q) \ {r} \subseteq Range(p)
      <3> SUFFICES ASSUME NEW x \in Range(q) \ {r}
                   PROVE  \E i \in 1..(Len(q) - 1) : p[i] = x
        BY <2>7 DEF Range
      <3>1. PICK k \in 1..Len(q) : q[k] = x
        BY <2>8 DEF Range
      <3>2. k # n
        BY <2>5, <3>1
      <3>3. CASE k < n
        <4>1. k \in 1..(Len(q) - 1)
          BY <2>8, <3>3
        <4> QED
          BY <2>7, <3>1, <3>3, <4>1
      <3>4. CASE k > n
        <4>1. k - 1 \in 1..(Len(q) - 1) /\ ~(k - 1 < n) /\ k - 1 + 1 = k
          BY <2>8, <3>4
        <4> QED
          BY <2>7, <3>1, <4>1
      <3> QED
        BY <3>2, <3>3, <3>4
    <2> QED
      BY <2>6, <2>7, <2>10, <2>11, <2>12
  <1> QED
    BY <1>1, <1>2

\* An attempt goes to the end of the queue, or from its head to a thread.
LEMMA QueueIs ==
    ASSUME NEW q \in Seq(Slots), IsInjective(q)
    PROVE  /\ \A r \in Slots \ Range(q) :
                 /\ Append(q, r) \in Seq(Slots) /\ IsInjective(Append(q, r))
                 /\ Range(Append(q, r)) = Range(q) \cup {r}
           /\ q # <<>> => /\ Head(q) \in Slots /\ Tail(q) \in Seq(Slots)
                          /\ IsInjective(Tail(q)) /\ Range(Tail(q)) = Range(q) \ {Head(q)}
                          /\ Head(q) \in Range(q)
  <1>1. Len(q) \in Nat /\ DOMAIN q = 1..Len(q)
    OBVIOUS
  <1>2. \A i, j \in 1..Len(q) : q[i] = q[j] => i = j
    BY <1>1 DEF IsInjective
  <1>3. ASSUME NEW r \in Slots \ Range(q)
        PROVE  /\ Append(q, r) \in Seq(Slots) /\ IsInjective(Append(q, r))
               /\ Range(Append(q, r)) = Range(q) \cup {r}
    <2> DEFINE p == Append(q, r)
    <2>1. /\ p \in Seq(Slots) /\ DOMAIN p = 1..(Len(q) + 1) /\ p[Len(q) + 1] = r
          /\ \A i \in 1..Len(q) : p[i] = q[i]
      OBVIOUS
    <2> HIDE DEF p
    <2>2. \A i \in 1..(Len(q) + 1) : i = Len(q) + 1 \/ i \in 1..Len(q)
      BY <1>1
    <2>3. \A i \in 1..Len(q) : q[i] # r
      BY <1>1 DEF Range
    <2>4. IsInjective(p)
      BY <1>2, <2>1, <2>2, <2>3 DEF IsInjective
    <2>5. Range(p) = Range(q) \cup {r}
      <3>1. Len(q) + 1 \in 1..(Len(q) + 1) /\ 1..Len(q) \subseteq 1..(Len(q) + 1)
        BY <1>1
      <3> QED
        BY <1>1, <2>1, <2>2, <3>1 DEF Range
    <2> QED
      BY <2>1, <2>4, <2>5 DEF p
  <1>4. ASSUME q # <<>>
        PROVE  /\ Head(q) \in Slots /\ Tail(q) \in Seq(Slots)
               /\ IsInjective(Tail(q)) /\ Range(Tail(q)) = Range(q) \ {Head(q)}
               /\ Head(q) \in Range(q)
    <2> DEFINE p == Tail(q)
    <2>1. /\ Len(q) > 0 /\ Head(q) = q[1] /\ p \in Seq(Slots) /\ DOMAIN p = 1..(Len(q) - 1)
          /\ \A i \in 1..(Len(q) - 1) : p[i] = q[i + 1]
      BY <1>4
    <2> HIDE DEF p
    <2>2. 1 \in 1..Len(q) /\ q[1] \in Slots
      BY <1>1, <2>1
    <2>3. \A i \in 1..(Len(q) - 1) : i + 1 \in 1..Len(q) /\ i + 1 # 1
      BY <1>1
    <2>4. \A k \in 1..Len(q) : k # 1 => k - 1 \in 1..(Len(q) - 1) /\ k - 1 + 1 = k
      BY <1>1
    <2>5. IsInjective(p)
      <3> SUFFICES ASSUME NEW i \in 1..(Len(q) - 1), NEW j \in 1..(Len(q) - 1), p[i] = p[j]
                   PROVE  i = j
        BY <2>1 DEF IsInjective
      <3>1. i + 1 = j + 1
        BY <1>2, <2>1, <2>3
      <3> QED
        BY <3>1
    <2>6. Range(p) = Range(q) \ {q[1]}
      <3>1. Range(p) \subseteq Range(q) \ {q[1]}
        BY <1>1, <1>2, <2>1, <2>2, <2>3 DEF Range
      <3>2. Range(q) \ {q[1]} \subseteq Range(p)
        <4> SUFFICES ASSUME NEW x \in Range(q) \ {q[1]}
                     PROVE  \E i \in 1..(Len(q) - 1) : p[i] = x
          BY <2>1 DEF Range
        <4>1. PICK k \in 1..Len(q) : q[k] = x
          BY <1>1 DEF Range
        <4>2. k - 1 \in 1..(Len(q) - 1) /\ p[k - 1] = q[k]
          BY <2>1, <2>4, <4>1
        <4> QED
          BY <4>1, <4>2
      <3> QED
        BY <3>1, <3>2
    <2> QED
      BY <1>1, <2>1, <2>2, <2>5, <2>6 DEF Range, p
  <1> QED
    BY <1>3, <1>4

-----------------------------------------------------------------------------
(* The types, and the five kinds of steps.                                   *)

Flying == {r \in Slots : Waiting(r)}

Row == [day : Nat, requests : Nat, tokens : Nat]

Request ==
    [phase : {"idle", "waiting", "done"}, input : Nat, deadline : Nat, due : Nat,
     attempt : 0..MaxAttempts, response : Responses, tokens : Nat]

\* The rows and the spend of today.
Today == [s \in Subjects |-> RowToday(quota[s])]
Spent == DailyTotal(cost.global, now)

BooksTyped ==
    /\ now \in 0..MaxTime
    /\ cost \in CostRecord /\ cost.global.day <= Day(now)
    /\ \A f \in cost.breaker.failures : f.at <= now
    /\ quota \in [Subjects -> Row] /\ \A s \in Subjects : quota[s].day <= Day(now)
    /\ dbFailures \in 0..MaxDbFailures

\* Whatever is in flight was small enough to be let through.
RequestsTyped ==
    /\ req \in [Slots -> Request]
    /\ \A r \in Flying : req[r].input \in Inputs /\ req[r].input + MaxOutput <= RequestMaxTokens

PoolTyped ==
    /\ queue \in Seq(Slots) /\ IsInjective(queue) /\ running \in SUBSET Slots
    /\ Range(queue) \cap running = {} /\ Range(queue) \cup running = Flying
    /\ zombies \in Nat /\ Cardinality(running) + zombies <= Workers

Typed == BooksTyped /\ RequestsTyped /\ PoolTyped

KeepsInputs == \A p \in Flying \cap Flying' : req'[p].input = req[p].input

\* Nothing is spent or charged, and no request starts.
Quiet ==
    /\ now' = now /\ Spent' = Spent /\ Today' = Today /\ dbFailures' >= dbFailures
    /\ Flying' \subseteq Flying /\ KeepsInputs

\* A request is let through: within the budget, and within its quota as far as that
\* could be read.
Admits(r) ==
    /\ now' = now /\ Spent' = Spent /\ Today' = Today /\ dbFailures' >= dbFailures
    /\ r \notin Flying /\ Flying' = Flying \cup {r} /\ KeepsInputs
    /\ Spent + req'[r].input + MaxOutput <= GlobalCap
    /\ Today[Owner[r]].requests < RequestLimit \/ dbFailures' >= dbFailures + 1

\* One request and n tokens are charged to the row of r's subject, or the statement fails.
Charged(r, n) ==
    \/ /\ dbFailures' = dbFailures
       /\ Today' = [Today EXCEPT ![Owner[r]] = IncrementUsage(@, n)]
    \/ dbFailures' = dbFailures + 1 /\ Today' = Today

EndsBilled == {"answer", "safety_blocked", "bad_response", "timeout"}

\* A request ends and is charged with what the day's budget is charged with, or more.
Settles(r) ==
    /\ now' = now
    /\ r \in Flying /\ Flying' = Flying \ {r} /\ KeepsInputs /\ req'[r].response \in EndsBilled
    /\ \E used, billed \in Nat :
          /\ used <= billed /\ used <= MaxUse /\ used <= req[r].input + MaxOutput + Overrun
          /\ Spent' = Spent + used
          /\ Charged(r, billed)

TimePasses ==
    /\ now' = now + 1 /\ cost' = cost /\ quota' = quota /\ dbFailures' = dbFailures
    /\ Flying' = Flying /\ KeepsInputs

Restarts ==
    /\ now' = now /\ Spent' = 0 /\ quota' = quota /\ dbFailures' = dbFailures
    /\ Flying' = {}

Kinds == Quiet \/ (\E r \in Slots : Admits(r) \/ Settles(r)) \/ TimePasses \/ Restarts

-----------------------------------------------------------------------------
(* What the parts of an action do.                                           *)

LEMMA FailedIs ==
    ASSUME NEW a \in BOOLEAN, NEW b \in BOOLEAN
    PROVE  /\ Failed(<<a>>) = IF a THEN 0 ELSE 1
           /\ Failed(<<a, b>>) \in Nat
           /\ ~a => Failed(<<a, b>>) >= 1
  <1> DEFINE one == {i \in DOMAIN <<a>> : ~<<a>>[i]}
             two == {i \in DOMAIN <<a, b>> : ~<<a, b>>[i]}
  <1>1. one = IF a THEN {} ELSE {1}
    OBVIOUS
  <1>2. Failed(<<a>>) = Cardinality(one) /\ Failed(<<a, b>>) = Cardinality(two)
    BY DEF Failed
  <1>3. two \subseteq 1..2 /\ (~a => {1} \subseteq two)
    OBVIOUS
  <1> HIDE DEF one, two
  <1>4. IsFiniteSet({1}) /\ Cardinality({1}) = 1 /\ Cardinality({}) = 0
    BY FS_EmptySet, FS_Singleton
  <1>5. IsFiniteSet(two) /\ Cardinality(two) \in Nat
    <2>1. two \in SUBSET Nat /\ \A i \in two : i <= 2
      BY <1>3
    <2>2. IsFiniteSet(two)
      BY <2>1, FS_BoundedSetOfNaturals
    <2> QED
      BY <2>2, FS_CardinalityType
  <1>6. ~a => Cardinality(two) >= 1
    <2>1. ~a => Cardinality({1}) <= Cardinality(two)
      BY <1>3, <1>5, FS_Subset
    <2> QED
      BY <1>4, <1>5, <2>1
  <1> QED
    BY <1>1, <1>2, <1>4, <1>5, <1>6

LEMMA TodayIs ==
    ASSUME BooksTyped
    PROVE  /\ \A row \in Row : /\ RowToday(row) \in Row /\ RowToday(row).day = Day(now)
                               /\ RowToday(RowToday(row)) = RowToday(row)
           /\ Today \in [Subjects -> Row] /\ \A s \in Subjects : Today[s] = RowToday(quota[s])
           /\ now \in Nat /\ Day(now) \in Nat /\ Spent \in Nat
  <1>1. now \in Nat
    BY DEF BooksTyped
  <1>2. Day(now) \in Nat
    BY <1>1, DaysPass
  <1>3. Spent \in Nat
    BY <1>1, TotalIs DEF Spent, BooksTyped, CostRecord
  <1>4. \A row \in Row : /\ RowToday(row) \in Row /\ RowToday(row).day = Day(now)
                         /\ RowToday(RowToday(row)) = RowToday(row)
    BY <1>2 DEF RowToday, Row
  <1>5. Today \in [Subjects -> Row] /\ \A s \in Subjects : Today[s] = RowToday(quota[s])
    BY <1>4 DEF Today, BooksTyped
  <1> QED
    BY <1>1, <1>2, <1>3, <1>4, <1>5

\* Only one request changes.
LEMMA OneChanges ==
    ASSUME RequestsTyped, NEW r \in Slots, NEW q \in Request, req' = [req EXCEPT ![r] = q]
    PROVE  /\ req' \in [Slots -> Request] /\ req'[r] = q
           /\ \A p \in Slots : p # r => req'[p] = req[p]
           /\ Flying' = IF q.phase = "waiting" THEN Flying \cup {r} ELSE Flying \ {r}
  <1>1. /\ req' \in [Slots -> Request] /\ req'[r] = q
        /\ \A p \in Slots : p # r => req'[p] = req[p]
    BY DEF RequestsTyped
  <1>2. \A p \in Slots : p \in Flying' <=> req'[p].phase = "waiting"
    BY DEF Flying, Waiting
  <1>3. \A p \in Slots : p \in Flying <=> req[p].phase = "waiting"
    BY DEF Flying, Waiting
  <1>4. Flying \subseteq Slots /\ Flying' \subseteq Slots
    BY DEF Flying
  <1> QED
    BY <1>1, <1>2, <1>3, <1>4

\* What an answered request is.
LEMMA DoneIs ==
    ASSUME NEW response \in Responses, NEW tokens \in Nat
    PROVE  /\ NoRequest \in Request
           /\ \E q \in Request : /\ q = [NoRequest EXCEPT !.phase = "done", !.response = response]
                                 /\ q.phase = "done" /\ q.response = response
           /\ \E q \in Request : /\ q = [NoRequest EXCEPT !.phase = "done", !.response = response,
                                                          !.tokens = tokens]
                                 /\ q.phase = "done" /\ q.response = response
  <1>1. NoRequest \in Request
    <2>1. 0 \in 0..MaxAttempts /\ "none" \in Responses
      BY PipelineSettings DEF Responses
    <2> QED
      BY <2>1 DEF NoRequest, Request
  <1> DEFINE q == [NoRequest EXCEPT !.phase = "done", !.response = response]
             u == [NoRequest EXCEPT !.phase = "done", !.response = response, !.tokens = tokens]
  <1>2. q \in Request /\ q.phase = "done" /\ q.response = response
    BY <1>1 DEF Request
  <1>3. u \in Request /\ u.phase = "done" /\ u.response = response
    BY <1>1 DEF Request
  <1> HIDE DEF q, u
  <1>4. \E x \in Request : x = q /\ x.phase = "done" /\ x.response = response
    BY <1>2
  <1>5. \E x \in Request : x = u /\ x.phase = "done" /\ x.response = response
    BY <1>3
  <1> QED
    BY <1>1, <1>4, <1>5 DEF q, u

\* A request that is answered is in flight no more.
LEMMA AnsweredIs ==
    ASSUME RequestsTyped, NEW r \in Slots, NEW q \in Request, q.phase = "done",
           req' = [req EXCEPT ![r] = q]
    PROVE  RequestsTyped' /\ Flying' = Flying \ {r} /\ KeepsInputs /\ req'[r] = q
  <1>1. /\ req' \in [Slots -> Request] /\ req'[r] = q
        /\ \A p \in Slots : p # r => req'[p] = req[p]
        /\ Flying' = Flying \ {r} /\ Flying \subseteq Slots
    BY OneChanges DEF Flying
  <1> QED
    BY <1>1 DEF RequestsTyped, KeepsInputs

LEMMA RefusedIs ==
    ASSUME RequestsTyped, NEW r \in Slots, NEW response \in Responses, Answer(r, response)
    PROVE  RequestsTyped' /\ Flying' = Flying \ {r} /\ KeepsInputs
  <1>1. PICK q \in Request : /\ q = [NoRequest EXCEPT !.phase = "done", !.response = response]
                             /\ q.phase = "done"
    BY DoneIs
  <1> QED
    BY <1>1, AnsweredIs DEF Answer

LEMMA IncrementIs ==
    ASSUME NEW row \in Row, NEW n \in Nat
    PROVE  /\ IncrementUsage(row, n) \in Row /\ IncrementUsage(row, n).day = row.day
           /\ IncrementUsage(row, n).requests = row.requests + 1
           /\ IncrementUsage(row, n).tokens = row.tokens + n
  <1>1. row.requests + 1 \in Nat /\ row.tokens + n \in Nat
    BY DEF Row
  <1>2. IncrementUsage(row, n) =
            [[row EXCEPT !.requests = row.requests + 1] EXCEPT !.tokens = row.tokens + n]
    BY DEF IncrementUsage, Row
  <1> QED
    BY <1>1, <1>2 DEF Row

\* The row of one subject grows by one request, or the statement fails.
LEMMA PostAccountingIs ==
    ASSUME BooksTyped, NEW r \in Slots, NEW n \in Nat, PostAccounting(r, n), now' = now
    PROVE  /\ quota' \in [Subjects -> Row] /\ \A s \in Subjects : quota'[s].day <= Day(now)
           /\ dbFailures' \in 0..MaxDbFailures
           /\ Charged(r, n)
  <1> DEFINE s == Owner[r]
             row == RowToday(quota[s])
             grown == IncrementUsage(row, n)
  <1>1. PICK ok \in BOOLEAN :
            /\ Db(Failed(<<ok>>))
            /\ ok => quota' = [quota EXCEPT ![s] = grown]
            /\ ~ok => quota' = quota
    BY DEF PostAccounting
  <1>2. dbFailures' = dbFailures + (IF ok THEN 0 ELSE 1) /\ dbFailures' \in 0..MaxDbFailures
    <2> DEFINE failed == Failed(<<ok>>)
    <2>1. failed = IF ok THEN 0 ELSE 1
      BY FailedIs
    <2>2. dbFailures' = dbFailures + failed /\ dbFailures + failed <= MaxDbFailures
      BY <1>1 DEF Db
    <2> HIDE DEF failed
    <2> QED
      BY <2>1, <2>2, PipelineSettings DEF BooksTyped
  <1>3. s \in Subjects /\ quota[s] \in Row
    BY PipelineSettings DEF BooksTyped
  <1>4. Today \in [Subjects -> Row] /\ Today[s] = RowToday(quota[s]) /\ Day(now) \in Nat
        /\ Today[s].day = Day(now)
    BY <1>3, TodayIs
  <1>5. grown \in Row /\ grown.day = Day(now) /\ grown = IncrementUsage(Today[s], n)
    <2>1. row \in Row /\ row.day = Day(now) /\ row = Today[s]
      BY <1>3, <1>4
    <2> HIDE DEF row
    <2> QED
      BY <2>1, IncrementIs
  <1> DEFINE empty == [day |-> Day(now), requests |-> 0, tokens |-> 0]
  <1>6. /\ Today' = [x \in Subjects |-> IF quota'[x].day = Day(now) THEN quota'[x] ELSE empty]
        /\ Today = [x \in Subjects |-> IF quota[x].day = Day(now) THEN quota[x] ELSE empty]
    BY DEF Today, RowToday
  <1> HIDE DEF s, row, grown, empty
  <1>7. CASE ok
    <2>1. quota' = [quota EXCEPT ![s] = grown]
      BY <1>1, <1>7
    <2>2. quota' \in [Subjects -> Row] /\ \A x \in Subjects : quota'[x].day <= Day(now)
      BY <1>3, <1>4, <1>5, <2>1 DEF BooksTyped
    <2>3. Today' = [Today EXCEPT ![s] = grown]
      <3>1. quota'[s] = grown /\ \A x \in Subjects : x # s => quota'[x] = quota[x]
        BY <1>3, <2>1 DEF BooksTyped
      <3> QED
        BY <1>3, <1>4, <1>5, <1>6, <3>1
    <2>4. Today' = [Today EXCEPT ![s] = IncrementUsage(@, n)]
      BY <1>3, <1>4, <1>5, <2>3
    <2>5. dbFailures' = dbFailures
      BY <1>2, <1>7 DEF BooksTyped
    <2> QED
      BY <1>2, <2>2, <2>4, <2>5 DEF Charged, s
  <1>8. CASE ~ok
    <2>1. quota' = quota /\ dbFailures' = dbFailures + 1
      BY <1>1, <1>2, <1>8
    <2>2. Today' = Today
      BY <1>6, <2>1
    <2> QED
      BY <1>2, <2>1, <2>2 DEF Charged, BooksTyped
  <1> QED
    BY <1>7, <1>8

\* What a request that was let through can be charged.
LEMMA UseIs ==
    ASSUME RequestsTyped, NEW r \in Flying, NEW tokens \in Outputs
    PROVE  /\ req[r].input \in Nat /\ tokens \in Nat /\ MaxUse \in Nat /\ Overrun \in Nat
           /\ req[r].input + tokens <= MaxUse
           /\ req[r].input + tokens <= req[r].input + MaxOutput + Overrun
  <1> DEFINE I == {i \in Inputs : i + MaxOutput <= RequestMaxTokens}
             largest == Largest(I)
             longest == Largest(Outputs)
             input == req[r].input
  <1>1. IsFiniteSet(I) /\ I \in SUBSET Nat
    BY PipelineSettings, FS_Subset
  <1>2. Outputs \in SUBSET Nat /\ IsFiniteSet(Outputs) /\ tokens \in Nat /\ MaxOutput \in Nat
    BY PipelineSettings
  <1>3. input \in I
    BY DEF RequestsTyped
  <1>4. MaxUse = largest + longest
    BY DEF MaxUse
  <1>5. Overrun = IF longest > MaxOutput THEN longest - MaxOutput ELSE 0
    BY DEF Overrun
  <1> HIDE DEF I
  <1>6. largest \in Nat /\ input <= largest
    BY <1>1, <1>3, LargestBounds
  <1>7. longest \in Nat /\ tokens <= longest
    BY <1>2, LargestBounds
  <1>8. input \in Nat
    BY <1>1, <1>3
  <1> HIDE DEF largest, longest, input
  <1>9. /\ MaxUse \in Nat /\ Overrun \in Nat /\ input + tokens <= MaxUse
        /\ input + tokens <= input + MaxOutput + Overrun
    BY <1>2, <1>4, <1>5, <1>6, <1>7, <1>8
  <1> QED
    BY <1>2, <1>8, <1>9 DEF input

\* The numbers of the bounds, for any request in flight or none.
LEMMA BoundsAre ==
    MaxUse \in Nat /\ Overrun \in Nat
  <1> DEFINE I == {i \in Inputs : i + MaxOutput <= RequestMaxTokens}
             largest == Largest(I)
             longest == Largest(Outputs)
  <1>1. IsFiniteSet(I) /\ I \in SUBSET Nat
    BY PipelineSettings, FS_Subset
  <1>2. Outputs \in SUBSET Nat /\ IsFiniteSet(Outputs) /\ MaxOutput \in Nat
    BY PipelineSettings
  <1>3. MaxUse = largest + longest /\ Overrun = IF longest > MaxOutput THEN longest - MaxOutput ELSE 0
    BY DEF MaxUse, Overrun
  <1> HIDE DEF I
  <1>4. largest \in Nat /\ longest \in Nat
    BY <1>1, <1>2, LargestBounds
  <1> HIDE DEF largest, longest
  <1> QED
    BY <1>2, <1>3, <1>4

\* A request whose step 5 ended.
LEMMA SettleIs ==
    ASSUME BooksTyped, RequestsTyped, NEW r \in Flying, NEW response \in EndsBilled,
           NEW tokens \in Nat, response = "answer" => tokens \in Outputs,
           Settle(r, response, tokens), now' = now
    PROVE  BooksTyped' /\ RequestsTyped' /\ Settles(r)
  <1> DEFINE input == req[r].input
             used == IF response = "answer" THEN input + tokens ELSE 0
             billed == input + tokens
  <1>1. r \in Slots /\ input \in Nat /\ MaxUse \in Nat /\ Overrun \in Nat /\ MaxOutput \in Nat
    BY BoundsAre, PipelineSettings DEF Flying, RequestsTyped, Request
  <1>2. used \in Nat /\ billed \in Nat /\ used <= billed
    BY <1>1
  <1>3. used <= MaxUse /\ used <= input + MaxOutput + Overrun
    <2>1. CASE response = "answer"
      BY <2>1, UseIs
    <2>2. CASE response # "answer"
      BY <1>1, <2>2
    <2> QED
      BY <2>1, <2>2
  <1>4. /\ quota' \in [Subjects -> Row] /\ \A s \in Subjects : quota'[s].day <= Day(now)
        /\ dbFailures' \in 0..MaxDbFailures
        /\ Charged(r, billed)
    BY <1>1, <1>2, PostAccountingIs DEF Settle
  <1>5. now \in Nat /\ Day(now) \in Nat /\ cost \in CostRecord /\ Owner[r] \in Subjects
    BY <1>1, TodayIs, PipelineSettings DEF BooksTyped
  <1>6. /\ cost' \in CostRecord /\ cost'.global.day <= Day(now)
        /\ \A f \in cost'.breaker.failures : f.at <= now
        /\ DailyTotal(cost'.global, now) = DailyTotal(cost.global, now) + used
    <2>1. CASE response = "answer"
      <3>1. cost' = RecordSuccess(cost, Owner[r], r, used, now)
        BY <2>1 DEF Settle
      <3> HIDE DEF used, input
      <3>2. /\ cost' \in CostRecord /\ cost'.global = DailyAdd(cost.global, used, now)
            /\ cost'.breaker.failures = {}
        BY <1>1, <1>2, <1>5, <3>1, RecordSuccessIs
      <3>3. cost.global \in Tally
        BY <1>5 DEF CostRecord
      <3>4. /\ DailyAdd(cost.global, used, now).day = Day(now)
            /\ DailyTotal(DailyAdd(cost.global, used, now), now) = DailyTotal(cost.global, now) + used
        BY <1>2, <1>5, <3>3, TotalIs
      <3> QED
        BY <1>5, <3>2, <3>4
    <2>2. CASE response # "answer"
      <3> DEFINE ofProvider == response = "bad_response"
      <3>1. cost' = RecordFailure(cost, r, ofProvider, now) /\ ofProvider \in BOOLEAN
        BY <2>2 DEF Settle
      <3> HIDE DEF ofProvider
      <3>2. /\ cost' \in CostRecord /\ cost'.global = cost.global
            /\ cost'.breaker.failures \subseteq cost.breaker.failures \cup {[at |-> now, call |-> r]}
        BY <1>1, <1>5, <3>1, RecordFailureIs
      <3>3. \A f \in cost'.breaker.failures : f.at <= now
        BY <1>5, <3>2 DEF BooksTyped
      <3>4. DailyTotal(cost.global, now) \in Nat /\ cost.global.day <= Day(now)
        BY <1>5, TotalIs DEF CostRecord, BooksTyped
      <3> QED
        BY <2>2, <3>2, <3>3, <3>4
    <2> QED
      BY <2>1, <2>2
  <1>7. Spent' = Spent + used
    BY <1>6 DEF Spent
  <1>8. BooksTyped'
    BY <1>4, <1>6 DEF BooksTyped
  <1>9. RequestsTyped' /\ Flying' = Flying \ {r} /\ KeepsInputs /\ req'[r].response \in EndsBilled
    <2>1. response \in Responses
      BY DEF EndsBilled, Responses
    <2>2. PICK q \in Request : /\ q = [NoRequest EXCEPT !.phase = "done", !.response = response,
                                                        !.tokens = tokens]
                               /\ q.phase = "done" /\ q.response = response
      BY <2>1, DoneIs
    <2> QED
      BY <1>1, <2>2, AnsweredIs DEF Settle
  <1> HIDE DEF used, billed
  <1> QED
    BY <1>2, <1>3, <1>4, <1>7, <1>8, <1>9 DEF Settles

\* The books of a step that leaves them alone.
LEMMA BooksStay ==
    ASSUME BooksTyped, now' = now, cost' = cost, quota' = quota, dbFailures' = dbFailures
    PROVE  BooksTyped' /\ Spent' = Spent /\ Today' = Today /\ dbFailures' >= dbFailures
  <1>1. BooksTyped' /\ dbFailures' >= dbFailures
    BY DEF BooksTyped
  <1>2. Spent' = Spent /\ Today' = Today
    BY DEF Spent, Today, RowToday
  <1> QED
    BY <1>1, <1>2

\* A thread that returns, or whose attempt is given up, leaves room.
LEMMA ThreadIsLeft ==
    ASSUME PoolTyped, NEW r \in Slots, running' = running \ {r},
           \/ zombies' = IF r \in running THEN zombies + 1 ELSE zombies
           \/ zombies' = zombies
    PROVE  /\ running' \in SUBSET Slots /\ zombies' \in Nat
           /\ Cardinality(running') + zombies' <= Workers
  <1> DEFINE c == Cardinality(running)
             d == Cardinality(running')
  <1>1. IsFiniteSet(running) /\ c \in Nat
    BY PipelineSettings, FS_Subset, FS_CardinalityType DEF PoolTyped
  <1>2. d = IF r \in running THEN c - 1 ELSE c
    <2>1. CASE r \in running
      BY <1>1, <2>1, FS_RemoveElement
    <2>2. CASE r \notin running
      <3>1. running' = running
        BY <2>2
      <3> QED
        BY <2>2, <3>1
    <2> QED
      BY <2>1, <2>2
  <1>3. d \in Nat
    BY <1>1, FS_Subset, FS_CardinalityType
  <1>4. zombies \in Nat /\ c + zombies <= Workers /\ Workers \in Nat
    BY PipelineSettings DEF PoolTyped
  <1> HIDE DEF c, d
  <1>5. zombies' \in Nat /\ d + zombies' <= Workers
    BY <1>1, <1>2, <1>3, <1>4
  <1> QED
    BY <1>5 DEF d, PoolTyped

\* What is left of the pool once the attempt of r is gone from it.
Left(r, gone) ==
    /\ gone \in Seq(Slots) /\ IsInjective(gone) /\ running' \in SUBSET Slots
    /\ r \notin running' /\ r \notin Range(gone)
    /\ Range(gone) \cap running' = {} /\ Range(gone) \cup running' = Flying \ {r}
    /\ zombies' \in Nat /\ Cardinality(running') + zombies' <= Workers

LEMMA LeftIs ==
    ASSUME PoolTyped, NEW r \in Slots
    PROVE  /\ r \in running /\ running' = running \ {r} /\ zombies' = zombies => Left(r, queue)
           /\ GiveUp(r) => Left(r, RemoveFirst(queue, r))
  <1>1. ASSUME r \in running, running' = running \ {r}, zombies' = zombies
        PROVE  Left(r, queue)
    <2>1. /\ running' \in SUBSET Slots /\ zombies' \in Nat
          /\ Cardinality(running') + zombies' <= Workers
      BY <1>1, ThreadIsLeft
    <2> QED
      BY <1>1, <2>1 DEF Left, PoolTyped
  <1>2. ASSUME GiveUp(r)
        PROVE  Left(r, RemoveFirst(queue, r))
    <2> DEFINE gone == RemoveFirst(queue, r)
    <2>1. /\ running' \in SUBSET Slots /\ zombies' \in Nat
          /\ Cardinality(running') + zombies' <= Workers
      BY <1>2, ThreadIsLeft DEF GiveUp
    <2>2. gone \in Seq(Slots) /\ IsInjective(gone) /\ Range(gone) = Range(queue) \ {r}
      BY RemovedIs DEF PoolTyped
    <2> HIDE DEF gone
    <2>3. Left(r, gone)
      BY <1>2, <2>1, <2>2 DEF Left, PoolTyped, GiveUp
    <2> QED
      BY <2>3 DEF gone
  <1> QED
    BY <1>1, <1>2

\* Another attempt, or the end of the loop.
LEMMA NextAttemptIs ==
    ASSUME Typed, NEW r \in Flying, NEW failure \in EndsBilled \ {"answer"}, NEW gone,
           Left(r, gone), now' = now, NextAttempt(r, failure, gone)
    PROVE  Typed' /\ (Quiet \/ Settles(r))
  <1>1. r \in Slots /\ Flying \subseteq Slots
    BY DEF Flying
  <1>2. CASE req[r].attempt < MaxAttempts /\ now < req[r].deadline
    <2> DEFINE q == [req[r] EXCEPT !.attempt = req[r].attempt + 1,
                                   !.due = IF now + ModelTimeout < req[r].deadline
                                           THEN now + ModelTimeout ELSE req[r].deadline]
    <2>1. /\ req' = [req EXCEPT ![r] = q]
          /\ queue' = Append(gone, r) /\ cost' = cost /\ quota' = quota /\ dbFailures' = dbFailures
      BY <1>1, <1>2 DEF NextAttempt, Typed, RequestsTyped, Request
    <2>2. q \in Request /\ q.phase = "waiting" /\ q.input = req[r].input
      <3>1. now + ModelTimeout \in Nat /\ req[r] \in Request
        BY <1>1, PipelineSettings DEF Typed, RequestsTyped, BooksTyped
      <3>2. req[r].attempt + 1 \in 0..MaxAttempts
        BY <1>2, <3>1, PipelineSettings DEF Request
      <3>3. req[r].phase = "waiting"
        BY DEF Flying, Waiting
      <3> QED
        BY <3>1, <3>2, <3>3 DEF Request
    <2> HIDE DEF q
    <2>3. /\ req' \in [Slots -> Request] /\ req'[r] = q
          /\ \A p \in Slots : p # r => req'[p] = req[p]
          /\ Flying' = Flying
      <3>1. RequestsTyped /\ req' = [req EXCEPT ![r] = q]
        BY <2>1 DEF Typed
      <3>2. /\ req' \in [Slots -> Request] /\ req'[r] = q
            /\ \A p \in Slots : p # r => req'[p] = req[p]
            /\ Flying' = IF q.phase = "waiting" THEN Flying \cup {r} ELSE Flying \ {r}
        BY <1>1, <2>2, <3>1, OneChanges
      <3>3. Flying \cup {r} = Flying
        OBVIOUS
      <3> QED
        BY <2>2, <3>2, <3>3
    <2>4. BooksTyped' /\ Spent' = Spent /\ Today' = Today /\ dbFailures' >= dbFailures
      BY <2>1, BooksStay DEF Typed
    <2>5. RequestsTyped' /\ KeepsInputs
      BY <1>1, <2>2, <2>3 DEF Typed, RequestsTyped, KeepsInputs
    <2>6. PoolTyped'
      <3>1. /\ queue' \in Seq(Slots) /\ IsInjective(queue') /\ Range(queue') = Range(gone) \cup {r}
        BY <1>1, <2>1, QueueIs DEF Left
      <3> QED
        BY <1>1, <2>3, <3>1 DEF Left, PoolTyped
    <2> QED
      BY <2>3, <2>4, <2>5, <2>6 DEF Typed, Quiet
  <1>3. CASE ~(req[r].attempt < MaxAttempts /\ now < req[r].deadline)
    <2> DEFINE response == IF req[r].attempt < MaxAttempts THEN "timeout" ELSE failure
    <2>1. Settle(r, response, FallbackTokens) /\ queue' = gone
      BY <1>3 DEF NextAttempt
    <2>2. response \in EndsBilled /\ response # "answer"
      BY DEF EndsBilled
    <2> HIDE DEF response
    <2>3. BooksTyped' /\ RequestsTyped' /\ Settles(r)
      BY <2>1, <2>2, SettleIs, PipelineSettings DEF Typed
    <2>4. PoolTyped'
      BY <2>1, <2>3 DEF Left, PoolTyped, Settles
    <2> QED
      BY <2>3, <2>4 DEF Typed
  <1> QED
    BY <1>2, <1>3

-----------------------------------------------------------------------------
(* Every action keeps the types and is of one of the kinds.                  *)

\* The row a request finds is today's, whether it had to be made or not.
LEMMA RowIsEnsured ==
    ASSUME BooksTyped, NEW s \in Subjects, NEW made \in BOOLEAN, now' = now,
           quota' = [quota EXCEPT ![s] = IF made THEN RowToday(quota[s]) ELSE @]
    PROVE  /\ quota' \in [Subjects -> Row] /\ \A x \in Subjects : quota'[x].day <= Day(now)
           /\ Today' = Today
  <1>1. quota[s] \in Row /\ now \in Nat /\ Day(now) \in Nat
    BY TodayIs DEF BooksTyped
  <1> DEFINE row == RowToday(quota[s])
             empty == [day |-> Day(now), requests |-> 0, tokens |-> 0]
  <1>2. row \in Row /\ row.day = Day(now) /\ row = IF quota[s].day = Day(now) THEN quota[s] ELSE empty
    BY <1>1, TodayIs DEF RowToday
  <1>3. /\ Today' = [x \in Subjects |-> IF quota'[x].day = Day(now) THEN quota'[x] ELSE empty]
        /\ Today = [x \in Subjects |-> IF quota[x].day = Day(now) THEN quota[x] ELSE empty]
    BY DEF Today, RowToday
  <1>4. /\ quota'[s] = IF made THEN row ELSE quota[s]
        /\ \A x \in Subjects : x # s => quota'[x] = quota[x]
        /\ quota' \in [Subjects -> Row]
    BY <1>1, <1>2 DEF BooksTyped
  <1> HIDE DEF row, empty
  <1>5. \A x \in Subjects : quota'[x].day <= Day(now)
    BY <1>1, <1>2, <1>4 DEF BooksTyped
  <1>6. Today' = Today
    BY <1>2, <1>3, <1>4
  <1> QED
    BY <1>4, <1>5, <1>6

LEMMA StartIs ==
    ASSUME BooksTyped, NEW input \in Inputs
    PROVE  Start(input) \in Request /\ Start(input).phase = "waiting" /\ Start(input).input = input
  <1>1. now \in Nat /\ now + TotalTimeout \in Nat
        /\ now + (IF ModelTimeout < TotalTimeout THEN ModelTimeout ELSE TotalTimeout) \in Nat
    BY PipelineSettings DEF BooksTyped
  <1>2. 1 \in 0..MaxAttempts /\ "none" \in Responses /\ input \in Nat
    BY PipelineSettings DEF Responses
  <1> QED
    BY <1>1, <1>2 DEF Start, Request

LEMMA ArriveIs ==
    ASSUME Typed, NEW r \in Slots, Arrive(r)
    PROVE  Typed' /\ (Quiet \/ Admits(r))
  <1> DEFINE s == Owner[r]
  <1>1. s \in Subjects /\ quota[s] \in Row /\ r \notin Flying /\ now' = now /\ cost \in CostRecord
        /\ now \in Nat /\ Day(now) \in Nat
    BY PipelineSettings, TodayIs DEF Typed, BooksTyped, Arrive, Flying, Waiting
  <1> DEFINE row == RowToday(quota[s])
  <1>2. row \in Row /\ row = Today[s]
    BY <1>1, TodayIs DEF Typed
  <1>3. PICK input \in Inputs, readRequests \in BOOLEAN, readTokens \in BOOLEAN :
          LET limit == QuotaScope(row, input, readRequests, readTokens)
              scope == Scope(cost, s, input, MaxOutput, now)
          IN
          /\ IF limit = "input_too_large"
             THEN UNCHANGED <<quota, dbFailures>>
             ELSE /\ Db(Failed(<<readRequests, readTokens>>))
                  /\ quota' = [quota EXCEPT ![s] = IF readRequests \/ readTokens THEN row ELSE @]
          /\ \/ /\ limit # "none"
                /\ Answer(r, limit)
                /\ UNCHANGED <<cost, pool>>
             \/ /\ limit = "none" /\ scope # "none"
                /\ Answer(r, scope)
                /\ cost' = RecordFailure(AfterScope(cost, scope, now), r, FALSE, now)
                /\ UNCHANGED pool
             \/ /\ limit = "none" /\ scope = "none"
                /\ cost' = AfterScope(cost, scope, now)
                /\ req' = [req EXCEPT ![r] = Start(input)]
                /\ queue' = Append(queue, r)
                /\ UNCHANGED <<running, zombies>>
    BY DEF Arrive
  <1> DEFINE limit == QuotaScope(row, input, readRequests, readTokens)
             scope == Scope(cost, s, input, MaxOutput, now)
             failed == Failed(<<readRequests, readTokens>>)
  <1>4. failed \in Nat /\ (~readRequests => failed >= 1)
    BY FailedIs
  <1>5. input \in Nat /\ MaxOutput \in Nat /\ RequestLimit \in Nat
    BY PipelineSettings
  <1>6. /\ limit \in Refusals \cup {"none"}
        /\ limit = "none" => ~(readRequests /\ row.requests >= RequestLimit)
    BY DEF QuotaScope, Refusals
  <1>7. /\ scope \in Refusals \cup {"none"}
        /\ scope = "none" => /\ input + MaxOutput <= RequestMaxTokens
                             /\ DailyTotal(cost.global, now) + input + MaxOutput <= GlobalCap
    BY <1>1, <1>5, ScopeIs
  <1>8. /\ quota' \in [Subjects -> Row] /\ \A x \in Subjects : quota'[x].day <= Day(now)
        /\ dbFailures' \in 0..MaxDbFailures /\ dbFailures' >= dbFailures
        /\ Today' = Today
        /\ limit # "input_too_large" => dbFailures' = dbFailures + failed
    <2>1. CASE limit = "input_too_large"
      <3>1. quota' = quota /\ dbFailures' = dbFailures
        BY <1>3, <2>1
      <3>2. Today' = Today
        BY <1>1, <3>1 DEF Today, RowToday
      <3> HIDE DEF limit
      <3> QED
        BY <2>1, <3>1, <3>2 DEF Typed, BooksTyped
    <2>2. CASE limit # "input_too_large"
      <3>1. /\ Db(failed)
            /\ quota' = [quota EXCEPT ![s] = IF readRequests \/ readTokens THEN row ELSE @]
        BY <1>3, <2>2
      <3> HIDE DEF limit, failed, s
      <3>2. dbFailures' = dbFailures + failed /\ dbFailures' \in 0..MaxDbFailures
            /\ dbFailures' >= dbFailures
        BY <1>4, <3>1, PipelineSettings DEF Db, Typed, BooksTyped
      <3>3. /\ quota' \in [Subjects -> Row] /\ \A x \in Subjects : quota'[x].day <= Day(now)
            /\ Today' = Today
        BY <1>1, <3>1, RowIsEnsured DEF Typed
      <3> QED
        BY <3>2, <3>3
    <2> QED
      BY <2>1, <2>2
  <1> HIDE DEF failed
  <1>9. CASE limit # "none"
    <2>1. Answer(r, limit) /\ cost' = cost /\ queue' = queue /\ running' = running /\ zombies' = zombies
      BY <1>3, <1>9 DEF pool
    <2> HIDE DEF limit, scope
    <2>2. limit \in Responses
      BY <1>6, <1>9 DEF Responses
    <2>3. RequestsTyped' /\ Flying' = Flying \ {r} /\ KeepsInputs
      BY <2>1, <2>2, RefusedIs DEF Typed
    <2>4. Flying' = Flying
      BY <1>1, <2>3
    <2>5. PoolTyped'
      BY <2>1, <2>4 DEF Typed, PoolTyped
    <2>6. BooksTyped' /\ Spent' = Spent
      BY <1>1, <1>8, <2>1 DEF Typed, BooksTyped, Spent
    <2> QED
      BY <1>1, <1>8, <2>3, <2>4, <2>5, <2>6 DEF Typed, Quiet
  <1>10. CASE limit = "none" /\ scope # "none"
    <2> DEFINE after == AfterScope(cost, scope, now)
    <2>1. /\ Answer(r, scope) /\ cost' = RecordFailure(after, r, FALSE, now)
          /\ queue' = queue /\ running' = running /\ zombies' = zombies
      BY <1>3, <1>10 DEF pool
    <2> HIDE DEF limit, scope
    <2>2. scope \in Responses
      BY <1>7, <1>10 DEF Responses
    <2>3. RequestsTyped' /\ Flying' = Flying \ {r} /\ KeepsInputs
      BY <2>1, <2>2, RefusedIs DEF Typed
    <2>4. Flying' = Flying
      BY <1>1, <2>3
    <2>5. PoolTyped'
      BY <2>1, <2>4 DEF Typed, PoolTyped
    <2>6. /\ after \in CostRecord /\ after.global = cost.global
          /\ after.breaker.failures \subseteq cost.breaker.failures
      BY <1>1, AfterScopeIs
    <2>7. cost' = after
      BY <2>1 DEF RecordFailure
    <2> HIDE DEF after
    <2>8. BooksTyped' /\ Spent' = Spent
      BY <1>1, <1>8, <2>6, <2>7 DEF Typed, BooksTyped, Spent
    <2> QED
      BY <1>1, <1>8, <2>3, <2>4, <2>5, <2>8 DEF Typed, Quiet
  <1>11. CASE limit = "none" /\ scope = "none"
    <2> DEFINE after == AfterScope(cost, scope, now)
               q == Start(input)
    <2>1. /\ cost' = after /\ req' = [req EXCEPT ![r] = q]
          /\ queue' = Append(queue, r) /\ running' = running /\ zombies' = zombies
      BY <1>3, <1>11
    <2>2. q \in Request /\ q.phase = "waiting" /\ q.input = input
      BY StartIs DEF Typed
    <2>3. /\ after \in CostRecord /\ after.global = cost.global
          /\ after.breaker.failures \subseteq cost.breaker.failures
      BY <1>1, AfterScopeIs
    <2> HIDE DEF limit, scope, after, q
    <2>4. /\ req' \in [Slots -> Request] /\ req'[r] = q
          /\ \A p \in Slots : p # r => req'[p] = req[p]
          /\ Flying' = Flying \cup {r}
      BY <2>1, <2>2, OneChanges DEF Typed
    <2>5. RequestsTyped' /\ KeepsInputs /\ req'[r].input = input
      BY <1>1, <1>7, <1>11, <2>2, <2>4 DEF Typed, RequestsTyped, KeepsInputs, Flying
    <2>6. PoolTyped'
      <3>1. r \notin Range(queue)
        BY <1>1 DEF Typed, PoolTyped
      <3>2. /\ queue' \in Seq(Slots) /\ IsInjective(queue') /\ Range(queue') = Range(queue) \cup {r}
        BY <2>1, <3>1, QueueIs DEF Typed, PoolTyped
      <3> QED
        BY <1>1, <2>1, <2>4, <3>2 DEF Typed, PoolTyped
    <2>7. BooksTyped' /\ Spent' = Spent
      BY <1>1, <1>8, <2>1, <2>3 DEF Typed, BooksTyped, Spent
    <2>8. Spent + req'[r].input + MaxOutput <= GlobalCap
      BY <1>7, <1>11, <2>5 DEF Spent
    <2>9. Today[Owner[r]].requests < RequestLimit \/ dbFailures' >= dbFailures + 1
      <3>1. CASE readRequests
        <4>1. row.requests < RequestLimit
          BY <1>2, <1>5, <1>6, <1>11, <3>1 DEF Row
        <4> QED
          BY <1>2, <4>1
      <3>2. CASE ~readRequests
        BY <1>4, <1>8, <1>11, <3>2 DEF Typed, BooksTyped
      <3> QED
        BY <3>1, <3>2
    <2> QED
      BY <1>1, <1>8, <2>4, <2>5, <2>6, <2>7, <2>8, <2>9 DEF Typed, Admits
  <1> QED
    BY <1>9, <1>10, <1>11

\* A step that touches neither books nor requests.
LEMMA PoolOnlyIs ==
    ASSUME Typed, now' = now, cost' = cost, quota' = quota, req' = req, dbFailures' = dbFailures
    PROVE  BooksTyped' /\ RequestsTyped' /\ Flying' = Flying /\ Quiet
  <1>1. BooksTyped' /\ Spent' = Spent /\ Today' = Today /\ dbFailures' >= dbFailures
    BY BooksStay DEF Typed
  <1>2. Flying' = Flying
    BY DEF Flying, Waiting
  <1>3. RequestsTyped' /\ KeepsInputs
    BY <1>2 DEF Typed, RequestsTyped, KeepsInputs
  <1> QED
    BY <1>1, <1>2, <1>3 DEF Quiet

LEMMA DispatchIs ==
    ASSUME Typed, Dispatch
    PROVE  Typed' /\ Quiet
  <1> DEFINE h == Head(queue)
             c == Cardinality(running)
             d == Cardinality(running \cup {h})
  <1>1. BooksTyped' /\ RequestsTyped' /\ Flying' = Flying /\ Quiet
    BY PoolOnlyIs DEF Dispatch
  <1>2. /\ h \in Slots /\ Tail(queue) \in Seq(Slots) /\ IsInjective(Tail(queue))
        /\ Range(Tail(queue)) = Range(queue) \ {h} /\ h \in Range(queue)
    BY QueueIs DEF Typed, PoolTyped, Dispatch
  <1>3. running' = running \cup {h} /\ queue' = Tail(queue) /\ zombies' = zombies
        /\ c + zombies < Workers
    BY DEF Dispatch
  <1>4. IsFiniteSet(running) /\ c \in Nat
    BY PipelineSettings, FS_Subset, FS_CardinalityType DEF Typed, PoolTyped
  <1>5. d = c + 1
    BY <1>2, <1>4, FS_AddElement DEF Typed, PoolTyped
  <1> HIDE DEF h, c, d
  <1>6. d + zombies <= Workers
    BY <1>3, <1>4, <1>5, PipelineSettings DEF Typed, PoolTyped
  <1>7. PoolTyped'
    BY <1>1, <1>2, <1>3, <1>6 DEF Typed, PoolTyped, d
  <1> QED
    BY <1>1, <1>7 DEF Typed

LEMMA ZombieReturnsIs ==
    ASSUME Typed, ZombieReturns
    PROVE  Typed' /\ Quiet
  <1>1. BooksTyped' /\ RequestsTyped' /\ Flying' = Flying /\ Quiet
    BY PoolOnlyIs DEF ZombieReturns
  <1>2. IsFiniteSet(running) /\ Cardinality(running) \in Nat
    BY PipelineSettings, FS_Subset, FS_CardinalityType DEF Typed, PoolTyped
  <1> DEFINE c == Cardinality(running)
  <1>3. c \in Nat /\ c + zombies <= Workers
    BY <1>2 DEF Typed, PoolTyped
  <1> HIDE DEF c
  <1>4. zombies' \in Nat /\ c + zombies' <= Workers
    BY <1>3, PipelineSettings DEF Typed, PoolTyped, ZombieReturns
  <1>5. PoolTyped'
    BY <1>1, <1>4 DEF Typed, PoolTyped, ZombieReturns, c
  <1> QED
    BY <1>1, <1>5 DEF Typed

LEMMA ProviderAnswersIs ==
    ASSUME Typed, NEW r \in Slots, ProviderAnswers(r)
    PROVE  Typed' /\ Settles(r)
  <1>1. r \in running /\ r \in Flying /\ now' = now /\ queue' = queue
    BY DEF ProviderAnswers, Typed, PoolTyped
  <1>2. Left(r, queue)
    BY LeftIs DEF ProviderAnswers, Typed
  <1>3. PICK response \in {"answer", "safety_blocked"}, tokens \in Nat :
            (response = "answer" => tokens \in Outputs) /\ Settle(r, response, tokens)
    <2>1. Outputs \subseteq Nat /\ FallbackTokens \in Nat
      BY PipelineSettings
    <2>2. CASE \E tokens \in Outputs : Settle(r, "answer", tokens)
      BY <2>1, <2>2
    <2>3. CASE Settle(r, "safety_blocked", FallbackTokens)
      BY <2>1, <2>3
    <2> QED
      BY <2>2, <2>3 DEF ProviderAnswers
  <1>4. response \in EndsBilled
    BY DEF EndsBilled
  <1>5. BooksTyped' /\ RequestsTyped' /\ Settles(r)
    BY <1>1, <1>3, <1>4, SettleIs DEF Typed
  <1>6. PoolTyped'
    BY <1>1, <1>2, <1>5 DEF Left, PoolTyped, Settles
  <1> QED
    BY <1>5, <1>6 DEF Typed

LEMMA ProviderFailsIs ==
    ASSUME Typed, NEW r \in Slots, ProviderFails(r)
    PROVE  Typed' /\ (Quiet \/ Settles(r))
  <1>1. r \in Flying /\ now' = now /\ NextAttempt(r, "bad_response", queue)
    BY DEF ProviderFails, Typed, PoolTyped
  <1>2. Left(r, queue)
    BY LeftIs DEF ProviderFails, Typed
  <1>3. "bad_response" \in EndsBilled \ {"answer"}
    BY DEF EndsBilled
  <1> QED
    BY <1>1, <1>2, <1>3, NextAttemptIs

LEMMA AttemptTimeoutIs ==
    ASSUME Typed, NEW r \in Slots, AttemptTimeout(r)
    PROVE  Typed' /\ (Quiet \/ Settles(r))
  <1> DEFINE gone == RemoveFirst(queue, r)
  <1>1. r \in Flying /\ now' = now /\ NextAttempt(r, "timeout", gone)
    BY DEF AttemptTimeout, Flying, Waiting
  <1>2. Left(r, gone)
    BY LeftIs DEF AttemptTimeout, Typed
  <1>3. "timeout" \in EndsBilled \ {"answer"}
    BY DEF EndsBilled
  <1> HIDE DEF gone
  <1> QED
    BY <1>1, <1>2, <1>3, NextAttemptIs

LEMMA TotalTimeoutIs ==
    ASSUME Typed, NEW r \in Slots, TotalTimeoutFires(r)
    PROVE  Typed' /\ Quiet
  <1> DEFINE gone == RemoveFirst(queue, r)
  <1>1. /\ now' = now /\ queue' = gone /\ quota' = quota /\ dbFailures' = dbFailures
        /\ cost' = RecordFailure(cost, r, TRUE, now) /\ Answer(r, "timeout_total")
    BY DEF TotalTimeoutFires
  <1>2. Left(r, gone)
    BY LeftIs DEF TotalTimeoutFires, Typed
  <1> HIDE DEF gone
  <1>3. now \in Nat /\ cost \in CostRecord /\ "timeout_total" \in Responses
    BY TodayIs DEF Typed, BooksTyped, Responses
  <1>4. /\ cost' \in CostRecord /\ cost'.global = cost.global
        /\ cost'.breaker.failures \subseteq cost.breaker.failures \cup {[at |-> now, call |-> r]}
    BY <1>1, <1>3, RecordFailureIs
  <1>5. \A f \in cost'.breaker.failures : f.at <= now
    BY <1>3, <1>4 DEF Typed, BooksTyped
  <1>6. BooksTyped' /\ dbFailures' >= dbFailures
    <2>1. cost'.global.day <= Day(now)
      BY <1>4 DEF Typed, BooksTyped
    <2>2. dbFailures \in Nat
      BY PipelineSettings DEF Typed, BooksTyped
    <2>3. BooksTyped'
      BY <1>1, <1>4, <1>5, <2>1 DEF Typed, BooksTyped
    <2> QED
      BY <1>1, <2>2, <2>3
  <1>7. Spent' = Spent /\ Today' = Today
    BY <1>1, <1>4 DEF Spent, Today, RowToday
  <1>8. RequestsTyped' /\ Flying' = Flying \ {r} /\ KeepsInputs
    BY <1>1, <1>3, RefusedIs DEF Typed
  <1>9. PoolTyped'
    BY <1>1, <1>2, <1>8 DEF Left, PoolTyped
  <1> QED
    BY <1>1, <1>6, <1>7, <1>8, <1>9 DEF Typed, Quiet

LEMMA TickIs ==
    ASSUME Typed, Tick
    PROVE  Typed' /\ TimePasses
  <1>1. now \in Nat /\ now' = now + 1 /\ Day(now) \in Nat /\ Day(now') \in Nat /\ Day(now) <= Day(now')
    BY DaysPass DEF Typed, BooksTyped, Tick
  <1>2. /\ cost' = cost /\ quota' = quota /\ dbFailures' = dbFailures
        /\ queue' = queue /\ running' = running /\ zombies' = zombies
    BY DEF Tick
  <1>3. NoRequest \in Request /\ NoRequest.phase = "idle"
    <2>1. "none" \in Responses
      BY DEF Responses
    <2> QED
      BY <2>1, DoneIs DEF NoRequest
  <1>4. /\ req' \in [Slots -> Request]
        /\ \A p \in Slots : req'[p] = IF req[p].phase = "done" THEN NoRequest ELSE req[p]
    BY <1>3 DEF Tick, Typed, RequestsTyped
  <1>5. Flying' = Flying
    <2>1. \A p \in Slots : req'[p].phase = "waiting" <=> req[p].phase = "waiting"
      BY <1>3, <1>4
    <2> QED
      BY <2>1 DEF Flying, Waiting
  <1>6. \A p \in Flying : p \in Slots /\ req'[p] = req[p]
    BY <1>4 DEF Flying, Waiting
  <1>7. RequestsTyped' /\ KeepsInputs
    BY <1>4, <1>5, <1>6 DEF Typed, RequestsTyped, KeepsInputs
  <1>8. PoolTyped'
    BY <1>2, <1>5 DEF Typed, PoolTyped
  <1>9. BooksTyped'
    <2>1. now' \in 0..MaxTime
      BY <1>1, PipelineSettings DEF Tick
    <2>2. \A f \in cost.breaker.failures : f.at \in Nat /\ f.at <= now'
      BY <1>1 DEF Typed, BooksTyped, CostRecord, Failures
    <2>3. cost.global.day \in Nat /\ cost.global.day <= Day(now')
      BY <1>1 DEF Typed, BooksTyped, CostRecord, Tally
    <2>4. \A s \in Subjects : quota[s].day \in Nat /\ quota[s].day <= Day(now')
      BY <1>1 DEF Typed, BooksTyped, Row
    <2> QED
      BY <1>2, <2>1, <2>2, <2>3, <2>4 DEF Typed, BooksTyped
  <1> QED
    BY <1>1, <1>2, <1>5, <1>7, <1>8, <1>9 DEF Typed, TimePasses

\* The pool of a process that has just started.
LEMMA EmptyPoolIs ==
    ASSUME Flying' = {}, queue' = <<>>, running' = {}, zombies' = 0
    PROVE  PoolTyped'
  <1> DEFINE q == <<>>
  <1>1. q \in Seq(Slots) /\ IsInjective(q) /\ Range(q) = {}
    BY DEF IsInjective, Range
  <1>2. queue' = q
    OBVIOUS
  <1> HIDE DEF q
  <1>3. Cardinality({}) = 0 /\ 0 + 0 <= Workers
    BY FS_EmptySet, PipelineSettings
  <1> QED
    BY <1>1, <1>2, <1>3 DEF PoolTyped

LEMMA RestartIs ==
    ASSUME Typed, Restart
    PROVE  Typed' /\ Restarts
  <1>1. /\ cost' = FreshCost(Subjects) /\ now' = now /\ quota' = quota /\ dbFailures' = dbFailures
        /\ queue' = <<>> /\ running' = {} /\ zombies' = 0
    BY DEF Restart
  <1> DEFINE lost == [NoRequest EXCEPT !.phase = "done", !.response = "lost"]
  <1>2. lost \in Request /\ lost.phase = "done"
    <2>1. "lost" \in Responses /\ 0 \in Nat
      BY DEF Responses
    <2>2. PICK q \in Request : /\ q = [NoRequest EXCEPT !.phase = "done", !.response = "lost"]
                               /\ q.phase = "done"
      BY <2>1, DoneIs
    <2> QED
      BY <2>2
  <1>3. req' = [p \in Slots |-> IF req[p].phase = "waiting" THEN lost ELSE req[p]]
    BY DEF Restart
  <1> HIDE DEF lost
  <1>4. req' \in [Slots -> Request] /\ \A p \in Slots : req'[p].phase # "waiting"
    BY <1>2, <1>3 DEF Typed, RequestsTyped
  <1>5. Flying' = {}
    BY <1>4 DEF Flying, Waiting
  <1>6. RequestsTyped'
    BY <1>4, <1>5 DEF RequestsTyped
  <1>7. PoolTyped'
    BY <1>1, <1>5, EmptyPoolIs
  <1>8. /\ FreshCost(Subjects) \in CostRecord /\ FreshCost(Subjects).global = NoTokens
        /\ FreshCost(Subjects).breaker.failures = {}
    BY FreshIs
  <1>9. now \in Nat /\ Day(now) \in Nat
    BY TodayIs DEF Typed
  <1>10. BooksTyped'
    BY <1>1, <1>8, <1>9 DEF Typed, BooksTyped, NoTokens
  <1>11. Spent' = 0
    BY <1>1, <1>8 DEF Spent, DailyTotal, NoTokens
  <1> QED
    BY <1>1, <1>5, <1>6, <1>7, <1>10, <1>11 DEF Typed, Restarts

LEMMA StepIs ==
    ASSUME Typed, [Next]_vars
    PROVE  Typed' /\ Kinds
  <1>1. CASE \E r \in Slots : Arrive(r)
    BY <1>1, ArriveIs DEF Kinds
  <1>2. CASE Dispatch
    BY <1>2, DispatchIs DEF Kinds
  <1>3. CASE \E r \in Slots : ProviderAnswers(r)
    BY <1>3, ProviderAnswersIs DEF Kinds
  <1>4. CASE \E r \in Slots : ProviderFails(r)
    BY <1>4, ProviderFailsIs DEF Kinds
  <1>5. CASE ZombieReturns
    BY <1>5, ZombieReturnsIs DEF Kinds
  <1>6. CASE \E r \in Slots : AttemptTimeout(r)
    BY <1>6, AttemptTimeoutIs DEF Kinds
  <1>7. CASE \E r \in Slots : TotalTimeoutFires(r)
    BY <1>7, TotalTimeoutIs DEF Kinds
  <1>8. CASE Tick
    BY <1>8, TickIs DEF Kinds
  <1>9. CASE Restart
    BY <1>9, RestartIs DEF Kinds
  <1>10. CASE UNCHANGED vars
    <2>1. /\ now' = now /\ cost' = cost /\ quota' = quota /\ req' = req /\ dbFailures' = dbFailures
          /\ queue' = queue /\ running' = running /\ zombies' = zombies
      BY <1>10 DEF vars
    <2>2. BooksTyped' /\ RequestsTyped' /\ Flying' = Flying /\ Quiet
      BY <2>1, PoolOnlyIs
    <2>3. PoolTyped'
      BY <2>1, <2>2 DEF Typed, PoolTyped
    <2> QED
      BY <2>2, <2>3 DEF Typed, Kinds
  <1> QED
    BY <1>1, <1>2, <1>3, <1>4, <1>5, <1>6, <1>7, <1>8, <1>9, <1>10 DEF Next

LEMMA StartsTyped ==
    ASSUME Init
    PROVE  Typed /\ Flying = {} /\ Spent = 0 /\ \A s \in Subjects : Today[s].requests = 0 /\ Today[s].tokens = 0
  <1>1. now = 0 /\ Day(0) \in Nat /\ dbFailures = 0
    BY DaysPass DEF Init
  <1>2. /\ cost \in CostRecord /\ cost.global = NoTokens /\ cost.breaker.failures = {}
    BY FreshIs DEF Init
  <1>3. NoRequest \in Request /\ NoRequest.phase = "idle"
    <2>1. "none" \in Responses
      BY DEF Responses
    <2> QED
      BY <2>1, DoneIs DEF NoRequest
  <1>4. quota \in [Subjects -> Row] /\ \A s \in Subjects : quota[s] = [day |-> 0, requests |-> 0, tokens |-> 0]
    BY DEF Init, Row
  <1>5. BooksTyped
    BY <1>1, <1>2, <1>4, PipelineSettings DEF BooksTyped, NoTokens
  <1>6. req \in [Slots -> Request] /\ Flying = {}
    BY <1>3 DEF Init, Flying, Waiting
  <1>7. RequestsTyped
    BY <1>6 DEF RequestsTyped
  <1>8. PoolTyped
    <2> DEFINE q == <<>>
    <2>1. q \in Seq(Slots) /\ IsInjective(q) /\ Range(q) = {}
      BY DEF IsInjective, Range
    <2>2. queue = q /\ running = {} /\ zombies = 0
      BY DEF Init
    <2> HIDE DEF q
    <2>3. Cardinality({}) = 0 /\ 0 + 0 <= Workers
      BY FS_EmptySet, PipelineSettings
    <2> QED
      BY <1>6, <2>1, <2>2, <2>3 DEF PoolTyped
  <1>9. Spent = 0
    BY <1>1, <1>2 DEF Spent, DailyTotal, NoTokens
  <1>10. \A s \in Subjects : Today[s].requests = 0 /\ Today[s].tokens = 0
    BY <1>4 DEF Today, RowToday
  <1> QED
    BY <1>5, <1>6, <1>7, <1>8, <1>9, <1>10 DEF Typed

-----------------------------------------------------------------------------
(* The inductive invariants, each a statement about the spend and the rows   *)
(* of today and about what is in flight.                                     *)

\* A new day starts with nothing spent and nothing charged.
LEMMA DayTurns ==
    ASSUME Typed, TimePasses
    PROVE  \/ Spent' = Spent /\ Today' = Today
           \/ Spent' = 0 /\ \A s \in Subjects : Today'[s].requests = 0 /\ Today'[s].tokens = 0
  <1>1. now \in Nat /\ Day(now) \in Nat /\ Day(now') \in Nat /\ Day(now) <= Day(now')
    BY TodayIs, DaysPass DEF Typed, TimePasses
  <1>2. cost' = cost /\ quota' = quota
    BY DEF TimePasses
  <1>3. CASE Day(now') = Day(now)
    BY <1>2, <1>3 DEF Spent, DailyTotal, Today, RowToday
  <1>4. CASE Day(now') # Day(now)
    <2>1. cost.global.day \in Nat /\ cost.global.day # Day(now')
      BY <1>1, <1>4 DEF Typed, BooksTyped, CostRecord, Tally
    <2>2. \A s \in Subjects : quota[s].day \in Nat /\ quota[s].day # Day(now')
      BY <1>1, <1>4 DEF Typed, BooksTyped, Row
    <2>3. Spent' = 0
      BY <1>2, <2>1 DEF Spent, DailyTotal
    <2>4. \A s \in Subjects : Today'[s] = [day |-> Day(now'), requests |-> 0, tokens |-> 0]
      BY <1>2, <2>2 DEF Today, RowToday
    <2> QED
      BY <2>3, <2>4
  <1> QED
    BY <1>3, <1>4

\* A restart changes no row.
LEMMA RowsSurvive ==
    ASSUME Restarts
    PROVE  Today' = Today /\ Spent' = 0
  BY DEF Restarts, Today, RowToday

LEMMA Times ==
    ASSUME NEW a \in Nat, NEW b \in Nat, NEW u \in Nat, a <= b
    PROVE  a * u \in Nat /\ a * u <= b * u /\ (a + 1) * u = a * u + u
  <1>1. b * u = a * u + (b - a) * u /\ (b - a) * u \in Nat
    <2>1. b - a \in Nat /\ b = a + (b - a)
      OBVIOUS
    <2> DEFINE d == b - a
    <2>2. d \in Nat /\ b = a + d
      BY <2>1
    <2> HIDE DEF d
    <2>3. (a + d) * u = a * u + d * u /\ d * u \in Nat
      BY <2>2
    <2> QED
      BY <2>2, <2>3 DEF d
  <1>2. a * u \in Nat /\ (a + 1) * u = a * u + u
    OBVIOUS
  <1> DEFINE p == a * u
             q == b * u
             e == (b - a) * u
  <1>3. p \in Nat /\ e \in Nat /\ q = p + e
    BY <1>1, <1>2
  <1> HIDE DEF p, q, e
  <1>4. p <= q
    BY <1>3
  <1> QED
    BY <1>2, <1>4 DEF p, q

\* How many requests are in flight.
InFlight == Cardinality(Flying)

LEMMA InFlightIs ==
    /\ IsFiniteSet(Flying) /\ InFlight \in Nat /\ InFlight <= Cardinality(Slots)
    /\ Cardinality(Slots) \in Nat \ {0} /\ (Flying = {} <=> InFlight = 0)
  <1>1. Flying \in SUBSET Slots /\ IsFiniteSet(Slots) /\ Slots # {}
    BY PipelineSettings DEF Flying
  <1> QED
    BY <1>1, FS_Subset, FS_CardinalityType, FS_EmptySet DEF InFlight

LEMMA InFlightChanges ==
    /\ Flying' \subseteq Flying => InFlight' <= InFlight
    /\ \A r \in Slots :
          /\ r \in Flying /\ Flying' \subseteq Flying \ {r} => InFlight' + 1 <= InFlight
          /\ r \notin Flying /\ Flying' = Flying \cup {r} => InFlight' = InFlight + 1
  <1>1. /\ IsFiniteSet(Flying) /\ InFlight \in Nat
        /\ IsFiniteSet(Flying') /\ InFlight' \in Nat
    <2>1. Flying' \in SUBSET Slots /\ IsFiniteSet(Slots)
      BY PipelineSettings DEF Flying
    <2> QED
      BY <2>1, InFlightIs, FS_Subset, FS_CardinalityType DEF InFlight
  <1>2. Flying' \subseteq Flying => InFlight' <= InFlight
    BY <1>1, FS_Subset DEF InFlight
  <1>3. ASSUME NEW r \in Slots, r \in Flying, Flying' \subseteq Flying \ {r}
        PROVE  InFlight' + 1 <= InFlight
    <2> DEFINE k == Cardinality(Flying \ {r})
    <2>1. IsFiniteSet(Flying \ {r}) /\ k = InFlight - 1
      BY <1>1, <1>3, FS_RemoveElement DEF InFlight
    <2>2. InFlight' <= k
      BY <1>3, <2>1, FS_Subset DEF InFlight
    <2>3. k \in Nat
      BY <2>1, FS_CardinalityType
    <2> DEFINE f == InFlight
               g == InFlight'
    <2>4. k = f - 1 /\ g <= k /\ f \in Nat /\ g \in Nat
      BY <1>1, <2>1, <2>2
    <2> HIDE DEF k, f, g
    <2>5. g + 1 <= f
      BY <2>3, <2>4
    <2> QED
      BY <2>5 DEF f, g
  <1>4. ASSUME NEW r \in Slots, r \notin Flying, Flying' = Flying \cup {r}
        PROVE  InFlight' = InFlight + 1
    BY <1>1, <1>4, FS_AddElement DEF InFlight
  <1> QED
    BY <1>2, <1>3, <1>4

\* What is left of the day's cap.  While a request is in flight there is room for its
\* estimate and for the most that every slot may use; once the requests admitted
\* together have ended, the last of them may have answered longer than its estimate.
SpendInv ==
    /\ \A r \in Flying : req[r].input + MaxOutput <= GlobalCap
    /\ \/ \E r \in Flying :
             Spent + req[r].input + MaxOutput + InFlight * MaxUse
                 <= GlobalCap + Cardinality(Slots) * MaxUse
       \/ Spent + InFlight * MaxUse <= GlobalCap + (Cardinality(Slots) - 1) * MaxUse + Overrun

LEMMA SpendBoundedBySpendInv ==
    ASSUME Typed, SpendInv
    PROVE  SpendBounded
  <1> DEFINE f == InFlight
             n == Cardinality(Slots) - 1
             u == MaxUse
             o == Overrun
             t == Spent
  <1>1. n \in Nat /\ f \in Nat /\ f <= n + 1 /\ Cardinality(Slots) = n + 1 /\ t \in Nat
        /\ u \in Nat /\ o \in Nat /\ GlobalCap \in Nat /\ MaxOutput \in Nat
    BY InFlightIs, BoundsAre, TodayIs, CostSettings, PipelineSettings DEF Typed
  <1> HIDE DEF f, n, u, o, t
  <1>2. f * u \in Nat /\ n * u \in Nat /\ (n + 1) * u = n * u + u
    BY <1>1, Times
  <1>3. CASE \E r \in Flying : t + req[r].input + MaxOutput + f * u <= GlobalCap + (n + 1) * u
    <2>1. PICK r \in Flying : t + req[r].input + MaxOutput + f * u <= GlobalCap + (n + 1) * u
      BY <1>3
    <2>2. f # 0 /\ req[r].input \in Nat
      BY <2>1, InFlightIs, PipelineSettings DEF Typed, RequestsTyped, f
    <2>3. 1 * u <= f * u /\ 1 * u = u
      BY <1>1, <2>2, Times
    <2> DEFINE fu == f * u
               nu == n * u
               i == req[r].input
    <2>4. fu \in Nat /\ nu \in Nat /\ u <= fu /\ i \in Nat
          /\ t + i + MaxOutput + fu <= GlobalCap + (nu + u)
      BY <1>2, <2>1, <2>2, <2>3
    <2> HIDE DEF fu, nu, i
    <2>5. t <= GlobalCap + nu + o
      BY <1>1, <2>4
    <2> QED
      BY <2>5 DEF nu, n, u, o, t, SpendBounded, Spent
  <1>4. CASE t + f * u <= GlobalCap + n * u + o
    <2> DEFINE fu == f * u
               nu == n * u
    <2>1. fu \in Nat /\ nu \in Nat /\ t + fu <= GlobalCap + nu + o
      BY <1>2, <1>4
    <2> HIDE DEF fu, nu
    <2>2. t <= GlobalCap + nu + o
      BY <1>1, <2>1
    <2> QED
      BY <2>2 DEF nu, n, u, o, t, SpendBounded, Spent
  <1>5. \/ \E r \in Flying : t + req[r].input + MaxOutput + f * u <= GlobalCap + (n + 1) * u
        \/ t + f * u <= GlobalCap + n * u + o
    BY <1>1 DEF SpendInv, f, n, u, o, t
  <1> QED
    BY <1>3, <1>4, <1>5

\* The numbers that SpendInv compares, and what a kind of step does to them.
LEMMA SpendNumbers ==
    ASSUME Typed, Typed'
    PROVE  /\ Spent \in Nat /\ Spent' \in Nat /\ InFlight \in Nat /\ InFlight' \in Nat
           /\ MaxUse \in Nat /\ Overrun \in Nat /\ GlobalCap \in Nat /\ MaxOutput \in Nat
           /\ Cardinality(Slots) - 1 \in Nat
           /\ InFlight <= Cardinality(Slots) /\ InFlight' <= Cardinality(Slots)
           /\ \A r \in Flying : req[r].input \in Nat
           /\ \A r \in Flying' : req'[r].input \in Nat
  <1>1. Spent \in Nat /\ \A r \in Flying : req[r].input \in Nat
    BY TodayIs, PipelineSettings DEF Typed, RequestsTyped
  <1>2. Spent' \in Nat
    <2>1. now' \in Nat /\ cost'.global \in Tally
      BY DEF Typed, BooksTyped, CostRecord
    <2> QED
      BY <2>1, TotalIs DEF Spent
  <1>3. \A r \in Flying' : req'[r].input \in Nat
    BY PipelineSettings DEF Typed, RequestsTyped
  <1>4. InFlight' \in Nat /\ InFlight' <= Cardinality(Slots)
    <2>1. Flying' \in SUBSET Slots /\ IsFiniteSet(Slots)
      BY PipelineSettings DEF Flying
    <2> QED
      BY <2>1, FS_Subset, FS_CardinalityType DEF InFlight
  <1> QED
    BY <1>1, <1>2, <1>3, <1>4, InFlightIs, BoundsAre, CostSettings, PipelineSettings

\* The second part of SpendInv, for a spend of t with f requests in flight.
Room(t, f) == t + f * MaxUse <= GlobalCap + (Cardinality(Slots) - 1) * MaxUse + Overrun

\* The first part, for a request whose input is i.
RoomFor(i, t, f) ==
    t + i + MaxOutput + f * MaxUse <= GlobalCap + Cardinality(Slots) * MaxUse

\* Arithmetic of the two: fewer in flight, or one that ended and was charged.
LEMMA RoomIs ==
    ASSUME NEW t \in Nat, NEW f \in Nat, NEW g \in Nat, NEW used \in Nat, NEW i \in Nat,
           used <= MaxUse
    PROVE  /\ g <= f /\ Room(t, f) => Room(t, g)
           /\ g + 1 <= f /\ Room(t, f) => Room(t + used, g)
           /\ g <= f /\ RoomFor(i, t, f) => RoomFor(i, t, g)
           /\ g + 1 <= f /\ RoomFor(i, t, f) => RoomFor(i, t + used, g)
           /\ g + 1 <= f /\ RoomFor(i, t, f) => Room(t, g)
           /\ g + 1 <= f /\ RoomFor(i, t, f) /\ used <= i + MaxOutput + Overrun => Room(t + used, g)
           /\ f <= Cardinality(Slots) /\ t + i + MaxOutput <= GlobalCap => RoomFor(i, t, f)
           /\ f <= Cardinality(Slots) - 1 => Room(0, f)
  <1> DEFINE n == Cardinality(Slots) - 1
             u == MaxUse
             o == Overrun
             fu == f * u
             gu == g * u
             nu == n * u
  <1>1. n \in Nat /\ Cardinality(Slots) = n + 1 /\ u \in Nat /\ o \in Nat /\ GlobalCap \in Nat
        /\ MaxOutput \in Nat /\ used <= u
    BY InFlightIs, BoundsAre, CostSettings, PipelineSettings
  <1> HIDE DEF n, u, o
  <1>2. fu \in Nat /\ gu \in Nat /\ nu \in Nat /\ (n + 1) * u = nu + u
    BY <1>1, Times
  <1>3. g <= f => gu <= fu
    BY <1>1, Times
  <1>4. g + 1 <= f => gu + u <= fu
    <2> SUFFICES ASSUME g + 1 <= f
                 PROVE  gu + u <= fu
      OBVIOUS
    <2>1. g + 1 \in Nat /\ g <= g + 1
      OBVIOUS
    <2>2. (g + 1) * u <= f * u
      BY <1>1, <2>1, Times
    <2>3. (g + 1) * u = g * u + u
      BY <1>1, <2>1, Times
    <2> QED
      BY <2>2, <2>3
  <1>5. /\ f <= n + 1 => fu <= nu + u
        /\ f <= n => fu <= nu
    <2>1. n + 1 \in Nat
      BY <1>1
    <2>2. f <= n + 1 => f * u <= (n + 1) * u
      BY <1>1, <2>1, Times
    <2>3. f <= n => f * u <= n * u
      BY <1>1, Times
    <2> QED
      BY <1>2, <2>2, <2>3
  <1>6. \A s \in Nat : /\ Room(s, f) <=> s + fu <= GlobalCap + nu + o
                       /\ Room(s, g) <=> s + gu <= GlobalCap + nu + o
                       /\ RoomFor(i, s, f) <=> s + i + MaxOutput + fu <= GlobalCap + (nu + u)
                       /\ RoomFor(i, s, g) <=> s + i + MaxOutput + gu <= GlobalCap + (nu + u)
    BY <1>1, <1>2 DEF Room, RoomFor, n, u, o
  <1> HIDE DEF fu, gu, nu
  <1>7. t + used \in Nat
    OBVIOUS
  <1>8. g <= f /\ Room(t, f) => Room(t, g)
    BY <1>1, <1>2, <1>3, <1>6
  <1>9. g + 1 <= f /\ Room(t, f) => Room(t + used, g)
    BY <1>1, <1>2, <1>4, <1>6, <1>7
  <1>10. g <= f /\ RoomFor(i, t, f) => RoomFor(i, t, g)
    BY <1>1, <1>2, <1>3, <1>6
  <1>11. g + 1 <= f /\ RoomFor(i, t, f) => RoomFor(i, t + used, g)
    BY <1>1, <1>2, <1>4, <1>6, <1>7
  <1>12. g + 1 <= f /\ RoomFor(i, t, f) => Room(t, g)
    BY <1>1, <1>2, <1>4, <1>6
  <1>13. g + 1 <= f /\ RoomFor(i, t, f) /\ used <= i + MaxOutput + o => Room(t + used, g)
    BY <1>1, <1>2, <1>4, <1>6, <1>7
  <1>14. f <= n + 1 /\ t + i + MaxOutput <= GlobalCap => RoomFor(i, t, f)
    BY <1>1, <1>2, <1>5, <1>6
  <1>15. f <= n => Room(0, f)
    BY <1>1, <1>2, <1>5, <1>6
  <1> QED
    BY <1>1, <1>8, <1>9, <1>10, <1>11, <1>12, <1>13, <1>14, <1>15 DEF n, o

LEMMA SpendInvKept ==
    ASSUME Typed, Typed', Kinds, SpendInv
    PROVE  SpendInv'
  <1> DEFINE small == \A r \in Flying : req[r].input + MaxOutput <= GlobalCap
             t == Spent
             u == Spent'
             f == InFlight
             g == InFlight'
  <1>1. /\ t \in Nat /\ u \in Nat /\ f \in Nat /\ g \in Nat /\ MaxUse \in Nat /\ Overrun \in Nat
        /\ GlobalCap \in Nat /\ MaxOutput \in Nat /\ Cardinality(Slots) - 1 \in Nat
        /\ f <= Cardinality(Slots) /\ g <= Cardinality(Slots)
        /\ \A r \in Flying : req[r].input \in Nat
        /\ \A r \in Flying' : req'[r].input \in Nat
    BY SpendNumbers
  <1>2. small /\ ((\E r \in Flying : RoomFor(req[r].input, t, f)) \/ Room(t, f))
    BY DEF SpendInv, Room, RoomFor
  <1>3. SUFFICES /\ \A r \in Flying' : req'[r].input + MaxOutput <= GlobalCap
                 /\ (\E r \in Flying' : RoomFor(req'[r].input, u, g)) \/ Room(u, g)
    BY DEF SpendInv, Room, RoomFor
  <1> HIDE DEF small, t, u, f, g
  <1>4. ASSUME Flying' \subseteq Flying, KeepsInputs
        PROVE  \A r \in Flying' : req'[r].input = req[r].input /\ req'[r].input + MaxOutput <= GlobalCap
    BY <1>2, <1>4 DEF KeepsInputs, small
  <1>5. CASE Quiet
    <2>1. u = t /\ Flying' \subseteq Flying /\ KeepsInputs /\ g <= f
      BY <1>5, InFlightChanges DEF Quiet, t, u, f, g
    <2>2. CASE \E r \in Flying : RoomFor(req[r].input, t, f)
      <3>1. PICK r \in Flying : RoomFor(req[r].input, t, f)
        BY <2>2
      <3>2. CASE r \in Flying'
        <4>1. RoomFor(req[r].input, t, g)
          BY <1>1, <2>1, <3>1, RoomIs
        <4> QED
          BY <1>4, <2>1, <3>2, <4>1
      <3>3. CASE r \notin Flying'
        <4>1. g + 1 <= f
          BY <2>1, <3>1, <3>3, InFlightChanges DEF f, g, Flying
        <4>2. Room(t, g)
          BY <1>1, <3>1, <4>1, RoomIs
        <4> QED
          BY <1>4, <2>1, <4>2
      <3> QED
        BY <3>2, <3>3
    <2>3. CASE Room(t, f)
      <3>1. Room(t, g)
        BY <1>1, <2>1, <2>3, RoomIs
      <3> QED
        BY <1>4, <2>1, <3>1
    <2> QED
      BY <1>2, <2>2, <2>3
  <1>6. ASSUME NEW r \in Slots, Admits(r)
        PROVE  /\ \A p \in Flying' : req'[p].input + MaxOutput <= GlobalCap
               /\ \E p \in Flying' : RoomFor(req'[p].input, u, g)
    <2>1. /\ u = t /\ r \in Flying' /\ t + req'[r].input + MaxOutput <= GlobalCap
          /\ \A p \in Flying' : p = r \/ (p \in Flying /\ req'[p].input = req[p].input)
      BY <1>6 DEF Admits, KeepsInputs, t, u
    <2>2. RoomFor(req'[r].input, t, g)
      BY <1>1, <2>1, RoomIs
    <2>3. req'[r].input \in Nat /\ req'[r].input + MaxOutput <= GlobalCap
      BY <1>1, <2>1
    <2> QED
      BY <1>2, <2>1, <2>2, <2>3 DEF small
  <1>7. ASSUME NEW r \in Slots, Settles(r)
        PROVE  /\ \A p \in Flying' : req'[p].input + MaxOutput <= GlobalCap
               /\ (\E p \in Flying' : RoomFor(req'[p].input, u, g)) \/ Room(u, g)
    <2>1. PICK used \in Nat : /\ used <= MaxUse /\ used <= req[r].input + MaxOutput + Overrun
                              /\ u = t + used
      BY <1>7 DEF Settles, t, u
    <2>2. r \in Flying /\ Flying' = Flying \ {r} /\ Flying' \subseteq Flying /\ KeepsInputs /\ g + 1 <= f
      BY <1>7, InFlightChanges DEF Settles, f, g
    <2>3. CASE \E p \in Flying : RoomFor(req[p].input, t, f)
      <3>1. PICK p \in Flying : RoomFor(req[p].input, t, f)
        BY <2>3
      <3>2. CASE p = r
        <4>1. Room(t + used, g)
          BY <1>1, <2>1, <2>2, <3>1, <3>2, RoomIs
        <4> QED
          BY <1>4, <2>1, <2>2, <4>1
      <3>3. CASE p # r
        <4> DEFINE i == req[p].input
        <4>1. i \in Nat /\ RoomFor(i, t, f)
          BY <1>1, <3>1
        <4> HIDE DEF i
        <4>2. RoomFor(i, t + used, g)
          BY <1>1, <2>1, <2>2, <4>1, RoomIs
        <4>3. RoomFor(req[p].input, t + used, g)
          BY <4>2 DEF i
        <4> QED
          BY <1>4, <2>1, <2>2, <3>1, <3>3, <4>3
      <3> QED
        BY <3>2, <3>3
    <2>4. CASE Room(t, f)
      <3>1. Room(t + used, g)
        BY <1>1, <2>1, <2>2, <2>4, RoomIs
      <3> QED
        BY <1>4, <2>1, <2>2, <3>1
    <2> QED
      BY <1>2, <2>3, <2>4
  <1>8. CASE TimePasses
    <2>1. Flying' = Flying /\ KeepsInputs /\ g = f /\ (u = t \/ u = 0)
      BY <1>8, DayTurns DEF TimePasses, InFlight, t, u, f, g
    <2>2. CASE u = t
      BY <1>2, <1>4, <2>1, <2>2
    <2>3. CASE u = 0
      <3>1. CASE f <= Cardinality(Slots) - 1
        <4>1. Room(0, f)
          BY <1>1, <3>1, RoomIs
        <4> QED
          BY <1>4, <2>1, <2>3, <4>1
      <3>2. CASE ~(f <= Cardinality(Slots) - 1)
        <4>1. PICK r \in Flying : TRUE
          <5>1. f # 0
            BY <1>1, <3>2
          <5> QED
            BY <5>1, InFlightIs DEF f
        <4> DEFINE i == req[r].input
        <4>2. i \in Nat /\ 0 + i + MaxOutput <= GlobalCap
          BY <1>1, <1>2, <4>1 DEF small
        <4> HIDE DEF i
        <4>3. f \in Nat /\ f <= Cardinality(Slots) /\ 0 <= MaxUse /\ 0 \in Nat
          BY <1>1
        <4>4. RoomFor(i, 0, f)
          BY <4>2, <4>3, RoomIs
        <4> QED
          BY <1>4, <2>1, <2>3, <4>1, <4>4 DEF i
      <3> QED
        BY <3>1, <3>2
    <2> QED
      BY <2>1, <2>2, <2>3
  <1>9. CASE Restarts
    <2>1. u = 0 /\ Flying' = {}
      BY <1>9 DEF Restarts, u
    <2>2. g = 0
      BY <2>1, FS_EmptySet DEF g, InFlight
    <2>3. Room(0, 0)
      BY <1>1, RoomIs
    <2> QED
      BY <2>1, <2>2, <2>3
  <1> QED
    BY <1>5, <1>6, <1>7, <1>8, <1>9 DEF Kinds

-----------------------------------------------------------------------------
(* The request limit of each subject.                                        *)

Clients(s) == {r \in Slots : Owner[r] = s}
FlyingOf(s) == Cardinality(Flying \cap Clients(s))

\* With every client of a subject in flight its row is still below the limit, but for
\* the checks that failed.
QuotaInv ==
    /\ Flying = {} \/ RequestLimit + dbFailures >= 1
    /\ \A s \in Subjects :
          Today[s].requests + FlyingOf(s)
              <= RequestLimit + dbFailures + Cardinality(Clients(s)) - 1

LEMMA ClientsAre ==
    ASSUME NEW s \in Subjects
    PROVE  /\ FlyingOf(s) \in Nat /\ FlyingOf(s)' \in Nat /\ Cardinality(Clients(s)) \in Nat \ {0}
           /\ FlyingOf(s) <= Cardinality(Clients(s)) /\ FlyingOf(s)' <= Cardinality(Clients(s))
           /\ Flying = {} => FlyingOf(s) = 0
           /\ Flying' = {} => FlyingOf(s)' = 0
           /\ Flying' \subseteq Flying => FlyingOf(s)' <= FlyingOf(s)
           /\ \A r \in Flying : Flying' = Flying \ {r} /\ Owner[r] = s => FlyingOf(s)' = FlyingOf(s) - 1
           /\ \A r \in Slots \ Flying : Flying' = Flying \cup {r} =>
                 FlyingOf(s)' = IF Owner[r] = s THEN FlyingOf(s) + 1 ELSE FlyingOf(s)
  <1> DEFINE A == Flying \cap Clients(s)
             B == Flying' \cap Clients(s)
             C == Clients(s)
  <1>1. C \in SUBSET Slots /\ IsFiniteSet(Slots) /\ C # {} /\ A \in SUBSET C /\ B \in SUBSET C
    BY PipelineSettings DEF Clients
  <1>2. IsFiniteSet(C) /\ IsFiniteSet(A) /\ IsFiniteSet(B)
    BY <1>1, FS_Subset
  <1>3. FlyingOf(s) = Cardinality(A) /\ FlyingOf(s)' = Cardinality(B)
    BY DEF FlyingOf, Clients
  <1>4. /\ Cardinality(A) \in Nat /\ Cardinality(B) \in Nat /\ Cardinality(C) \in Nat \ {0}
        /\ Cardinality(A) <= Cardinality(C) /\ Cardinality(B) <= Cardinality(C)
    BY <1>1, <1>2, FS_Subset, FS_CardinalityType, FS_EmptySet
  <1>5. /\ Flying = {} => Cardinality(A) = 0
        /\ Flying' = {} => Cardinality(B) = 0
    BY FS_EmptySet
  <1>6. Flying' \subseteq Flying => Cardinality(B) <= Cardinality(A)
    <2>1. Flying' \subseteq Flying => B \in SUBSET A
      OBVIOUS
    <2> QED
      BY <1>2, <2>1, FS_Subset
  <1>7. ASSUME NEW r \in Flying, Flying' = Flying \ {r}, Owner[r] = s
        PROVE  Cardinality(B) = Cardinality(A) - 1
    <2>1. r \in A /\ B = A \ {r}
      BY <1>7 DEF Clients, Flying
    <2> QED
      BY <1>2, <2>1, FS_RemoveElement
  <1>8. ASSUME NEW r \in Slots \ Flying, Flying' = Flying \cup {r}
        PROVE  Cardinality(B) = IF Owner[r] = s THEN Cardinality(A) + 1 ELSE Cardinality(A)
    <2>1. CASE Owner[r] = s
      <3>1. r \notin A /\ B = A \cup {r}
        BY <1>8, <2>1 DEF Clients
      <3> QED
        BY <1>2, <2>1, <3>1, FS_AddElement
    <2>2. CASE Owner[r] # s
      <3>1. B = A
        BY <1>8, <2>2 DEF Clients
      <3> QED
        BY <2>2, <3>1
    <2> QED
      BY <2>1, <2>2
  <1> HIDE DEF A, B, C
  <1>9. C = Clients(s)
    BY DEF C
  <1> QED
    BY <1>3, <1>4, <1>5, <1>6, <1>7, <1>8, <1>9

LEMMA QuotaBoundedByQuotaInv ==
    ASSUME Typed, QuotaInv
    PROVE  QuotaBounded
  <1> SUFFICES ASSUME NEW s \in Subjects
               PROVE  RowToday(quota[s]).requests
                          <= RequestLimit + dbFailures + Cardinality(Clients(s)) - 1
    BY DEF QuotaBounded, Clients
  <1> DEFINE k == Today[s].requests
             f == FlyingOf(s)
             c == Cardinality(Clients(s))
  <1>1. k \in Nat /\ k = RowToday(quota[s]).requests
    BY TodayIs DEF Typed, Row
  <1>2. f \in Nat /\ c \in Nat
    BY ClientsAre
  <1>3. k + f <= RequestLimit + dbFailures + c - 1
    BY DEF QuotaInv
  <1>4. RequestLimit \in Nat /\ dbFailures \in Nat
    BY PipelineSettings DEF Typed, BooksTyped
  <1> HIDE DEF k, f, c
  <1>5. k <= RequestLimit + dbFailures + c - 1
    BY <1>1, <1>2, <1>3, <1>4
  <1> QED
    BY <1>1, <1>5 DEF c

\* What a step may do to the row of one subject.
LEMMA RowsChange ==
    ASSUME Typed, NEW r \in Slots, Settles(r), NEW s \in Subjects
    PROVE  /\ Today'[s].requests \in Nat /\ dbFailures' \in Nat
           /\ \/ /\ Owner[r] = s /\ dbFailures' = dbFailures
                 /\ Today'[s].requests = Today[s].requests + 1
              \/ dbFailures' >= dbFailures /\ Today'[s].requests = Today[s].requests
  <1>1. Today \in [Subjects -> Row] /\ Owner[r] \in Subjects /\ dbFailures \in Nat
    BY TodayIs, PipelineSettings DEF Typed, BooksTyped
  <1>2. PICK n \in Nat : Charged(r, n)
    BY DEF Settles
  <1>3. CASE dbFailures' = dbFailures /\ Today' = [Today EXCEPT ![Owner[r]] = IncrementUsage(@, n)]
    <2>1. Today[s] \in Row /\ Today[Owner[r]] \in Row
      BY <1>1
    <2>2. IncrementUsage(Today[Owner[r]], n).requests = Today[Owner[r]].requests + 1
      BY <2>1, IncrementIs
    <2>3. Today'[s] = IF Owner[r] = s THEN IncrementUsage(Today[Owner[r]], n) ELSE Today[s]
      BY <1>1, <1>3
    <2> QED
      BY <1>1, <1>3, <2>1, <2>2, <2>3 DEF Row
  <1>4. CASE dbFailures' = dbFailures + 1 /\ Today' = Today
    BY <1>1, <1>4 DEF Row
  <1> QED
    BY <1>2, <1>3, <1>4 DEF Charged

LEMMA QuotaInvKept ==
    ASSUME Typed, Typed', Kinds, QuotaInv
    PROVE  QuotaInv'
  <1>1. Today \in [Subjects -> Row] /\ dbFailures \in Nat /\ dbFailures' \in Nat /\ RequestLimit \in Nat
    BY TodayIs, PipelineSettings DEF Typed, BooksTyped
  <1>2. \A s \in Subjects : Cardinality(Clients(s))' = Cardinality(Clients(s))
    BY DEF Clients
  <1>3. (Flying = {} \/ RequestLimit + dbFailures >= 1)'
    <2>1. ASSUME Flying' \subseteq Flying, dbFailures' >= dbFailures
          PROVE  Flying' = {} \/ RequestLimit + dbFailures' >= 1
      <3>1. CASE Flying = {}
        BY <2>1, <3>1
      <3>2. CASE RequestLimit + dbFailures >= 1
        <4> DEFINE d == dbFailures
                   e == dbFailures'
        <4>1. d \in Nat /\ e \in Nat /\ e >= d /\ RequestLimit + d >= 1
          BY <1>1, <2>1, <3>2
        <4> HIDE DEF d, e
        <4>2. RequestLimit + e >= 1
          BY <1>1, <4>1
        <4> QED
          BY <4>2 DEF e
      <3> QED
        BY <3>1, <3>2 DEF QuotaInv
    <2>2. CASE Quiet
      BY <2>1, <2>2 DEF Quiet
    <2>3. ASSUME NEW r \in Slots, Admits(r)
          PROVE  RequestLimit + dbFailures' >= 1
      <3>1. Today[Owner[r]].requests \in Nat
        BY <1>1, PipelineSettings DEF Row
      <3>2. \/ Today[Owner[r]].requests < RequestLimit /\ dbFailures' >= dbFailures
            \/ dbFailures' >= dbFailures + 1
        BY <2>3 DEF Admits
      <3> DEFINE k == Today[Owner[r]].requests
                 d == dbFailures
                 e == dbFailures'
      <3>3. /\ k \in Nat /\ d \in Nat /\ e \in Nat /\ RequestLimit \in Nat
            /\ (k < RequestLimit /\ e >= d) \/ e >= d + 1
        BY <1>1, <3>1, <3>2
      <3> HIDE DEF k, d, e
      <3>4. RequestLimit + e >= 1
        BY <3>3
      <3> QED
        BY <3>4 DEF e
    <2>4. ASSUME NEW r \in Slots, Settles(r)
          PROVE  Flying' = {} \/ RequestLimit + dbFailures' >= 1
      <3>1. dbFailures' >= dbFailures
        BY <1>1, <2>4 DEF Settles, Charged
      <3> QED
        BY <2>1, <2>4, <3>1 DEF Settles
    <2>5. CASE TimePasses
      BY <1>1, <2>1, <2>5 DEF TimePasses
    <2>6. CASE Restarts
      BY <2>6 DEF Restarts
    <2> QED
      BY <2>2, <2>3, <2>4, <2>5, <2>6 DEF Kinds
  <1>4. ASSUME NEW s \in Subjects
        PROVE  Today'[s].requests + FlyingOf(s)'
                   <= RequestLimit + dbFailures' + Cardinality(Clients(s)) - 1
    <2> DEFINE k == Today[s].requests
               l == Today'[s].requests
               f == FlyingOf(s)
               g == FlyingOf(s)'
               c == Cardinality(Clients(s))
               d == dbFailures
               e == dbFailures'
    <2>1. k \in Nat /\ f \in Nat /\ g \in Nat /\ c \in Nat \ {0} /\ d \in Nat /\ e \in Nat
          /\ f <= c /\ g <= c /\ k + f <= RequestLimit + d + c - 1
      BY <1>1, ClientsAre DEF QuotaInv, Row
    <2>2. SUFFICES l + g <= RequestLimit + e + c - 1
      OBVIOUS
    <2>3. ASSUME l = k, g <= f, e >= d
          PROVE  l + g <= RequestLimit + e + c - 1
      <3> HIDE DEF k, l, f, g, c, d, e
      <3> QED
        BY <1>1, <2>1, <2>3
    <2>4. CASE Quiet
      <3>1. l = k /\ g <= f /\ e >= d
        BY <2>4, ClientsAre DEF Quiet
      <3> QED
        BY <2>3, <3>1
    <2>5. ASSUME NEW r \in Slots, Admits(r)
          PROVE  l + g <= RequestLimit + e + c - 1
      <3>1. /\ l = k /\ e >= d /\ r \in Slots \ Flying /\ Flying' = Flying \cup {r}
            /\ Today[Owner[r]].requests < RequestLimit \/ e >= d + 1
        BY <2>5 DEF Admits
      <3>2. g = IF Owner[r] = s THEN f + 1 ELSE f
        BY <3>1, ClientsAre
      <3>3. CASE Owner[r] = s
        <4>1. g = f + 1 /\ (k < RequestLimit \/ e >= d + 1)
          BY <3>1, <3>2, <3>3
        <4>2. l = k /\ e >= d
          BY <3>1
        <4> HIDE DEF k, l, f, g, c, d, e
        <4> QED
          BY <1>1, <2>1, <4>1, <4>2
      <3>4. CASE Owner[r] # s
        <4>1. g <= f
          BY <2>1, <3>2, <3>4
        <4> QED
          BY <2>3, <3>1, <4>1
      <3> QED
        BY <3>3, <3>4
    <2>6. ASSUME NEW r \in Slots, Settles(r)
          PROVE  l + g <= RequestLimit + e + c - 1
      <3>1. r \in Flying /\ Flying' = Flying \ {r} /\ Flying' \subseteq Flying
        BY <2>6 DEF Settles
      <3>2. \/ Owner[r] = s /\ e = d /\ l = k + 1
            \/ e >= d /\ l = k
        BY <2>6, RowsChange
      <3>3. g <= f /\ (Owner[r] = s => g = f - 1)
        BY <3>1, ClientsAre
      <3> HIDE DEF k, l, f, g, c, d, e
      <3> QED
        BY <1>1, <2>1, <3>2, <3>3
    <2>7. CASE TimePasses
      <3>1. e = d /\ Flying' = Flying
        BY <2>7 DEF TimePasses
      <3>2. g = f
        BY <3>1 DEF FlyingOf, Clients
      <3>3. l = k \/ l = 0
        BY <2>7, DayTurns
      <3>4. f # 0 => RequestLimit + d >= 1
        BY ClientsAre DEF QuotaInv
      <3> HIDE DEF k, l, f, g, c, d, e
      <3> QED
        BY <1>1, <2>1, <3>1, <3>2, <3>3, <3>4
    <2>8. CASE Restarts
      <3>1. e = d /\ Flying' = {} /\ l = k
        BY <2>8, RowsSurvive DEF Restarts
      <3>2. g = 0
        BY <3>1, ClientsAre
      <3> HIDE DEF k, l, f, g, c, d, e
      <3> QED
        BY <1>1, <2>1, <3>1, <3>2
    <2> QED
      BY <2>4, <2>5, <2>6, <2>7, <2>8 DEF Kinds
  <1> QED
    BY <1>2, <1>3, <1>4 DEF QuotaInv

-----------------------------------------------------------------------------
(* The spend is billed.                                                      *)

Tokens == [s \in Subjects |-> Today[s].tokens]

LEMMA SubjectsAreFinite == IsFiniteSet(Subjects)
  <1>1. Owner \in Surjection(Slots, Subjects)
    BY PipelineSettings DEF Surjection
  <1> QED
    BY <1>1, FS_Surjection, PipelineSettings

Billing ==
    /\ Tokens \in [Subjects -> Nat] /\ SumFunction(Tokens) \in Nat
    /\ SpendIsBilled <=> Spent <= SumFunction(Tokens) + dbFailures * MaxUse

LEMMA TokensAre ==
    ASSUME BooksTyped
    PROVE  Billing
  <1>1. Today \in [Subjects -> Row] /\ \A s \in Subjects : Today[s] = RowToday(quota[s])
    BY TodayIs
  <1>2. Tokens \in [Subjects -> Nat]
    BY <1>1 DEF Tokens, Row
  <1>3. Tokens = [s \in Subjects |-> RowToday(quota[s]).tokens]
    BY <1>1 DEF Tokens
  <1>4. SumFunction(Tokens) \in Nat
    <2>1. PICK s : s \in Slots
      BY PipelineSettings
    <2>2. Owner[s] \in Subjects
      BY <2>1, PipelineSettings
    <2> DEFINE g == [Tokens EXCEPT ![Owner[s]] = @ + 0]
    <2>3. g = [Tokens EXCEPT ![Owner[s]] = @ + 0]
      OBVIOUS
    <2> HIDE DEF g
    <2> QED
      BY <1>2, <2>2, <2>3, SubjectsAreFinite, SumGrows
  <1> QED
    BY <1>2, <1>3, <1>4 DEF Billing, SpendIsBilled, Spent

LEMMA TokensWillBe == BooksTyped' => Billing'
  <1>1. BooksTyped => Billing
    BY TokensAre
  <1> QED
    BY <1>1, PTL

LEMMA BilledKept ==
    ASSUME Typed, Typed', Kinds, SpendIsBilled
    PROVE  SpendIsBilled'
  <1> DEFINE t == Spent
             u == Spent'
             x == SumFunction(Tokens)
             y == SumFunction(Tokens')
             d == dbFailures * MaxUse
             e == dbFailures' * MaxUse
  <1>1. x \in Nat /\ t <= x + d /\ Tokens \in [Subjects -> Nat]
    BY TokensAre DEF Typed, Billing
  <1>2. y \in Nat /\ (SpendIsBilled' <=> u <= y + e)
    <2>1. BooksTyped'
      BY DEF Typed
    <2> QED
      BY <2>1, TokensWillBe DEF Billing
  <1>3. t \in Nat /\ u \in Nat /\ MaxUse \in Nat /\ dbFailures \in Nat /\ dbFailures' \in Nat
    BY SpendNumbers, PipelineSettings DEF Typed, BooksTyped
  <1>4. d \in Nat /\ e \in Nat /\ (dbFailures' >= dbFailures => d <= e)
        /\ (dbFailures' = dbFailures + 1 => e = d + MaxUse)
    <2> DEFINE a == dbFailures
               b == dbFailures'
               m == MaxUse
    <2>1. a \in Nat /\ b \in Nat /\ m \in Nat
      BY <1>3
    <2> HIDE DEF a, b, m
    <2>2. a * m \in Nat /\ b * m \in Nat /\ (a <= b => a * m <= b * m) /\ (a + 1) * m = a * m + m
      BY <2>1, Times
    <2>3. (b >= a => a * m <= b * m) /\ (b = a + 1 => b * m = a * m + m)
      BY <2>1, <2>2
    <2> QED
      BY <2>2, <2>3 DEF a, b, m
  <1>5. Today' = Today => y = x
    BY DEF Tokens
  <1>6. SUFFICES u <= y + e
    BY <1>2
  <1> HIDE DEF t, u, x, y, d, e
  <1>7. CASE Quiet
    <2>1. u = t /\ y = x /\ d <= e
      BY <1>4, <1>5, <1>7 DEF Quiet, t, u
    <2> QED
      BY <1>1, <1>2, <1>3, <1>4, <2>1
  <1>8. ASSUME NEW r \in Slots, Admits(r)
        PROVE  u <= y + e
    <2>1. u = t /\ y = x /\ d <= e
      BY <1>4, <1>5, <1>8 DEF Admits, t, u
    <2> QED
      BY <1>1, <1>2, <1>3, <1>4, <2>1
  <1>9. ASSUME NEW r \in Slots, Settles(r)
        PROVE  u <= y + e
    <2>1. PICK used \in Nat, billed \in Nat :
              used <= billed /\ used <= MaxUse /\ u = t + used /\ Charged(r, billed)
      BY <1>9 DEF Settles, t, u
    <2>2. CASE dbFailures' = dbFailures /\ Today' = [Today EXCEPT ![Owner[r]] = IncrementUsage(@, billed)]
      <3>1. Today \in [Subjects -> Row] /\ Owner[r] \in Subjects
        BY TodayIs, PipelineSettings DEF Typed
      <3>2. IncrementUsage(Today[Owner[r]], billed).tokens = Today[Owner[r]].tokens + billed
        BY <3>1, IncrementIs
      <3>3. Tokens' = [Tokens EXCEPT ![Owner[r]] = @ + billed]
        BY <2>2, <3>1, <3>2 DEF Tokens
      <3>4. y = x + billed
        <4> DEFINE f == Tokens
                   g == Tokens'
                   s == Owner[r]
        <4>1. f \in [Subjects -> Nat] /\ s \in Subjects /\ billed \in Nat
              /\ g = [f EXCEPT ![s] = @ + billed]
          BY <1>1, <3>1, <3>3
        <4>2. x = SumFunction(f) /\ y = SumFunction(g)
          BY DEF x, y
        <4> HIDE DEF f, g, s
        <4>3. SumFunction(g) = SumFunction(f) + billed
          BY <4>1, SubjectsAreFinite, SumGrows, ZenonT(60)
        <4> QED
          BY <4>2, <4>3
      <3>5. e = d
        BY <2>2 DEF d, e
      <3> QED
        BY <1>1, <1>2, <1>3, <1>4, <2>1, <3>4, <3>5
    <2>3. CASE dbFailures' = dbFailures + 1 /\ Today' = Today
      <3>1. e = d + MaxUse /\ y = x
        BY <1>4, <1>5, <2>3
      <3> QED
        BY <1>1, <1>2, <1>3, <1>4, <2>1, <3>1
    <2> QED
      BY <2>1, <2>2, <2>3 DEF Charged
  <1>10. CASE TimePasses
    <2>1. u = 0 \/ (u = t /\ y = x /\ e = d)
      <3>1. dbFailures' = dbFailures
        BY <1>10 DEF TimePasses
      <3> QED
        BY <1>5, <1>10, <3>1, DayTurns DEF t, u, d, e
    <2> QED
      BY <1>1, <1>2, <1>3, <1>4, <2>1
  <1>11. CASE Restarts
    <2>1. u = 0
      BY <1>11, RowsSurvive DEF u
    <2> QED
      BY <1>2, <1>4, <2>1
  <1> QED
    BY <1>7, <1>8, <1>9, <1>10, <1>11 DEF Kinds

-----------------------------------------------------------------------------
LEMMA TypesHold == Spec => []Typed
  <1>1. Init => Typed
    BY StartsTyped
  <1>2. Typed /\ [Next]_vars => Typed'
    BY StepIs
  <1> QED
    BY <1>1, <1>2, PTL DEF Spec

\* Every request is where its phase says: what waits has exactly one place, in the
\* queue of the pool or on one of its threads, and threads whose attempt was given up
\* count against the pool until they return (governed_chat, enforce_timeout).
THEOREM TypeCorrect == Spec => []TypeOK
  <1>1. Typed => TypeOK
    <2> SUFFICES ASSUME Typed
                 PROVE  TypeOK
      OBVIOUS
    <2>1. cost.breaker.state \in BreakerState
      BY DEF Typed, BooksTyped, CostRecord
    <2>2. cost.breaker.failures \subseteq [at : 0..now, call : Slots]
      <3> SUFFICES ASSUME NEW f \in cost.breaker.failures
                   PROVE  f \in [at : 0..now, call : Slots]
        OBVIOUS
      <3>1. f \in Failures /\ f.at <= now /\ now \in Nat
        BY DEF Typed, BooksTyped, CostRecord
      <3>2. f.at \in 0..now
        BY <3>1 DEF Failures
      <3> QED
        BY <3>1, <3>2 DEF Failures
    <2>3. Flying = {r \in Slots : req[r].phase = "waiting"}
      BY DEF Flying, Waiting
    <2> QED
      BY <2>1, <2>2, <2>3 DEF Typed, BooksTyped, RequestsTyped, PoolTyped, TypeOK, Row, Request
  <1> QED
    BY <1>1, TypesHold, PTL

\* The day's budget and each subject's daily limit are checked before the provider is
\* awaited and charged after it (CostPolicy.precheck, record_success; check_request_limit,
\* increment_usage).  They are passed by what was in flight together, and by no more.
THEOREM LimitsHold == Spec => []LimitsBounded
  <1> DEFINE Inv == Typed /\ SpendInv /\ QuotaInv
  <1>1. Init => Inv
    <2> SUFFICES ASSUME Init
                 PROVE  Typed /\ SpendInv /\ QuotaInv
      OBVIOUS
    <2>1. Typed /\ Flying = {} /\ Spent = 0 /\ \A s \in Subjects : Today[s].requests = 0
      BY StartsTyped
    <2>2. SpendInv
      <3>1. InFlight = 0
        BY <2>1, InFlightIs
      <3>2. Cardinality(Slots) - 1 \in Nat /\ Cardinality(Slots) \in Nat
        BY InFlightIs
      <3>3. Room(0, 0)
        <4>1. 0 <= MaxUse /\ 0 <= Cardinality(Slots) - 1
          BY <3>2, BoundsAre
        <4> QED
          BY <4>1, RoomIs
      <3> QED
        BY <2>1, <3>1, <3>3 DEF SpendInv, Room
    <2>3. QuotaInv
      <3> SUFFICES ASSUME NEW s \in Subjects
                   PROVE  Today[s].requests + FlyingOf(s)
                              <= RequestLimit + dbFailures + Cardinality(Clients(s)) - 1
        BY <2>1 DEF QuotaInv
      <3> DEFINE k == Today[s].requests
                 f == FlyingOf(s)
                 c == Cardinality(Clients(s))
      <3>1. k = 0 /\ f = 0 /\ c \in Nat \ {0}
        BY <2>1, ClientsAre
      <3>2. RequestLimit \in Nat /\ dbFailures \in Nat
        BY <2>1, PipelineSettings DEF Typed, BooksTyped
      <3> HIDE DEF k, f, c
      <3>3. k + f <= RequestLimit + dbFailures + c - 1
        BY <3>1, <3>2
      <3> QED
        BY <3>3 DEF k, f, c
    <2> QED
      BY <2>1, <2>2, <2>3
  <1>2. Inv /\ [Next]_vars => Inv'
    <2> SUFFICES ASSUME Typed, SpendInv, QuotaInv, [Next]_vars
                 PROVE  Typed' /\ SpendInv' /\ QuotaInv'
      BY DEF Inv
    <2>1. Typed' /\ Kinds
      BY StepIs
    <2> QED
      BY <2>1, SpendInvKept, QuotaInvKept
  <1>3. Inv => LimitsBounded
    BY SpendBoundedBySpendInv, QuotaBoundedByQuotaInv DEF LimitsBounded
  <1> QED
    BY <1>1, <1>2, <1>3, PTL DEF Spec

\* Whatever the day's budget of the process was charged with, some subject's quota row
\* was charged with too, but for the rows a failed statement left behind; a restart
\* forgets the first and keeps the second (_process, post_accounting, record_success).
THEOREM BilledHolds == Spec => []SpendIsBilled
  <1>1. Init => SpendIsBilled
    <2> SUFFICES ASSUME Init
                 PROVE  SpendIsBilled
      OBVIOUS
    <2>1. Typed /\ Spent = 0
      BY StartsTyped
    <2> DEFINE x == SumFunction(Tokens)
               d == dbFailures * MaxUse
    <2>2. x \in Nat /\ (SpendIsBilled <=> Spent <= x + d)
      BY <2>1, TokensAre DEF Typed, Billing
    <2>3. d = 0
      BY BoundsAre DEF Init
    <2> HIDE DEF x, d
    <2> QED
      BY <2>1, <2>2, <2>3
  <1>2. Typed /\ SpendIsBilled /\ [Next]_vars => SpendIsBilled'
    BY StepIs, BilledKept
  <1> QED
    BY <1>1, <1>2, TypesHold, PTL DEF Spec

\* A quota row grows by one request, of a slot whose step 5 ended in this very step: a
\* refused request, one the total timeout ended or one whose thread returns late is not
\* charged (_process, enforce_timeout, post_accounting).
THEOREM ChargedAtItsEnd == Spec => BilledAtItsEnd
  <1> DEFINE A == \A s \in Subjects : RowToday(quota'[s]).requests > RowToday(quota[s]).requests =>
                     /\ RowToday(quota'[s]).requests = RowToday(quota[s]).requests + 1
                     /\ \E r \in Slots :
                           /\ Owner[r] = s
                           /\ Ends(r, {"answer", "safety_blocked", "bad_response", "timeout"})
  <1>1. ASSUME Typed, [Next]_vars
        PROVE  [A]_vars
    <2>1. Typed' /\ Kinds
      BY <1>1, StepIs
    <2>2. /\ \A s \in Subjects : Today[s] = RowToday(quota[s])
          /\ \A s \in Subjects : Today[s].requests \in Nat
          /\ now' = now => \A s \in Subjects : Today'[s] = RowToday(quota'[s])
      <3>1. Today \in [Subjects -> Row] /\ \A s \in Subjects : Today[s] = RowToday(quota[s])
        BY <1>1, TodayIs DEF Typed
      <3>2. now' = now => \A s \in Subjects : Today'[s] = RowToday(quota'[s])
        BY DEF Today, RowToday
      <3> QED
        BY <3>1, <3>2 DEF Row
    <2>3. CASE quota' = quota
      <3> SUFFICES ASSUME NEW s \in Subjects, Today[s].requests > Today[s].requests
                   PROVE  FALSE
        BY <2>2, <2>3
      <3> QED
        BY <2>2
    <2>4. CASE now' = now /\ Today' = Today
      <3> SUFFICES ASSUME NEW s \in Subjects, Today[s].requests > Today[s].requests
                   PROVE  FALSE
        BY <2>2, <2>4
      <3> QED
        BY <2>2
    <2>5. ASSUME NEW r \in Slots, Settles(r)
          PROVE  A
      <3> SUFFICES ASSUME NEW s \in Subjects,
                          RowToday(quota'[s]).requests > RowToday(quota[s]).requests
                   PROVE  /\ RowToday(quota'[s]).requests = RowToday(quota[s]).requests + 1
                          /\ Owner[r] = s
                          /\ Ends(r, EndsBilled)
        BY DEF EndsBilled
      <3>1. now' = now
        BY <2>5 DEF Settles
      <3>2. Today'[s].requests > Today[s].requests
        BY <2>2, <3>1
      <3>3. Owner[r] = s /\ Today'[s].requests = Today[s].requests + 1
        BY <1>1, <2>2, <2>5, <3>2, RowsChange
      <3>4. Ends(r, EndsBilled)
        BY <2>5 DEF Settles, Ends, Flying, Waiting
      <3> QED
        BY <2>2, <3>1, <3>3, <3>4
    <2> QED
      BY <2>1, <2>3, <2>4, <2>5 DEF Kinds, Quiet, Admits, TimePasses, Restarts
  <1> QED
    BY <1>1, TypesHold, PTL DEF Spec, BilledAtItsEnd

=============================================================================
