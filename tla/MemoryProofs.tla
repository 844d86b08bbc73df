---------------------------- MODULE MemoryProofs -----------------------------
(***************************************************************************)
(* MemoryStore and MemoryRead for any facts, requests, lifetimes, caps and  *)
(* limits.                                                                  *)
(***************************************************************************)
EXTENDS MemoryRead, WellFoundedInduction, FiniteSetTheorems, TLAPS

-----------------------------------------------------------------------------
(* Induction over the natural numbers, for a set.                            *)

LEMMA LessWF ==
  \E R : IsWellFoundedOn(R, Nat) /\ \A x, y \in Nat : <<y, x>> \in R <=> y < x
<1>. WITNESS OpToRel(<, Nat)
<1>1. \A x, y \in Nat : <<y, x>> \in OpToRel(<, Nat) <=> y < x
  BY DEF OpToRel
<1>. QED  BY <1>1, NatLessThanWellFounded

\* A set of natural numbers has a least member.
LEMMA Least ==
  ASSUME NEW T \in SUBSET Nat, T # {}
  PROVE  \E n \in T : \A m \in T : n <= m
<1>1. PICK R : IsWellFoundedOn(R, Nat) /\ \A x, y \in Nat : <<y, x>> \in R <=> y < x
  BY LessWF
<1>2. PICK n \in T : \A m \in T : ~(<<m, n>> \in R)
  BY <1>1, WFMin
<1>3. \A m \in T : ~(m < n)
  BY <1>1, <1>2
<1>. QED  BY <1>3

LEMMA SetInduction ==
  ASSUME NEW S, 0 \in S, \A n \in Nat : n \in S => n + 1 \in S
  PROVE  Nat \subseteq S
<1>. SUFFICES ASSUME Nat \ S # {} PROVE FALSE
  OBVIOUS
<1>1. PICK n \in Nat \ S : \A m \in Nat \ S : n <= m
  <2>1. Nat \ S \in SUBSET Nat
    OBVIOUS
  <2>. QED  BY <2>1, Least
<1>2. n # 0 /\ n - 1 \in Nat
  BY <1>1
<1>3. n - 1 + 1 \in S
  BY <1>1, <1>2
<1>. QED  BY <1>1, <1>2, <1>3

-----------------------------------------------------------------------------
(* The views a replay goes through.                                          *)

\* f gives the view after each of the first k events of l.
Run(f, l, k) ==
  f = [n \in 0..k |-> IF n = 0 THEN Nothing ELSE ReplayEvent(f[n - 1], l[n])]

LEMMA RunExists ==
  ASSUME NEW l
  PROVE  \A k \in Nat : \E f : Run(f, l, k)
<1>. DEFINE S == {k \in Nat : \E f : Run(f, l, k)}
<1>1. 0 \in S
  <2>. DEFINE f == [n \in 0..0 |-> Nothing]
  <2>1. f = [n \in 0..0 |-> IF n = 0 THEN Nothing ELSE ReplayEvent(f[n - 1], l[n])]
    OBVIOUS
  <2>. QED  BY <2>1 DEF Run
<1>2. ASSUME NEW k \in Nat, k \in S PROVE k + 1 \in S
  <2>1. PICK f : Run(f, l, k)
    BY <1>2
  <2>. DEFINE g == [n \in 0..(k + 1) |-> IF n = k + 1 THEN ReplayEvent(f[k], l[n]) ELSE f[n]]
  <2>2. ASSUME NEW n \in 0..(k + 1)
        PROVE  g[n] = IF n = 0 THEN Nothing ELSE ReplayEvent(g[n - 1], l[n])
    <3>1. CASE n = k + 1
      <4>1. n - 1 = k /\ n # 0 /\ k \in 0..(k + 1) /\ k # k + 1
        BY <3>1
      <4>. QED  BY <3>1, <4>1
    <3>2. CASE n = 0
      BY <3>2, <2>1 DEF Run
    <3>3. CASE n # 0 /\ n # k + 1
      <4>1. n \in 0..k /\ n - 1 \in 0..(k + 1) /\ n - 1 # k + 1
        BY <3>3
      <4>2. f[n] = ReplayEvent(f[n - 1], l[n])
        BY <2>1, <3>3, <4>1 DEF Run
      <4>. QED  BY <3>3, <4>1, <4>2
    <3>. QED  BY <3>1, <3>2, <3>3
  <2>3. Run(g, l, k + 1)
    BY <2>2 DEF Run
  <2>. QED  BY <2>3
<1>3. Nat \subseteq S
  <2>. HIDE DEF S
  <2>. QED  BY <1>1, <1>2, SetInduction
<1>. QED  BY <1>3

UpTo(l) == CHOOSE f : Run(f, l, Len(l))

LEMMA Steps ==
  ASSUME NEW X, NEW l \in Seq(X)
  PROVE  /\ UpTo(l)[0] = Nothing
         /\ \A n \in 1..Len(l) : UpTo(l)[n] = ReplayEvent(UpTo(l)[n - 1], l[n])
         /\ Replay(l) = UpTo(l)[Len(l)]
<1>1. Len(l) \in Nat
  OBVIOUS
<1>2. Run(UpTo(l), l, Len(l))
  BY <1>1, RunExists DEF UpTo
<1>3. UpTo(l) = CHOOSE f : f = [n \in 0..Len(l) |->
                                  IF n = 0 THEN Nothing ELSE ReplayEvent(f[n - 1], l[n])]
  BY DEF UpTo, Run
<1>4. Replay(l) = UpTo(l)[Len(l)]
  BY <1>3 DEF Replay
<1>. QED  BY <1>1, <1>2, <1>4 DEF Run

\* Two logs that agree so far have been replayed alike.
LEMMA SamePast ==
  ASSUME NEW X, NEW l \in Seq(X), NEW Y, NEW m \in Seq(Y), Len(l) <= Len(m),
         \A n \in 1..Len(l) : m[n] = l[n]
  PROVE  \A n \in 0..Len(l) : UpTo(m)[n] = UpTo(l)[n]
<1>. DEFINE S == {n \in Nat : n <= Len(l) => UpTo(m)[n] = UpTo(l)[n]}
<1>1. 0 \in S
  BY Steps
<1>2. ASSUME NEW n \in Nat, n \in S, n + 1 <= Len(l)
      PROVE  UpTo(m)[n + 1] = UpTo(l)[n + 1]
  <2>1. n + 1 \in 1..Len(l) /\ n + 1 \in 1..Len(m) /\ n + 1 - 1 = n /\ n <= Len(l)
    BY <1>2
  <2>. QED  BY <1>2, <2>1, Steps
<1>3. \A n \in Nat : n \in S => n + 1 \in S
  BY <1>2
<1>4. Nat \subseteq S
  <2>. HIDE DEF S
  <2>. QED  BY <1>1, <1>3, SetInduction
<1>. QED  BY <1>4

-----------------------------------------------------------------------------
(* The types.                                                                *)

Adds == {Added(f, until) : f \in SoundFacts, until \in Instants}

Views == [facts : UNION {[S -> Adds] : S \in SUBSET FactIds},
          revoked : SUBSET FactIds, expired : SUBSET FactIds]

\* A view has finitely many facts, each filed under its id.
Filed(v) ==
  /\ IsFiniteSet(DOMAIN v.facts)
  /\ \A id \in DOMAIN v.facts : v.facts[id].id = id

LEMMA InstantsAreNat == Instants \subseteq Nat
<1>1. Ttl[Len(Ttl)] \in Nat
  BY MemorySettings
<1>. QED  BY <1>1, MemorySettings DEF Instants

LEMMA AddIs ==
  ASSUME NEW e \in Adds
  PROVE  /\ e \in Events /\ e.kind = "added" /\ e.id \in FactIds
         /\ e.fact \in SoundFacts /\ e.fact.id = e.id /\ e.until \in Nat
<1>1. PICK f \in SoundFacts, until \in Instants : e = Added(f, until)
  BY DEF Adds
<1>2. e.kind = "added" /\ e.id = f.id /\ e.fact = f /\ e.until = until
  BY <1>1 DEF Added
<1>. QED  BY <1>1, <1>2, MemorySettings, InstantsAreNat DEF SoundFacts, Events

LEMMA EventIs ==
  ASSUME NEW e \in Events
  PROVE  /\ e.id \in FactIds
         /\ \/ e \in Adds /\ e.kind = "added"
            \/ e = Marked("expired", e.id) /\ e.kind = "expired"
            \/ e = Marked("revoked", e.id) /\ e.kind = "revoked"
<1>1. CASE e \in Adds
  BY <1>1, AddIs
<1>2. CASE \E kind \in {"expired", "revoked"}, id \in FactIds : e = Marked(kind, id)
  <2>1. PICK kind \in {"expired", "revoked"}, id \in FactIds : e = Marked(kind, id)
    BY <1>2
  <2>2. e.kind = kind /\ e.id = id
    BY <2>1 DEF Marked
  <2>. QED  BY <2>1, <2>2
<1>. QED  BY <1>1, <1>2 DEF Events, Adds

\* w is v after the event e, in the words of the properties.
After(v, e, w) ==
  /\ w.expired = IF e.kind = "expired" THEN v.expired \cup {e.id} ELSE v.expired
  /\ w.revoked = IF e.kind = "revoked" THEN v.revoked \cup {e.id}
                 ELSE IF e.kind = "added" THEN v.revoked \ {e.id} ELSE v.revoked
  /\ DOMAIN w.facts = IF e.kind = "added" THEN DOMAIN v.facts \cup {e.id} ELSE DOMAIN v.facts
  /\ \A id \in DOMAIN w.facts :
        w.facts[id] = IF e.kind = "added" /\ id = e.id /\ id \notin DOMAIN v.facts \ v.revoked
                      THEN e ELSE v.facts[id]

LEMMA ReplayIs ==
  ASSUME NEW v \in Views, Filed(v), NEW e \in Events, NEW w, w = ReplayEvent(v, e)
  PROVE  w \in Views /\ Filed(w) /\ After(v, e, w)
<1>1. PICK S \in SUBSET FactIds : v.facts \in [S -> Adds]
  BY DEF Views
<1>2. /\ v = [facts |-> v.facts, revoked |-> v.revoked, expired |-> v.expired]
      /\ v.revoked \in SUBSET FactIds /\ v.expired \in SUBSET FactIds
      /\ DOMAIN v.facts = S
  BY <1>1 DEF Views
<1>3. e.id \in FactIds
  BY EventIs
<1>4. CASE e.kind = "added" /\ e.id \in DOMAIN v.facts \ v.revoked
  <2>1. w = v
    BY <1>4 DEF ReplayEvent
  <2>2. DOMAIN v.facts \cup {e.id} = DOMAIN v.facts /\ v.revoked \ {e.id} = v.revoked
    BY <1>4
  <2>. QED  BY <1>4, <2>1, <2>2 DEF After
<1>5. CASE e.kind = "added" /\ e.id \notin DOMAIN v.facts \ v.revoked
  <2>1. w = [facts |-> Put(v.facts, e), revoked |-> v.revoked \ {e.id}, expired |-> v.expired]
    BY <1>2, <1>5 DEF ReplayEvent
  <2>2. e \in Adds
    BY <1>5, EventIs
  <2>. DEFINE g == Put(v.facts, e)
  <2>3. /\ DOMAIN g = S \cup {e.id} /\ g \in [S \cup {e.id} -> Adds]
        /\ \A id \in S \cup {e.id} : g[id] = IF id = e.id THEN e ELSE v.facts[id]
    BY <1>1, <1>2, <2>2 DEF Put
  <2>4. w.facts = g /\ w.revoked = v.revoked \ {e.id} /\ w.expired = v.expired
    BY <2>1
  <2>5. S \cup {e.id} \in SUBSET FactIds
    BY <1>3
  <2>. HIDE DEF g
  <2>6. w \in Views
    <3>1. w = [facts |-> g, revoked |-> w.revoked, expired |-> w.expired]
      BY <2>1, <2>4 DEF g
    <3>2. g \in UNION {[T -> Adds] : T \in SUBSET FactIds}
      BY <2>3, <2>5
    <3>3. w.revoked \in SUBSET FactIds /\ w.expired \in SUBSET FactIds
      BY <1>2, <2>4
    <3>. QED  BY <3>1, <3>2, <3>3 DEF Views
  <2>7. Filed(w)
    BY <1>2, <2>3, <2>4, FS_AddElement DEF Filed
  <2>. QED  BY <1>2, <1>5, <2>3, <2>4, <2>6, <2>7 DEF After
<1>6. CASE e.kind = "expired"
  <2>1. w = [facts |-> v.facts, revoked |-> v.revoked, expired |-> v.expired \cup {e.id}]
    BY <1>2, <1>6 DEF ReplayEvent
  <2>2. w \in Views
    BY <1>1, <1>2, <1>3, <2>1 DEF Views
  <2>. QED  BY <1>6, <2>1, <2>2 DEF Filed, After
<1>7. CASE e.kind = "revoked"
  <2>1. w = [facts |-> v.facts, revoked |-> v.revoked \cup {e.id}, expired |-> v.expired]
    BY <1>2, <1>7 DEF ReplayEvent
  <2>2. w \in Views
    BY <1>1, <1>2, <1>3, <2>1 DEF Views
  <2>. QED  BY <1>7, <2>1, <2>2 DEF Filed, After
<1>. QED  BY <1>4, <1>5, <1>6, <1>7, EventIs

LEMMA NothingIs == Nothing \in Views /\ Filed(Nothing)
<1>1. <<>> \in [{} -> Adds]
  OBVIOUS
<1>. QED  BY <1>1, FS_EmptySet DEF Nothing, Views, Filed

LEMMA ViewsAre ==
  ASSUME NEW l \in Seq(Events)
  PROVE  \A n \in 0..Len(l) : UpTo(l)[n] \in Views /\ Filed(UpTo(l)[n])
<1>. DEFINE S == {n \in Nat : n <= Len(l) => UpTo(l)[n] \in Views /\ Filed(UpTo(l)[n])}
<1>1. 0 \in S
  BY NothingIs, Steps
<1>2. ASSUME NEW n \in Nat, n \in S, n + 1 <= Len(l)
      PROVE  UpTo(l)[n + 1] \in Views /\ Filed(UpTo(l)[n + 1])
  <2>1. n + 1 \in 1..Len(l) /\ n + 1 - 1 = n /\ n <= Len(l)
    BY <1>2
  <2>2. UpTo(l)[n + 1] = ReplayEvent(UpTo(l)[n], l[n + 1]) /\ l[n + 1] \in Events
    BY <2>1, Steps
  <2>. QED  BY <1>2, <2>1, <2>2, ReplayIs
<1>3. \A n \in Nat : n \in S => n + 1 \in S
  BY <1>2
<1>4. Nat \subseteq S
  <2>. HIDE DEF S
  <2>. QED  BY <1>1, <1>3, SetInduction
<1>. QED  BY <1>4

\* One event more at the end of a log is one step more of its replay.
LEMMA OneMore ==
  ASSUME NEW l \in Seq(Events), NEW e \in Events
  PROVE  /\ Append(l, e) \in Seq(Events)
         /\ Replay(Append(l, e)) = ReplayEvent(Replay(l), e)
<1>. DEFINE m == Append(l, e)
<1>1. /\ m \in Seq(Events) /\ Len(m) = Len(l) + 1 /\ m[Len(m)] = e /\ Len(l) \in Nat
      /\ \A n \in 1..Len(l) : m[n] = l[n]
  OBVIOUS
<1>. HIDE DEF m
<1>2. /\ Replay(m) = UpTo(m)[Len(m)] /\ Replay(l) = UpTo(l)[Len(l)]
      /\ \A n \in 1..Len(m) : UpTo(m)[n] = ReplayEvent(UpTo(m)[n - 1], m[n])
  BY <1>1, Steps
<1>3. Len(l) <= Len(m) /\ Len(m) \in 1..Len(m) /\ Len(m) - 1 = Len(l) /\ Len(l) \in 0..Len(l)
  BY <1>1
<1>4. \A n \in 0..Len(l) : UpTo(m)[n] = UpTo(l)[n]
  BY <1>1, <1>3, SamePast
<1>. QED  BY <1>1, <1>2, <1>3, <1>4 DEF m

LEMMA RoundedDown ==
  ASSUME NEW t \in Nat, NEW b \in Nat \ {0}
  PROVE  (t \div b) * b \in Nat /\ (t \div b) * b <= t
OBVIOUS

LEMMA UntilIs ==
  ASSUME NEW r \in Requests, NEW t \in 0..MaxTime
  PROVE  ExpiresAt(t, Effective(r.tier, r.requested)) \in Instants
<1>. DEFINE class == Effective(r.tier, r.requested)
<1>1. class \in Classes
  <2>1. r.tier \in Tiers /\ r.requested \in {0} \cup Classes
    BY MemorySettings
  <2>2. PlanCap[r.tier] \in Classes /\ PlanDefault[r.tier] \in Classes
    BY <2>1, MemorySettings
  <2>. QED  BY <2>1, <2>2 DEF Effective
<1>. HIDE DEF class
<1>2. Classes = 1..Len(Ttl) /\ Len(Ttl) \in Classes
  BY MemorySettings DEF Classes
<1>3. Ttl[class] \in Nat /\ Ttl[Len(Ttl)] \in Nat /\ Ttl[class] <= Ttl[Len(Ttl)]
  <2>1. class <= Len(Ttl)
    BY <1>1, <1>2
  <2>2. Ttl \in [1..Len(Ttl) -> Nat \ {0}]
    BY MemorySettings
  <2>. QED  BY <1>1, <1>2, <2>1, <2>2, MemorySettings
<1>4. t \in Nat /\ t <= MaxTime /\ Bucket \in Nat \ {0} /\ MaxTime \in Nat
  BY MemorySettings
<1>5. (t \div Bucket) * Bucket \in Nat /\ (t \div Bucket) * Bucket <= t
  BY <1>4, RoundedDown
<1>. DEFINE start == (t \div Bucket) * Bucket
<1>6. start \in Nat /\ start <= MaxTime
  BY <1>4, <1>5
<1>7. ExpiresAt(t, class) = start + Ttl[class]
  BY DEF ExpiresAt
<1>. HIDE DEF start
<1>8. start + Ttl[class] \in Instants
  BY <1>3, <1>4, <1>6 DEF Instants
<1>. QED  BY <1>7, <1>8 DEF class

\* What a call adds to the log.
Told(r, t) ==
  [n \in DOMAIN r.facts |-> Added(r.facts[n], ExpiresAt(t, Effective(r.tier, r.requested)))]

LEMMA ToldIs ==
  ASSUME NEW r \in Requests, NEW t \in 0..MaxTime, Accepts(r.facts)
  PROVE  Told(r, t) \in Seq(Adds)
<1>. DEFINE until == ExpiresAt(t, Effective(r.tier, r.requested))
<1>1. until \in Instants
  BY UntilIs
<1>2. r.facts \in Seq(Facts)
  BY MemorySettings
<1>3. DOMAIN r.facts = 1..Len(r.facts) /\ Len(r.facts) \in Nat
  BY <1>2
<1>4. ASSUME NEW n \in 1..Len(r.facts) PROVE Added(r.facts[n], until) \in Adds
  <2>1. r.facts[n] \in SoundFacts
    BY <1>2, <1>3 DEF Accepts, SoundFacts
  <2>. QED  BY <1>1, <2>1 DEF Adds
<1>5. Told(r, t) = [n \in 1..Len(r.facts) |-> Added(r.facts[n], until)]
  BY <1>3 DEF Told
<1>. HIDE DEF until
<1>. QED  BY <1>3, <1>4, <1>5

\* A log grows at its end, and no longer than it may be.
LEMMA AppendedIs ==
  ASSUME NEW X, NEW l \in Seq(X), NEW events \in Seq(X), Len(l) <= MaxEvents,
         NEW m, m = Appended(l, events)
  PROVE  /\ m \in Seq(X) /\ Len(l) <= Len(m) /\ Len(m) <= MaxEvents
         /\ Len(m) <= Len(l) + Len(events)
         /\ \A n \in 1..Len(l) : m[n] = l[n]
         /\ \A n \in 1..Len(m) : n > Len(l) => m[n] = events[n - Len(l)]
<1>1. MaxEvents \in Nat
  BY MemorySettings
<1>2. l \o events \in Seq(X) /\ Len(l \o events) = Len(l) + Len(events)
  OBVIOUS
<1>3. CASE Len(l \o events) <= MaxEvents
  <2>1. m = l \o events
    BY <1>3 DEF Appended
  <2>. QED  BY <1>1, <1>2, <1>3, <2>1
<1>4. CASE ~(Len(l \o events) <= MaxEvents)
  <2>1. m = SubSeq(l \o events, 1, MaxEvents)
    BY <1>4 DEF Appended
  <2>2. MaxEvents <= Len(l \o events) /\ Len(l) <= MaxEvents
    BY <1>1, <1>2, <1>4
  <2>3. m \in Seq(X) /\ Len(m) = MaxEvents /\ \A n \in 1..MaxEvents : m[n] = (l \o events)[n]
    BY <1>1, <1>2, <2>1, <2>2
  <2>. QED  BY <1>1, <1>2, <2>2, <2>3
<1>. QED  BY <1>3, <1>4

\* Every step keeps the types of the log and of the clock.
LEMMA StepTyped == TypeOK /\ [Next]_vars => TypeOK'
<1>. SUFFICES ASSUME TypeOK, [Next]_vars PROVE TypeOK'
  OBVIOUS
<1>1. ASSUME NEW r \in Requests, Write(r) PROVE TypeOK'
  <2>1. Told(r, now) \in Seq(Adds)
    BY <1>1, ToldIs DEF TypeOK, Write
  <2>2. Adds \subseteq Events
    BY DEF Adds, Events
  <2>3. Told(r, now) \in Seq(Events)
    BY <2>1, <2>2
  <2>4. log' = Appended(log, Told(r, now)) /\ now' = now
    BY <1>1 DEF Write, Told
  <2>. QED  BY <2>3, <2>4, AppendedIs DEF TypeOK
<1>2. ASSUME NEW kind \in {"expired", "revoked"}, NEW id \in FactIds,
             log' = Appended(log, <<Marked(kind, id)>>), now' = now
      PROVE  TypeOK'
  <2>1. Marked(kind, id) \in Events
    BY DEF Events
  <2>2. <<Marked(kind, id)>> \in Seq(Events)
    BY <2>1
  <2>. QED  BY <1>2, <2>2, AppendedIs DEF TypeOK
<1>3. CASE Tick
  BY <1>3, MemorySettings DEF Tick, TypeOK
<1>4. CASE UNCHANGED vars
  BY <1>4 DEF vars, TypeOK
<1>. QED  BY <1>1, <1>2, <1>3, <1>4 DEF Next, MarkExpired, Revoke

\* Every event of a log is one of Events, and the log and the clock keep their bounds.
THEOREM TypeCorrect == Spec => []TypeOK
<1>1. Init => TypeOK
  BY MemorySettings DEF Init, TypeOK
<1>. QED  BY <1>1, StepTyped, PTL DEF Spec

-----------------------------------------------------------------------------
(* What the replay finds.                                                    *)

\* AddsSinceRevoke of the first n events of a log.
AddsSoFar(l, n, id) ==
  {k \in 1..n : /\ l[k].kind = "added" /\ l[k].id = id
                /\ \A m \in k..n : l[m] # Marked("revoked", id)}

\* What the first n events of l make of an id, in v.
Declared(v, l, n, id) ==
  /\ id \in DOMAIN v.facts \ v.revoked <=> AddsSoFar(l, n, id) # {}
  /\ \A k \in AddsSoFar(l, n, id) :
        (\A m \in AddsSoFar(l, n, id) : k <= m) => v.facts[id] = l[k]
  /\ id \in v.expired <=> \E k \in 1..n : l[k] = Marked("expired", id)

LEMMA DeclaredNext ==
  ASSUME NEW l \in Seq(Events), NEW n \in Nat, n + 1 <= Len(l), NEW id \in FactIds,
         NEW v \in Views, Filed(v), Declared(v, l, n, id),
         NEW e \in Events, e = l[n + 1], NEW w, w = ReplayEvent(v, e)
  PROVE  Declared(w, l, n + 1, id)
<1>. DEFINE before == AddsSoFar(l, n, id)
            after == AddsSoFar(l, n + 1, id)
<1>1. n + 1 \in 1..Len(l) /\ 1..(n + 1) = 1..n \cup {n + 1}
  OBVIOUS
<1>2. \A k \in 1..Len(l) : l[k] \in Events
  OBVIOUS
<1>3. After(v, e, w)
  BY ReplayIs
<1>4. id \in w.expired <=> \E k \in 1..(n + 1) : l[k] = Marked("expired", id)
  <2>1. e = Marked("expired", id) <=> e.kind = "expired" /\ e.id = id
    BY <1>1, EventIs DEF Marked
  <2>2. id \in v.expired <=> \E k \in 1..n : l[k] = Marked("expired", id)
    BY DEF Declared
  <2>3. id \in w.expired <=> id \in v.expired \/ e = Marked("expired", id)
    BY <1>3, <2>1 DEF After
  <2>. QED  BY <1>1, <2>2, <2>3
<1>5. e = Marked("revoked", id) <=> e.kind = "revoked" /\ e.id = id
  BY <1>1, EventIs DEF Marked
<1>6. ASSUME e # Marked("revoked", id)
      PROVE  after = before \cup (IF e.kind = "added" /\ e.id = id THEN {n + 1} ELSE {})
  <2>1. \A k \in 1..n : (\A m \in k..(n + 1) : l[m] # Marked("revoked", id))
                          <=> (\A m \in k..n : l[m] # Marked("revoked", id))
    BY <1>6
  <2>2. \A m \in (n + 1)..(n + 1) : l[m] # Marked("revoked", id)
    BY <1>6
  <2>. QED  BY <1>1, <2>1, <2>2 DEF AddsSoFar
<1>7. before \subseteq 1..n
  BY DEF AddsSoFar
<1>8. CASE e = Marked("revoked", id)
  <2>1. after = {}
    <3>1. l[n + 1] = Marked("revoked", id) /\ \A k \in 1..(n + 1) : n + 1 \in k..(n + 1)
      BY <1>8
    <3>. QED  BY <3>1 DEF AddsSoFar
  <2>2. id \in w.revoked
    BY <1>3, <1>5, <1>8 DEF After
  <2>. QED  BY <1>4, <2>1, <2>2 DEF Declared
<1>9. CASE e.kind = "added" /\ e.id = id
  <2>1. e # Marked("revoked", id) /\ after = before \cup {n + 1}
    BY <1>5, <1>6, <1>9
  <2>2. id \in DOMAIN w.facts \ w.revoked
    BY <1>3, <1>9 DEF After
  <2>3. ASSUME NEW k \in after, \A m \in after : k <= m PROVE w.facts[id] = l[k]
    <3>1. CASE before = {}
      <4>1. k = n + 1 /\ id \notin DOMAIN v.facts \ v.revoked
        BY <2>1, <3>1 DEF Declared
      <4>. QED  BY <1>3, <1>9, <2>2, <4>1 DEF After
    <3>2. CASE before # {}
      <4>1. id \in DOMAIN v.facts \ v.revoked
        BY <3>2 DEF Declared
      <4>2. k \in before /\ \A m \in before : k <= m
        BY <1>7, <2>1, <2>3, <3>2
      <4>3. v.facts[id] = l[k]
        BY <4>2 DEF Declared
      <4>. QED  BY <1>3, <1>9, <2>2, <4>1, <4>3 DEF After
    <3>. QED  BY <3>1, <3>2
  <2>. QED  BY <1>4, <2>1, <2>2, <2>3 DEF Declared
<1>10. CASE e # Marked("revoked", id) /\ ~(e.kind = "added" /\ e.id = id)
  <2>1. after = before
    BY <1>6, <1>10
  <2>2. id \in DOMAIN w.facts \ w.revoked <=> id \in DOMAIN v.facts \ v.revoked
    BY <1>1, <1>3, <1>5, <1>10, EventIs DEF After
  <2>3. id \in DOMAIN w.facts => w.facts[id] = v.facts[id]
    BY <1>3, <1>10 DEF After
  <2>. HIDE DEF before, after
  <2>4. \A k \in before : (\A m \in before : k <= m) => v.facts[id] = l[k]
    BY DEF Declared, before
  <2>5. before # {} => id \in DOMAIN w.facts
    BY <2>2 DEF Declared, before
  <2>6. \A k \in after : (\A m \in after : k <= m) => w.facts[id] = l[k]
    BY <2>1, <2>3, <2>4, <2>5
  <2>7. id \in DOMAIN v.facts \ v.revoked <=> before # {}
    BY DEF Declared, before
  <2>. QED  BY <1>4, <2>1, <2>2, <2>6, <2>7 DEF Declared, after
<1>. QED  BY <1>8, <1>9, <1>10

LEMMA LogDeclares ==
  ASSUME NEW l \in Seq(Events), NEW id \in FactIds
  PROVE  \A n \in 0..Len(l) : Declared(UpTo(l)[n], l, n, id)
<1>. DEFINE S == {n \in Nat : n <= Len(l) => Declared(UpTo(l)[n], l, n, id)}
<1>1. 0 \in S
  <2>1. Declared(Nothing, l, 0, id)
    BY DEF Declared, Nothing, AddsSoFar
  <2>. QED  BY <2>1, Steps
<1>2. ASSUME NEW n \in Nat, n \in S, n + 1 <= Len(l)
      PROVE  Declared(UpTo(l)[n + 1], l, n + 1, id)
  <2>1. n + 1 \in 1..Len(l) /\ n + 1 - 1 = n /\ n \in 0..Len(l)
    BY <1>2
  <2>2. UpTo(l)[n + 1] = ReplayEvent(UpTo(l)[n], l[n + 1]) /\ l[n + 1] \in Events
    BY <2>1, Steps
  <2>. QED  BY <1>2, <2>1, <2>2, ViewsAre, DeclaredNext
<1>3. \A n \in Nat : n \in S => n + 1 \in S
  BY <1>2
<1>4. Nat \subseteq S
  <2>. HIDE DEF S
  <2>. QED  BY <1>1, <1>3, SetInduction
<1>. QED  BY <1>4

\* Every replay of a log that is well typed finds what the log says, whatever events
\* it holds and in whatever order they came.
THEOREM ReplayIsSound == Spec => []ReplayIsDeclared
<1>1. ASSUME TypeOK PROVE ReplayIsDeclared
  <2>. DEFINE v == Replay(log)
  <2>. SUFFICES ASSUME NEW id \in FactIds
                PROVE  LET adds == AddsSinceRevoke(id)
                           first == CHOOSE n \in adds : \A m \in adds : n <= m
                       IN IF /\ adds # {}
                             /\ log[first].until > now
                             /\ \A n \in DOMAIN log : log[n] # Marked("expired", id)
                          THEN id \in Active(v, now) /\ v.facts[id] = log[first]
                          ELSE id \notin Active(v, now)
    BY DEF ReplayIsDeclared
  <2>. DEFINE adds == AddsSinceRevoke(id)
              first == CHOOSE n \in adds : \A m \in adds : n <= m
  <2>1. log \in Seq(Events) /\ DOMAIN log = 1..Len(log) /\ Len(log) \in Nat
    BY <1>1 DEF TypeOK
  <2>2. Declared(v, log, Len(log), id)
    BY <2>1, LogDeclares, Steps
  <2>3. AddsSoFar(log, Len(log), id) = adds
    BY <2>1 DEF AddsSoFar, AddsSinceRevoke
  <2>4. adds # {} => first \in adds /\ \A m \in adds : first <= m
    <3>1. adds \in SUBSET Nat
      BY <2>1 DEF AddsSinceRevoke
    <3>. HIDE DEF adds
    <3>. QED  BY <3>1, Least
  <2>. HIDE DEF v, adds, first
  <2>5. adds # {} => v.facts[id] = log[first]
    BY <2>2, <2>3, <2>4 DEF Declared
  <2>6. id \in DOMAIN v.facts \ v.revoked <=> adds # {}
    BY <2>2, <2>3 DEF Declared
  <2>7. id \in v.expired <=> \E k \in DOMAIN log : log[k] = Marked("expired", id)
    BY <2>1, <2>2 DEF Declared
  <2>8. id \in Active(v, now) <=> /\ adds # {} /\ v.facts[id].until > now
                                  /\ id \notin v.expired
    BY <2>6 DEF Active
  <2>9. IF adds # {} /\ log[first].until > now /\ \A n \in DOMAIN log : log[n] # Marked("expired", id)
        THEN id \in Active(v, now) /\ v.facts[id] = log[first]
        ELSE id \notin Active(v, now)
    BY <2>5, <2>7, <2>8
  <2>. QED  BY <2>9 DEF adds, first
<1>. QED  BY <1>1, TypeCorrect, PTL

-----------------------------------------------------------------------------
(* The refinement of FactLife.                                               *)

\* The ids that a view holds a fact under.
Held(v) == DOMAIN v.facts \ (v.expired \cup v.revoked)

\* From v to w nothing is exhumed and no held fact is replaced: one step of FactLife.
Grows(v, w) ==
  /\ v.expired \subseteq w.expired
  /\ \A id \in Held(w) \cap Held(v) : w.facts[id] = v.facts[id]

\* After an add, what was in force is in force still, the expired apart.
OnlyAdds(v, w) ==
  /\ w.expired = v.expired
  /\ \A id \in DOMAIN v.facts \ v.revoked :
        id \in DOMAIN w.facts \ w.revoked /\ w.facts[id] = v.facts[id]

LEMMA EventGrows ==
  ASSUME NEW v \in Views, Filed(v), NEW e \in Events, NEW w, w = ReplayEvent(v, e)
  PROVE  Grows(v, w) /\ (e.kind = "added" => OnlyAdds(v, w))
<1>1. After(v, e, w)
  BY ReplayIs
<1>2. v.expired \subseteq w.expired
  BY <1>1 DEF After
<1>3. ASSUME NEW id \in Held(w) \cap Held(v) PROVE w.facts[id] = v.facts[id]
  BY <1>1, <1>3 DEF After, Held
<1>4. ASSUME e.kind = "added" PROVE OnlyAdds(v, w)
  <2>1. e.kind # "expired" /\ e.kind # "revoked"
    BY <1>4
  <2>. QED  BY <1>1, <1>4, <2>1 DEF After, OnlyAdds
<1>. QED  BY <1>2, <1>3, <1>4 DEF Grows

\* A log that only adds to another's.
LEMMA AddsKeep ==
  ASSUME NEW l \in Seq(Events), NEW m \in Seq(Events), Len(l) <= Len(m),
         \A n \in 1..Len(l) : m[n] = l[n],
         \A n \in 1..Len(m) : n > Len(l) => m[n].kind = "added"
  PROVE  OnlyAdds(Replay(l), Replay(m))
<1>. DEFINE v == Replay(l)
            S == {k \in Nat : Len(l) + k <= Len(m) => OnlyAdds(v, UpTo(m)[Len(l) + k])}
<1>1. Len(l) \in Nat /\ Len(m) \in Nat
  OBVIOUS
<1>2. UpTo(m)[Len(l)] = v
  BY <1>1, SamePast, Steps
<1>3. 0 \in S
  <2>1. OnlyAdds(v, v)
    BY DEF OnlyAdds
  <2>2. Len(l) + 0 = Len(l)
    BY <1>1
  <2>. HIDE DEF v
  <2>. QED  BY <1>2, <2>1, <2>2
<1>. HIDE DEF v
<1>4. ASSUME NEW k \in Nat, k \in S, Len(l) + (k + 1) <= Len(m)
      PROVE  OnlyAdds(v, UpTo(m)[Len(l) + (k + 1)])
  <2>. DEFINE n == Len(l) + k
  <2>1. /\ Len(l) + (k + 1) = n + 1 /\ n \in 0..Len(m) /\ n + 1 \in 1..Len(m)
        /\ n + 1 > Len(l) /\ n + 1 - 1 = n
    BY <1>1, <1>4
  <2>2. OnlyAdds(v, UpTo(m)[n])
    BY <1>1, <1>4
  <2>. HIDE DEF n
  <2>3. UpTo(m)[n + 1] = ReplayEvent(UpTo(m)[n], m[n + 1]) /\ m[n + 1] \in Events
    BY <2>1, Steps
  <2>4. m[n + 1].kind = "added"
    BY <2>1
  <2>5. OnlyAdds(UpTo(m)[n], UpTo(m)[n + 1])
    BY <2>1, <2>3, <2>4, ViewsAre, EventGrows
  <2>6. OnlyAdds(v, UpTo(m)[n + 1])
    BY <2>2, <2>5 DEF OnlyAdds
  <2>. QED  BY <2>1, <2>6
<1>5. \A k \in Nat : k \in S => k + 1 \in S
  BY <1>4
<1>6. Nat \subseteq S
  <2>. HIDE DEF S
  <2>. QED  BY <1>3, <1>5, SetInduction
<1>7. PICK k \in Nat : Len(l) + k = Len(m)
  <2>1. Len(m) - Len(l) \in Nat /\ Len(l) + (Len(m) - Len(l)) = Len(m)
    BY <1>1
  <2>. QED  BY <2>1
<1>8. OnlyAdds(v, UpTo(m)[Len(m)])
  <2>1. k \in S /\ Len(l) + k <= Len(m)
    BY <1>1, <1>6, <1>7
  <2>. QED  BY <1>7, <2>1
<1>. QED  BY <1>8, Steps DEF v

\* What a view holds, as FactLife sees it.
LEMMA HeldIs ==
  ASSUME NEW l \in Seq(Events)
  PROVE  LET v == Replay(l) IN
         /\ v \in Views /\ v.expired \subseteq FactIds
         /\ \A id \in Held(v) : [fact |-> v.facts[id].fact, until |-> v.facts[id].until] \in HeldBy(l)
         /\ \A h \in HeldBy(l) :
               /\ h.fact \in Facts /\ h.fact.id \in Held(v) /\ h.until \in Nat
               /\ h = [fact |-> v.facts[h.fact.id].fact, until |-> v.facts[h.fact.id].until]
<1>. DEFINE v == Replay(l)
<1>1. v \in Views /\ Filed(v)
  <2>1. Len(l) \in 0..Len(l)
    OBVIOUS
  <2>. QED  BY <2>1, ViewsAre, Steps
<1>2. HeldBy(l) = {[fact |-> v.facts[id].fact, until |-> v.facts[id].until] : id \in Held(v)}
  BY DEF HeldBy, Held
<1>. HIDE DEF v
<1>3. v.expired \subseteq FactIds /\ \A id \in DOMAIN v.facts : v.facts[id] \in Adds
  BY <1>1 DEF Views
<1>4. ASSUME NEW h \in HeldBy(l)
      PROVE  /\ h.fact \in Facts /\ h.fact.id \in Held(v) /\ h.until \in Nat
             /\ h = [fact |-> v.facts[h.fact.id].fact, until |-> v.facts[h.fact.id].until]
  <2>1. PICK id \in Held(v) : h = [fact |-> v.facts[id].fact, until |-> v.facts[id].until]
    BY <1>2
  <2>2. h.fact = v.facts[id].fact /\ h.until = v.facts[id].until
    BY <2>1
  <2>3. v.facts[id] \in Adds /\ v.facts[id].id = id
    BY <1>1, <1>3 DEF Held, Filed
  <2>4. h.fact \in Facts /\ h.until \in Nat /\ h.fact.id = id
    BY <2>2, <2>3, AddIs DEF SoundFacts
  <2>. QED  BY <2>1, <2>4
<1>. QED  BY <1>1, <1>2, <1>3, <1>4 DEF v

LEMMA GrowsIsTell ==
  ASSUME NEW l \in Seq(Events), NEW m \in Seq(Events), Grows(Replay(l), Replay(m)),
         NEW before, NEW after, NEW gone, NEW goneNow,
         before = HeldBy(l), after = HeldBy(m),
         gone = Replay(l).expired, goneNow = Replay(m).expired
  PROVE  /\ \A h \in after \ before : /\ h.fact \in Facts /\ h.until \in Nat
                                     /\ h.fact.id \notin Life!Ids(before) \cup gone
         /\ gone \subseteq goneNow /\ goneNow \subseteq FactIds
         /\ Life!Ids(after) \cap goneNow = {}
         /\ \A g, h \in after : g.fact.id = h.fact.id => g = h
<1>. DEFINE v == Replay(l)
            w == Replay(m)
<1>. HIDE DEF v, w
<1>1. /\ \A h \in before :
            /\ h.fact \in Facts /\ h.fact.id \in Held(v) /\ h.until \in Nat
            /\ h = [fact |-> v.facts[h.fact.id].fact, until |-> v.facts[h.fact.id].until]
      /\ \A id \in Held(v) : [fact |-> v.facts[id].fact, until |-> v.facts[id].until] \in before
  BY HeldIs DEF v
<1>2. /\ w.expired \subseteq FactIds
      /\ \A h \in after :
            /\ h.fact \in Facts /\ h.fact.id \in Held(w) /\ h.until \in Nat
            /\ h = [fact |-> w.facts[h.fact.id].fact, until |-> w.facts[h.fact.id].until]
  BY HeldIs DEF w
<1>3. Grows(v, w) /\ gone = v.expired /\ goneNow = w.expired
  BY DEF v, w
<1>4. ASSUME NEW h \in after \ before
      PROVE  /\ h.fact \in Facts /\ h.until \in Nat
             /\ h.fact.id \notin Life!Ids(before) \cup gone
  <2>1. h.fact.id \notin Life!Ids(before)
    <3>1. SUFFICES ASSUME h.fact.id \in Held(v) PROVE FALSE
      BY <1>1 DEF Life!Ids
    <3>2. w.facts[h.fact.id] = v.facts[h.fact.id]
      BY <1>2, <1>3, <1>4, <3>1 DEF Grows
    <3>3. h = [fact |-> v.facts[h.fact.id].fact, until |-> v.facts[h.fact.id].until]
      BY <1>2, <1>4, <3>2
    <3>. QED  BY <1>1, <1>4, <3>1, <3>3
  <2>2. h.fact.id \notin gone
    BY <1>2, <1>3 DEF Grows, Held
  <2>. QED  BY <1>2, <2>1, <2>2
<1>5. gone \subseteq goneNow /\ goneNow \subseteq FactIds
  BY <1>2, <1>3 DEF Grows
<1>6. Life!Ids(after) \cap goneNow = {}
  BY <1>2, <1>3 DEF Life!Ids, Held
<1>7. \A g, h \in after : g.fact.id = h.fact.id => g = h
  BY <1>2
<1>. QED  BY <1>4, <1>5, <1>6, <1>7

LEMMA StepTells ==
  ASSUME TypeOK, Grows(Replay(log), Replay(log')), log' \in Seq(Events), now' = now
  PROVE  Life!Tell
<1>. DEFINE before == HeldBy(log)
            after == HeldBy(log')
            gone == Replay(log).expired
            goneNow == Replay(log').expired
<1>1. log \in Seq(Events)
  BY DEF TypeOK
<1>2. /\ \A h \in after \ before : /\ h.fact \in Facts /\ h.until \in Nat
                                   /\ h.fact.id \notin Life!Ids(before) \cup gone
      /\ gone \subseteq goneNow /\ goneNow \subseteq FactIds
      /\ Life!Ids(after) \cap goneNow = {}
      /\ \A g, h \in after : g.fact.id = h.fact.id => g = h
  BY <1>1, GrowsIsTell
<1>. HIDE DEF before, after, gone, goneNow
<1>3. \E b \in {before}, a \in {after}, g \in {gone}, gn \in {goneNow} :
        /\ \A h \in a \ b : /\ h.fact \in Facts /\ h.until \in Nat
                            /\ h.fact.id \notin Life!Ids(b) \cup g
        /\ g \subseteq gn /\ gn \subseteq FactIds
        /\ Life!Ids(a) \cap gn = {}
        /\ \A x, h \in a : x.fact.id = h.fact.id => x = h
        /\ now' = now
  BY <1>2
<1>. QED  BY <1>3 DEF Life!Tell, before, after, gone, goneNow

\* Every step of the store is one of FactLife, or changes nothing that FactLife sees:
\* a fact in force is never replaced, and a buried id is never used again.
THEOREM StoreKeepsItsPromise == Spec => KeepsItsPromise
<1>1. Init => Life!Init
  <2>. SUFFICES ASSUME Init PROVE Life!Init
    OBVIOUS
  <2>1. log = <<>> /\ <<>> \in Seq(Events) /\ Len(<<>>) = 0 /\ now = 0
    BY DEF Init
  <2>2. Replay(<<>>) = Nothing
    BY <2>1, Steps
  <2>3. HeldBy(<<>>) = {} /\ Nothing.expired = {}
    BY <2>2 DEF HeldBy, Nothing
  <2>. QED  BY <2>1, <2>2, <2>3 DEF Life!Init
<1>2. TypeOK /\ [Next]_vars => [Life!Next]_<<HeldBy(log), Replay(log).expired, now>>
  <2>. SUFFICES ASSUME TypeOK, [Next]_vars
                PROVE  Life!Next \/ UNCHANGED <<HeldBy(log), Replay(log).expired, now>>
    OBVIOUS
  <2>1. log \in Seq(Events) /\ Len(log) \in Nat /\ Len(log) <= MaxEvents
    BY DEF TypeOK
  <2>2. ASSUME NEW r \in Requests, Write(r) PROVE Life!Tell
    <3>1. Told(r, now) \in Seq(Adds)
      BY <2>2, ToldIs DEF TypeOK, Write
    <3>2. Told(r, now) \in Seq(Events) /\ \A n \in 1..Len(Told(r, now)) : Told(r, now)[n].kind = "added"
      <4>1. Adds \subseteq Events /\ \A e \in Adds : e.kind = "added"
        BY AddIs
      <4>. QED  BY <3>1, <4>1
    <3>3. log' = Appended(log, Told(r, now)) /\ now' = now
      BY <2>2 DEF Write, Told
    <3>. DEFINE m == log'
                events == Told(r, now)
    <3>4. /\ m \in Seq(Events) /\ Len(log) <= Len(m) /\ Len(m) <= Len(log) + Len(events)
          /\ \A n \in 1..Len(log) : m[n] = log[n]
          /\ \A n \in 1..Len(m) : n > Len(log) => m[n] = events[n - Len(log)]
      BY <2>1, <3>2, <3>3, AppendedIs
    <3>. HIDE DEF m, events
    <3>5. ASSUME NEW n \in 1..Len(m), n > Len(log) PROVE m[n].kind = "added"
      <4>1. Len(events) \in Nat /\ Len(m) \in Nat
        BY <3>2, <3>4 DEF events
      <4>2. n - Len(log) \in 1..Len(events)
        BY <2>1, <3>4, <3>5, <4>1
      <4>. QED  BY <3>2, <3>4, <3>5, <4>2 DEF events
    <3>6. OnlyAdds(Replay(log), Replay(m))
      BY <2>1, <3>4, <3>5, AddsKeep
    <3>7. Grows(Replay(log), Replay(m))
      BY <3>6 DEF OnlyAdds, Grows, Held
    <3>. QED  BY <3>3, <3>4, <3>7, StepTells DEF m
  <2>3. ASSUME NEW kind \in {"expired", "revoked"}, NEW id \in FactIds,
               log' = Appended(log, <<Marked(kind, id)>>), now' = now
        PROVE  Life!Tell
    <3>. DEFINE events == <<Marked(kind, id)>>
                m == log'
    <3>1. Marked(kind, id) \in Events
      BY DEF Events
    <3>2. m = Appended(log, events)
      BY <2>3
    <3>3. events \in Seq(Events) /\ Len(events) = 1
      BY <3>1
    <3>. HIDE DEF events, m
    <3>4. /\ m \in Seq(Events) /\ Len(log) <= Len(m) /\ Len(m) <= Len(log) + Len(events)
          /\ \A n \in 1..Len(log) : m[n] = log[n]
      BY <2>1, <3>2, <3>3, AppendedIs
    <3>5. UpTo(m)[Len(log)] = Replay(log)
      BY <2>1, <3>4, SamePast, Steps
    <3>6. Grows(Replay(log), Replay(m))
      <4>1. CASE Len(m) = Len(log)
        <5>1. Replay(m) = Replay(log)
          BY <3>4, <3>5, <4>1, Steps
        <5>. QED  BY <5>1 DEF Grows
      <4>2. CASE Len(m) # Len(log)
        <5>1. Len(m) = Len(log) + 1 /\ Len(m) \in 1..Len(m) /\ Len(m) - 1 = Len(log)
          BY <2>1, <3>3, <3>4, <4>2
        <5>2. Replay(m) = ReplayEvent(Replay(log), m[Len(m)]) /\ m[Len(m)] \in Events
          BY <3>4, <3>5, <5>1, Steps
        <5>3. Replay(log) \in Views /\ Filed(Replay(log))
          <6>1. Len(log) \in 0..Len(log)
            BY <2>1
          <6>. QED  BY <2>1, <6>1, ViewsAre, Steps
        <5>. QED  BY <5>2, <5>3, EventGrows
      <4>. QED  BY <4>1, <4>2
    <3>. QED  BY <2>3, <3>4, <3>6, StepTells DEF m
  <2>4. CASE Tick
    BY <2>4 DEF Tick, TypeOK, Life!Next, Life!Tick
  <2>5. CASE UNCHANGED vars
    BY <2>5 DEF vars
  <2>. QED  BY <2>2, <2>3, <2>4, <2>5 DEF Next, MarkExpired, Revoke, Life!Next
<1>. QED  BY <1>1, <1>2, TypeCorrect, PTL DEF Spec, KeepsItsPromise, Life!Spec

-----------------------------------------------------------------------------
(* The first n members of a finite set, in an order given as a relation.     *)

Orders(R, S) ==
  /\ \A a \in S : <<a, a>> \notin R
  /\ \A a, b, c \in S : <<a, b>> \in R /\ <<b, c>> \in R => <<a, c>> \in R
  /\ \A a, b \in S : a # b => <<a, b>> \in R \/ <<b, a>> \in R

Below(R, S, a) == {b \in S : <<b, a>> \in R}

First(R, S, n) == {a \in S : Cardinality(Below(R, S, a)) < n}

LEMMA BelowIs ==
  ASSUME NEW S, IsFiniteSet(S), NEW R, Orders(R, S)
  PROVE  /\ \A a \in S : IsFiniteSet(Below(R, S, a)) /\ Cardinality(Below(R, S, a)) \in Nat
         /\ \A a, b \in S : <<a, b>> \in R <=>
               Cardinality(Below(R, S, a)) < Cardinality(Below(R, S, b))
<1>. DEFINE Low(a) == Below(R, S, a)
<1>1. ASSUME NEW a \in S PROVE IsFiniteSet(Low(a)) /\ Cardinality(Low(a)) \in Nat
  <2>1. Low(a) \in SUBSET S
    BY DEF Below
  <2>. QED  BY <2>1, FS_Subset, FS_CardinalityType
<1>2. ASSUME NEW a \in S, NEW b \in S, <<a, b>> \in R
      PROVE  Cardinality(Low(a)) < Cardinality(Low(b))
  <2>1. Low(a) \cup {a} \in SUBSET Low(b) /\ a \notin Low(a)
    BY <1>2 DEF Below, Orders
  <2>2. Cardinality(Low(a) \cup {a}) = Cardinality(Low(a)) + 1
    BY <1>1, <2>1, FS_AddElement
  <2>3. Cardinality(Low(a) \cup {a}) <= Cardinality(Low(b))
    BY <1>1, <2>1, FS_Subset
  <2>. HIDE DEF Low
  <2>. QED  BY <1>1, <2>2, <2>3
<1>3. ASSUME NEW a \in S, NEW b \in S, Cardinality(Low(a)) < Cardinality(Low(b))
      PROVE  <<a, b>> \in R
  <2>1. a # b
    BY <1>1, <1>3
  <2>2. ~(<<b, a>> \in R)
    <3>1. SUFFICES ASSUME <<b, a>> \in R PROVE FALSE
      OBVIOUS
    <3>2. Cardinality(Low(b)) < Cardinality(Low(a))
      BY <1>2, <3>1
    <3>. HIDE DEF Low
    <3>. QED  BY <1>1, <1>3, <3>2
  <2>. QED  BY <2>1, <2>2 DEF Orders
<1>. QED  BY <1>1, <1>2, <1>3

\* Of a set that is not empty, one member has the most below it.
LEMMA Largest ==
  ASSUME NEW S, IsFiniteSet(S), NEW R, Orders(R, S), NEW F \in SUBSET S, F # {}
  PROVE  \E w \in F : F \ {w} \subseteq Below(R, S, w)
<1>. DEFINE c(a) == Cardinality(Below(R, S, a))
            T == {Cardinality(S) - c(a) : a \in F}
<1>1. \A a \in S : c(a) \in Nat /\ c(a) <= Cardinality(S)
  <2>1. \A a \in S : Below(R, S, a) \in SUBSET S
    BY DEF Below
  <2>. QED  BY <2>1, BelowIs, FS_Subset
<1>2. Cardinality(S) \in Nat
  BY FS_CardinalityType
<1>3. T \in SUBSET Nat /\ T # {}
  <2>. HIDE DEF c
  <2>. QED  BY <1>1, <1>2
<1>4. PICK least \in T : \A m \in T : least <= m
  <2>. HIDE DEF T
  <2>. QED  BY <1>3, Least
<1>5. PICK w \in F : least = Cardinality(S) - c(w)
  BY <1>4
<1>6. \A a \in F : c(a) <= c(w)
  <2>. HIDE DEF c
  <2>. QED  BY <1>1, <1>2, <1>4, <1>5
<1>7. ASSUME NEW a \in F \ {w} PROVE <<a, w>> \in R
  <2>1. ~(<<w, a>> \in R)
    <3>1. SUFFICES ASSUME <<w, a>> \in R PROVE FALSE
      OBVIOUS
    <3>2. c(w) < c(a)
      BY <3>1, BelowIs
    <3>. HIDE DEF c
    <3>. QED  BY <1>1, <1>6, <3>2
  <2>. QED  BY <2>1 DEF Orders
<1>. QED  BY <1>7 DEF Below

\* Of a set that is not empty, one member has none of it below.
LEMMA Smallest ==
  ASSUME NEW S, IsFiniteSet(S), NEW R, Orders(R, S), NEW F \in SUBSET S, F # {}
  PROVE  \E w \in F : \A a \in F : ~(<<a, w>> \in R)
<1>. DEFINE c(a) == Cardinality(Below(R, S, a))
            T == {c(a) : a \in F}
<1>1. \A a \in S : c(a) \in Nat
  BY BelowIs
<1>2. T \in SUBSET Nat /\ T # {}
  <2>. HIDE DEF c
  <2>. QED  BY <1>1
<1>3. PICK least \in T : \A m \in T : least <= m
  <2>. HIDE DEF T
  <2>. QED  BY <1>2, Least
<1>4. PICK w \in F : least = c(w)
  BY <1>3
<1>5. \A a \in F : ~(c(a) < c(w))
  <2>. HIDE DEF c
  <2>. QED  BY <1>1, <1>3, <1>4
<1>. QED  BY <1>5, BelowIs

\* The first n are n, or fewer if there are fewer, and before all the others.
LEMMA FirstAre ==
  ASSUME NEW S, IsFiniteSet(S), NEW R, Orders(R, S), NEW n \in Nat
  PROVE  /\ IsFiniteSet(First(R, S, n)) /\ Cardinality(First(R, S, n)) \in Nat
         /\ Cardinality(First(R, S, n)) <= n
         /\ Cardinality(S) >= n => Cardinality(First(R, S, n)) = n
         /\ \A a \in First(R, S, n), b \in S \ First(R, S, n) : <<a, b>> \in R
<1>. DEFINE c(a) == Cardinality(Below(R, S, a))
<1>1. \A a \in S : c(a) \in Nat
  BY BelowIs
<1>2. ASSUME NEW k \in Nat
      PROVE  /\ First(R, S, k) \in SUBSET S /\ IsFiniteSet(First(R, S, k))
             /\ Cardinality(First(R, S, k)) \in Nat
  <2>1. First(R, S, k) \in SUBSET S
    BY DEF First
  <2>. QED  BY <2>1, FS_Subset, FS_CardinalityType
<1>3. ASSUME NEW k \in Nat PROVE Cardinality(First(R, S, k)) <= k
  <2>. DEFINE F == First(R, S, k)
  <2>1. CASE F = {}
    BY <2>1, FS_EmptySet
  <2>2. CASE F # {}
    <3>1. PICK w \in F : F \ {w} \subseteq Below(R, S, w)
      BY <1>2, <2>2, Largest
    <3>2. w \in S /\ c(w) < k
      BY DEF First
    <3>3. Cardinality(F \ {w}) <= c(w)
      BY <3>1, <3>2, BelowIs, FS_Subset
    <3>4. Cardinality(F \ {w}) = Cardinality(F) - 1
      BY <1>2, FS_RemoveElement
    <3>. HIDE DEF F, c
    <3>5. Cardinality(F) \in Nat
      BY <1>2 DEF F
    <3>6. Cardinality(F) <= k
      BY <1>1, <3>2, <3>3, <3>4, <3>5
    <3>. QED  BY <3>6 DEF F
  <2>. QED  BY <2>1, <2>2
<1>4. ASSUME NEW a \in First(R, S, n), NEW b \in S \ First(R, S, n) PROVE <<a, b>> \in R
  <2>1. a \in S /\ c(a) < n /\ ~(c(b) < n)
    BY DEF First
  <2>2. c(a) < c(b)
    <3>. HIDE DEF c
    <3>. QED  BY <1>1, <2>1
  <2>. QED  BY <2>1, <2>2, BelowIs
<1>. DEFINE T == {k \in Nat : Cardinality(S) >= k => Cardinality(First(R, S, k)) >= k}
<1>5. 0 \in T
  BY <1>2
<1>6. ASSUME NEW k \in Nat, k \in T, Cardinality(S) >= k + 1
      PROVE  Cardinality(First(R, S, k + 1)) >= k + 1
  <2>. DEFINE F == First(R, S, k)
              G == First(R, S, k + 1)
  <2>1. Cardinality(S) \in Nat /\ k + 1 \in Nat
    BY FS_CardinalityType
  <2>2. Cardinality(F) = k
    <3>1. Cardinality(F) >= k
      BY <1>6, <2>1
    <3>. QED  BY <1>2, <1>3, <3>1
  <2>3. S \ F # {}
    <3>1. SUFFICES ASSUME S \ F = {} PROVE FALSE
      OBVIOUS
    <3>2. F = S
      BY <1>2, <3>1
    <3>. HIDE DEF F
    <3>. QED  BY <1>6, <2>1, <2>2, <3>2
  <2>4. PICK w \in S \ F : \A a \in S \ F : ~(<<a, w>> \in R)
    BY <2>3, Smallest
  <2>5. Below(R, S, w) \in SUBSET F
    BY <2>4 DEF Below
  <2>6. c(w) <= k
    BY <1>2, <2>2, <2>5, FS_Subset
  <2>7. F \cup {w} \in SUBSET G
    <3>1. \A a \in S : c(a) < k => c(a) < k + 1
      <4>. HIDE DEF c
      <4>. QED  BY <1>1
    <3>2. c(w) < k + 1
      <4>. HIDE DEF c
      <4>. QED  BY <1>1, <2>6
    <3>. QED  BY <3>1, <3>2 DEF First
  <2>8. Cardinality(F \cup {w}) = k + 1
    BY <1>2, <2>2, FS_AddElement
  <2>9. Cardinality(F \cup {w}) <= Cardinality(G)
    BY <1>2, <2>1, <2>7, FS_Subset
  <2>. HIDE DEF F, G
  <2>10. Cardinality(G) \in Nat
    BY <1>2, <2>1 DEF G
  <2>11. Cardinality(G) >= k + 1
    BY <2>8, <2>9, <2>10
  <2>. QED  BY <2>11 DEF G
<1>7. Nat \subseteq T
  <2>1. \A k \in Nat : k \in T => k + 1 \in T
    BY <1>6
  <2>. HIDE DEF T
  <2>. QED  BY <1>5, <2>1, SetInduction
<1>8. Cardinality(S) >= n => Cardinality(First(R, S, n)) >= n
  BY <1>7
<1>. QED  BY <1>2, <1>3, <1>4, <1>8

-----------------------------------------------------------------------------
(* The caps of the store.                                                    *)

Ranks(v, ids) == {p \in ids \X ids : Better(v.facts[p[1]].fact, v.facts[p[2]].fact)}

BetterThan(v, ids, a) == {b \in ids : Better(v.facts[b].fact, v.facts[a].fact)}

AreBest(v, ids, n, best) ==
  /\ IsFiniteSet(ids) /\ best \in SUBSET ids
  /\ Cardinality(best) \in Nat /\ Cardinality(best) <= n
  /\ Cardinality(ids) >= n => Cardinality(best) = n
  /\ \A a \in best, b \in ids \ best : Better(v.facts[a].fact, v.facts[b].fact)
  /\ \A a \in ids \ best : Cardinality(BetterThan(v, ids, a)) >= n

LEMMA BestAre ==
  ASSUME NEW v \in Views, Filed(v), NEW ids \in SUBSET DOMAIN v.facts, NEW n \in Nat,
         NEW best, best = Best(v, ids, n)
  PROVE  AreBest(v, ids, n, best)
<1>. DEFINE R == Ranks(v, ids)
<1>1. IsFiniteSet(ids)
  BY FS_Subset DEF Filed
<1>2. \A a, b \in ids : <<b, a>> \in R <=> Better(v.facts[b].fact, v.facts[a].fact)
  BY DEF Ranks
<1>3. \A a \in ids : v.facts[a].fact.id = a /\ v.facts[a].fact.rank \in Nat /\ a \in Nat
  <2>1. \A a \in ids : v.facts[a] \in Adds /\ v.facts[a].id = a
    BY DEF Views, Filed
  <2>2. \A e \in Adds : /\ e.fact.id = e.id /\ e.id \in Nat
                        /\ e.fact.rank \in Nat
    <3>1. \A e \in Adds : e.fact.id = e.id /\ e.id \in FactIds /\ e.fact \in Facts
      BY AddIs DEF SoundFacts
    <3>. QED  BY <3>1, MemorySettings
  <2>. QED  BY <2>1, <2>2
<1>. HIDE DEF R
<1>4. Orders(R, ids)
  BY <1>2, <1>3 DEF Orders, Better
<1>5. \A a \in ids : Below(R, ids, a) = BetterThan(v, ids, a)
  BY <1>2 DEF Below, BetterThan
<1>6. best = First(R, ids, n)
  BY <1>5 DEF Best, First, BetterThan
<1>7. \A a \in ids \ best : Cardinality(Below(R, ids, a)) >= n
  <2>1. \A a \in ids : Cardinality(Below(R, ids, a)) \in Nat
    BY <1>1, <1>4, BelowIs
  <2>. QED  BY <1>6, <2>1 DEF First
<1>8. best \in SUBSET ids
  BY <1>6 DEF First
<1>9. /\ Cardinality(best) \in Nat /\ Cardinality(best) <= n
      /\ Cardinality(ids) >= n => Cardinality(best) = n
      /\ \A a \in best, b \in ids \ best : <<a, b>> \in R
  BY <1>1, <1>4, <1>6, FirstAre
<1>. QED  BY <1>1, <1>2, <1>5, <1>7, <1>8, <1>9 DEF AreBest

LEMMA CapsAre == TypeOK => CapsKeepTheBest
<1>. SUFFICES ASSUME TypeOK PROVE CapsKeepTheBest
  OBVIOUS
<1>. DEFINE v == Replay(log)
            active == Active(v, now)
            OfCat(ids, a) == SameCategory(v, ids, a)
            limited == {a \in active : a \in Best(v, OfCat(active, a), PerCategory)}
            kept == Best(v, limited, Total)
            better(ids, a) == BetterThan(v, ids, a)
<1>1. v \in Views /\ Filed(v)
  <2>1. log \in Seq(Events) /\ Len(log) \in 0..Len(log)
    BY DEF TypeOK
  <2>. QED  BY <2>1, ViewsAre, Steps
<1>2. View(log, now) = kept /\ Dropped(log, now) = active \ kept
  BY DEF View, Dropped, Capped
<1>3. PerCategory \in Nat /\ Total \in Nat
  BY MemorySettings
<1>4. active \in SUBSET DOMAIN v.facts
  BY DEF Active
<1>. HIDE DEF v, active
<1>5. \A a \in active : OfCat(active, a) \in SUBSET DOMAIN v.facts
  BY <1>4 DEF SameCategory
<1>6. limited \in SUBSET DOMAIN v.facts
  BY <1>4
<1>6a. kept = Best(v, limited, Total)
  OBVIOUS
<1>. HIDE DEF limited, kept
<1>7. /\ IsFiniteSet(limited) /\ kept \in SUBSET limited
      /\ Cardinality(kept) \in Nat /\ Cardinality(kept) <= Total
      /\ Cardinality(limited) >= Total => Cardinality(kept) = Total
      /\ \A a \in kept, b \in limited \ kept : Better(v.facts[a].fact, v.facts[b].fact)
      /\ \A a \in limited \ kept : Cardinality(better(limited, a)) >= Total
  <2>1. AreBest(v, limited, Total, kept)
    BY <1>1, <1>3, <1>6, <1>6a, BestAre
  <2>. QED  BY <2>1 DEF AreBest
<1>8. ASSUME NEW a \in kept PROVE Cardinality(OfCat(kept, a)) <= PerCategory
  <2>. DEFINE cat == OfCat(active, a)
              best == Best(v, cat, PerCategory)
  <2>1. a \in active
    BY <1>7, <1>8 DEF limited
  <2>2. \A b \in OfCat(kept, a) : b \in active /\ OfCat(active, b) = cat
    BY <1>7, <1>8 DEF limited, SameCategory
  <2>3. OfCat(kept, a) \in SUBSET best
    BY <1>7, <2>2 DEF limited, SameCategory
  <2>. HIDE DEF cat
  <2>4. cat \in SUBSET DOMAIN v.facts
    BY <1>5, <2>1 DEF cat
  <2>5. /\ IsFiniteSet(cat) /\ best \in SUBSET cat
        /\ Cardinality(best) \in Nat /\ Cardinality(best) <= PerCategory
    BY <1>1, <1>3, <2>4, BestAre DEF AreBest
  <2>. HIDE DEF best
  <2>. DEFINE mine == OfCat(kept, a)
  <2>6. IsFiniteSet(best)
    BY <2>5, FS_Subset
  <2>7. Cardinality(mine) <= Cardinality(best) /\ Cardinality(mine) \in Nat
    BY <2>3, <2>6, FS_Subset, FS_CardinalityType
  <2>. HIDE DEF mine
  <2>8. Cardinality(mine) <= PerCategory
    BY <1>3, <2>5, <2>7
  <2>. QED  BY <2>8 DEF mine
<1>9. ASSUME NEW a \in active \ kept
      PROVE  \/ Cardinality(better(OfCat(active, a), a)) >= PerCategory
             \/ Cardinality(better(kept, a)) = Total
  <2>1. CASE a \notin limited
    <3>. DEFINE cat == OfCat(active, a)
    <3>1. a \in cat /\ a \notin Best(v, cat, PerCategory)
      BY <1>9, <2>1 DEF limited, SameCategory
    <3>2. cat \in SUBSET DOMAIN v.facts
      BY <1>5, <1>9
    <3>. HIDE DEF cat
    <3>3. Cardinality(better(cat, a)) >= PerCategory
      BY <1>1, <1>3, <3>1, <3>2, BestAre DEF AreBest
    <3>. QED  BY <3>3 DEF cat
  <2>2. CASE a \in limited
    <3>1. better(kept, a) = kept
      BY <1>7, <1>9, <2>2 DEF BetterThan
    <3>2. Cardinality(limited) >= Total
      <4>. DEFINE ahead == better(limited, a)
      <4>1. Cardinality(ahead) >= Total
        BY <1>7, <1>9, <2>2
      <4>2. Cardinality(ahead) \in Nat /\ Cardinality(limited) \in Nat
             /\ Cardinality(ahead) <= Cardinality(limited)
        <5>1. ahead \in SUBSET limited
          BY DEF BetterThan
        <5>. QED  BY <1>7, <5>1, FS_Subset, FS_CardinalityType
      <4>. HIDE DEF ahead
      <4>. QED  BY <1>3, <4>1, <4>2
    <3>. QED  BY <1>7, <3>1, <3>2
  <2>. QED  BY <2>1, <2>2
<1>10. /\ Cardinality(kept) <= Total
       /\ \A a \in kept : Cardinality(OfCat(kept, a)) <= PerCategory
       /\ \A a \in active \ kept :
             \/ Cardinality(better(OfCat(active, a), a)) >= PerCategory
             \/ Cardinality(better(kept, a)) = Total
  BY <1>7, <1>8, <1>9
<1>. QED  BY <1>2, <1>10, Zenon DEF CapsKeepTheBest, BetterThan, v, active

-----------------------------------------------------------------------------
(* The characters of a set of facts.                                         *)

One(T) == CHOOSE x \in T : TRUE

\* g gives the characters of each set of D.
Counts(g, D) ==
  g = [T \in D |-> IF T = {} THEN 0 ELSE One(T).chars + g[T \ {One(T)}]]

UpToSize(S, k) == {T \in SUBSET S : Cardinality(T) <= k}

LEMMA CountsExist ==
  ASSUME NEW S, IsFiniteSet(S)
  PROVE  \E g : Counts(g, SUBSET S)
<1>. DEFINE N == {k \in Nat : \E g : Counts(g, UpToSize(S, k))}
<1>1. \A T \in SUBSET S : IsFiniteSet(T) /\ Cardinality(T) \in Nat /\ Cardinality(T) <= Cardinality(S)
  BY FS_Subset, FS_CardinalityType
<1>2. \A T \in SUBSET S : T # {} => Cardinality(T \ {One(T)}) = Cardinality(T) - 1
  BY <1>1, FS_RemoveElement DEF One
<1>3. \A T \in SUBSET S : T = {} <=> Cardinality(T) = 0
  BY <1>1, FS_EmptySet
<1>4. 0 \in N
  <2>1. UpToSize(S, 0) = {{}}
    BY <1>1, <1>3 DEF UpToSize
  <2>. DEFINE g == [T \in UpToSize(S, 0) |-> 0]
  <2>2. Counts(g, UpToSize(S, 0))
    BY <2>1 DEF Counts
  <2>. QED  BY <2>2
<1>5. ASSUME NEW k \in Nat, k \in N PROVE k + 1 \in N
  <2>1. PICK g : Counts(g, UpToSize(S, k))
    BY <1>5
  <2>. DEFINE D == UpToSize(S, k + 1)
              h == [T \in D |-> IF Cardinality(T) = k + 1
                                THEN One(T).chars + g[T \ {One(T)}] ELSE g[T]]
  <2>2. ASSUME NEW T \in D
        PROVE  h[T] = IF T = {} THEN 0 ELSE One(T).chars + h[T \ {One(T)}]
    <3>. DEFINE U == T \ {One(T)}
    <3>1. T \in SUBSET S /\ Cardinality(T) \in Nat /\ Cardinality(T) <= k + 1
      BY <1>1 DEF UpToSize
    <3>2. CASE T = {}
      <4>1. Cardinality(T) = 0 /\ T \in UpToSize(S, k)
        BY <1>3, <3>1, <3>2 DEF UpToSize
      <4>2. h[T] = g[T] /\ g[T] = 0
        BY <2>1, <3>2, <4>1 DEF Counts
      <4>. QED  BY <3>2, <4>2
    <3>3. CASE T # {}
      <4>1. U \in SUBSET S /\ Cardinality(U) = Cardinality(T) - 1
        BY <1>2, <3>1, <3>3
      <4>. HIDE DEF U
      <4>2. Cardinality(U) # k + 1 /\ Cardinality(U) <= k
        BY <3>1, <4>1
      <4>3. U \in D /\ U \in UpToSize(S, k)
        BY <3>1, <4>1, <4>2 DEF UpToSize
      <4>4. h[U] = g[U]
        BY <4>2, <4>3
      <4>5. h[T] = One(T).chars + g[U]
        <5>1. CASE Cardinality(T) = k + 1
          BY <5>1 DEF U
        <5>2. CASE Cardinality(T) # k + 1
          <6>1. T \in UpToSize(S, k)
            BY <3>1, <5>2 DEF UpToSize
          <6>2. g[T] = One(T).chars + g[U]
            BY <2>1, <3>3, <6>1 DEF Counts, U
          <6>. QED  BY <5>2, <6>2
        <5>. QED  BY <5>1, <5>2
      <4>. QED  BY <3>3, <4>4, <4>5 DEF U
    <3>. QED  BY <3>2, <3>3
  <2>3. Counts(h, D)
    BY <2>2 DEF Counts
  <2>. HIDE DEF h
  <2>. QED  BY <2>3
<1>6. Nat \subseteq N
  <2>. HIDE DEF N
  <2>. QED  BY <1>4, <1>5, SetInduction
<1>7. UpToSize(S, Cardinality(S)) = SUBSET S
  BY <1>1 DEF UpToSize
<1>8. Cardinality(S) \in Nat
  BY FS_CardinalityType
<1>. QED  BY <1>6, <1>7, <1>8

CharsOf(S) == CHOOSE g : Counts(g, SUBSET S)

LEMMA TotalIs ==
  ASSUME NEW S, IsFiniteSet(S)
  PROVE  Counts(CharsOf(S), SUBSET S) /\ TotalChars(S) = CharsOf(S)[S]
<1>1. Counts(CharsOf(S), SUBSET S)
  BY CountsExist DEF CharsOf
<1>2. CharsOf(S) = CHOOSE g : g = [T \in SUBSET S |->
                      IF T = {} THEN 0
                      ELSE (CHOOSE x \in T : TRUE).chars + g[T \ {CHOOSE x \in T : TRUE}]]
  BY DEF CharsOf, Counts, One
<1>3. TotalChars(S) = CharsOf(S)[S]
  BY <1>2 DEF TotalChars, MapThenSumSet, MapThenFoldSet
<1>. QED  BY <1>1, <1>3

LEMMA CharsAgree ==
  ASSUME NEW S, IsFiniteSet(S), NEW U \in SUBSET S
  PROVE  IsFiniteSet(U) /\ TotalChars(U) = CharsOf(S)[U]
<1>. DEFINE g == CharsOf(U)
            h == CharsOf(S)
            N == {k \in Nat : \A T \in SUBSET U : Cardinality(T) = k => g[T] = h[T]}
<1>1. IsFiniteSet(U)
  BY FS_Subset
<1>2. \A T \in SUBSET U : IsFiniteSet(T) /\ Cardinality(T) \in Nat
  BY <1>1, FS_Subset, FS_CardinalityType
<1>3. Counts(g, SUBSET U) /\ Counts(h, SUBSET S)
  BY <1>1, TotalIs
<1>. HIDE DEF g, h
<1>4. ASSUME NEW T \in SUBSET U
      PROVE  /\ g[T] = IF T = {} THEN 0 ELSE One(T).chars + g[T \ {One(T)}]
             /\ h[T] = IF T = {} THEN 0 ELSE One(T).chars + h[T \ {One(T)}]
  <2>1. T \in SUBSET S
    OBVIOUS
  <2>. QED  BY <1>3, <2>1 DEF Counts
<1>5. 0 \in N
  <2>1. \A T \in SUBSET U : Cardinality(T) = 0 => T = {}
    BY <1>2, FS_EmptySet
  <2>. QED  BY <1>4, <2>1
<1>6. ASSUME NEW k \in Nat, k \in N, NEW T \in SUBSET U, Cardinality(T) = k + 1
      PROVE  g[T] = h[T]
  <2>. DEFINE V == T \ {One(T)}
  <2>1. T # {}
    BY <1>6, FS_EmptySet
  <2>2. V \in SUBSET U /\ Cardinality(V) = Cardinality(T) - 1
    BY <1>2, <2>1, FS_RemoveElement DEF One
  <2>3. Cardinality(V) = k
    BY <1>6, <2>2
  <2>4. g[V] = h[V]
    BY <1>6, <2>2, <2>3
  <2>. QED  BY <1>4, <2>1, <2>4
<1>7. Nat \subseteq N
  <2>1. \A k \in Nat : k \in N => k + 1 \in N
    BY <1>6
  <2>. HIDE DEF N
  <2>. QED  BY <1>5, <2>1, SetInduction
<1>8. g[U] = h[U]
  <2>1. Cardinality(U) \in N
    BY <1>2, <1>7
  <2>. QED  BY <2>1
<1>. QED  BY <1>1, <1>8, TotalIs DEF g, h

LEMMA TotalStep ==
  ASSUME NEW S, IsFiniteSet(S)
  PROVE  TotalChars(S) = IF S = {} THEN 0 ELSE One(S).chars + TotalChars(S \ {One(S)})
<1>1. Counts(CharsOf(S), SUBSET S) /\ TotalChars(S) = CharsOf(S)[S]
  BY TotalIs
<1>2. TotalChars(S) = IF S = {} THEN 0 ELSE One(S).chars + CharsOf(S)[S \ {One(S)}]
  <2>1. S \in SUBSET S
    OBVIOUS
  <2>. QED  BY <1>1, <2>1 DEF Counts
<1>3. TotalChars(S \ {One(S)}) = CharsOf(S)[S \ {One(S)}]
  <2>1. S \ {One(S)} \in SUBSET S
    OBVIOUS
  <2>. QED  BY <2>1, CharsAgree
<1>. QED  BY <1>2, <1>3

LEMMA TotalType ==
  ASSUME Reads # {}, NEW S \in SUBSET Facts, IsFiniteSet(S)
  PROVE  TotalChars(S) \in Nat
<1>. DEFINE N == {k \in Nat : \A T \in SUBSET Facts :
                     IsFiniteSet(T) /\ Cardinality(T) = k => TotalChars(T) \in Nat}
<1>1. 0 \in N
  <2>1. \A T \in SUBSET Facts : IsFiniteSet(T) /\ Cardinality(T) = 0 => T = {}
    BY FS_EmptySet
  <2>2. TotalChars({}) = 0
    BY FS_EmptySet, TotalStep
  <2>. QED  BY <2>1, <2>2
<1>2. ASSUME NEW k \in Nat, k \in N,
             NEW T \in SUBSET Facts, IsFiniteSet(T), Cardinality(T) = k + 1
      PROVE  TotalChars(T) \in Nat
  <2>. DEFINE c == One(T)
  <2>1. T # {}
    BY <1>2, FS_EmptySet
  <2>2. c \in T
    BY <2>1 DEF One
  <2>3. TotalChars(T) = c.chars + TotalChars(T \ {c})
    BY <1>2, <2>1, TotalStep
  <2>. HIDE DEF c
  <2>4. T \ {c} \in SUBSET Facts /\ IsFiniteSet(T \ {c}) /\ Cardinality(T \ {c}) = k
    <3>1. IsFiniteSet(T \ {c}) /\ Cardinality(T \ {c}) = Cardinality(T) - 1
      BY <1>2, <2>2, FS_RemoveElement
    <3>2. T \ {c} \in SUBSET Facts
      OBVIOUS
    <3>. QED  BY <1>2, <3>1, <3>2
  <2>5. c.chars \in Nat /\ TotalChars(T \ {c}) \in Nat
    BY <1>2, <2>2, <2>4, ReadSettings
  <2>. QED  BY <2>3, <2>5
<1>3. \A k \in Nat : k \in N => k + 1 \in N
  BY <1>2
<1>4. Nat \subseteq N
  <2>. HIDE DEF N
  <2>. QED  BY <1>1, <1>3, SetInduction
<1>5. Cardinality(S) \in N
  BY <1>4, FS_CardinalityType
<1>. QED  BY <1>5

\* The sum does not depend on the order the facts are taken in.
LEMMA TotalOfAny ==
  ASSUME Reads # {}, NEW S \in SUBSET Facts, IsFiniteSet(S), NEW x \in S
  PROVE  TotalChars(S) = x.chars + TotalChars(S \ {x})
<1>. DEFINE N == {k \in Nat : \A T \in SUBSET Facts : IsFiniteSet(T) /\ Cardinality(T) = k =>
                     \A y \in T : TotalChars(T) = y.chars + TotalChars(T \ {y})}
<1>1. 0 \in N
  BY FS_EmptySet
<1>2. ASSUME NEW k \in Nat, k \in N,
             NEW T \in SUBSET Facts, IsFiniteSet(T), Cardinality(T) = k + 1, NEW y \in T
      PROVE  TotalChars(T) = y.chars + TotalChars(T \ {y})
  <2>. DEFINE c == One(T)
              rest == (T \ {c}) \ {y}
  <2>1. TotalChars(T) = c.chars + TotalChars(T \ {c}) /\ c \in T
    BY <1>2, TotalStep DEF One
  <2>. HIDE DEF c
  <2>2. CASE y = c
    BY <2>1, <2>2
  <2>3. CASE y # c
    <3>1. rest = (T \ {y}) \ {c} /\ y \in T \ {c} /\ c \in T \ {y}
      BY <2>1, <2>3
    <3>2. /\ T \ {c} \in SUBSET Facts /\ IsFiniteSet(T \ {c}) /\ Cardinality(T \ {c}) = k
          /\ T \ {y} \in SUBSET Facts /\ IsFiniteSet(T \ {y}) /\ Cardinality(T \ {y}) = k
      <4>1. /\ IsFiniteSet(T \ {c}) /\ Cardinality(T \ {c}) = Cardinality(T) - 1
            /\ IsFiniteSet(T \ {y}) /\ Cardinality(T \ {y}) = Cardinality(T) - 1
        BY <1>2, <2>1, FS_RemoveElement
      <4>2. T \ {c} \in SUBSET Facts /\ T \ {y} \in SUBSET Facts
        OBVIOUS
      <4>. QED  BY <1>2, <4>1, <4>2
    <3>3. rest \in SUBSET Facts /\ IsFiniteSet(rest)
      BY <3>2, FS_RemoveElement
    <3>4. TotalChars(T \ {c}) = y.chars + TotalChars((T \ {c}) \ {y})
      BY <1>2, <3>1, <3>2
    <3>5. TotalChars(T \ {y}) = c.chars + TotalChars((T \ {y}) \ {c})
      BY <1>2, <3>1, <3>2
    <3>6. TotalChars(rest) \in Nat /\ c.chars \in Nat /\ y.chars \in Nat
      BY <2>1, <3>3, TotalType, ReadSettings
    <3>7. TotalChars(T \ {c}) = y.chars + TotalChars(rest)
      BY <3>4
    <3>8. TotalChars(T \ {y}) = c.chars + TotalChars(rest)
      BY <3>1, <3>5
    <3>. HIDE DEF rest
    <3>. QED  BY <2>1, <3>6, <3>7, <3>8
  <2>. QED  BY <2>2, <2>3
<1>3. \A k \in Nat : k \in N => k + 1 \in N
  BY <1>2
<1>4. Nat \subseteq N
  <2>. HIDE DEF N
  <2>. QED  BY <1>1, <1>3, SetInduction
<1>5. Cardinality(S) \in N
  BY <1>4, FS_CardinalityType
<1>. QED  BY <1>5

LEMMA TotalGrows ==
  ASSUME Reads # {}, NEW S \in SUBSET Facts, IsFiniteSet(S), NEW U \in SUBSET S
  PROVE  TotalChars(U) <= TotalChars(S)
<1>. DEFINE N == {k \in Nat : \A T \in SUBSET S : U \subseteq T /\ Cardinality(T) = k =>
                                  TotalChars(U) <= TotalChars(T)}
<1>1. \A T \in SUBSET S : /\ T \in SUBSET Facts /\ IsFiniteSet(T)
                          /\ Cardinality(T) \in Nat /\ TotalChars(T) \in Nat
  BY FS_Subset, FS_CardinalityType, TotalType
<1>2. 0 \in N
  <2>1. ASSUME NEW T \in SUBSET S, U \subseteq T, Cardinality(T) = 0 PROVE U = T
    BY <1>1, <2>1, FS_EmptySet
  <2>. QED  BY <1>1, <2>1
<1>3. ASSUME NEW k \in Nat, k \in N, NEW T \in SUBSET S, U \subseteq T, Cardinality(T) = k + 1
      PROVE  TotalChars(U) <= TotalChars(T)
  <2>1. CASE U = T
    BY <1>1, <2>1
  <2>2. CASE U # T
    <3>1. PICK x \in T : x \notin U
      BY <1>3, <2>2
    <3>2. T \ {x} \in SUBSET S /\ U \subseteq T \ {x} /\ Cardinality(T \ {x}) = k
      BY <1>1, <1>3, <3>1, FS_RemoveElement
    <3>3. TotalChars(U) <= TotalChars(T \ {x})
      BY <1>3, <3>2
    <3>4. TotalChars(T) = x.chars + TotalChars(T \ {x}) /\ x.chars \in Nat
      BY <1>1, TotalOfAny, ReadSettings
    <3>. QED  BY <1>1, <3>2, <3>3, <3>4
  <2>. QED  BY <2>1, <2>2
<1>4. \A k \in Nat : k \in N => k + 1 \in N
  BY <1>3
<1>5. Nat \subseteq N
  <2>. HIDE DEF N
  <2>. QED  BY <1>2, <1>4, SetInduction
<1>6. Cardinality(S) \in N
  BY <1>1, <1>5
<1>. QED  BY <1>6

-----------------------------------------------------------------------------
(* The caps of a read.                                                       *)

Places(S) == {p \in S \X S : p[1].place < p[2].place}

LEMMA PlacesOrder ==
  ASSUME Reads # {}, NEW S \in SUBSET Facts
  PROVE  /\ Orders(Places(S), S)
         /\ \A f \in S : Before(S, f) = Below(Places(S), S, f)
<1>1. \A f, g \in S : <<f, g>> \in Places(S) <=> f.place < g.place
  BY DEF Places
<1>2. \A f, g \in S : f.place \in Nat /\ (f.place = g.place => f = g)
  BY ReadSettings
<1>3. Orders(Places(S), S)
  BY <1>1, <1>2 DEF Orders
<1>. QED  BY <1>1, <1>3 DEF Before, Below

LEMMA FirstFactsAre ==
  ASSUME Reads # {}, NEW S \in SUBSET Facts, IsFiniteSet(S), NEW n \in Nat,
         NEW T, T = FirstFacts(S, n)
  PROVE  /\ T \in SUBSET S /\ IsFiniteSet(T) /\ Cardinality(T) \in Nat
         /\ Cardinality(T) <= n /\ (T # S => Cardinality(T) = n)
         /\ \A f \in T, g \in S \ T : f.place < g.place
<1>1. T = First(Places(S), S, n)
  BY PlacesOrder DEF FirstFacts, First
<1>2. T \in SUBSET S
  BY DEF FirstFacts
<1>3. /\ IsFiniteSet(T) /\ Cardinality(T) \in Nat /\ Cardinality(T) <= n
      /\ Cardinality(S) >= n => Cardinality(T) = n
      /\ \A f \in T, g \in S \ T : <<f, g>> \in Places(S)
  BY <1>1, PlacesOrder, FirstAre
<1>4. ASSUME T # S PROVE Cardinality(T) = n
  <2>1. PICK f \in S : f \notin T
    BY <1>2, <1>4
  <2>2. Before(S, f) \in SUBSET S
    BY DEF Before
  <2>3. /\ Cardinality(Before(S, f)) \in Nat /\ Cardinality(S) \in Nat
        /\ Cardinality(Before(S, f)) <= Cardinality(S)
    BY <2>2, FS_Subset, FS_CardinalityType
  <2>4. Cardinality(Before(S, f)) >= n
    BY <2>1, <2>3 DEF FirstFacts
  <2>. QED  BY <1>3, <2>3, <2>4
<1>5. \A f \in T, g \in S \ T : f.place < g.place
  BY <1>3 DEF Places
<1>. QED  BY <1>2, <1>3, <1>4, <1>5

LEMMA WithinAre ==
  ASSUME Reads # {}, NEW S \in SUBSET Facts, IsFiniteSet(S), NEW n \in Nat,
         NEW T, T = WithinChars(S, n)
  PROVE  /\ T \in SUBSET S /\ TotalChars(T) <= n
         /\ \A f \in S, g \in T : f.place < g.place => f \in T
<1>. DEFINE UpToFact(f) == Before(S, f) \cup {f}
<1>1. T \in SUBSET S /\ \A f \in S : f \in T <=> TotalChars(UpToFact(f)) <= n
  BY DEF WithinChars
<1>2. ASSUME NEW f \in S
      PROVE  UpToFact(f) \in SUBSET Facts /\ IsFiniteSet(UpToFact(f)) /\ TotalChars(UpToFact(f)) \in Nat
  <2>1. UpToFact(f) \in SUBSET S
    BY DEF Before
  <2>2. IsFiniteSet(UpToFact(f))
    BY <2>1, FS_Subset
  <2>. HIDE DEF UpToFact
  <2>. QED  BY <2>1, <2>2, TotalType
<1>3. ASSUME NEW f \in S, NEW g \in T, f.place < g.place PROVE f \in T
  <2>1. f.place \in Nat /\ g.place \in Nat /\ \A h \in S : h.place \in Nat
    BY <1>1, ReadSettings
  <2>2. UpToFact(f) \in SUBSET UpToFact(g)
    BY <1>3, <2>1 DEF Before
  <2>. HIDE DEF UpToFact
  <2>3. TotalChars(UpToFact(f)) <= TotalChars(UpToFact(g)) /\ TotalChars(UpToFact(g)) <= n
    BY <1>1, <1>2, <2>2, TotalGrows
  <2>. QED  BY <1>1, <1>2, <2>3
<1>4. TotalChars(T) <= n
  <2>1. CASE T = {}
    BY <2>1, FS_EmptySet, TotalStep
  <2>2. CASE T # {}
    <3>1. PICK w \in T : T \ {w} \subseteq Below(Places(S), S, w)
      BY <1>1, <2>2, PlacesOrder, Largest
    <3>2. T \in SUBSET UpToFact(w)
      BY <1>1, <3>1, PlacesOrder
    <3>. HIDE DEF UpToFact
    <3>3. TotalChars(T) <= TotalChars(UpToFact(w)) /\ TotalChars(UpToFact(w)) <= n
      BY <1>1, <1>2, <3>2, TotalGrows
    <3>4. TotalChars(T) \in Nat
      BY <1>1, FS_Subset, TotalType
    <3>. QED  BY <1>1, <1>2, <3>3, <3>4
  <2>. QED  BY <2>1, <2>2
<1>. QED  BY <1>1, <1>3, <1>4

LEMMA ApplyCapsAre ==
  ASSUME NEW S \in SUBSET Facts, IsFiniteSet(S), NEW q \in Reads,
         NEW selected, selected = ApplyCaps(S, q)
  PROVE  /\ selected \in SUBSET S
         /\ Cardinality(selected) <= q.facts /\ TotalChars(selected) <= q.chars
         /\ \A f \in S \ selected, g \in selected : f.place < g.place =>
               Cardinality(Before(OfCategory(selected, f.category), f)) = q.perCategory
<1>. DEFINE OfCat(c) == FirstFacts(OfCategory(S, c), q.perCategory)
            limited == {f \in S : f \in OfCat(f.category)}
            few == FirstFacts(limited, q.facts)
<1>1. q.facts \in Nat /\ q.perCategory \in Nat /\ q.chars \in Nat
  BY ReadSettings
<1>2. limited \in SUBSET Facts /\ IsFiniteSet(limited) /\ limited \in SUBSET S
  <2>1. limited \in SUBSET S
    OBVIOUS
  <2>. QED  BY <2>1, FS_Subset
<1>3. selected = WithinChars(few, q.chars)
  BY DEF ApplyCaps
<1>. HIDE DEF limited
<1>4. /\ few \in SUBSET limited /\ IsFiniteSet(few) /\ Cardinality(few) \in Nat
      /\ Cardinality(few) <= q.facts
      /\ \A f \in few, g \in limited \ few : f.place < g.place
  BY <1>1, <1>2, FirstFactsAre
<1>. HIDE DEF few
<1>5. /\ selected \in SUBSET few /\ TotalChars(selected) <= q.chars
      /\ \A f \in few, g \in selected : f.place < g.place => f \in selected
  BY <1>1, <1>2, <1>3, <1>4, WithinAre
<1>6. Cardinality(selected) <= q.facts
  <2>1. Cardinality(selected) <= Cardinality(few) /\ Cardinality(selected) \in Nat
    BY <1>4, <1>5, FS_Subset, FS_CardinalityType
  <2>. QED  BY <1>1, <1>4, <2>1
<1>7. \A f \in S : f.place \in Nat
  BY ReadSettings
<1>8. ASSUME NEW f \in limited, NEW g \in selected, f.place < g.place PROVE f \in selected
  <2>1. f \in few
    BY <1>2, <1>4, <1>5, <1>7, <1>8
  <2>. QED  BY <1>5, <1>8, <2>1
<1>9. ASSUME NEW f \in S \ selected, NEW g \in selected, f.place < g.place
      PROVE  Cardinality(Before(OfCategory(selected, f.category), f)) = q.perCategory
  <2>. DEFINE cat == OfCategory(S, f.category)
              best == OfCat(f.category)
              ahead == Before(OfCategory(selected, f.category), f)
  <2>1. f \notin limited
    BY <1>8, <1>9
  <2>2. f \in cat /\ f \notin best
    BY <2>1 DEF limited, OfCategory
  <2>3. cat \in SUBSET Facts /\ IsFiniteSet(cat) /\ \A h \in cat : h \in S /\ h.category = f.category
    <3>1. cat \in SUBSET S
      BY DEF OfCategory
    <3>. QED  BY <3>1, FS_Subset DEF OfCategory
  <2>4. best = FirstFacts(cat, q.perCategory)
    OBVIOUS
  <2>. HIDE DEF cat
  <2>5. /\ best \in SUBSET cat /\ IsFiniteSet(best)
        /\ Cardinality(best) = q.perCategory
        /\ \A h \in best, k \in cat \ best : h.place < k.place
    <3>. HIDE DEF best
    <3>. QED  BY <1>1, <2>2, <2>3, <2>4, FirstFactsAre
  <2>6. ahead \in SUBSET best
    <3>1. \A h \in selected : h.category = f.category => h \in best
      BY <1>2, <1>4, <1>5 DEF limited
    <3>. QED  BY <3>1 DEF Before, OfCategory
  <2>7. best \in SUBSET ahead
    <3>. SUFFICES ASSUME NEW h \in best PROVE h \in ahead
      OBVIOUS
    <3>1. h \in S /\ h.category = f.category /\ h.place < f.place
      BY <2>2, <2>3, <2>5
    <3>2. h \in limited
      BY <3>1 DEF limited
    <3>3. h \in selected
      BY <1>2, <1>4, <1>5, <1>7, <1>8, <1>9, <3>1, <3>2
    <3>. QED  BY <3>1, <3>3 DEF Before, OfCategory
  <2>. HIDE DEF ahead, best
  <2>8. ahead = best
    BY <2>6, <2>7
  <2>. QED  BY <2>5, <2>8 DEF ahead
<1>. QED  BY <1>2, <1>4, <1>5, <1>6, <1>9

\* Whatever is stored and whatever is read, no reader is given a worse fact for a
\* better one that the caps left room for, and OK means that nothing is missing.
THEOREM BestAreRead == Spec => []ReadersKeepTheBest
<1>1. ASSUME TypeOK PROVE ReadersKeepTheBest
  <2>. DEFINE v == Replay(log)
              active == Active(v, now)
              unseen == Dropped(log, now)
              factsOf(ids) == {v.facts[id].fact : id \in ids}
              inForce == factsOf(active)
              dropped == factsOf(unseen)
              listed == factsOf(active \ unseen)
  <2>1. v \in Views /\ Filed(v)
    <3>1. log \in Seq(Events) /\ Len(log) \in 0..Len(log)
      BY <1>1 DEF TypeOK
    <3>. QED  BY <3>1, ViewsAre, Steps
  <2>2. active \subseteq DOMAIN v.facts
    BY DEF Active
  <2>. HIDE DEF v, active, unseen
  <2>3. listed \in SUBSET Facts /\ IsFiniteSet(listed)
    <3>1. \A id \in active : v.facts[id].fact \in Facts
      <4>1. \A id \in active : v.facts[id] \in Adds
        BY <2>1, <2>2 DEF Views
      <4>. QED  BY <4>1, AddIs DEF SoundFacts
    <3>2. IsFiniteSet(active \ unseen)
      BY <2>1, <2>2, FS_Subset DEF Filed
    <3>3. IsFiniteSet(listed)
      <4>. DEFINE g == [id \in active \ unseen |-> v.facts[id].fact]
      <4>1. g \in Surjection(active \ unseen, listed)
        BY DEF Surjection
      <4>. QED  BY <3>2, <4>1, FS_Surjection
    <3>. QED  BY <3>1, <3>3
  <2>4. listed \subseteq inForce /\ inForce \subseteq listed \cup dropped
    OBVIOUS
  <2>. HIDE DEF inForce, dropped, listed
  <2>5. ASSUME NEW q \in Reads
        PROVE  LET bundle == read_memory_bundle(listed, q)
                   asked == {f \in SelectCandidates(inForce, q) : ~f.quoted}
               IN  /\ bundle.facts \subseteq asked
                   /\ Cardinality(bundle.facts) <= q.facts /\ TotalChars(bundle.facts) <= q.chars
                   /\ \A f \in asked \ (bundle.facts \cup dropped), g \in bundle.facts :
                         f.place < g.place =>
                           Cardinality(Before(OfCategory(bundle.facts, f.category), f)) = q.perCategory
                   /\ bundle.reason = "OK" => asked \subseteq bundle.facts \cup dropped
    <3>. DEFINE bundle == read_memory_bundle(listed, q)
                asked == {f \in SelectCandidates(inForce, q) : ~f.quoted}
                candidates == SelectCandidates(listed, q)
                safe == {f \in candidates : ~f.quoted}
                selected == ApplyCaps(safe, q)
                shown == bundle.facts
    <3>1. safe \in SUBSET listed /\ safe \subseteq asked /\ asked \subseteq safe \cup dropped
      BY <2>4 DEF SelectCandidates
    <3>2. \/ bundle = MemoryBundle(selected, IF selected = safe THEN "OK" ELSE "CAPPED")
          \/ \E reason \in {"REQUEST_INVALID", "NO_MATCH", "ALL_SKIPPED_UNSAFE"} :
                bundle = MemoryBundle({}, reason)
      BY DEF read_memory_bundle
    <3>. HIDE DEF bundle, asked, safe, candidates
    <3>3. safe \in SUBSET Facts /\ IsFiniteSet(safe)
      BY <2>3, <3>1, FS_Subset
    <3>4. /\ selected \in SUBSET safe
          /\ Cardinality(selected) <= q.facts /\ TotalChars(selected) <= q.chars
          /\ \A f \in safe \ selected, g \in selected : f.place < g.place =>
                Cardinality(Before(OfCategory(selected, f.category), f)) = q.perCategory
      BY <3>3, ApplyCapsAre
    <3>. HIDE DEF selected
    <3>5. CASE bundle = MemoryBundle(selected, IF selected = safe THEN "OK" ELSE "CAPPED")
      <4>1. shown = selected /\ (bundle.reason = "OK" => selected = safe)
        BY <3>5 DEF MemoryBundle
      <4>. HIDE DEF shown
      <4>2. /\ shown \subseteq asked
            /\ Cardinality(shown) <= q.facts /\ TotalChars(shown) <= q.chars
            /\ \A f \in asked \ (shown \cup dropped), g \in shown : f.place < g.place =>
                  Cardinality(Before(OfCategory(shown, f.category), f)) = q.perCategory
            /\ bundle.reason = "OK" => asked \subseteq shown \cup dropped
        BY <3>1, <3>4, <4>1
      <4>. QED  BY <4>2 DEF shown, bundle, asked
    <3>6. CASE \E reason \in {"REQUEST_INVALID", "NO_MATCH", "ALL_SKIPPED_UNSAFE"} :
                  bundle = MemoryBundle({}, reason)
      <4>1. shown = {} /\ bundle.reason # "OK"
        BY <3>6 DEF MemoryBundle
      <4>2. Cardinality(shown) <= q.facts /\ TotalChars(shown) <= q.chars
        <5>1. Cardinality({}) = 0 /\ TotalChars({}) = 0
          BY FS_EmptySet, TotalStep
        <5>2. q.facts \in Nat /\ q.chars \in Nat
          BY ReadSettings
        <5>. QED  BY <4>1, <5>1, <5>2
      <4>. QED  BY <4>1, <4>2 DEF bundle, asked
    <3>. QED  BY <3>2, <3>5, <3>6
  <2>6. CapsKeepTheBest
    BY <1>1, CapsAre
  <2>. QED  BY <2>5, <2>6 DEF ReadersKeepTheBest, v, active, unseen, inForce, dropped, listed
<1>. QED  BY <1>1, TypeCorrect, PTL
=============================================================================
