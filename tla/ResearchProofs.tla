--------------------------- MODULE ResearchProofs ---------------------------
(***************************************************************************)
(* Research for every cap, window, policy, answer and cache: the sandbox      *)
(* keeps its caps, an accepted answer rests on sources that were not dropped, *)
(* the cache serves what was put last, and the types.                         *)
(*                                                                         *)
(* That a minute never holds more than twice its calls is not inductive: the   *)
(* window restarts at whatever call comes after its end, so what must be known *)
(* is how the calls charged so far lie about its start.  Fits says it: the     *)
(* last inWindow of them are in the window, those before are not after its     *)
(* start, and those a minute's calls further back are a minute older.          *)
(***************************************************************************)
EXTENDS Research, WellFoundedInduction, FiniteSetTheorems, TLAPS

\* What the sandbox state b and the times s it was charged at say of each other, at t.
InTime(b, s, t) ==
    \A i \in 1..Len(s) : s[i] <= t /\ s[i] < b.startedAt + TotalTimeout

AroundWindow(r, s, t) ==
    /\ r.inWindow <= Len(s) /\ r.inWindow <= MaxCallsPerMinute /\ r.windowStart <= t
    /\ \A i \in 1..Len(s) : i > Len(s) - r.inWindow =>
          r.windowStart <= s[i] /\ s[i] < r.windowStart + Minute
    /\ \A i \in 1..Len(s) : i <= Len(s) - r.inWindow => s[i] <= r.windowStart
    /\ \A i \in 1..Len(s) : i <= Len(s) - r.inWindow - MaxCallsPerMinute =>
          s[i] + Minute <= r.windowStart

Spaced(s) ==
    \A i, j \in 1..Len(s) : j - i >= 2 * MaxCallsPerMinute => s[j] - s[i] >= Minute

Fits(b, s, t) ==
    /\ b \in SandboxState
    /\ Len(s) = b.callsUsed /\ Len(s) <= MaxCallsTotal
    /\ InTime(b, s, t)
    /\ AroundWindow(b.rate, s, t)
    /\ Spaced(s)

IInv ==
    /\ now \in Nat /\ toolCalls \in Nat /\ served \in Seq(Nat)
    /\ box = Nothing => served = <<>> /\ toolCalls = 0
    /\ box # Nothing => Fits(box, served, now) /\ toolCalls <= 2 * Len(served)

\* A new sandbox state has charged nothing.
LEMMA CreatedFits ==
    ASSUME NEW t \in Nat
    PROVE  Fits(CreateSandboxState(t), <<>>, t)
  BY SandboxCaps
     DEF CreateSandboxState, Fits, SandboxState, RateLimiterState, InTime, AroundWindow, Spaced

\* Time passes over a state that fits.
LEMMA LaterFits ==
    ASSUME NEW b, NEW s \in Seq(Nat), NEW t \in Nat, NEW u \in Nat, t <= u, Fits(b, s, t)
    PROVE  Fits(b, s, u)
  BY DEF Fits, SandboxState, RateLimiterState, InTime, AroundWindow

\* A sequence with one element more.
LEMMA OneMore ==
    ASSUME NEW s \in Seq(Nat), NEW t \in Nat
    PROVE  /\ Append(s, t) \in Seq(Nat) /\ Len(s) \in Nat
           /\ Len(Append(s, t)) = Len(s) + 1 /\ Append(s, t)[Len(s) + 1] = t
           /\ \A i \in 1..Len(s) : s[i] \in Nat /\ Append(s, t)[i] = s[i]
  OBVIOUS

\* A call that the window still takes.
LEMMA WithinFits ==
    ASSUME NEW r \in RateLimiterState, NEW s \in Seq(Nat), NEW t \in Nat,
           AroundWindow(r, s, t), Spaced(s), RateAllows(r, t), ~WindowOver(r, t)
    PROVE  AroundWindow(Consume(r, t), Append(s, t), t) /\ Spaced(Append(s, t))
  <1> DEFINE n == Len(s)
             k == r.inWindow
             w == r.windowStart
             z == Append(s, t)
  <1>1. Consume(r, t).windowStart = w /\ Consume(r, t).inWindow = k + 1
    BY DEF Consume, RateLimiterState
  <1>2. /\ n \in Nat /\ Len(z) = n + 1 /\ z[n + 1] = t
        /\ \A i \in 1..n : s[i] \in Nat /\ z[i] = s[i]
    BY OneMore
  <1>3. /\ MaxCallsPerMinute \in Nat /\ Minute \in Nat /\ w \in Nat /\ k \in Nat
        /\ k < MaxCallsPerMinute /\ k <= n /\ w <= t /\ t < w + Minute
    BY SandboxCaps DEF RateAllows, WindowOver, AroundWindow, RateLimiterState
  <1>4. /\ \A i \in 1..n : i > n - k => w <= s[i] /\ s[i] < w + Minute
        /\ \A i \in 1..n : i <= n - k => s[i] <= w
        /\ \A i \in 1..n : i <= n - k - MaxCallsPerMinute => s[i] + Minute <= w
    BY DEF AroundWindow
  <1>5. \A i, j \in 1..n : j - i >= 2 * MaxCallsPerMinute => s[j] - s[i] >= Minute
    BY DEF Spaced
  <1> HIDE DEF n, k, w, z
  <1>6. \A i \in 1..n + 1 : i > n - k => w <= z[i] /\ z[i] < w + Minute
    <2> SUFFICES ASSUME NEW i \in 1..n + 1, i > n - k
                 PROVE  w <= z[i] /\ z[i] < w + Minute
      OBVIOUS
    <2>1. CASE i = n + 1
      BY <1>2, <1>3, <2>1
    <2>2. CASE i \in 1..n
      BY <1>2, <1>4, <2>2
    <2> QED
      BY <1>2, <2>1, <2>2
  <1>7. \A i \in 1..n + 1 : i <= n - k => z[i] <= w
    BY <1>2, <1>3, <1>4
  <1>8. \A i \in 1..n + 1 : i <= n - k - MaxCallsPerMinute => z[i] + Minute <= w
    BY <1>2, <1>3, <1>4
  <1>9. AroundWindow(Consume(r, t), z, t)
    <2>1. /\ (n + 1) - (k + 1) = n - k
          /\ k + 1 <= n + 1 /\ k + 1 <= MaxCallsPerMinute
      BY <1>2, <1>3
    <2>2. Len(z) - Consume(r, t).inWindow = n - k
      BY <1>1, <1>2, <2>1
    <2> QED
      BY <1>1, <1>2, <1>3, <1>6, <1>7, <1>8, <2>1, <2>2 DEF AroundWindow
  <1>10. Spaced(z)
    <2> SUFFICES ASSUME NEW i \in 1..n + 1, NEW j \in 1..n + 1, j - i >= 2 * MaxCallsPerMinute
                 PROVE  z[j] - z[i] >= Minute
      BY <1>2 DEF Spaced
    <2>1. CASE j <= n
      BY <1>2, <1>3, <1>5, <2>1
    <2>2. CASE j = n + 1
      <3>1. i \in 1..n /\ i <= n - k - MaxCallsPerMinute
        BY <1>2, <1>3, <2>2
      <3> QED
        BY <1>2, <1>3, <1>4, <2>2, <3>1
    <2> QED
      BY <1>2, <2>1, <2>2
  <1> QED
    BY <1>9, <1>10 DEF z

\* A call after the end of the window, which starts the next one.
LEMMA RestartFits ==
    ASSUME NEW r \in RateLimiterState, NEW s \in Seq(Nat), NEW t \in Nat,
           AroundWindow(r, s, t), Spaced(s), RateAllows(r, t), WindowOver(r, t),
           \A i \in 1..Len(s) : s[i] <= t
    PROVE  AroundWindow(Consume(r, t), Append(s, t), t) /\ Spaced(Append(s, t))
  <1> DEFINE n == Len(s)
             k == r.inWindow
             w == r.windowStart
             z == Append(s, t)
  <1>1. Consume(r, t).windowStart = t /\ Consume(r, t).inWindow = 1
    BY DEF Consume
  <1>2. /\ n \in Nat /\ Len(z) = n + 1 /\ z[n + 1] = t
        /\ \A i \in 1..n : s[i] \in Nat /\ z[i] = s[i] /\ s[i] <= t
    BY OneMore
  <1>3. /\ MaxCallsPerMinute \in Nat /\ Minute \in Nat \ {0} /\ w \in Nat /\ k \in Nat
        /\ 0 < MaxCallsPerMinute /\ k <= MaxCallsPerMinute /\ k <= n /\ w + Minute <= t
    BY SandboxCaps DEF RateAllows, WindowOver, AroundWindow, RateLimiterState
  <1>4. \A i \in 1..n : i <= n - k => s[i] <= w
    BY DEF AroundWindow
  <1>5. \A i, j \in 1..n : j - i >= 2 * MaxCallsPerMinute => s[j] - s[i] >= Minute
    BY DEF Spaced
  <1> HIDE DEF n, k, w, z
  <1>6. \A i \in 1..n : i <= n - MaxCallsPerMinute => s[i] + Minute <= t
    <2> SUFFICES ASSUME NEW i \in 1..n, i <= n - MaxCallsPerMinute
                 PROVE  s[i] + Minute <= t
      OBVIOUS
    <2>1. s[i] <= w /\ s[i] \in Nat
      BY <1>2, <1>3, <1>4
    <2> QED
      BY <1>3, <2>1
  <1>7. \A i \in 1..n + 1 : z[i] <= t
    BY <1>2
  <1>8. \A i \in 1..n + 1 : i > n => t <= z[i] /\ z[i] < t + Minute
    BY <1>2, <1>3
  <1>9. \A i \in 1..n + 1 : i <= n - MaxCallsPerMinute => z[i] + Minute <= t
    BY <1>2, <1>3, <1>6
  <1>10. AroundWindow(Consume(r, t), z, t)
    <2>1. n + 1 - 1 = n /\ 1 <= n + 1 /\ 1 <= MaxCallsPerMinute /\ t <= t
      BY <1>2, <1>3
    <2> QED
      BY <1>1, <1>2, <1>7, <1>8, <1>9, <2>1 DEF AroundWindow
  <1>11. Spaced(z)
    <2> SUFFICES ASSUME NEW i \in 1..n + 1, NEW j \in 1..n + 1, j - i >= 2 * MaxCallsPerMinute
                 PROVE  z[j] - z[i] >= Minute
      BY <1>2 DEF Spaced
    <2>1. CASE j <= n
      BY <1>2, <1>3, <1>5, <2>1
    <2>2. CASE j = n + 1
      <3>1. i \in 1..n /\ i <= n - MaxCallsPerMinute
        BY <1>2, <1>3, <2>2
      <3> QED
        BY <1>2, <1>3, <1>6, <2>2, <3>1
    <2> QED
      BY <1>2, <2>1, <2>2
  <1> QED
    BY <1>10, <1>11 DEF z

\* A call that is not refused keeps all of it.
LEMMA ChargedFits ==
    ASSUME NEW b, NEW s \in Seq(Nat), NEW t \in Nat, Fits(b, s, t), RefusedFor(b, t) = "NONE"
    PROVE  Fits(Charged(b, t), Append(s, t), t)
  <1> DEFINE c == Charged(b, t)
             z == Append(s, t)
  <1>1. /\ b \in SandboxState /\ b.rate \in RateLimiterState
        /\ b.startedAt \in Nat /\ b.callsUsed \in Nat
    BY DEF Fits, SandboxState
  <1>2. /\ c = [b EXCEPT !.callsUsed = @ + 1, !.rate = Consume(@, t)]
        /\ t - b.startedAt < TotalTimeout /\ b.callsUsed < MaxCallsTotal /\ RateAllows(b.rate, t)
    BY <1>1, SandboxCaps DEF Charged, RefusedFor
  <1>3. Consume(b.rate, t) \in RateLimiterState
    BY <1>1 DEF Consume, RateLimiterState
  <1>4. /\ c \in SandboxState /\ c.startedAt = b.startedAt
        /\ c.callsUsed = b.callsUsed + 1 /\ c.rate = Consume(b.rate, t)
    <2>1. b.callsUsed + 1 \in Nat
      BY <1>1
    <2> QED
      BY <1>1, <1>2, <1>3, <2>1 DEF SandboxState
  <1>5. /\ Len(s) \in Nat /\ Len(z) = Len(s) + 1 /\ z[Len(s) + 1] = t
        /\ \A i \in 1..Len(s) : s[i] \in Nat /\ z[i] = s[i]
    BY OneMore
  <1> HIDE DEF c, z
  <1>6. InTime(c, z, t)
    <2>1. \A i \in 1..Len(s) : z[i] <= t /\ z[i] < c.startedAt + TotalTimeout
      BY <1>4, <1>5 DEF Fits, InTime
    <2>2. t < c.startedAt + TotalTimeout
      BY <1>1, <1>2, <1>4, SandboxCaps
    <2> QED
      BY <1>5, <2>1, <2>2 DEF InTime
  <1>7. AroundWindow(c.rate, z, t) /\ Spaced(z)
    BY <1>1, <1>2, <1>4, WithinFits, RestartFits DEF Fits, InTime, z
  <1>8. Len(z) = c.callsUsed /\ Len(z) <= MaxCallsTotal
    BY <1>1, <1>2, <1>4, <1>5, SandboxCaps DEF Fits
  <1> QED
    BY <1>4, <1>6, <1>7, <1>8 DEF Fits, c, z

-----------------------------------------------------------------------------
(* The session.                                                              *)

\* A refusal, or a charge, keeps the state and the times in step.
LEMMA ChargeKeeps ==
    ASSUME IInv, NEW state, Fits(state, served, now), Charge(state)
    PROVE  /\ served' \in Seq(Nat) /\ Fits(box', served', now)
           /\ RefusedFor(state, now) = "NONE" => Len(served') = Len(served) + 1
           /\ RefusedFor(state, now) # "NONE" => served' = served
  <1>1. now \in Nat /\ served \in Seq(Nat)
    BY DEF IInv
  <1>2. CASE RefusedFor(state, now) = "NONE"
    BY <1>1, <1>2, ChargedFits, OneMore DEF Charge
  <1>3. CASE RefusedFor(state, now) # "NONE"
    BY <1>1, <1>3 DEF Charge, Charged
  <1> QED
    BY <1>2, <1>3

\* At the start there is no sandbox state and nothing was charged.
LEMMA InitKeeps == Init => IInv
  BY DEF Init, IInv, Fits

\* Each call of the session, each use of the cache and each tick keeps the two in step.
LEMMA StepKeeps == IInv /\ [Next]_vars => IInv'
  <1> SUFFICES ASSUME IInv, [Next]_vars
               PROVE  IInv'
    OBVIOUS
  <1>1. /\ now \in Nat /\ toolCalls \in Nat /\ served \in Seq(Nat) /\ Len(served) \in Nat
        /\ box = Nothing => served = <<>> /\ toolCalls = 0
        /\ box # Nothing => Fits(box, served, now) /\ toolCalls <= 2 * Len(served)
        /\ Len(<<>>) = 0
    BY DEF IInv
  <1>2. \A b : Fits(b, served, now) => b # Nothing
    BY ResearchInputs DEF Fits
  <1>3. CASE Tick
    <2>1. now' \in Nat /\ now <= now' /\ UNCHANGED <<box, served, toolCalls>>
      BY <1>1, <1>3 DEF Tick
    <2> QED
      BY <1>1, <2>1, LaterFits DEF IInv
  <1>4. ASSUME NEW p \in Policies, NEW s \in Scenes, NEW a \in Answers, RunResearch(p, s, a)
        PROVE  IInv'
    <2>1. now' = now
      BY <1>4 DEF RunResearch
    <2>2. CASE EarlyStop(p) # "NONE"
      BY <1>1, <1>4, <2>1, <2>2 DEF RunResearch, IInv
    <2>3. CASE EarlyStop(p) = "NONE"
      <3> DEFINE state == IF box = Nothing THEN CreateSandboxState(now) ELSE box
                 stop == StoppedFor(state, now, 0, FALSE)
      <3>1. /\ Charge(state)
            /\ toolCalls' = IF stop # "NONE" THEN toolCalls ELSE toolCalls + Len(p.tools)
        BY <1>4, <2>3 DEF RunResearch
      <3>2. Fits(state, served, now) /\ toolCalls <= 2 * Len(served)
        BY <1>1, CreatedFits
      <3>3. Len(p.tools) \in Nat /\ Len(p.tools) <= 2
        BY ResearchInputs
      <3>4. stop = "NONE" => RefusedFor(state, now) = "NONE"
        BY DEF StoppedFor
      <3> HIDE DEF state, stop
      <3>5. /\ served' \in Seq(Nat) /\ Fits(box', served', now)
            /\ RefusedFor(state, now) = "NONE" => Len(served') = Len(served) + 1
            /\ RefusedFor(state, now) # "NONE" => served' = served
        BY <3>1, <3>2, ChargeKeeps
      <3>6. toolCalls' \in Nat /\ toolCalls' <= 2 * Len(served')
        <4>1. Len(served') \in {Len(served), Len(served) + 1}
          BY <3>5
        <4>2. CASE stop = "NONE"
          <5>1. toolCalls' = toolCalls + Len(p.tools) /\ Len(served') = Len(served) + 1
            BY <3>1, <3>4, <3>5, <4>2
          <5> QED
            BY <1>1, <3>2, <3>3, <5>1
        <4>3. CASE stop # "NONE"
          <5>1. toolCalls' = toolCalls
            BY <3>1, <4>3
          <5> QED
            BY <1>1, <3>2, <4>1, <5>1
        <4> QED
          BY <4>2, <4>3
      <3>7. box' # Nothing
        BY <3>5, ResearchInputs DEF Fits
      <3> QED
        BY <1>1, <2>1, <3>5, <3>6, <3>7 DEF IInv
    <2> QED
      BY <2>2, <2>3
  <1>5. CASE OpenSandbox
    <2>1. /\ now' = now /\ served' = <<>> /\ toolCalls' = 0 /\ box' = CreateSandboxState(now)
      BY <1>1, <1>5 DEF OpenSandbox
    <2>2. Fits(box', served', now')
      BY <1>1, <2>1, CreatedFits
    <2> QED
      BY <1>1, <2>1, <2>2, ResearchInputs DEF IInv, Fits
  <1>6. ASSUME NEW d \in {0, PerCallTimeout + 1}, NEW r \in BOOLEAN, RunSandboxedCall(d, r)
        PROVE  IInv'
    <2>1. /\ now' = now /\ box # Nothing /\ Charge(box)
          /\ toolCalls' \in {toolCalls, toolCalls + 1}
          /\ RefusedFor(box, now) # "NONE" => toolCalls' = toolCalls
      BY <1>6 DEF RunSandboxedCall
    <2>2. /\ served' \in Seq(Nat) /\ Fits(box', served', now)
          /\ RefusedFor(box, now) = "NONE" => Len(served') = Len(served) + 1
          /\ RefusedFor(box, now) # "NONE" => served' = served
      BY <1>1, <2>1, ChargeKeeps
    <2>3. toolCalls' \in Nat /\ toolCalls' <= 2 * Len(served')
      BY <1>1, <2>1, <2>2
    <2>4. box' # Nothing
      BY <2>2, ResearchInputs DEF Fits
    <2> QED
      BY <1>1, <2>1, <2>2, <2>3, <2>4 DEF IInv
  <1>7. CASE (\E q \in Queries : CachePut(q)) \/ CacheClear
    BY <1>1, <1>7 DEF CachePut, CacheClear, sessionVars, IInv
  <1>8. CASE UNCHANGED vars
    BY <1>1, <1>8 DEF vars, IInv
  <1> QED
    BY <1>3, <1>4, <1>5, <1>6, <1>7, <1>8 DEF Next

\* What is kept gives the caps.
LEMMA KeptIsCaps == IInv => CapsHold
  <1> SUFFICES ASSUME IInv, box # Nothing
               PROVE  CapsHold
    BY DEF CapsHold
  <1>1. /\ Fits(box, served, now) /\ toolCalls \in Nat /\ toolCalls <= 2 * Len(served)
        /\ Len(served) \in Nat
    BY DEF IInv
  <1>2. toolCalls <= 2 * MaxCallsTotal
    BY <1>1, SandboxCaps DEF Fits
  <1> QED
    BY <1>1, <1>2 DEF Fits, InTime, Spaced, CapsHold

\* sandbox.py and ratelimit.py: a session that hands its sandbox state on is charged for
\* no more calls than its budget, none after its time, and never for more than twice the
\* calls of a minute within a minute, whatever it mixes.
THEOREM CapsKept == Spec => []CapsHold
  <1> QED
    BY InitKeeps, StepKeeps, KeptIsCaps, PTL DEF Spec

-----------------------------------------------------------------------------
(* What an accepted answer rests on.                                         *)

\* Whatever is retrieved is a result of one of the tools.
LEMMA RetrievedAre ==
    ASSUME NEW p \in Policies, NEW sc \in Scenes, NEW s \in Retrieve(p.tools, sc)
    PROVE  IsSource(s)
  <1>1. PICK x \in Found(p.tools, sc) : s = sc[p.tools[x[1]]][x[2]]
    BY DEF Retrieve, First
  <1>2. PICK i \in DOMAIN p.tools : x \in {<<i, j>> : j \in DOMAIN sc[p.tools[i]]}
    BY DEF Found
  <1>3. PICK j \in DOMAIN sc[p.tools[i]] : x = <<i, j>>
    BY <1>2
  <1>4. p.tools[i] \in {"WEB", "DOCS"}
    BY ResearchInputs
  <1> QED
    BY <1>1, <1>3, <1>4, ResearchInputs

\* The claims that count are claims of the answer.
LEMMA ClaimsAre ==
    ASSUME NEW a \in Answers, NEW c \in ExtractClaims(a)
    PROVE  IsClaim(c)
  <1>1. PICK x \in {<<IF a[i].required THEN 0 ELSE 1, i>> : i \in DOMAIN a} : c = a[x[2]]
    BY DEF ExtractClaims, First
  <1>2. x[2] \in DOMAIN a
    BY <1>1
  <1> QED
    BY <1>1, <1>2, ResearchInputs

\* What a text has left of its words lies outside the injected parts.
LEMMA SanitizedWords ==
    ASSUME NEW text
    PROVE  Words(Sanitize(text)) \subseteq UNION {k.words : k \in {k \in text : k.mark # "removed"}}
  <1>1. Sanitize(text) \subseteq {k \in text : k.mark # "removed"}
    BY DEF Sanitize, Calm, Safe
  <1> QED
    BY <1>1 DEF Words

\* A claim that a sanitised source supports is supported by what was left of the source.
LEMMA SupportIsLeft ==
    ASSUME NEW c, IsClaim(c), NEW s, IsSource(s), NEW i,
           NEW u, u = [s EXCEPT !.snippets = [j \in DOMAIN s.snippets |-> Sanitize(s.snippets[j])]],
           i \in DOMAIN u.snippets, Supports(c, u, i)
    PROVE  \/ c.words \cap s.names # {}
           \/ \E j \in DOMAIN s.snippets :
                 Cardinality(c.words \cap
                     UNION {k.words : k \in {k \in s.snippets[j] : k.mark # "removed"}}) >= 2
  <1>1. /\ u.snippets = [j \in DOMAIN s.snippets |-> Sanitize(s.snippets[j])]
        /\ u.names = s.names
    BY DEF IsSource
  <1>2. CASE c.words \cap u.names # {}
    BY <1>1, <1>2
  <1>3. CASE Overlap(c, u.snippets[i]) >= 2
    <2> DEFINE left == UNION {k.words : k \in {k \in s.snippets[i] : k.mark # "removed"}}
    <2>1. i \in DOMAIN s.snippets /\ u.snippets[i] = Sanitize(s.snippets[i])
      BY <1>1
    <2>2. c.words \cap Words(u.snippets[i]) \subseteq c.words \cap left
      BY <2>1, SanitizedWords
    <2>3. IsFiniteSet(c.words \cap left)
      BY FS_Subset DEF IsClaim
    <2>4. Cardinality(c.words \cap Words(u.snippets[i])) <= Cardinality(c.words \cap left)
      BY <2>2, <2>3, FS_Subset
    <2>5. /\ Cardinality(c.words \cap left) \in Nat
          /\ Cardinality(c.words \cap Words(u.snippets[i])) \in Nat
      BY <2>2, <2>3, FS_Subset, FS_CardinalityType
    <2>6. Cardinality(c.words \cap left) >= 2
      BY <1>3, <2>4, <2>5 DEF Overlap
    <2> QED
      BY <2>1, <2>6
  <1> QED
    BY <1>2, <1>3 DEF Supports

\* A call that succeeds covers every required claim by what is left of its sources.
LEMMA SuccessIsSupported ==
    ASSUME NEW p \in Policies, NEW sc \in Scenes, NEW a \in Answers, p.citationsRequired,
           OutcomeOf(p, Retrieve(p.tools, sc), a).ok
    PROVE  LET sources == Retrieve(p.tools, sc)
           IN /\ sources # {}
              /\ \A c \in ExtractClaims(a) : c.required =>
                   \E s \in sources :
                       \/ c.words \cap s.names # {}
                       \/ \E i \in DOMAIN s.snippets :
                            Cardinality(c.words \cap
                                UNION {k.words : k \in {k \in s.snippets[i] : k.mark # "removed"}}) >= 2
  <1> DEFINE sources == Retrieve(p.tools, sc)
             usable == Usable(sources)
  <1>1. \A s \in sources : IsSource(s)
    BY RetrievedAre
  <1>2. sources # {} /\ BinderMode(a, usable, p.citationsRequired) = "OK"
    BY DEF OutcomeOf, Stopped
  <1>3. Uncovered(ExtractClaims(a), usable) = {}
    BY <1>2 DEF BinderMode
  <1>4. usable \subseteq SanitizeBundles(sources)
    BY DEF Usable, DedupBundles
  <1> HIDE DEF sources, usable
  <1>5. ASSUME NEW c \in ExtractClaims(a), c.required
        PROVE  \E s \in sources :
                   \/ c.words \cap s.names # {}
                   \/ \E i \in DOMAIN s.snippets :
                        Cardinality(c.words \cap
                            UNION {k.words : k \in {k \in s.snippets[i] : k.mark # "removed"}}) >= 2
    <2>1. Citations(c, usable) # {}
      BY <1>3, <1>5 DEF Uncovered
    <2>2. Candidates(c, usable) # {}
      BY <2>1 DEF Citations
    <2>3. PICK u \in usable, i \in 1..5 : i \in DOMAIN u.snippets /\ Supports(c, u, i)
      BY <2>2 DEF Candidates
    <2>4. PICK s \in sources :
              u = [s EXCEPT !.snippets = [j \in DOMAIN s.snippets |-> Sanitize(s.snippets[j])]]
      BY <1>4, <2>3 DEF SanitizeBundles
    <2> QED
      BY <1>1, <2>3, <2>4, ClaimsAre, SupportIsLeft
  <1> QED
    BY <1>2, <1>5 DEF sources

\* A successful outcome is what the pipeline makes of the inputs of its call.
OutcomeIsTold ==
    outcome # Nothing /\ outcome.ok =>
        /\ asked \in Question
        /\ outcome = OutcomeOf(asked.policy, Retrieve(asked.policy.tools, asked.scene), asked.answer)

\* At the start there is no outcome.
LEMMA InitTold == Init => OutcomeIsTold
  BY DEF Init, OutcomeIsTold

\* Only a call of the pipeline makes an outcome.
LEMMA StepTold == OutcomeIsTold /\ [Next]_vars => OutcomeIsTold'
  <1> SUFFICES ASSUME OutcomeIsTold, [Next]_vars
               PROVE  OutcomeIsTold'
    OBVIOUS
  <1>1. ASSUME NEW p \in Policies, NEW s \in Scenes, NEW a \in Answers, RunResearch(p, s, a),
               outcome' # Nothing, outcome'.ok
        PROVE  /\ asked' \in Question
               /\ outcome' = OutcomeOf(asked'.policy,
                                Retrieve(asked'.policy.tools, asked'.scene), asked'.answer)
    <2>1. asked' = [policy |-> p, scene |-> s, answer |-> a]
      BY <1>1 DEF RunResearch
    <2>2. outcome' = OutcomeOf(p, Retrieve(p.tools, s), a)
      <3>1. \A r : Stopped(r).ok = FALSE
        BY DEF Stopped
      <3> QED
        BY <1>1, <3>1 DEF RunResearch
    <2> QED
      BY <2>1, <2>2 DEF Question
  <1>2. CASE UNCHANGED <<outcome, asked>>
    BY <1>2 DEF OutcomeIsTold
  <1>3. (\E p \in Policies, s \in Scenes, a \in Answers : RunResearch(p, s, a))
            \/ UNCHANGED <<outcome, asked>>
    BY DEF Next, Tick, OpenSandbox, RunSandboxedCall, CachePut, CacheClear, vars, sessionVars
  <1> QED
    BY <1>1, <1>2, <1>3 DEF OutcomeIsTold

\* research_wiring.py: an accepted answer that has to be cited rests on what the sanitiser
\* left of the sources of its own call, for every answer and whatever the tools return.
THEOREM AnswersAreSupported == Spec => []SupportedByWhatIsLeft
  <1>1. OutcomeIsTold => SupportedByWhatIsLeft
    <2> SUFFICES ASSUME OutcomeIsTold, outcome # Nothing, outcome.ok, asked.policy.citationsRequired
                 PROVE  SupportedByWhatIsLeft
      BY DEF SupportedByWhatIsLeft
    <2> DEFINE p == asked.policy
               sc == asked.scene
               a == asked.answer
    <2>1. p \in Policies /\ sc \in Scenes /\ a \in Answers
      BY DEF OutcomeIsTold, Question
    <2>2. OutcomeOf(p, Retrieve(p.tools, sc), a).ok /\ p.citationsRequired
      BY DEF OutcomeIsTold
    <2> HIDE DEF p, sc, a
    <2>3. LET sources == Retrieve(p.tools, sc)
          IN /\ sources # {}
             /\ \A c \in ExtractClaims(a) : c.required =>
                  \E s \in sources :
                      \/ c.words \cap s.names # {}
                      \/ \E i \in DOMAIN s.snippets :
                           Cardinality(c.words \cap
                               UNION {k.words : k \in {k \in s.snippets[i] : k.mark # "removed"}}) >= 2
      BY <2>1, <2>2, SuccessIsSupported
    <2> QED
      BY <2>3 DEF SupportedByWhatIsLeft, p, sc, a
  <1> QED
    BY <1>1, InitTold, StepTold, PTL DEF Spec

-----------------------------------------------------------------------------
(* The cache.                                                                *)

\* Less-than on Nat is a well-founded relation.
LEMMA LessWF ==
  \E R : IsWellFoundedOn(R, Nat) /\ \A x, y \in Nat : <<y, x>> \in R <=> y < x
  <1> WITNESS OpToRel(<, Nat)
  <1>1. \A x, y \in Nat : <<y, x>> \in OpToRel(<, Nat) <=> y < x
    BY DEF OpToRel
  <1> QED
    BY <1>1, NatLessThanWellFounded

\* A set of natural numbers has a least one.
LEMMA Least ==
    ASSUME NEW T \in SUBSET Nat, T # {}
    PROVE  \E n \in T : \A m \in T : n <= m
  <1>1. PICK R : IsWellFoundedOn(R, Nat) /\ \A x, y \in Nat : <<y, x>> \in R <=> y < x
    BY LessWF
  <1>2. PICK n \in T : \A m \in T : ~(<<m, n>> \in R)
    BY <1>1, WFMin
  <1>3. \A m \in T : ~(m < n)
    BY <1>1, <1>2
  <1> QED
    BY <1>3

\* The keys put after k.
Later(k) == {j \in DOMAIN puts : puts[j] > puts[k]}

\* An entry was made for its key by the last put of the key.
IsEntryOf(k) ==
    /\ cache[k].query \in Queries /\ cache[k].createdAt \in 0..now
    /\ k = CacheKey(cache[k].query, cache[k].createdAt)
    /\ cache[k].insertedSeq = puts[k]

\* Every put has a number of its own, up to the counter.
Numbered ==
    /\ seq \in Nat
    /\ IsFiniteSet(DOMAIN puts)
    /\ \A k \in DOMAIN puts : puts[k] \in 1..seq
    /\ \A j, k \in DOMAIN puts : puts[j] = puts[k] => j = k

\* The cache holds the keys put last, up to its limit: all of them while it is not full.
HoldsTheLast ==
    /\ DOMAIN cache = {k \in DOMAIN puts : Cardinality(Later(k)) < MaxEntries}
    /\ Cardinality(DOMAIN cache) <= MaxEntries
    /\ Cardinality(DOMAIN cache) < MaxEntries => DOMAIN cache = DOMAIN puts

Stored ==
    /\ now \in Nat
    /\ Numbered
    /\ HoldsTheLast
    /\ \A k \in DOMAIN cache : IsEntryOf(k)

\* The bucket of a time is at most the time, and two times of one bucket are near.
LEMMA Buckets ==
    ASSUME NEW t \in Nat, NEW u \in Nat, t <= u
    PROVE  /\ t \div Bucket \in 0..t
           /\ t \div Bucket = u \div Bucket => u - t < Bucket
  BY ResearchInputs

\* The keys put after k are among those put after any key that was put before k.
LEMMA LaterAre ==
    ASSUME Numbered, NEW k \in DOMAIN puts
    PROVE  /\ IsFiniteSet(Later(k)) /\ Cardinality(Later(k)) \in Nat
           /\ k \notin Later(k) /\ Later(k) \subseteq DOMAIN puts
           /\ \A j \in Later(k) : Later(j) \subseteq Later(k)
                                /\ Cardinality(Later(j)) < Cardinality(Later(k))
  <1>1. /\ Later(k) \subseteq DOMAIN puts /\ IsFiniteSet(DOMAIN puts) /\ puts[k] \in Nat
        /\ \A j \in DOMAIN puts : puts[j] \in Nat
    BY DEF Numbered, Later
  <1>2. IsFiniteSet(Later(k)) /\ Cardinality(Later(k)) \in Nat
    BY <1>1, FS_Subset, FS_CardinalityType
  <1>3. k \notin Later(k)
    BY <1>1 DEF Later
  <1>4. ASSUME NEW j \in Later(k)
        PROVE  Later(j) \subseteq Later(k) /\ Cardinality(Later(j)) < Cardinality(Later(k))
    <2>1. Later(j) \subseteq Later(k) /\ j \notin Later(j)
      BY <1>1, <1>4 DEF Later
    <2>2. /\ Cardinality(Later(j)) <= Cardinality(Later(k)) /\ IsFiniteSet(Later(j))
          /\ Cardinality(Later(j)) = Cardinality(Later(k)) => Later(j) = Later(k)
      BY <1>2, <2>1, FS_Subset
    <2>3. Cardinality(Later(j)) \in Nat
      BY <2>2, FS_CardinalityType
    <2> QED
      BY <1>2, <1>4, <2>1, <2>2, <2>3
  <1> QED
    BY <1>1, <1>2, <1>3, <1>4

\* What a put does to the numbers.
LEMMA PutNumbers ==
    ASSUME Numbered, NEW q \in Queries, CachePut(q), NEW k, k = CacheKey(q, now)
    PROVE  /\ Numbered'
           /\ DOMAIN puts' = DOMAIN puts \cup {k} /\ puts'[k] = seq + 1
           /\ \A j \in DOMAIN puts \ {k} : puts'[j] = puts[j]
           /\ Later(k)' = {}
           /\ \A j \in DOMAIN puts \ {k} : Later(j)' = Later(j) \cup {k}
  <1>1. /\ seq \in Nat /\ IsFiniteSet(DOMAIN puts)
        /\ \A j \in DOMAIN puts : puts[j] \in 1..seq
        /\ \A i, j \in DOMAIN puts : puts[i] = puts[j] => i = j
    BY DEF Numbered
  <1>2. /\ seq' = seq + 1
        /\ puts' = [j \in DOMAIN puts \cup {k} |-> IF j = k THEN seq + 1 ELSE puts[j]]
    BY DEF CachePut
  <1>3. /\ DOMAIN puts' = DOMAIN puts \cup {k} /\ puts'[k] = seq + 1
        /\ \A j \in DOMAIN puts \ {k} : puts'[j] = puts[j]
    BY <1>2
  <1>4. IsFiniteSet(DOMAIN puts')
    BY <1>1, <1>3, FS_AddElement
  <1>5. Numbered'
    BY <1>1, <1>2, <1>3, <1>4 DEF Numbered
  <1>6. Later(k)' = {}
    BY <1>1, <1>3 DEF Later
  <1>7. ASSUME NEW j \in DOMAIN puts \ {k}
        PROVE  Later(j)' = Later(j) \cup {k}
    BY <1>1, <1>3 DEF Later
  <1> QED
    BY <1>3, <1>5, <1>6, <1>7

\* The entry that is evicted was put before all the others.
LEMMA OldestIs ==
    ASSUME Numbered, HoldsTheLast, \A k \in DOMAIN cache : IsEntryOf(k), DOMAIN cache # {}
    PROVE  /\ Oldest \in DOMAIN cache
           /\ \A j \in DOMAIN cache : puts[Oldest] <= puts[j]
  <1> DEFINE D == DOMAIN cache
             numbers == {puts[k] : k \in D}
  <1>1. D \subseteq DOMAIN puts /\ \A k \in D : puts[k] \in Nat /\ cache[k].insertedSeq = puts[k]
    BY DEF HoldsTheLast, Numbered, IsEntryOf
  <1>2. PICK k \in D : \A j \in D : puts[k] <= puts[j]
    <2>1. PICK n \in numbers : \A m \in numbers : n <= m
      <3>1. numbers \subseteq Nat /\ numbers # {}
        BY <1>1
      <3> QED
        BY <3>1, Least
    <2> QED
      BY <2>1
  <1>3. \E i \in D : \A j \in D : cache[i].insertedSeq <= cache[j].insertedSeq
    BY <1>1, <1>2
  <1>4. Oldest \in D /\ \A j \in D : cache[Oldest].insertedSeq <= cache[j].insertedSeq
    BY <1>3 DEF Oldest
  <1> QED
    BY <1>1, <1>4

\* A put of a key the cache holds changes nothing but its number.
LEMMA PutAgainKeeps ==
    ASSUME Numbered, HoldsTheLast, NEW k \in DOMAIN cache, NEW q \in Queries, CachePut(q),
           k = CacheKey(q, now)
    PROVE  HoldsTheLast'
  <1>1. k \in DOMAIN puts /\ MaxEntries \in Nat \ {0}
    BY ResearchInputs DEF HoldsTheLast
  <1>2. DOMAIN cache' = DOMAIN cache
    BY DEF CachePut, Evicted
  <1>3. /\ DOMAIN puts' = DOMAIN puts /\ Later(k)' = {}
        /\ \A j \in DOMAIN puts \ {k} : Later(j)' = Later(j) \cup {k}
    BY <1>1, PutNumbers
  <1>4. ASSUME NEW j \in DOMAIN puts
        PROVE  Cardinality(Later(j)') < MaxEntries <=> Cardinality(Later(j)) < MaxEntries
    <2>1. /\ IsFiniteSet(Later(j)) /\ Cardinality(Later(j)) \in Nat
          /\ Cardinality(Later(k)) < MaxEntries /\ Cardinality(Later(k)) \in Nat
      BY <1>1, LaterAre DEF HoldsTheLast
    <2>2. CASE j = k
      BY <1>1, <1>3, <2>1, <2>2, FS_EmptySet
    <2>3. CASE j # k /\ k \in Later(j)
      <3>1. Later(j)' = Later(j)
        BY <1>3, <2>3
      <3> QED
        BY <3>1
    <2>4. CASE j # k /\ k \notin Later(j)
      <3>1. j \in Later(k)
        BY <1>1, <2>4 DEF Later, Numbered
      <3>2. Cardinality(Later(j)) < Cardinality(Later(k))
        BY <1>1, <3>1, LaterAre
      <3>3. Cardinality(Later(j)') = Cardinality(Later(j)) + 1
        BY <1>3, <2>1, <2>4, FS_AddElement
      <3> QED
        BY <1>1, <2>1, <3>2, <3>3
    <2> QED
      BY <2>2, <2>3, <2>4
  <1>5. DOMAIN cache' = {j \in DOMAIN puts' : Cardinality(Later(j)') < MaxEntries}
    BY <1>2, <1>3, <1>4 DEF HoldsTheLast
  <1> QED
    BY <1>2, <1>3, <1>5 DEF HoldsTheLast

\* A new key joins a cache that has room for it.
LEMMA PutNewKeeps ==
    ASSUME Numbered, HoldsTheLast, NEW q \in Queries, CachePut(q), NEW k, k = CacheKey(q, now),
           k \notin DOMAIN cache, Cardinality(DOMAIN cache) < MaxEntries
    PROVE  HoldsTheLast'
  <1>1. /\ DOMAIN cache = DOMAIN puts /\ MaxEntries \in Nat \ {0}
        /\ IsFiniteSet(DOMAIN puts) /\ Cardinality(DOMAIN puts) \in Nat
    BY ResearchInputs, FS_CardinalityType DEF HoldsTheLast, Numbered
  <1>2. DOMAIN cache' = DOMAIN cache \cup {k}
    BY <1>1 DEF CachePut, Evicted
  <1>3. /\ DOMAIN puts' = DOMAIN puts \cup {k} /\ Later(k)' = {}
        /\ \A j \in DOMAIN puts \ {k} : Later(j)' = Later(j) \cup {k}
    BY PutNumbers
  <1>4. ASSUME NEW j \in DOMAIN puts'
        PROVE  Cardinality(Later(j)') < MaxEntries
    <2>1. CASE j = k
      BY <1>1, <1>3, <2>1, FS_EmptySet
    <2>2. CASE j # k
      <3>1. /\ IsFiniteSet(Later(j)) /\ Later(j) \subseteq DOMAIN puts /\ j \notin Later(j)
            /\ j \in DOMAIN puts /\ Cardinality(Later(j)) \in Nat
        BY <1>3, <2>2, LaterAre
      <3>2. Cardinality(Later(j)) < Cardinality(DOMAIN puts)
        BY <1>1, <3>1, FS_Subset
      <3>3. Cardinality(Later(j)') = Cardinality(Later(j)) + 1
        BY <1>1, <1>3, <2>2, <3>1, FS_AddElement
      <3> QED
        BY <1>1, <3>1, <3>2, <3>3
    <2> QED
      BY <2>1, <2>2
  <1>5. Cardinality(DOMAIN cache') = Cardinality(DOMAIN cache) + 1
    BY <1>1, <1>2, FS_AddElement
  <1>6. Cardinality(DOMAIN cache') <= MaxEntries
    BY <1>1, <1>5
  <1>7. DOMAIN cache' = DOMAIN puts'
    BY <1>1, <1>2, <1>3
  <1> QED
    BY <1>4, <1>6, <1>7 DEF HoldsTheLast

\* A new key takes the place of the oldest in a full cache.
LEMMA PutEvictsKeeps ==
    ASSUME Numbered, HoldsTheLast, \A j \in DOMAIN cache : IsEntryOf(j),
           NEW q \in Queries, CachePut(q), NEW k, k = CacheKey(q, now),
           k \notin DOMAIN cache, Cardinality(DOMAIN cache) >= MaxEntries
    PROVE  HoldsTheLast'
  <1> DEFINE C == DOMAIN cache
             D == DOMAIN puts
  <1>1. /\ MaxEntries \in Nat \ {0} /\ C \subseteq D /\ IsFiniteSet(D)
        /\ \A j \in D : j \in C <=> Cardinality(Later(j)) < MaxEntries
    BY ResearchInputs DEF HoldsTheLast, Numbered
  <1>2. IsFiniteSet(C) /\ Cardinality(C) = MaxEntries /\ C # {}
    <2>1. IsFiniteSet(C)
      BY <1>1, FS_Subset
    <2>2. Cardinality(C) \in Nat
      BY <2>1, FS_CardinalityType
    <2>3. Cardinality(C) = MaxEntries
      BY <1>1, <2>2 DEF HoldsTheLast
    <2> QED
      BY <1>1, <2>1, <2>3, FS_EmptySet
  <1>3. PICK o \in C : o = Oldest /\ \A j \in C : puts[o] <= puts[j]
    BY <1>2, OldestIs
  <1>4. DOMAIN cache' = (C \ {o}) \cup {k}
    BY <1>3 DEF CachePut, Evicted
  <1>5. /\ DOMAIN puts' = D \cup {k} /\ Later(k)' = {}
        /\ \A j \in D \ {k} : Later(j)' = Later(j) \cup {k}
    BY PutNumbers
  <1> HIDE DEF C, D
  <1>6. ASSUME NEW j \in D \ {k}
        PROVE  Cardinality(Later(j)') < MaxEntries <=> j \in C \ {o}
    <2>1. IsFiniteSet(Later(j)) /\ Cardinality(Later(j)) \in Nat /\ j \notin Later(j)
      BY LaterAre DEF D
    <2>2. /\ IsFiniteSet(Later(j)') /\ Cardinality(Later(j)) <= Cardinality(Later(j)')
          /\ Cardinality(Later(j)') \in Nat
      <3>1. Later(j)' = Later(j) \cup {k}
        BY <1>5
      <3> QED
        BY <2>1, <3>1, FS_AddElement, FS_CardinalityType, FS_Subset
    <2>3. CASE j \notin C
      BY <1>1, <2>1, <2>2, <2>3
    <2>4. CASE j = o
      <3>1. C \ {o} \subseteq Later(o)
        BY <1>1, <1>3 DEF Later, Numbered, D
      <3>2. C \subseteq (Later(o)' \cup {o}) \ {k}
        BY <2>4, <3>1, <1>5 DEF C
      <3>3. k \in Later(o)' /\ k # o
        BY <1>5, <2>4
      <3>4. C \subseteq (Later(o)' \ {k}) \cup {o}
        BY <3>2
      <3>5. Cardinality(C) <= Cardinality(Later(o)')
        <4>1. /\ IsFiniteSet(Later(o)' \ {k})
              /\ Cardinality(Later(o)' \ {k}) = Cardinality(Later(o)') - 1
          BY <2>2, <2>4, <3>3, FS_RemoveElement
        <4>2. /\ IsFiniteSet((Later(o)' \ {k}) \cup {o})
              /\ Cardinality((Later(o)' \ {k}) \cup {o}) <= Cardinality(Later(o)' \ {k}) + 1
          <5>1. /\ IsFiniteSet((Later(o)' \ {k}) \cup {o})
                /\ Cardinality((Later(o)' \ {k}) \cup {o}) \in
                     {Cardinality(Later(o)' \ {k}), Cardinality(Later(o)' \ {k}) + 1}
            BY <4>1, FS_AddElement
          <5>2. Cardinality(Later(o)' \ {k}) \in Nat
            BY <4>1, FS_CardinalityType
          <5> QED
            BY <5>1, <5>2
        <4>3. Cardinality(C) <= Cardinality((Later(o)' \ {k}) \cup {o})
          BY <3>4, <4>2, FS_Subset
        <4> QED
          BY <1>1, <1>2, <2>2, <2>4, <4>1, <4>2, <4>3, FS_CardinalityType
      <3> QED
        BY <1>1, <1>2, <2>2, <2>4, <3>5
    <2>5. CASE j \in C /\ j # o
      <3>1. Later(j) \subseteq C \ {j}
        <4>1. ASSUME NEW i \in Later(j)
              PROVE  i \in C
          <5>1. /\ i \in D /\ Cardinality(Later(i)) < Cardinality(Later(j))
                /\ Cardinality(Later(i)) \in Nat /\ Cardinality(Later(j)) < MaxEntries
            BY <1>1, <2>5, LaterAre DEF D
          <5> QED
            BY <1>1, <2>1, <5>1
        <4> QED
          BY <2>1, <4>1
      <3>2. o \notin Later(j)
        BY <1>1, <1>3, <2>5 DEF Later, Numbered, D
      <3>3. Later(j)' \subseteq ((C \ {o}) \ {j}) \cup {k}
        BY <1>5, <3>1, <3>2
      <3>4. /\ IsFiniteSet((C \ {o}) \ {j})
            /\ Cardinality((C \ {o}) \ {j}) = MaxEntries - 2
        <4>1. IsFiniteSet(C \ {o}) /\ Cardinality(C \ {o}) = MaxEntries - 1
          BY <1>2, <1>3, FS_RemoveElement
        <4>2. /\ IsFiniteSet((C \ {o}) \ {j})
              /\ Cardinality((C \ {o}) \ {j}) = Cardinality(C \ {o}) - 1
          BY <2>5, <4>1, FS_RemoveElement
        <4> QED
          BY <1>1, <4>1, <4>2
      <3>5. /\ IsFiniteSet(((C \ {o}) \ {j}) \cup {k})
            /\ Cardinality(((C \ {o}) \ {j}) \cup {k}) <= MaxEntries - 1
        <4>1. /\ IsFiniteSet(((C \ {o}) \ {j}) \cup {k})
              /\ Cardinality(((C \ {o}) \ {j}) \cup {k}) \in
                   {Cardinality((C \ {o}) \ {j}), Cardinality((C \ {o}) \ {j}) + 1}
          BY <3>4, FS_AddElement
        <4> QED
          BY <1>1, <3>4, <4>1
      <3>6. Cardinality(Later(j)') <= Cardinality(((C \ {o}) \ {j}) \cup {k})
        BY <3>3, <3>5, FS_Subset
      <3> QED
        BY <1>1, <2>2, <2>5, <3>5, <3>6, FS_CardinalityType
    <2> QED
      BY <2>3, <2>4, <2>5
  <1>7. DOMAIN cache' = {j \in DOMAIN puts' : Cardinality(Later(j)') < MaxEntries}
    <2>1. k \notin C \ {o}
      BY DEF C
    <2>2. Cardinality(Later(k)') < MaxEntries
      BY <1>1, <1>5, FS_EmptySet
    <2>3. C \subseteq D
      BY <1>1
    <2> QED
      BY <1>4, <1>5, <1>6, <2>1, <2>2, <2>3
  <1>8. Cardinality(DOMAIN cache') = MaxEntries
    <2>1. IsFiniteSet(C \ {o}) /\ Cardinality(C \ {o}) = MaxEntries - 1
      BY <1>2, <1>3, FS_RemoveElement
    <2>2. k \notin C \ {o}
      BY DEF C
    <2>3. Cardinality(DOMAIN cache') = Cardinality(C \ {o}) + 1
      BY <1>4, <2>1, <2>2, FS_AddElement
    <2> QED
      BY <1>1, <2>1, <2>3
  <1> QED
    BY <1>1, <1>7, <1>8 DEF HoldsTheLast

\* A put keeps the cache, its numbers and its entries in step.
LEMMA PutKeeps ==
    ASSUME Stored, NEW q \in Queries, CachePut(q)
    PROVE  Stored'
  <1> DEFINE k == CacheKey(q, now)
  <1>1. now \in Nat /\ Numbered /\ HoldsTheLast /\ \A j \in DOMAIN cache : IsEntryOf(j)
    BY DEF Stored
  <1>2. now' = now
    BY DEF CachePut
  <1>3. /\ Numbered' /\ puts'[k] = seq + 1
        /\ \A j \in DOMAIN puts \ {k} : puts'[j] = puts[j]
    BY <1>1, PutNumbers
  <1>4. HoldsTheLast'
    <2>1. CASE k \in DOMAIN cache
      BY <1>1, <2>1, PutAgainKeeps
    <2>2. CASE k \notin DOMAIN cache /\ Cardinality(DOMAIN cache) < MaxEntries
      BY <1>1, <2>2, PutNewKeeps
    <2>3. CASE k \notin DOMAIN cache /\ Cardinality(DOMAIN cache) >= MaxEntries
      BY <1>1, <2>3, PutEvictsKeeps
    <2>4. Cardinality(DOMAIN cache) \in Nat /\ MaxEntries \in Nat
      <3>1. DOMAIN cache \subseteq DOMAIN puts /\ IsFiniteSet(DOMAIN puts)
        BY <1>1 DEF HoldsTheLast, Numbered
      <3> QED
        BY <3>1, FS_Subset, FS_CardinalityType, ResearchInputs
    <2> QED
      BY <2>1, <2>2, <2>3, <2>4
  <1>5. ASSUME NEW j \in DOMAIN cache'
        PROVE  IsEntryOf(j)'
    <2> DEFINE entry == [query |-> q, createdAt |-> now, insertedSeq |-> seq + 1]
               kept == (DOMAIN cache \ Evicted(k)) \ {k}
    <2>1. cache' = [i \in kept \cup {k} |-> IF i = k THEN entry ELSE cache[i]]
      BY DEF CachePut
    <2>2. CASE j = k
      <3>1. cache'[j] = entry
        BY <2>1, <2>2
      <3> QED
        BY <1>1, <1>2, <1>3, <2>2, <3>1 DEF IsEntryOf
    <2>3. CASE j # k
      <3>1. j \in DOMAIN cache /\ cache'[j] = cache[j] /\ j \in DOMAIN puts
        BY <1>1, <1>5, <2>1, <2>3 DEF HoldsTheLast
      <3>2. puts'[j] = puts[j] /\ IsEntryOf(j)
        BY <1>1, <1>3, <2>3, <3>1
      <3> QED
        BY <1>2, <3>1, <3>2 DEF IsEntryOf
    <2> QED
      BY <2>2, <2>3
  <1> QED
    BY <1>1, <1>2, <1>3, <1>4, <1>5 DEF Stored

\* An empty cache holds all that was put into it.
LEMMA EmptyIsStored ==
    ASSUME now \in Nat, cache = <<>>, puts = <<>>, seq = 0
    PROVE  Stored
  <1>1. DOMAIN cache = {} /\ DOMAIN puts = {} /\ IsFiniteSet({}) /\ Cardinality({}) = 0
    BY FS_EmptySet
  <1> QED
    BY <1>1, ResearchInputs DEF Stored, Numbered, HoldsTheLast

\* Every step keeps the cache in step with its numbers.
LEMMA StepStored == Stored /\ [Next]_vars => Stored'
  <1> SUFFICES ASSUME Stored, [Next]_vars
               PROVE  Stored'
    OBVIOUS
  <1>1. CASE UNCHANGED <<now, cache, seq, puts>>
    BY <1>1 DEF Stored, Numbered, HoldsTheLast, Later, IsEntryOf
  <1>2. CASE Tick
    <2>1. now \in Nat /\ now' = now + 1 /\ UNCHANGED <<cache, seq, puts>>
      BY <1>2 DEF Tick, Stored
    <2>2. Numbered' /\ HoldsTheLast'
      BY <2>1 DEF Stored, Numbered, HoldsTheLast, Later
    <2>3. ASSUME NEW j \in DOMAIN cache'
          PROVE  IsEntryOf(j)'
      <3>1. IsEntryOf(j)
        BY <2>1, <2>3 DEF Stored
      <3>2. 0..now \subseteq 0..now'
        BY <2>1
      <3> QED
        BY <2>1, <3>1, <3>2 DEF IsEntryOf
    <2> QED
      BY <2>1, <2>2, <2>3 DEF Stored
  <1>3. ASSUME NEW q \in Queries, CachePut(q)
        PROVE  Stored'
    BY <1>3, PutKeeps
  <1>4. CASE CacheClear
    <2>1. now' = now /\ now \in Nat /\ cache' = <<>> /\ puts' = <<>> /\ seq' = 0
      BY <1>4 DEF CacheClear, Stored
    <2>2. DOMAIN cache' = {} /\ DOMAIN puts' = {} /\ IsFiniteSet({}) /\ Cardinality({}) = 0
      BY <2>1, FS_EmptySet
    <2> QED
      BY <2>1, <2>2, ResearchInputs DEF Stored, Numbered, HoldsTheLast
  <1>5. \/ Tick \/ CacheClear \/ \E q \in Queries : CachePut(q)
        \/ UNCHANGED <<now, cache, seq, puts>>
    BY DEF Next, RunResearch, OpenSandbox, RunSandboxedCall, vars, cacheVars
  <1> QED
    BY <1>1, <1>2, <1>3, <1>4, <1>5

\* cache.py: the cache holds the keys put last and never more than its limit, and a lookup
\* finds what was put for its own query within the bucket of now, for every limit and every
\* width of the buckets.
THEOREM LatestAreServed == Spec => []CacheServesLatest
  <1>1. Init => Stored
    BY EmptyIsStored DEF Init
  <1>2. Stored => CacheServesLatest
    <2> SUFFICES ASSUME Stored
                 PROVE  CacheServesLatest
      OBVIOUS
    <2>1. ASSUME NEW q \in Queries, CacheKey(q, now) \in DOMAIN cache
          PROVE  /\ cache[CacheKey(q, now)].query = q
                 /\ now - cache[CacheKey(q, now)].createdAt < Bucket
      <3> DEFINE e == cache[CacheKey(q, now)]
      <3>1. /\ now \in Nat /\ e.createdAt \in 0..now
            /\ CacheKey(q, now) = CacheKey(e.query, e.createdAt)
        BY <2>1 DEF Stored, IsEntryOf
      <3> HIDE DEF e
      <3>2. q = e.query /\ now \div Bucket = e.createdAt \div Bucket
        BY <3>1 DEF CacheKey
      <3> QED
        BY <3>1, <3>2, Buckets DEF e
    <2> QED
      BY <2>1 DEF Stored, HoldsTheLast, Later, CacheServesLatest
  <1> QED
    BY <1>1, <1>2, StepStored, PTL DEF Spec

-----------------------------------------------------------------------------
(* The types.                                                                *)

\* What the session's and the cache's invariants do not say of the types.
Typed ==
    /\ client \in {"session", "cache"} /\ now \in 0..MaxNow /\ seq \in 0..MaxPuts
    /\ outcome \in Outcome \cup {Nothing} /\ asked \in Question \cup {Nothing}
    /\ outcome = Nothing <=> asked = Nothing

\* A function from the first numbers is a sequence.
LEMMA FunctionsAreSequences ==
    ASSUME NEW S, NEW n \in Nat, NEW f \in [1..n -> S]
    PROVE  f \in Seq(S)
  OBVIOUS

\* Whatever the tools answer, a call ends in an outcome.
LEMMA OutcomesAre ==
    ASSUME NEW p, NEW sources, NEW a
    PROVE  OutcomeOf(p, sources, a) \in Outcome
  BY DEF OutcomeOf, Stopped, Succeeded, Outcome, StopReason

\* The reasons a call is stopped for before its tools answer.
LEMMA StopsAre ==
    ASSUME NEW state, NEW t
    PROVE  StoppedFor(state, t, 0, FALSE) # "NONE" =>
               Stopped(StoppedFor(state, t, 0, FALSE)) \in Outcome
  BY DEF StoppedFor, RefusedFor, Reason, Stopped, Outcome, StopReason

\* Every step keeps them.
LEMMA StepTyped == Typed /\ [Next]_vars => Typed'
  <1> SUFFICES ASSUME Typed, [Next]_vars
               PROVE  Typed'
    OBVIOUS
  <1>1. CASE Tick
    BY <1>1, ResearchInputs DEF Tick, Typed
  <1>2. ASSUME NEW p \in Policies, NEW s \in Scenes, NEW a \in Answers, RunResearch(p, s, a)
        PROVE  Typed'
    <2>1. UNCHANGED <<client, now, seq>>
      BY <1>2 DEF RunResearch, cacheVars
    <2>2. asked' = [policy |-> p, scene |-> s, answer |-> a]
      BY <1>2 DEF RunResearch
    <2>3. asked' \in Question
      BY <2>2 DEF Question
    <2>4. outcome' \in Outcome
      <3>1. CASE EarlyStop(p) # "NONE"
        <4>1. outcome' = Stopped(EarlyStop(p))
          BY <1>2, <3>1 DEF RunResearch
        <4> QED
          BY <3>1, <4>1 DEF EarlyStop, Stopped, Outcome, StopReason
      <3>2. CASE EarlyStop(p) = "NONE"
        <4> DEFINE state == IF box = Nothing THEN CreateSandboxState(now) ELSE box
                   stop == StoppedFor(state, now, 0, FALSE)
        <4>1. outcome' = IF stop # "NONE" THEN Stopped(stop)
                         ELSE OutcomeOf(p, Retrieve(p.tools, s), a)
          BY <1>2, <3>2 DEF RunResearch
        <4>2. stop # "NONE" => Stopped(stop) \in Outcome
          BY StopsAre
        <4>3. OutcomeOf(p, Retrieve(p.tools, s), a) \in Outcome
          BY OutcomesAre
        <4> HIDE DEF state, stop
        <4> QED
          BY <4>1, <4>2, <4>3
      <3> QED
        BY <3>1, <3>2
    <2> QED
      BY <2>1, <2>3, <2>4, ResearchInputs DEF Typed
  <1>3. CASE OpenSandbox
    BY <1>3 DEF OpenSandbox, cacheVars, Typed
  <1>4. ASSUME NEW d \in {0, PerCallTimeout + 1}, NEW r \in BOOLEAN, RunSandboxedCall(d, r)
        PROVE  Typed'
    BY <1>4 DEF RunSandboxedCall, cacheVars, Typed
  <1>5. ASSUME NEW q \in Queries, CachePut(q)
        PROVE  Typed'
    BY <1>5, ResearchInputs DEF CachePut, sessionVars, Typed
  <1>6. CASE CacheClear
    BY <1>6, ResearchInputs DEF CacheClear, sessionVars, Typed
  <1>7. CASE UNCHANGED vars
    BY <1>7 DEF vars, Typed
  <1> QED
    BY <1>1, <1>2, <1>3, <1>4, <1>5, <1>6, <1>7 DEF Next

\* The variables keep their types.
THEOREM TypeCorrect == Spec => []TypeOK
  <1>1. Init => Typed /\ Stored
    BY EmptyIsStored, ResearchInputs DEF Init, Typed
  <1>2. Typed /\ IInv /\ Stored => TypeOK
    <2> SUFFICES ASSUME Typed, IInv, Stored
                 PROVE  TypeOK
      OBVIOUS
    <2>1. now \in 0..MaxNow /\ seq \in 0..MaxPuts /\ now \in Nat
      BY DEF Typed, Stored
    <2>2. /\ box \in SandboxState \cup {Nothing} /\ toolCalls \in Nat
          /\ box = Nothing => served = <<>>
      BY DEF IInv, Fits
    <2>3. served \in Seq(0..now)
      <3>1. CASE box = Nothing
        BY <2>2, <3>1
      <3>2. CASE box # Nothing
        <4>1. served \in Seq(Nat) /\ \A i \in 1..Len(served) : served[i] <= now
          BY <3>2 DEF IInv, Fits, InTime
        <4>2. \A i \in 1..Len(served) : served[i] \in 0..now
          BY <2>1, <4>1
        <4>3. served \in [1..Len(served) -> 0..now] /\ Len(served) \in Nat
          BY <4>1, <4>2
        <4> QED
          BY <4>3, FunctionsAreSequences
      <3> QED
        BY <3>1, <3>2
    <2>4. ASSUME NEW k \in DOMAIN cache
          PROVE  /\ k \in Keys /\ cache[k].createdAt \in 0..now
                 /\ cache[k].insertedSeq \in 1..seq
      <3> DEFINE e == cache[k]
      <3>1. /\ e.query \in Queries /\ e.createdAt \in 0..now
            /\ k = <<e.query, e.createdAt \div Bucket>> /\ e.insertedSeq = puts[k]
        BY <2>4 DEF Stored, IsEntryOf, CacheKey
      <3>2. puts[k] \in 1..seq
        BY <2>4 DEF Stored, HoldsTheLast, Numbered
      <3> HIDE DEF e
      <3>3. e.createdAt \div Bucket \in 0..e.createdAt
        BY <2>1, <3>1, Buckets
      <3>4. e.createdAt \div Bucket \in 0..MaxNow
        BY <2>1, <3>1, <3>3, ResearchInputs
      <3> QED
        BY <3>1, <3>2, <3>4 DEF Keys, e
    <2> QED
      BY <2>1, <2>2, <2>3, <2>4 DEF TypeOK, Typed
  <1> QED
    BY <1>1, <1>2, InitKeeps, StepKeeps, StepStored, StepTyped, PTL DEF Spec

=============================================================================
