------------------------------ MODULE Research ------------------------------
(***************************************************************************)
(* run_policy_gated_research (app/integration/research_wiring.py) called      *)
(* again and again by a session that hands the sandbox state of one outcome   *)
(* to the next call, and the ResearchCache (app/research/cache.py).           *)
(*                                                                         *)
(* The two share no state but the clock (see RunResearch: a call that is       *)
(* given a cache fails before it reaches it), so a behaviour has one client:   *)
(* the session, or whoever puts bundles into the cache.                        *)
(***************************************************************************)
EXTENDS SandboxOps, ResearchRules

CONSTANTS
    Policies,       \* [allowed, withCache, tools, citationsRequired]
    Scenes,         \* what each tool would return now
    Answers,        \* the claims of the answer to be supported
    Queries, Bucket, MaxEntries,
    MaxNow, MaxPuts,        \* bounds on the clock and on the cache's counter
    Nothing

StopReason ==
    Reason \cup {"POLICY_DISABLED", "INTERNAL_INCONSISTENCY", "NO_SOURCE", "INJECTION_DETECTED",
                 "VALIDATION_FAIL", "SUCCESS_COMPLETED"}

\* decision_delta either forces the action FALLBACK or is empty.
Outcome == [ok : BOOLEAN, reason : StopReason, forces : {"FALLBACK", "none"}]

\* The inputs of a call.
Question == [policy : Policies, scene : Scenes, answer : Answers]

ASSUME ResearchInputs ==
    /\ \A p \in Policies : {p.allowed, p.withCache, p.citationsRequired} \subseteq BOOLEAN
    /\ \A p \in Policies : p.tools \in Seq({"WEB", "DOCS"}) /\ Len(p.tools) <= 2
    /\ \A s \in Scenes : \A tool \in {"WEB", "DOCS"} : \A i \in DOMAIN s[tool] : IsSource(s[tool][i])
    /\ \A a \in Answers : \A i \in DOMAIN a : IsClaim(a[i])
    /\ Bucket \in Nat \ {0} /\ MaxEntries \in Nat \ {0}
    /\ MaxNow \in Nat /\ MaxPuts \in Nat
    /\ Nothing \notin SandboxState \cup Outcome \cup Question

VARIABLES
    client, now,
    box,            \* the sandbox state the session holds
    outcome,        \* the last ResearchOutcome
    asked,          \* the inputs of the call that made it
    cache, seq,     \* the entries of the cache, and its counter
    served,         \* history: the times of the calls this sandbox state was charged for
    toolCalls,      \* history: the tools asked under this sandbox state
    puts            \* history: for each key ever put, the counter of its last put

vars == <<client, now, box, outcome, asked, cache, seq, served, toolCalls, puts>>
sessionVars == <<box, outcome, asked, served, toolCalls>>
cacheVars == <<cache, seq, puts>>

Stopped(reason) == [ok |-> FALSE, reason |-> reason, forces |-> "FALLBACK"]
Succeeded == [ok |-> TRUE, reason |-> "SUCCESS_COMPLETED", forces |-> "none"]

CacheKey(q, t) == <<q, t \div Bucket>>
Keys == Queries \X (0..MaxNow)

TypeOK ==
    /\ client \in {"session", "cache"} /\ now \in 0..MaxNow
    /\ box \in SandboxState \cup {Nothing}
    /\ outcome \in Outcome \cup {Nothing}
    /\ asked \in Question \cup {Nothing}
    /\ seq \in 0..MaxPuts
    /\ DOMAIN cache \subseteq Keys
    /\ \A k \in DOMAIN cache : cache[k].createdAt \in 0..now /\ cache[k].insertedSeq \in 1..seq
    /\ served \in Seq(0..now)
    /\ toolCalls \in Nat
    /\ box = Nothing => served = <<>>
    /\ outcome = Nothing <=> asked = Nothing

Init ==
    /\ client \in {"session", "cache"} /\ now = 0
    /\ box = Nothing /\ outcome = Nothing /\ asked = Nothing
    /\ cache = <<>> /\ seq = 0
    /\ served = <<>> /\ toolCalls = 0 /\ puts = <<>>

Tick ==
    /\ now < MaxNow /\ now' = now + 1
    /\ UNCHANGED <<client, box, outcome, asked, cache, seq, served, toolCalls, puts>>

-----------------------------------------------------------------------------
(* The session.                                                              *)

\* What is left to bind: sanitised, then without duplicates.
Usable(sources) == DedupBundles(SanitizeBundles(sources))

\* Where the pipeline ends once the tools have answered.
OutcomeOf(policy, sources, answer) ==
    IF sources = {} THEN Stopped("NO_SOURCE")
    ELSE IF HadInjection(sources) /\ AllEmpty(SanitizeBundles(sources))
    THEN Stopped("INJECTION_DETECTED")
    ELSE IF BinderMode(answer, Usable(sources), policy.citationsRequired) = "OK"
    THEN Succeeded ELSE Stopped("VALIDATION_FAIL")

\* Before the tools: what a policy alone refuses, or the cache key that is built from
\* arguments CacheKeyParts does not have, and whose error ends the call.
EarlyStop(policy) ==
    IF ~policy.allowed THEN "POLICY_DISABLED"
    ELSE IF policy.withCache THEN "INTERNAL_INCONSISTENCY" ELSE "NONE"

\* What the caller holds next: nothing after an early stop.
Charge(state) ==
    /\ box' = Charged(state, now)
    /\ served' = IF RefusedFor(state, now) = "NONE" THEN Append(served, now) ELSE served

RunResearch(policy, scene, answer) ==
    /\ client = "session"
    /\ asked' = [policy |-> policy, scene |-> scene, answer |-> answer]
    /\ UNCHANGED <<client, now>> /\ UNCHANGED cacheVars
    /\ IF EarlyStop(policy) # "NONE"
       THEN /\ outcome' = Stopped(EarlyStop(policy))
            /\ box' = Nothing /\ served' = <<>> /\ toolCalls' = 0
       ELSE LET state == IF box = Nothing THEN CreateSandboxState(now) ELSE box
                stop == StoppedFor(state, now, 0, FALSE)
            IN /\ Charge(state)
               /\ outcome' = IF stop # "NONE" THEN Stopped(stop)
                             ELSE OutcomeOf(policy, Retrieve(policy.tools, scene), answer)
               /\ toolCalls' = IF stop # "NONE" THEN toolCalls
                               ELSE toolCalls + Len(policy.tools)

\* A client that uses the sandbox itself: it makes a state, and calls a tool of its own.
OpenSandbox ==
    /\ client = "session" /\ box = Nothing
    /\ box' = CreateSandboxState(now)
    /\ UNCHANGED <<client, now, outcome, asked, served, toolCalls>> /\ UNCHANGED cacheVars

RunSandboxedCall(duration, raises) ==
    /\ client = "session" /\ box # Nothing
    /\ Charge(box)
    /\ toolCalls' = IF RefusedFor(box, now) = "NONE" /\ duration <= PerCallTimeout
                    THEN toolCalls + 1 ELSE toolCalls
    /\ UNCHANGED <<client, now, outcome, asked>> /\ UNCHANGED cacheVars

-----------------------------------------------------------------------------
(* The cache.                                                                *)

Oldest == CHOOSE k \in DOMAIN cache :
              \A j \in DOMAIN cache : cache[k].insertedSeq <= cache[j].insertedSeq

\* Deviation: a full cache evicts for a key it already holds as well.
EvictedAlways(k) == IF Cardinality(DOMAIN cache) >= MaxEntries THEN {Oldest} ELSE {}

Evicted(k) ==
    IF Cardinality(DOMAIN cache) >= MaxEntries /\ k \notin DOMAIN cache THEN {Oldest} ELSE {}

CachePut(q) ==
    LET k == CacheKey(q, now)
        entry == [query |-> q, createdAt |-> now, insertedSeq |-> seq + 1]
        kept == (DOMAIN cache \ Evicted(k)) \ {k}
    IN /\ client = "cache" /\ seq < MaxPuts
       /\ seq' = seq + 1
       /\ cache' = [j \in kept \cup {k} |-> IF j = k THEN entry ELSE cache[j]]
       /\ puts' = [j \in DOMAIN puts \cup {k} |-> IF j = k THEN seq + 1 ELSE puts[j]]
       /\ UNCHANGED <<client, now>> /\ UNCHANGED sessionVars

CacheClear ==
    /\ client = "cache" /\ seq > 0
    /\ cache' = <<>> /\ seq' = 0 /\ puts' = <<>>
    /\ UNCHANGED <<client, now>> /\ UNCHANGED sessionVars

Next ==
    \/ Tick
    \/ \E p \in Policies, s \in Scenes, a \in Answers : RunResearch(p, s, a)
    \/ OpenSandbox
    \/ \E d \in {0, PerCallTimeout + 1}, r \in BOOLEAN : RunSandboxedCall(d, r)
    \/ \E q \in Queries : CachePut(q)
    \/ CacheClear

Spec == Init /\ [][Next]_vars

-----------------------------------------------------------------------------
(* Properties.                                                               *)

\* However the caller mixes its calls, a sandbox state that is handed on keeps its caps
\* at once: the budget, which counts a call once whether it asks one tool or two, the time,
\* and, although the window restarts at whatever call comes
\* after its end, never more than twice the calls of a minute within a minute.
CapsHold ==
    box # Nothing =>
        /\ Len(served) = box.callsUsed /\ Len(served) <= MaxCallsTotal
        /\ toolCalls <= 2 * MaxCallsTotal
        /\ \A i \in 1..Len(served) : served[i] < box.startedAt + TotalTimeout
        /\ \A i, j \in 1..Len(served) :
             j - i >= 2 * MaxCallsPerMinute => served[j] - served[i] >= Minute

\* What an accepted answer rests on is what was left of the tools' texts: every required
\* claim that counts shares two words with a text without its injected parts, or names
\* the domain of a source that was retrieved in this very call.
SupportedByWhatIsLeft ==
    (outcome # Nothing /\ outcome.ok /\ asked.policy.citationsRequired) =>
        LET sources == Retrieve(asked.policy.tools, asked.scene)
        IN /\ sources # {}
           /\ \A c \in ExtractClaims(asked.answer) : c.required =>
                \E s \in sources :
                    \/ c.words \cap s.names # {}
                    \/ \E i \in DOMAIN s.snippets :
                         Cardinality(c.words \cap
                             UNION {k.words : k \in {k \in s.snippets[i] : k.mark # "removed"}}) >= 2

\* The cache holds the keys put last, each put again counting as new, never more than its
\* limit, and whatever a lookup finds was stored for that query in the current bucket.
CacheServesLatest ==
    /\ DOMAIN cache =
         {k \in DOMAIN puts : Cardinality({j \in DOMAIN puts : puts[j] > puts[k]}) < MaxEntries}
    /\ \A q \in Queries : CacheKey(q, now) \in DOMAIN cache =>
         LET entry == cache[CacheKey(q, now)]
         IN entry.query = q /\ now - entry.createdAt < Bucket
=============================================================================
