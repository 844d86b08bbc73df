---------------------------- MODULE MemoryStore -----------------------------
(***************************************************************************)
(* The memory of backend/app/memory: write_memory checks a request and      *)
(* bounds its lifetime, MemoryEventLogStore keeps an append-only log of one *)
(* scope, and every read replays the log and applies the caps.  A request   *)
(* that is refused changes nothing and is not a step.                       *)
(***************************************************************************)
EXTENDS Integers, Sequences, FiniteSets

CONSTANTS
    FactIds, Facts,     \* a fact is [id, category, rank, sound]
    Requests,           \* the write requests that arrive
    Tiers, PlanCap, PlanDefault,    \* a tier's longest and default TTL class
    Ttl, Bucket,        \* the TTL classes' durations, the time bucket
    MaxFactsPerWrite, PerCategory, Total, MaxEvents,    \* limits of the code
    MaxTime             \* bound on the clock

Classes == DOMAIN Ttl

ASSUME MemorySettings ==
    /\ FactIds \subseteq Nat
    /\ \A f \in Facts : f.id \in FactIds /\ f.rank \in Nat /\ f.sound \in BOOLEAN
    /\ \A r \in Requests : /\ r.facts \in Seq(Facts) /\ r.tier \in Tiers
                          /\ r.requested \in {0} \cup Classes
    /\ PlanCap \in [Tiers -> Classes] /\ PlanDefault \in [Tiers -> Classes]
    /\ Ttl \in Seq(Nat \ {0}) /\ Len(Ttl) > 0
    /\ \A c, d \in Classes : c <= d => Ttl[c] <= Ttl[d]
    /\ {Bucket, MaxFactsPerWrite, PerCategory, Total, MaxEvents} \subseteq Nat \ {0}
    /\ MaxTime \in Nat

VARIABLES
    log,        \* _events_by_scope[scope_id]
    now         \* now_ms of the calls

vars == <<log, now>>

Added(f, until) == [kind |-> "added", id |-> f.id, fact |-> f, until |-> until]
Marked(kind, id) == [kind |-> kind, id |-> id]

-----------------------------------------------------------------------------
(* resolve_ttl: what a tier makes of a requested class; 0 is no request.     *)

Effective(tier, requested) ==
    CASE requested = 0 -> PlanDefault[tier]
      [] requested > PlanCap[tier] -> PlanCap[tier]
      [] OTHER -> requested

ExpiresAt(t, class) == (t \div Bucket) * Bucket + Ttl[class]

\* Deviation: one sound fact is enough.
AcceptsAny(facts) ==
    /\ Len(facts) \in 1..MaxFactsPerWrite
    /\ \E n \in DOMAIN facts : facts[n].sound

\* write_memory takes all of a request or nothing of it.  "sound" stands for its
\* category, provenance, schema and content checks.
Accepts(facts) ==
    /\ Len(facts) \in 1..MaxFactsPerWrite
    /\ \A n \in DOMAIN facts : facts[n].sound

\* append_events: what does not fit is refused.
Appended(l, events) ==
    IF Len(l \o events) <= MaxEvents THEN l \o events ELSE SubSeq(l \o events, 1, MaxEvents)

-----------------------------------------------------------------------------
(* recompute_current_view.                                                   *)

Nothing == [facts |-> <<>>, revoked |-> {}, expired |-> {}]

Put(facts, e) == [id \in DOMAIN facts \cup {e.id} |-> IF id = e.id THEN e ELSE facts[id]]

\* Deviation: an add replaces what the id holds.
ReplayEventOverwrites(v, e) ==
    CASE e.kind = "added" -> [v EXCEPT !.facts = Put(@, e), !.revoked = @ \ {e.id}]
      [] e.kind = "expired" -> [v EXCEPT !.expired = @ \cup {e.id}]
      [] e.kind = "revoked" -> [v EXCEPT !.revoked = @ \cup {e.id}]

ReplayEvent(v, e) ==
    CASE e.kind = "added" ->
            IF e.id \in DOMAIN v.facts \ v.revoked THEN v
            ELSE [v EXCEPT !.facts = Put(@, e), !.revoked = @ \ {e.id}]
      [] e.kind = "expired" -> [v EXCEPT !.expired = @ \cup {e.id}]
      [] e.kind = "revoked" -> [v EXCEPT !.revoked = @ \cup {e.id}]

Replay(l) ==
    LET upTo[n \in 0..Len(l)] == IF n = 0 THEN Nothing ELSE ReplayEvent(upTo[n - 1], l[n])
    IN upTo[Len(l)]

Active(v, t) ==
    {id \in DOMAIN v.facts : v.facts[id].until > t /\ id \notin v.expired \cup v.revoked}

\* _compute_priority_key: the id decides between equal ranks.
Better(f, g) == f.rank < g.rank \/ (f.rank = g.rank /\ f.id < g.id)

Best(v, ids, n) ==
    {a \in ids : Cardinality({b \in ids : Better(v.facts[b].fact, v.facts[a].fact)}) < n}

SameCategory(v, ids, a) == {b \in ids : v.facts[b].fact.category = v.facts[a].fact.category}

\* Deviation: the total cap is applied before the caps of the categories.
CappedTotalFirst(v, ids) ==
    LET best == Best(v, ids, Total)
    IN {a \in best : a \in Best(v, SameCategory(v, best, a), PerCategory)}

\* Each category is cut to its cap, then all of them to the total.
Capped(v, ids) ==
    Best(v, {a \in ids : a \in Best(v, SameCategory(v, ids, a), PerCategory)}, Total)

View(l, t) == LET v == Replay(l) IN Capped(v, Active(v, t))

Dropped(l, t) == LET v == Replay(l) IN Active(v, t) \ Capped(v, Active(v, t))

-----------------------------------------------------------------------------
Init == log = <<>> /\ now = 0

\* write_memory, then write_facts_with_expiry.
Write(r) ==
    LET until == ExpiresAt(now, Effective(r.tier, r.requested))
        events == [n \in DOMAIN r.facts |-> Added(r.facts[n], until)]
    IN
    /\ Accepts(r.facts)
    /\ log' = Appended(log, events)
    /\ UNCHANGED now

\* append_event of an event made by create_fact_expired_event.
MarkExpired(id) ==
    /\ log' = Appended(log, <<Marked("expired", id)>>)
    /\ UNCHANGED now

\* append_event of an event made by create_fact_revoked_event.
Revoke(id) ==
    /\ log' = Appended(log, <<Marked("revoked", id)>>)
    /\ UNCHANGED now

Tick ==
    /\ now < MaxTime
    /\ now' = now + 1
    /\ UNCHANGED log

Next ==
    \/ \E r \in Requests : Write(r)
    \/ \E id \in FactIds : MarkExpired(id) \/ Revoke(id)
    \/ Tick

Spec == Init /\ [][Next]_vars

-----------------------------------------------------------------------------
Instants == 0..(MaxTime + Ttl[Len(Ttl)])
SoundFacts == {f \in Facts : f.sound}

Events ==
    {Added(f, until) : f \in SoundFacts, until \in Instants}
    \cup {Marked(kind, id) : kind \in {"expired", "revoked"}, id \in FactIds}

TypeOK ==
    /\ log \in Seq(Events) /\ Len(log) <= MaxEvents
    /\ now \in 0..MaxTime

\* The properties below are about memory/store.py and the writer before it,
\* memory/adapter.py.

AddsSinceRevoke(id) ==
    {n \in DOMAIN log : /\ log[n].kind = "added" /\ log[n].id = id
                        /\ \A m \in n..Len(log) : log[m] # Marked("revoked", id)}

\* The replay finds what the log says: an id is active while the first fact that
\* was added since its last revocation lasts, unless the log says it expired.
ReplayIsDeclared ==
    LET v == Replay(log) IN
    \A id \in FactIds :
        LET adds == AddsSinceRevoke(id)
            first == CHOOSE n \in adds : \A m \in adds : n <= m
        IN IF /\ adds # {}
              /\ log[first].until > now
              /\ \A n \in DOMAIN log : log[n] # Marked("expired", id)
           THEN id \in Active(v, now) /\ v.facts[id] = log[first]
           ELSE id \notin Active(v, now)

\* The caps hold, no fact is dropped for a worse one of its category, and one is
\* dropped only where its category, or the whole view, is full of better ones.
CapsKeepTheBest ==
    LET v == Replay(log)
        active == Active(v, now)
        kept == View(log, now)
        better(ids, a) == {b \in ids : Better(v.facts[b].fact, v.facts[a].fact)}
    IN
    /\ Cardinality(kept) <= Total
    /\ \A a \in kept : Cardinality(SameCategory(v, kept, a)) <= PerCategory
    /\ \A a \in Dropped(log, now) :
          \/ Cardinality(better(SameCategory(v, active, a), a)) >= PerCategory
          \/ Cardinality(better(kept, a)) = Total

\* The store does to each fact what FactLife promises.
HeldBy(l) ==
    LET v == Replay(l)
    IN {[fact |-> v.facts[id].fact, until |-> v.facts[id].until] :
           id \in DOMAIN v.facts \ (v.expired \cup v.revoked)}

Life == INSTANCE FactLife WITH held <- HeldBy(log), buried <- Replay(log).expired

KeepsItsPromise == Life!Spec

=============================================================================
