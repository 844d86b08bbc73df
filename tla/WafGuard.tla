------------------------------ MODULE WafGuard ------------------------------
(***************************************************************************)
(* The rate limiter and lockouts of backend/app/waf/guard.py.  A request is *)
(* checked first for its IP and then for its subject, each against a burst  *)
(* and a sustained window, in the rate_limits table of the database or,     *)
(* when no connection can be had, in memory of the process.  waf_dependency *)
(* does not await between reading the clock and its verdict, so one request *)
(* is one step; its statements can fail, and a failed statement aborts the  *)
(* ones after it.                                                           *)
(***************************************************************************)
EXTENDS Integers, Sequences, FiniteSets

CONSTANTS
    Ips, Users,         \* the keys of the two scopes
    Limit,              \* [Ips \cup Users -> [burst, sustain]]
    BurstWindow, SustainWindow,
    Schedule,           \* WAF_LOCKOUT_SCHEDULE_SECONDS
    Cooldown,           \* WAF_LOCKOUT_COOLDOWN_SECONDS
    DayLength,          \* the window of a lockout row
    MaxTime, MaxFailures, MaxOutages, MaxRestarts   \* bounds

Keys == Ips \cup Users

ASSUME WafSettings ==
    /\ Ips \cap Users = {}    \* a row's key holds its scope
    /\ Limit \in [Keys -> [burst : Nat \ {0}, sustain : Nat \ {0}]]
    /\ {BurstWindow, SustainWindow, DayLength} \subseteq Nat \ {0}
    /\ Schedule \in Seq(Nat \ {0}) /\ Len(Schedule) > 0
    /\ Cooldown \in Nat
    /\ MaxTime \in Nat \ {0}
    /\ {MaxFailures, MaxOutages, MaxRestarts} \subseteq Nat

Backends == {"db", "mem"}

\* Where a check against the database can fail: reading the lockout, counting
\* in a window, writing the lockout, writing its end.  "none" does not fail.
FailPoints == {"none", "read", "burst", "sustain", "lock", "end"}

VARIABLES
    now,        \* the clock
    table,      \* [Backends -> [Keys -> counters]]
    checks,     \* the checks of the last request, for the properties
    told,       \* until when each key was told to stay away
    passes,     \* the checks each key has passed in the current burst window
    failures,   \* statements that failed
    outages,    \* checks that got no connection
    restarts

vars == <<now, table, checks, told, passes, failures, outages, restarts>>

\* until = 0 is NULL, or no entry; day is the day of the lockout row.
Fresh == [burst |-> [start |-> 0, hits |-> 0], sustain |-> [start |-> 0, hits |-> 0],
          strikes |-> 0, until |-> 0, day |-> 0]

Counter == [start : 0..MaxTime, hits : Nat]
LastStep == Schedule[Len(Schedule)]

Row == [burst : Counter, sustain : Counter, strikes : Nat, until : Nat, day : Nat]

TypeOK ==
    /\ now \in 1..MaxTime
    /\ table \in [Backends -> [Keys -> Row]]
    /\ told \in [Keys -> [until : Nat, by : Backends, day : Nat, kept : BOOLEAN]]
    /\ passes \in [Keys -> Counter]
    /\ failures \in 0..MaxFailures /\ outages \in 0..MaxOutages /\ restarts \in 0..MaxRestarts

Init ==
    /\ now = 1
    /\ table = [b \in Backends |-> [k \in Keys |-> Fresh]]
    /\ checks = <<>>
    /\ told = [k \in Keys |-> [until |-> 0, by |-> "db", day |-> 0, kept |-> FALSE]]
    /\ passes = [k \in Keys |-> [start |-> 0, hits |-> 0]]
    /\ failures = 0 /\ outages = 0 /\ restarts = 0

-----------------------------------------------------------------------------
(* One counter record, whichever backend holds it.                           *)

Floor(t, size) == t - (t % size)

\* Deviation: the counter of an earlier window goes on counting.
HitKeepsCounting(w, size, t) == [start |-> Floor(t, size), hits |-> w.hits + 1]

\* _increment_window_db, _increment_window_mem.
Hit(w, size, t) ==
    IF w.start = Floor(t, size) THEN [w EXCEPT !.hits = @ + 1]
    ELSE [start |-> Floor(t, size), hits |-> 1]

\* Deviation: one more than the limit is let through.
OverByTwo(w, limit) == w.hits > limit + 1

Over(w, limit) == w.hits > limit

\* The lockout row is keyed by the UTC day of the request; memory has no day.
OfToday(c, b, t) ==
    IF b = "mem" \/ c.day = t \div DayLength THEN c
    ELSE [c EXCEPT !.strikes = 0, !.until = 0, !.day = t \div DayLength]

\* Deviation: the lockout is forgotten with every look at it.
AfterLookForgets(c, t) == [c EXCEPT !.strikes = 0, !.until = 0]

\* Deviation: a lockout long over loses one strike with every look at it.
AfterLookDecays(c, t) ==
    IF c.until # 0 /\ t - c.until > Cooldown THEN [c EXCEPT !.strikes = @ - 1] ELSE c

\* _get_lockout_db, _check_lockout_mem: a lockout long over is forgotten.
AfterLook(c, t) ==
    IF c.until # 0 /\ t - c.until > Cooldown
    THEN [c EXCEPT !.strikes = 0, !.until = 0] ELSE c

Locked(c, t) == c.until > t

Level(strikes) == IF strikes < Len(Schedule) THEN strikes ELSE Len(Schedule)

\* _set_lockout_db up to its first commit: the strike is counted.
Strike(c, t) ==
    [c EXCEPT !.strikes = IF c.until # 0 /\ t - c.until > Cooldown THEN 1 ELSE @ + 1,
              !.until = t]

\* _set_lockout_db to its end, _apply_lockout_mem.
LockOut(c, t) ==
    LET s == Strike(c, t) IN [s EXCEPT !.until = t + Schedule[Level(s.strikes)]]

-----------------------------------------------------------------------------
(* _rate_check, statement by statement: what the record becomes, whether the *)
(* check passes, and until when the client is told to stay away.             *)

Verdict(c, passed, until, kept) == [row |-> c, passed |-> passed, until |-> until, kept |-> kept]

Exceeded(c, t, fail) ==
    CASE fail = "lock" -> Verdict(c, FALSE, t + LastStep, FALSE)
      [] fail = "end" -> Verdict(Strike(c, t), FALSE, t + LastStep, FALSE)
      [] OTHER -> LET l == LockOut(c, t) IN Verdict(l, FALSE, l.until, TRUE)

RateCheck(c0, b, k, t, fail) ==
    LET c == AfterLook(OfToday(c0, b, t), t)
        afterBurst == [c EXCEPT !.burst = Hit(@, BurstWindow, t)]
        afterBoth == [afterBurst EXCEPT !.sustain = Hit(@, SustainWindow, t)]
    IN
    IF fail = "read" THEN Verdict(c0, TRUE, 0, FALSE)
    ELSE IF Locked(c, t) THEN Verdict(c, FALSE, c.until, TRUE)
    ELSE IF fail = "burst" THEN Verdict(c, TRUE, 0, FALSE)
    ELSE IF Over(afterBurst.burst, Limit[k].burst) THEN Exceeded(afterBurst, t, fail)
    ELSE IF fail = "sustain" THEN Verdict(afterBurst, TRUE, 0, FALSE)
    ELSE IF Over(afterBoth.sustain, Limit[k].sustain) THEN Exceeded(afterBoth, t, fail)
    ELSE Verdict(afterBoth, TRUE, 0, FALSE)

\* What one check leaves in the history the properties speak of.
Check(k, b, fail, v) == [key |-> k, by |-> b, fail |-> fail, passed |-> v.passed]

Told(k, b, v) ==
    IF v.passed \/ v.until <= told[k].until THEN told[k]
    ELSE [until |-> v.until, by |-> b, day |-> now \div DayLength,
          kept |-> v.kept]

Passes(k, v) == IF v.passed THEN Hit(passes[k], BurstWindow, now) ELSE passes[k]

Failed(fail) == IF fail = "none" THEN 0 ELSE 1
Out(b) == IF b = "mem" THEN 1 ELSE 0

\* waf_dependency: the IP first, and the subject only if the IP passes.  Each
\* check asks for a connection of its own and may not get one.
Request(i, u) ==
    \E b \in Backends, f \in FailPoints :
        LET v == RateCheck(table[b][i], b, i, now, f) IN
        /\ b = "mem" => f = "none"
        /\ \/ /\ ~v.passed
              /\ failures' = failures + Failed(f) /\ failures' <= MaxFailures
              /\ outages' = outages + Out(b) /\ outages' <= MaxOutages
              /\ table' = [table EXCEPT ![b][i] = v.row]
              /\ checks' = <<Check(i, b, f, v)>>
              /\ told' = [told EXCEPT ![i] = Told(i, b, v)]
              /\ UNCHANGED passes
           \/ /\ v.passed
              /\ \E d \in Backends, g \in FailPoints :
                    LET w == RateCheck(table[d][u], d, u, now, g) IN
                    /\ d = "mem" => g = "none"
                    /\ failures' = failures + Failed(f) + Failed(g) /\ failures' <= MaxFailures
                    /\ outages' = outages + Out(b) + Out(d) /\ outages' <= MaxOutages
                    /\ table' = [table EXCEPT ![b][i] = v.row, ![d][u] = w.row]
                    /\ checks' = <<Check(i, b, f, v), Check(u, d, g, w)>>
                    /\ told' = [told EXCEPT ![u] = Told(u, d, w)]
                    /\ passes' = [passes EXCEPT ![i] = Passes(i, v), ![u] = Passes(u, w)]
        /\ UNCHANGED <<now, restarts>>

Tick ==
    /\ now < MaxTime
    /\ now' = now + 1
    /\ checks' = <<>>
    /\ UNCHANGED <<table, told, passes, failures, outages, restarts>>

\* A new process: its memory limiter is empty, the database is not.
Restart ==
    /\ restarts < MaxRestarts
    /\ restarts' = restarts + 1
    /\ table' = [table EXCEPT !["mem"] = [k \in Keys |-> Fresh]]
    /\ told' = [k \in Keys |-> IF told[k].by = "mem" THEN [told[k] EXCEPT !.kept = FALSE] ELSE told[k]]
    /\ checks' = <<>>
    /\ UNCHANGED <<now, passes, failures, outages>>

Next ==
    \/ \E i \in Ips, u \in Users : Request(i, u)
    \/ Tick
    \/ Restart

Spec == Init /\ [][Next]_vars

-----------------------------------------------------------------------------
\* The properties are about waf/guard.py: what its two limiters and its lockouts
\* promise together.

\* In one burst window a key passes at most its limit in the database and once
\* more in the memory of each process, but for the statements that failed.
WindowBounded ==
    \A k \in Keys : passes[k].hits <= (2 + restarts) * Limit[k].burst + failures

InForce(k) == now < told[k].until /\ told[k].kept

\* The check looks where the lockout is written: the same backend and, in the
\* database, the same day, and reads it without failing.
LooksThere(c) ==
    /\ c.by = told[c.key].by
    /\ c.fail # "read"
    /\ c.by = "db" => told[c.key].day = now \div DayLength

\* While a lockout that was written is in force, a check that looks where it
\* was written neither lets the key through nor strikes it again.
LockoutServed ==
    [][\A n \in DOMAIN checks' :
          LET c == checks'[n] IN
          InForce(c.key) /\ LooksThere(c) =>
             /\ ~c.passed
             /\ table'[c.by][c.key].strikes = table[c.by][c.key].strikes]_vars

Room(c) ==
    LET w == table[c.by][c.key].sustain IN
    w.start # Floor(now, SustainWindow) \/ w.hits < Limit[c.key].sustain

\* A client that stayed away as long as it was told is let through, if nobody
\* else used its key since and the sustained window has room, wherever a lockout
\* outlasts the burst window that caused it.
PatienceIsEnough ==
    [][\A n \in DOMAIN checks' :
          LET c == checks'[n] IN
          /\ now >= told[c.key].until
          /\ \A s \in DOMAIN Schedule : Schedule[s] >= BurstWindow
          /\ passes[c.key].start # Floor(now, BurstWindow)
          /\ Room(c)
          => c.passed]_vars

=============================================================================
