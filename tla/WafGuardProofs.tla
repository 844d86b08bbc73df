--------------------------- MODULE WafGuardProofs ---------------------------
(***************************************************************************)
(* Proofs about WafGuard, for all sets of keys, limits, windows, schedules   *)
(* and bounds.  A check is looked at key by key: what it does to the row of  *)
(* its key in one backend, and what it does to that key's history.           *)
(***************************************************************************)
EXTENDS WafGuard, TLAPS

\* The settings that are numbers, one by one.
LEMMA Settings ==
    /\ BurstWindow \in Nat \ {0} /\ SustainWindow \in Nat \ {0} /\ DayLength \in Nat \ {0}
    /\ Cooldown \in Nat /\ MaxTime \in Nat
    /\ MaxFailures \in Nat /\ MaxOutages \in Nat /\ MaxRestarts \in Nat
  BY WafSettings

-----------------------------------------------------------------------------
(* Windows.                                                                  *)

\* Multiplying keeps the order.
LEMMA Times ==
    ASSUME NEW s \in Nat \ {0}, NEW a \in Int, NEW b \in Int, a >= b + 1
    PROVE  s * a >= s * b + s
  <1>1. PICK d \in Nat : a = b + 1 + d
    BY a - b - 1 \in Nat
  <1>2. s * a = s * b + s + s * d /\ s * d \in Nat
    BY <1>1
  <1> QED
    BY <1>2

\* A window starts no later than the times in it, and ends after them.
LEMMA FloorIs ==
    ASSUME NEW t \in Nat, NEW size \in Nat \ {0}
    PROVE  /\ Floor(t, size) \in Nat
           /\ Floor(t, size) <= t /\ t < Floor(t, size) + size
           /\ t \div size \in Nat
           /\ t \div size <= (t + 1) \div size
  <1>1. t % size \in 0..size - 1 /\ t % size <= t
    OBVIOUS
  <1>2. t \div size \in Nat /\ t \div size <= (t + 1) \div size
    OBVIOUS
  <1> QED
    BY <1>1, <1>2 DEF Floor

\* A second later it is the same window, or a window that starts then.
LEMMA FloorNext ==
    ASSUME NEW t \in Nat, NEW size \in Nat \ {0}
    PROVE  Floor(t + 1, size) \in {Floor(t, size), t + 1}
  <1> DEFINE q == t \div size
             r == t % size
             p == (t + 1) \div size
             m == (t + 1) % size
  <1>1. /\ q \in Nat /\ r \in 0..size - 1 /\ t = size * q + r
        /\ p \in Nat /\ m \in 0..size - 1 /\ t + 1 = size * p + m
    OBVIOUS
  <1>2. q <= p
    BY FloorIs
  <1> HIDE DEF q, r, p, m
  <1>3. CASE p = q
    <2>1. m = r + 1
      <3>1. size * p = size * q
        BY <1>3
      <3> QED
        BY <1>1, <3>1
    <2>2. t + 1 - m = t - r
      BY <1>1, <2>1
    <2> QED
      BY <2>2 DEF Floor, r, m
  <1>4. CASE p >= q + 1
    <2>1. size * p >= size * q + size
      BY <1>1, <1>4, Times
    <2>2. size * p \in Nat /\ size * q \in Nat
      BY <1>1
    <2>3. m = 0
      BY <1>1, <2>1, <2>2
    <2> QED
      BY <2>3 DEF Floor, m
  <1> QED
    BY <1>1, <1>2, <1>3, <1>4

\* A counter that is hit is in the window of its time, and counts from one.
LEMMA HitIs ==
    ASSUME NEW w \in Counter, NEW size \in Nat \ {0}, NEW t \in 1..MaxTime
    PROVE  /\ Hit(w, size, t) \in Counter
           /\ Hit(w, size, t).start = Floor(t, size)
           /\ Hit(w, size, t).hits = IF w.start = Floor(t, size) THEN w.hits + 1 ELSE 1
  <1>1. Floor(t, size) \in 0..MaxTime
    BY FloorIs, Settings
  <1> QED
    BY <1>1 DEF Hit, Counter

-----------------------------------------------------------------------------
(* One check.                                                                *)

Answer == [row : Row, passed : BOOLEAN, until : Nat, kept : BOOLEAN]

\* What forgetting a lockout does to a row.
LEMMA ForgottenIs ==
    ASSUME NEW c \in Row, NEW r, r = [c EXCEPT !.strikes = 0, !.until = 0]
    PROVE  /\ r \in Row
           /\ r.burst = c.burst /\ r.sustain = c.sustain /\ r.until = 0 /\ r.day = c.day
  BY DEF Row

\* The limiter's reading of a lockout leaves the windows alone, and ends no
\* lockout that is in force today.
LEMMA LookIs ==
    ASSUME NEW c0 \in Row, NEW b \in Backends, NEW t \in 1..MaxTime
    PROVE  LET c == AfterLook(OfToday(c0, b, t), t) IN
           /\ c \in Row
           /\ c.burst = c0.burst /\ c.sustain = c0.sustain
           /\ c.until \in {0, c0.until}
           /\ b = "db" => c.day = t \div DayLength
           /\ (c0.until > t /\ (b = "db" => c0.day = t \div DayLength)) => c = c0
  <1> DEFINE o == OfToday(c0, b, t)
  <1>1. t \div DayLength \in Nat
    BY FloorIs, Settings
  <1>2. /\ o \in Row
        /\ o.burst = c0.burst /\ o.sustain = c0.sustain
        /\ o.until \in {0, c0.until}
        /\ b = "db" => o.day = t \div DayLength
        /\ (b = "db" => c0.day = t \div DayLength) => o = c0
    BY <1>1 DEF OfToday, Row, Backends
  <1> HIDE DEF o
  <1>3. /\ AfterLook(o, t) \in Row
        /\ AfterLook(o, t).burst = o.burst /\ AfterLook(o, t).sustain = o.sustain
        /\ AfterLook(o, t).until \in {0, o.until}
        /\ AfterLook(o, t).day = o.day
        /\ o.until > t => AfterLook(o, t) = o
    <2>1. o.until \in Nat /\ (o.until > t => ~(t - o.until > Cooldown))
      BY <1>2, Settings DEF Row
    <2>2. AfterLook(o, t) \in {o, [o EXCEPT !.strikes = 0, !.until = 0]}
      BY DEF AfterLook
    <2>3. o.until > t => AfterLook(o, t) = o
      BY <2>1 DEF AfterLook
    <2>4. /\ AfterLook(o, t) \in Row
          /\ AfterLook(o, t).burst = o.burst /\ AfterLook(o, t).sustain = o.sustain
          /\ AfterLook(o, t).until \in {0, o.until}
          /\ AfterLook(o, t).day = o.day
      <3>1. CASE AfterLook(o, t) = o
        BY <1>2, <3>1
      <3>2. CASE AfterLook(o, t) = [o EXCEPT !.strikes = 0, !.until = 0]
        BY <1>2, <3>2, ForgottenIs
      <3> QED
        BY <2>2, <3>1, <3>2
    <2> QED
      BY <2>3, <2>4
  <1> QED
    BY <1>2, <1>3 DEF o

\* A limit that is exceeded is answered with a step of the schedule.
LEMMA ExceededIs ==
    ASSUME NEW c \in Row, NEW t \in 1..MaxTime, NEW f \in FailPoints
    PROVE  LET v == Exceeded(c, t, f) IN
           /\ v \in Answer
           /\ v.row.burst = c.burst /\ v.row.day = c.day
           /\ ~v.passed
           /\ \E s \in DOMAIN Schedule : v.until = t + Schedule[s]
           /\ v.row.until <= v.until \/ v.row.until = c.until
           /\ v.kept => v.row.until = v.until
  <1> DEFINE s == Strike(c, t)
             l == LockOut(c, t)
  <1>1. Len(Schedule) \in DOMAIN Schedule /\ \A n \in DOMAIN Schedule : Schedule[n] \in Nat
    BY WafSettings
  <1>t. t \in Nat
    BY Settings
  <1>2. /\ s \in Row /\ s.strikes >= 1 /\ s.until = t
        /\ s.burst = c.burst /\ s.day = c.day
    <2>1. s \in {[c EXCEPT !.strikes = 1, !.until = t],
                [c EXCEPT !.strikes = c.strikes + 1, !.until = t]}
      BY DEF Strike
    <2>2. c.strikes \in Nat /\ c.strikes + 1 \in Nat /\ c.strikes + 1 >= 1
      BY DEF Row
    <2> HIDE DEF s
    <2>3. /\ s \in Row /\ s.strikes \in {1, c.strikes + 1} /\ s.until = t
          /\ s.burst = c.burst /\ s.day = c.day
      <3>1. CASE s = [c EXCEPT !.strikes = 1, !.until = t]
        BY <3>1, <1>t DEF Row
      <3>2. CASE s = [c EXCEPT !.strikes = c.strikes + 1, !.until = t]
        BY <3>2, <2>2, <1>t DEF Row
      <3> QED
        BY <2>1, <3>1, <3>2
    <2> QED
      BY <2>2, <2>3
  <1>3. Level(s.strikes) \in DOMAIN Schedule
    <2> HIDE DEF s
    <2> QED
      BY <1>1, <1>2, WafSettings DEF Level, Row
  <1>4. /\ l \in Row /\ l.burst = c.burst /\ l.day = c.day
        /\ l.until = t + Schedule[Level(s.strikes)]
    <2>1. l = [s EXCEPT !.until = t + Schedule[Level(s.strikes)]]
      BY DEF LockOut
    <2> HIDE DEF s, l
    <2> QED
      BY <2>1, <1>1, <1>2, <1>3 DEF Row
  <1>5. CASE f = "lock"
    <2>1. Exceeded(c, t, f) = Verdict(c, FALSE, t + LastStep, FALSE)
      BY <1>5 DEF Exceeded
    <2> QED
      BY <2>1, <1>1 DEF Verdict, Answer, LastStep
  <1>6. CASE f = "end"
    <2>1. Exceeded(c, t, f) = Verdict(s, FALSE, t + LastStep, FALSE)
      BY <1>6 DEF Exceeded
    <2> HIDE DEF s
    <2> QED
      BY <2>1, <1>1, <1>2 DEF Verdict, Answer, LastStep
  <1>7. CASE f \notin {"lock", "end"}
    <2>1. Exceeded(c, t, f) = Verdict(l, FALSE, l.until, TRUE)
      BY <1>7 DEF Exceeded
    <2> HIDE DEF s, l
    <2> QED
      BY <2>1, <1>1, <1>3, <1>4 DEF Verdict, Answer, Row
  <1> QED
    BY <1>5, <1>6, <1>7

\* A key has room in the sustained window of the row.
RoomIn(c, k, t) == c.sustain.start # Floor(t, SustainWindow) \/ c.sustain.hits < Limit[k].sustain

\* The burst window of the row is the one of the time, and was counted in.
Counted(c, t) == c.burst.start = Floor(t, BurstWindow) /\ c.burst.hits > 0

\* What may be said of the answer v to a check: who passes was counted unless a
\* statement failed, who does not was locked out or told how long to wait, and a
\* lockout in force is neither lifted nor made longer.
Judged(v, c0, b, k, t, f) ==
    /\ v \in Answer
    /\ v.row.burst \in {c0.burst, Hit(c0.burst, BurstWindow, t)}
    /\ v.passed => \/ f # "none"
                   \/ /\ v.row.burst = Hit(c0.burst, BurstWindow, t)
                      /\ v.row.burst.hits <= Limit[k].burst
    /\ ~v.passed => \/ v.row.burst = c0.burst
                    \/ \E s \in DOMAIN Schedule : v.until = t + Schedule[s]
    /\ v.row.until \in {0, c0.until} \/ (~v.passed /\ v.row.until <= v.until)
    /\ (~v.passed /\ v.kept) => /\ v.row.until = v.until
                                /\ b = "db" => v.row.day = t \div DayLength
    /\ (c0.until > t /\ (b = "db" => c0.day = t \div DayLength)) =>
          v.row = c0 /\ (v.passed => f = "read")
    /\ (c0.until <= t /\ ~Counted(c0, t) /\ RoomIn(c0, k, t)) => v.passed

\* What one check does, from its first statement to its last.
LEMMA RateCheckIs ==
    ASSUME NEW c0 \in Row, NEW b \in Backends, NEW k \in Keys,
           NEW t \in 1..MaxTime, NEW f \in FailPoints
    PROVE  Judged(RateCheck(c0, b, k, t, f), c0, b, k, t, f)
  <1> DEFINE c == AfterLook(OfToday(c0, b, t), t)
             h == Hit(c.burst, BurstWindow, t)
             g == Hit(c.sustain, SustainWindow, t)
             one == [c EXCEPT !.burst = h]
             both == [one EXCEPT !.sustain = Hit(@, SustainWindow, t)]
             v == RateCheck(c0, b, k, t, f)
  <1> SUFFICES Judged(v, c0, b, k, t, f)
    OBVIOUS
  <1>s. v = IF f = "read" THEN Verdict(c0, TRUE, 0, FALSE)
            ELSE IF Locked(c, t) THEN Verdict(c, FALSE, c.until, TRUE)
            ELSE IF f = "burst" THEN Verdict(c, TRUE, 0, FALSE)
            ELSE IF Over(one.burst, Limit[k].burst) THEN Exceeded(one, t, f)
            ELSE IF f = "sustain" THEN Verdict(one, TRUE, 0, FALSE)
            ELSE IF Over(both.sustain, Limit[k].sustain) THEN Exceeded(both, t, f)
            ELSE Verdict(both, TRUE, 0, FALSE)
    BY Zenon DEF RateCheck
  <1> HIDE DEF v
  <1>t. t \in Nat /\ t >= 1 /\ Limit[k].burst \in Nat \ {0} /\ Limit[k].sustain \in Nat \ {0}
    <2>1. Limit[k] \in [burst : Nat \ {0}, sustain : Nat \ {0}]
      BY WafSettings
    <2> QED
      BY <2>1, Settings
  <1>1. /\ c \in Row /\ c.burst = c0.burst /\ c.sustain = c0.sustain
        /\ c.until \in {0, c0.until}
        /\ b = "db" => c.day = t \div DayLength
        /\ (c0.until > t /\ (b = "db" => c0.day = t \div DayLength)) => c = c0
    BY LookIs
  <1> HIDE DEF c
  <1>2. /\ c.burst \in Counter /\ c.sustain \in Counter /\ c.until \in Nat
        /\ c0.burst \in Counter /\ c0.until \in Nat
    BY <1>1 DEF Row
  <1>3. /\ h \in Counter /\ g \in Counter
        /\ h = Hit(c0.burst, BurstWindow, t)
        /\ h.hits = IF c0.burst.start = Floor(t, BurstWindow) THEN c0.burst.hits + 1 ELSE 1
        /\ g.hits = IF c0.sustain.start = Floor(t, SustainWindow) THEN c0.sustain.hits + 1 ELSE 1
    <2>1. /\ h = Hit(c0.burst, BurstWindow, t) /\ g = Hit(c0.sustain, SustainWindow, t)
          /\ c0.sustain \in Counter
      BY <1>1, <1>2
    <2> HIDE DEF h, g
    <2>2. /\ h \in Counter
          /\ h.hits = IF c0.burst.start = Floor(t, BurstWindow) THEN c0.burst.hits + 1 ELSE 1
      BY <2>1, <1>2, HitIs, Settings
    <2>3. /\ g \in Counter
          /\ g.hits = IF c0.sustain.start = Floor(t, SustainWindow) THEN c0.sustain.hits + 1 ELSE 1
      BY <2>1, <1>2, HitIs, Settings
    <2> QED
      BY <2>1, <2>2, <2>3
  <1> HIDE DEF h, g
  <1>4. /\ one \in Row /\ one.burst = h /\ one.until = c.until /\ one.day = c.day
        /\ one.sustain = c.sustain
    BY <1>1, <1>3 DEF Row
  <1>5. one.sustain = c.sustain /\ Hit(one.sustain, SustainWindow, t) = g
    BY <1>4 DEF g
  <1> HIDE DEF one
  <1>6. both \in Row /\ both.burst = h /\ both.sustain = g
        /\ both.until = c.until /\ both.day = c.day
    <2>1. both = [one EXCEPT !.sustain = g]
      BY <1>5
    <2> HIDE DEF both
    <2> QED
      BY <2>1, <1>4, <1>3 DEF Row
  <1> HIDE DEF both
  <1>7. v = IF f = "read" THEN Verdict(c0, TRUE, 0, FALSE)
            ELSE IF Locked(c, t) THEN Verdict(c, FALSE, c.until, TRUE)
            ELSE IF f = "burst" THEN Verdict(c, TRUE, 0, FALSE)
            ELSE IF Over(h, Limit[k].burst) THEN Exceeded(one, t, f)
            ELSE IF f = "sustain" THEN Verdict(one, TRUE, 0, FALSE)
            ELSE IF Over(g, Limit[k].sustain) THEN Exceeded(both, t, f)
            ELSE Verdict(both, TRUE, 0, FALSE)
    BY <1>s, <1>4, <1>6
  <1>8. CASE f = "read"
    <2>1. v = Verdict(c0, TRUE, 0, FALSE)
      BY <1>7, <1>8
    <2>9. /\ v \in Answer /\ v.row = c0 /\ v.passed = TRUE /\ v.until = 0 /\ v.kept = FALSE
      BY <2>1, Settings DEF Verdict, Answer
    <2> QED
      BY <2>9, <1>8, <1>2 DEF Judged
  <1>9. CASE f # "read" /\ Locked(c, t)
    <2>1. v = Verdict(c, FALSE, c.until, TRUE)
      BY <1>7, <1>9
    <2>2. c.until = c0.until /\ c0.until > t
      BY <1>9, <1>1, <1>2, <1>t DEF Locked
    <2>9. /\ v \in Answer /\ v.row = c /\ v.passed = FALSE /\ v.until = c.until /\ v.kept = TRUE
      BY <2>1, <1>1, <1>2, Settings DEF Verdict, Answer
    <2> QED
      BY <2>9, <2>2, <1>1, <1>2, <1>t DEF Judged
  <1>10. ASSUME f # "read", ~Locked(c, t)
         PROVE  ~(c0.until > t /\ (b = "db" => c0.day = t \div DayLength))
    BY <1>10, <1>1, <1>2, <1>t DEF Locked
  <1>11. CASE f = "burst" /\ ~Locked(c, t)
    <2>1. v = Verdict(c, TRUE, 0, FALSE)
      BY <1>7, <1>11
    <2>9. /\ v \in Answer /\ v.row = c /\ v.passed = TRUE /\ v.until = 0 /\ v.kept = FALSE
      BY <2>1, <1>1, <1>2, Settings DEF Verdict, Answer
    <2> QED
      BY <2>9, <1>11, <1>10, <1>1, <1>2 DEF Judged
  <1>12. CASE f \notin {"read", "burst"} /\ ~Locked(c, t) /\ Over(h, Limit[k].burst)
    <2>1. v = Exceeded(one, t, f)
      BY <1>7, <1>12
    <2>2. /\ v \in Answer /\ v.row.burst = h /\ v.row.day = c.day /\ ~v.passed
          /\ \E s \in DOMAIN Schedule : v.until = t + Schedule[s]
          /\ v.row.until <= v.until \/ v.row.until = c.until
          /\ v.kept => v.row.until = v.until
      BY <2>1, <1>4, ExceededIs
    <2>3. Counted(c0, t)
      <3>1. h.hits > Limit[k].burst
        BY <1>12 DEF Over
      <3> QED
        BY <3>1, <1>3, <1>2, <1>t DEF Counted, Counter
    <2> QED
      BY <2>2, <2>3, <1>12, <1>10, <1>1, <1>3, <1>4 DEF Judged
  <1>13. CASE f = "sustain" /\ ~Locked(c, t) /\ ~Over(h, Limit[k].burst)
    <2>1. v = Verdict(one, TRUE, 0, FALSE)
      BY <1>7, <1>13
    <2>9. /\ v \in Answer /\ v.row = one /\ v.passed = TRUE /\ v.until = 0 /\ v.kept = FALSE
      BY <2>1, <1>4, Settings DEF Verdict, Answer
    <2> QED
      BY <2>9, <1>13, <1>10, <1>1, <1>3, <1>4 DEF Judged
  <1>14. CASE /\ f \notin {"read", "burst", "sustain"} /\ ~Locked(c, t)
              /\ ~Over(h, Limit[k].burst) /\ Over(g, Limit[k].sustain)
    <2>1. v = Exceeded(both, t, f)
      BY <1>7, <1>14
    <2>2. /\ v \in Answer /\ v.row.burst = h /\ v.row.day = c.day /\ ~v.passed
          /\ \E s \in DOMAIN Schedule : v.until = t + Schedule[s]
          /\ v.row.until <= v.until \/ v.row.until = c.until
          /\ v.kept => v.row.until = v.until
      BY <2>1, <1>6, ExceededIs
    <2>3. ~RoomIn(c0, k, t)
      <3>1. g.hits > Limit[k].sustain
        BY <1>14 DEF Over
      <3>2. c0.sustain.hits \in Nat
        BY <1>1, <1>2 DEF Counter
      <3> QED
        BY <3>1, <3>2, <1>3, <1>t DEF RoomIn
    <2> QED
      BY <2>2, <2>3, <1>14, <1>10, <1>1, <1>3, <1>6 DEF Judged
  <1>15. CASE /\ f \notin {"read", "burst", "sustain"} /\ ~Locked(c, t)
              /\ ~Over(h, Limit[k].burst) /\ ~Over(g, Limit[k].sustain)
    <2>1. v = Verdict(both, TRUE, 0, FALSE)
      BY <1>7, <1>15
    <2>2. h.hits <= Limit[k].burst
      BY <1>15, <1>3, <1>t DEF Over, Counter
    <2>9. /\ v \in Answer /\ v.row = both /\ v.passed = TRUE /\ v.until = 0 /\ v.kept = FALSE
      BY <2>1, <1>6, Settings DEF Verdict, Answer
    <2> QED
      BY <2>9, <2>2, <1>15, <1>10, <1>1, <1>3, <1>6 DEF Judged
  <1> QED
    BY <1>8, <1>9, <1>11, <1>12, <1>13, <1>14, <1>15

-----------------------------------------------------------------------------
(* One request, seen from each key.                                          *)

Notice == [until : Nat, by : Backends, day : Nat, kept : BOOLEAN]

\* A step that leaves what is known of a key alone.
Untouched(k) ==
    /\ \A o \in Backends : table'[o][k] = table[o][k]
    /\ told'[k] = told[k] /\ passes'[k] = passes[k]
    /\ failures' >= failures

\* A step that checks a key in backend b, failing at f.
Checked(k, b, f) ==
    LET v == RateCheck(table[b][k], b, k, now, f) IN
    /\ table'[b][k] = v.row
    /\ \A o \in Backends \ {b} : table'[o][k] = table[o][k]
    /\ told'[k] = Told(k, b, v) /\ passes'[k] = Passes(k, v)
    /\ failures' >= failures + Failed(f)

\* The answer to a check fits the state the check leaves.
LEMMA AnswerIs ==
    ASSUME TypeOK, NEW k \in Keys, NEW b \in Backends, NEW f \in FailPoints
    PROVE  LET v == RateCheck(table[b][k], b, k, now, f) IN
           /\ Judged(v, table[b][k], b, k, now, f)
           /\ v \in Answer /\ v.row \in Row
           /\ Told(k, b, v) \in Notice
           /\ Passes(k, v) \in Counter
  <1> DEFINE v == RateCheck(table[b][k], b, k, now, f)
  <1>1. /\ table[b][k] \in Row /\ now \in 1..MaxTime
        /\ told[k] \in Notice /\ passes[k] \in Counter
    BY DEF TypeOK, Notice
  <1>2. Judged(v, table[b][k], b, k, now, f)
    BY <1>1, RateCheckIs
  <1>3. v \in Answer
    BY <1>2 DEF Judged
  <1> HIDE DEF v
  <1>4. Told(k, b, v) \in Notice
    <2>1. now \div DayLength \in Nat
      BY <1>1, FloorIs, Settings
    <2>2. v.until \in Nat /\ v.kept \in BOOLEAN
      BY <1>3 DEF Answer
    <2>3. [until |-> v.until, by |-> b, day |-> now \div DayLength, kept |-> v.kept] \in Notice
      BY <2>1, <2>2 DEF Notice
    <2> QED
      BY <2>3, <1>1 DEF Told
  <1>5. Passes(k, v) \in Counter
    BY <1>1, HitIs, Settings DEF Passes
  <1>6. v.row \in Row
    BY <1>3 DEF Answer
  <1> QED
    BY <1>2, <1>3, <1>4, <1>5, <1>6 DEF v

LEMMA RequestIs ==
    ASSUME TypeOK, NEW i \in Ips, NEW u \in Users, Request(i, u)
    PROVE  /\ TypeOK' /\ UNCHANGED <<now, restarts>>
           /\ \A k \in Keys : Untouched(k) \/ \E b \in Backends, f \in FailPoints : Checked(k, b, f)
           /\ \A n \in DOMAIN checks' : \E k \in Keys, b \in Backends, f \in FailPoints :
                 /\ Checked(k, b, f)
                 /\ checks'[n] = Check(k, b, f, RateCheck(table[b][k], b, k, now, f))
  <1>1. i \in Keys /\ u \in Keys /\ i # u
    BY WafSettings DEF Keys
  <1>2. /\ table \in [Backends -> [Keys -> Row]] /\ told \in [Keys -> Notice]
        /\ passes \in [Keys -> Counter] /\ now \in 1..MaxTime
        /\ failures \in Nat /\ outages \in Nat /\ restarts \in 0..MaxRestarts
    BY Settings DEF TypeOK, Notice
  <1>f. \A f \in FailPoints : Failed(f) \in Nat
    BY DEF Failed
  <1>o. \A b \in Backends : Out(b) \in Nat
    BY DEF Out
  <1>3. UNCHANGED <<now, restarts>>
    BY DEF Request
  <1>4. PICK b \in Backends, f \in FailPoints :
            LET v == RateCheck(table[b][i], b, i, now, f) IN
            \/ /\ ~v.passed
               /\ failures' = failures + Failed(f) /\ failures' <= MaxFailures
               /\ outages' = outages + Out(b) /\ outages' <= MaxOutages
               /\ table' = [table EXCEPT ![b][i] = v.row]
               /\ checks' = <<Check(i, b, f, v)>>
               /\ told' = [told EXCEPT ![i] = Told(i, b, v)]
               /\ UNCHANGED passes
            \/ /\ v.passed
               /\ \E d \in Backends, g \in FailPoints :
                     LET w == RateCheck(table[d][u], d, u, now, g) IN
                     /\ failures' = failures + Failed(f) + Failed(g) /\ failures' <= MaxFailures
                     /\ outages' = outages + Out(b) + Out(d) /\ outages' <= MaxOutages
                     /\ table' = [table EXCEPT ![b][i] = v.row, ![d][u] = w.row]
                     /\ checks' = <<Check(i, b, f, v), Check(u, d, g, w)>>
                     /\ told' = [told EXCEPT ![u] = Told(u, d, w)]
                     /\ passes' = [passes EXCEPT ![i] = Passes(i, v), ![u] = Passes(u, w)]
    BY DEF Request
  <1> DEFINE v == RateCheck(table[b][i], b, i, now, f)
  <1>5. v.row \in Row /\ Told(i, b, v) \in Notice /\ Passes(i, v) \in Counter
    BY <1>1, AnswerIs
  <1>6. SUFFICES /\ table' \in [Backends -> [Keys -> Row]]
                 /\ told' \in [Keys -> Notice] /\ passes' \in [Keys -> Counter]
                 /\ failures' \in 0..MaxFailures /\ outages' \in 0..MaxOutages
                 /\ \A k \in Keys : Untouched(k) \/ \E e \in Backends, h \in FailPoints : Checked(k, e, h)
                 /\ \A n \in DOMAIN checks' : \E k \in Keys, e \in Backends, h \in FailPoints :
                       /\ Checked(k, e, h)
                       /\ checks'[n] = Check(k, e, h, RateCheck(table[e][k], e, k, now, h))
    BY <1>3 DEF TypeOK, Notice
  <1>7. CASE ~v.passed
    <2>1. /\ failures' = failures + Failed(f) /\ failures' <= MaxFailures
          /\ outages' = outages + Out(b) /\ outages' <= MaxOutages
          /\ table' = [table EXCEPT ![b][i] = v.row]
          /\ checks' = <<Check(i, b, f, v)>>
          /\ told' = [told EXCEPT ![i] = Told(i, b, v)]
          /\ passes' = passes
      BY <1>4, <1>7
    <2>2. Passes(i, v) = passes[i]
      BY <1>7 DEF Passes
    <2> HIDE DEF v
    <2>3. failures' \in 0..MaxFailures /\ outages' \in 0..MaxOutages /\ failures' >= failures
      BY <2>1, <1>2, <1>f, <1>o, Settings
    <2>4. Checked(i, b, f)
      BY <2>1, <2>2, <2>3, <1>1, <1>2 DEF Checked, v
    <2>5. \A k \in Keys \ {i} : Untouched(k)
      BY <2>1, <2>3, <1>1, <1>2 DEF Untouched
    <2>6. /\ table' \in [Backends -> [Keys -> Row]] /\ told' \in [Keys -> Notice]
          /\ passes' \in [Keys -> Counter]
      BY <2>1, <1>1, <1>2, <1>5
    <2>7. \A n \in DOMAIN checks' : checks'[n] = Check(i, b, f, v)
      BY <2>1
    <2> QED
      BY <2>3, <2>4, <2>5, <2>6, <2>7, <1>1 DEF v
  <1>8. CASE v.passed
    <2>1. PICK d \in Backends, g \in FailPoints :
             LET w == RateCheck(table[d][u], d, u, now, g) IN
             /\ failures' = failures + Failed(f) + Failed(g) /\ failures' <= MaxFailures
             /\ outages' = outages + Out(b) + Out(d) /\ outages' <= MaxOutages
             /\ table' = [table EXCEPT ![b][i] = v.row, ![d][u] = w.row]
             /\ checks' = <<Check(i, b, f, v), Check(u, d, g, w)>>
             /\ told' = [told EXCEPT ![u] = Told(u, d, w)]
             /\ passes' = [passes EXCEPT ![i] = Passes(i, v), ![u] = Passes(u, w)]
      BY <1>4, <1>8
    <2> DEFINE w == RateCheck(table[d][u], d, u, now, g)
    <2>2. w.row \in Row /\ Told(u, d, w) \in Notice /\ Passes(u, w) \in Counter
      BY <1>1, AnswerIs
    <2>3. Told(i, b, v) = told[i]
      BY <1>8 DEF Told
    <2> HIDE DEF v, w
    <2>4. /\ failures' = failures + Failed(f) + Failed(g) /\ failures' <= MaxFailures
          /\ outages' = outages + Out(b) + Out(d) /\ outages' <= MaxOutages
          /\ table' = [table EXCEPT ![b][i] = v.row, ![d][u] = w.row]
          /\ checks' = <<Check(i, b, f, v), Check(u, d, g, w)>>
          /\ told' = [told EXCEPT ![u] = Told(u, d, w)]
          /\ passes' = [passes EXCEPT ![i] = Passes(i, v), ![u] = Passes(u, w)]
      BY <2>1 DEF w
    <2>5. /\ failures' \in 0..MaxFailures /\ outages' \in 0..MaxOutages
          /\ failures' >= failures + Failed(f) /\ failures' >= failures + Failed(g)
          /\ failures' >= failures
      BY <2>4, <1>2, <1>f, <1>o, Settings
    <2>6. /\ \A o \in Backends : table'[o][i] = IF o = b THEN v.row ELSE table[o][i]
          /\ \A o \in Backends : table'[o][u] = IF o = d THEN w.row ELSE table[o][u]
          /\ \A k \in Keys \ {i, u}, o \in Backends : table'[o][k] = table[o][k]
      BY <2>4, <1>1, <1>2
    <2>7. Checked(i, b, f)
      BY <2>3, <2>4, <2>5, <2>6, <1>1, <1>2 DEF Checked, v
    <2>8. Checked(u, d, g)
      BY <2>4, <2>5, <2>6, <1>1, <1>2 DEF Checked, w
    <2>9. \A k \in Keys \ {i, u} : Untouched(k)
      BY <2>4, <2>5, <2>6, <1>1, <1>2 DEF Untouched
    <2>10. /\ table' \in [Backends -> [Keys -> Row]] /\ told' \in [Keys -> Notice]
           /\ passes' \in [Keys -> Counter]
      BY <2>2, <2>4, <1>1, <1>2, <1>5
    <2>11. \A n \in DOMAIN checks' : checks'[n] \in {Check(i, b, f, v), Check(u, d, g, w)}
      BY <2>4
    <2> QED
      BY <2>5, <2>7, <2>8, <2>9, <2>10, <2>11, <1>1 DEF v, w
  <1> QED
    BY <1>7, <1>8

-----------------------------------------------------------------------------
(* The inductive invariant: what holds of each key between two steps.        *)

\* What a counter has used of the limit in the current burst window.
Used(w, k) ==
    IF w.start # Floor(now, BurstWindow) THEN 0
    ELSE IF w.hits < Limit[k].burst THEN w.hits ELSE Limit[k].burst

\* No counter and no notice is ahead of the clock.
Past(k) ==
    /\ passes[k].start <= now
    /\ \A b \in Backends : table[b][k].burst.start <= now
    /\ told[k].day <= now \div DayLength

\* The checks a key has passed are on the counters, or on those a restart
\* emptied, or in a statement that failed.
Accounted(k) ==
    /\ passes[k].hits <= (2 + restarts) * Limit[k].burst + failures
    /\ passes[k].start = Floor(now, BurstWindow) =>
          passes[k].hits <= Used(table["db"][k].burst, k) + Used(table["mem"][k].burst, k)
                               + restarts * Limit[k].burst + failures

\* A client was told to wait for as long as any backend will lock it out.
Covered(k) == \A b \in Backends : table[b][k].until <= told[k].until

TodayFor(k) == told[k].by = "db" => told[k].day = now \div DayLength

\* A lockout that was written and is in force is where it was written.
Written(k) ==
    InForce(k) /\ TodayFor(k) =>
       /\ table[told[k].by][k].until = told[k].until
       /\ told[k].by = "db" => table["db"][k].day = told[k].day

Outlasts == \A s \in DOMAIN Schedule : Schedule[s] >= BurstWindow

\* Whoever is counted in this window passed a check in it, or is to wait for
\* its end.
Waits(k) ==
    Outlasts => \A b \in Backends :
       Counted(table[b][k], now) =>
          \/ passes[k].start = Floor(now, BurstWindow)
          \/ told[k].until >= Floor(now, BurstWindow) + BurstWindow

KeyInv(k) == Past(k) /\ Accounted(k) /\ Covered(k) /\ Written(k) /\ Waits(k)

IInv == TypeOK /\ \A k \in Keys : KeyInv(k)

\* The state of a key, with its types.
LEMMA KeyState ==
    ASSUME TypeOK, NEW k \in Keys
    PROVE  /\ now \in Nat /\ now >= 1 /\ restarts \in Nat /\ failures \in Nat
           /\ Floor(now, BurstWindow) \in Nat /\ Floor(now, BurstWindow) <= now
           /\ now < Floor(now, BurstWindow) + BurstWindow
           /\ now \div DayLength \in Nat
           /\ Limit[k].burst \in Nat \ {0} /\ Limit[k].sustain \in Nat \ {0}
           /\ \A b \in Backends : /\ table[b][k] \in Row
                                  /\ table[b][k].burst.start \in Nat
                                  /\ table[b][k].burst.hits \in Nat
                                  /\ table[b][k].until \in Nat /\ table[b][k].day \in Nat
           /\ told[k].until \in Nat /\ told[k].by \in Backends /\ told[k].day \in Nat
           /\ told[k].kept \in BOOLEAN
           /\ passes[k].start \in Nat /\ passes[k].hits \in Nat
  <1>1. /\ now \in 1..MaxTime /\ restarts \in 0..MaxRestarts /\ failures \in 0..MaxFailures
        /\ \A b \in Backends : table[b][k] \in Row
        /\ told[k] \in Notice /\ passes[k] \in Counter
    BY DEF TypeOK, Notice
  <1>2. now \in Nat /\ now >= 1 /\ restarts \in Nat /\ failures \in Nat
    BY <1>1, Settings
  <1>3. Limit[k] \in [burst : Nat \ {0}, sustain : Nat \ {0}]
    BY WafSettings
  <1>4. \A c \in Counter : c.start \in Nat /\ c.hits \in Nat
    BY Settings DEF Counter
  <1>5. \A c \in Row : c.burst \in Counter /\ c.until \in Nat /\ c.day \in Nat
    BY DEF Row
  <1>6. /\ told[k].until \in Nat /\ told[k].by \in Backends /\ told[k].day \in Nat
        /\ told[k].kept \in BOOLEAN
    BY <1>1 DEF Notice
  <1>7. /\ Floor(now, BurstWindow) \in Nat /\ Floor(now, BurstWindow) <= now
        /\ now < Floor(now, BurstWindow) + BurstWindow
        /\ now \div DayLength \in Nat
    BY <1>2, FloorIs, Settings
  <1> QED
    BY <1>1, <1>2, <1>3, <1>4, <1>5, <1>6, <1>7

\* What a counter has used, and what restarts may have cost, are numbers.
LEMMA Uses ==
    ASSUME TypeOK, NEW k \in Keys
    PROVE  /\ \A b \in Backends : Used(table[b][k].burst, k) \in 0..Limit[k].burst
           /\ restarts * Limit[k].burst \in Nat
           /\ (2 + restarts) * Limit[k].burst = 2 * Limit[k].burst + restarts * Limit[k].burst
  <1>1. /\ restarts \in Nat /\ Limit[k].burst \in Nat
        /\ \A b \in Backends : table[b][k].burst.hits \in Nat
    BY KeyState
  <1>2. \A b \in Backends : Used(table[b][k].burst, k) \in 0..Limit[k].burst
    BY <1>1 DEF Used
  <1> DEFINE n == restarts
             l == Limit[k].burst
  <1>3. n \in Nat /\ l \in Nat
    BY <1>1
  <1> HIDE DEF n, l
  <1>4. n * l \in Nat /\ (2 + n) * l = 2 * l + n * l
    BY <1>3
  <1> QED
    BY <1>2, <1>4 DEF n, l

LEMMA UntouchedKeeps ==
    ASSUME TypeOK, NEW k \in Keys, KeyInv(k), Untouched(k), TypeOK', UNCHANGED <<now, restarts>>
    PROVE  KeyInv(k)'
  <1>1. "db" \in Backends /\ "mem" \in Backends /\ told[k].by \in Backends
    BY KeyState DEF Backends
  <1>2. /\ now' = now /\ restarts' = restarts /\ failures' \in Nat /\ failures \in Nat
        /\ failures' >= failures /\ told'[k] = told[k] /\ passes'[k] = passes[k]
        /\ \A b \in Backends : table'[b][k] = table[b][k]
    BY Settings DEF TypeOK, Untouched
  <1>3. Past(k)' /\ Covered(k)' /\ Written(k)' /\ Waits(k)'
    BY <1>1, <1>2 DEF KeyInv, Past, Covered, Written, Waits, InForce, TodayFor, Counted
  <1>4. Accounted(k)'
    <2>1. /\ Used(table["db"][k].burst, k)' = Used(table["db"][k].burst, k)
          /\ Used(table["mem"][k].burst, k)' = Used(table["mem"][k].burst, k)
      BY <1>1, <1>2 DEF Used
    <2> DEFINE x == (2 + restarts) * Limit[k].burst
               y == Used(table["db"][k].burst, k) + Used(table["mem"][k].burst, k)
                       + restarts * Limit[k].burst
    <2>2. x \in Nat /\ y \in Nat /\ passes[k].hits \in Nat
      <3>1. /\ Used(table["db"][k].burst, k) \in Nat /\ Used(table["mem"][k].burst, k) \in Nat
            /\ restarts * Limit[k].burst \in Nat /\ Limit[k].burst \in Nat
            /\ (2 + restarts) * Limit[k].burst = 2 * Limit[k].burst + restarts * Limit[k].burst
            /\ passes[k].hits \in Nat
        BY <1>1, KeyState, Uses
      <3> QED
        BY <3>1
    <2>3. /\ passes[k].hits <= x + failures
          /\ passes[k].start = Floor(now, BurstWindow) => passes[k].hits <= y + failures
      BY DEF KeyInv, Accounted
    <2> HIDE DEF x, y
    <2>4. /\ passes[k].hits <= x + failures'
          /\ passes[k].start = Floor(now, BurstWindow) => passes[k].hits <= y + failures'
      BY <1>2, <2>2, <2>3
    <2> QED
      BY <1>2, <2>1, <2>4 DEF Accounted, x, y
  <1> QED
    BY <1>3, <1>4 DEF KeyInv

LEMMA CheckedKeeps ==
    ASSUME TypeOK, NEW k \in Keys, KeyInv(k), NEW b \in Backends, NEW f \in FailPoints,
           Checked(k, b, f), TypeOK', UNCHANGED <<now, restarts>>
    PROVE  KeyInv(k)'
  <1> DEFINE v == RateCheck(table[b][k], b, k, now, f)
             c0 == table[b][k]
             L == Limit[k].burst
             F == Floor(now, BurstWindow)
  <1>1. Judged(v, c0, b, k, now, f) /\ v \in Answer
    BY AnswerIs
  <1>2. /\ table'[b][k] = v.row
        /\ \A o \in Backends \ {b} : table'[o][k] = table[o][k]
        /\ told'[k] = Told(k, b, v) /\ passes'[k] = Passes(k, v)
        /\ failures' >= failures + Failed(f)
        /\ now' = now /\ restarts' = restarts
    BY DEF Checked
  <1> HIDE DEF v
  <1>3. /\ now \in 1..MaxTime /\ now \in Nat /\ c0 \in Row /\ passes[k] \in Counter
        /\ c0.burst \in Counter /\ L \in Nat \ {0} /\ F \in Nat /\ F <= now
        /\ now < F + BurstWindow /\ c0.until \in Nat /\ c0.burst.hits \in Nat
        /\ told[k].until \in Nat /\ told[k].day \in Nat /\ now \div DayLength \in Nat
        /\ failures \in Nat /\ failures' \in Nat /\ passes[k].hits \in Nat
    BY KeyState, Settings DEF TypeOK, Row
  <1>4. /\ Hit(c0.burst, BurstWindow, now).start = F
        /\ Hit(c0.burst, BurstWindow, now).hits = IF c0.burst.start = F THEN c0.burst.hits + 1 ELSE 1
        /\ Hit(passes[k], BurstWindow, now).start = F
        /\ Hit(passes[k], BurstWindow, now).hits = IF passes[k].start = F THEN passes[k].hits + 1 ELSE 1
    BY <1>3, HitIs, Settings
  <1>5. /\ v.passed \in BOOLEAN /\ v.until \in Nat /\ v.kept \in BOOLEAN
        /\ v.row.until \in Nat
    BY <1>1 DEF Answer, Row
  <1>6. IF v.passed \/ v.until <= told[k].until
        THEN told'[k] = told[k]
        ELSE /\ told'[k].until = v.until /\ told'[k].by = b
             /\ told'[k].day = now \div DayLength /\ told'[k].kept = v.kept
    BY <1>2 DEF Told
  <1>7. Past(k)'
    <2>1. passes'[k].start <= now
      BY <1>2, <1>3, <1>4 DEF Passes, KeyInv, Past
    <2>2. \A o \in Backends : table'[o][k].burst.start <= now
      BY <1>1, <1>2, <1>3, <1>4 DEF Judged, KeyInv, Past
    <2>3. told'[k].day <= now \div DayLength
      BY <1>3, <1>6 DEF KeyInv, Past
    <2> QED
      BY <2>1, <2>2, <2>3, <1>2 DEF Past
  <1>8. Accounted(k)'
    <2> DEFINE D == Used(table["db"][k].burst, k)
               M == Used(table["mem"][k].burst, k)
               D2 == Used(table'["db"][k].burst, k)
               M2 == Used(table'["mem"][k].burst, k)
               R == restarts * L
               E == failures'
    <2>1. /\ D \in 0..L /\ M \in 0..L /\ R \in Nat /\ (2 + restarts) * L = 2 * L + R
          /\ D2 \in 0..L /\ M2 \in 0..L
      <3>1. "db" \in Backends /\ "mem" \in Backends
        BY DEF Backends
      <3>2. \A o \in Backends : Used(table'[o][k].burst, k) \in 0..L
        <4>1. table'[b][k].burst.hits \in Nat /\ \A o \in Backends : table'[o][k].burst.hits \in Nat
          BY <1>2, KeyState, Settings DEF TypeOK, Row, Counter
        <4> QED
          BY <4>1, <1>3 DEF Used
      <3> QED
        BY <3>1, <3>2, Uses
    <2>2. Used(v.row.burst, k) >= Used(c0.burst, k)
      BY <1>1, <1>3, <1>4 DEF Judged, Used
    <2>3. (v.passed /\ f = "none") => Used(v.row.burst, k) = Used(c0.burst, k) + 1
      BY <1>1, <1>3, <1>4 DEF Judged, Used
    <2>4. \/ /\ b = "db" /\ D2 = Used(v.row.burst, k) /\ D = Used(c0.burst, k) /\ M2 = M
          \/ /\ b = "mem" /\ M2 = Used(v.row.burst, k) /\ M = Used(c0.burst, k) /\ D2 = D
      BY <1>2 DEF Used, Backends
    <2>5. E \in Nat /\ E >= failures /\ (f # "none" => E >= failures + 1)
      BY <1>2, <1>3 DEF Failed
    <2> HIDE DEF D, M, D2, M2, R, E
    <2>6. /\ v.passed => D2 + M2 + E >= D + M + failures + 1
          /\ D2 + M2 + E >= D + M + failures
      <3> DEFINE X == Used(v.row.burst, k)
                 Y == Used(c0.burst, k)
      <3>1. X >= Y /\ (v.passed /\ f = "none" => X = Y + 1)
        BY <2>2, <2>3
      <3>2. (D2 = X /\ D = Y /\ M2 = M) \/ (M2 = X /\ M = Y /\ D2 = D)
        BY <2>4
      <3>3. /\ D \in Int /\ M \in Int /\ D2 \in Int /\ M2 \in Int
            /\ failures \in Int /\ E \in Int
        BY <1>3, <2>1, <2>5
      <3> HIDE DEF X, Y
      <3>4. D2 + M2 >= D + M
        BY <3>1, <3>2, <3>3
      <3>5. ASSUME v.passed, f = "none"
            PROVE  D2 + M2 = D + M + 1
        BY <3>1, <3>2, <3>3, <3>5
      <3>6. D2 + M2 + E >= D + M + failures
        BY <3>3, <3>4, <2>5
      <3>7. v.passed => D2 + M2 + E >= D + M + failures + 1
        BY <3>3, <3>4, <3>5, <2>5
      <3> QED
        BY <3>6, <3>7
    <2>7. /\ passes[k].hits <= 2 * L + R + failures
          /\ passes[k].start = F => passes[k].hits <= D + M + R + failures
      BY <2>1 DEF KeyInv, Accounted, D, M, R
    <2>8. passes'[k].start = F => passes'[k].hits <= D2 + M2 + R + E
      <3>1. CASE v.passed
        <4>1. passes'[k].hits = IF passes[k].start = F THEN passes[k].hits + 1 ELSE 1
          BY <3>1, <1>2, <1>4 DEF Passes
        <4> QED
          BY <4>1, <3>1, <2>1, <2>5, <2>6, <2>7, <1>3
      <3>2. CASE ~v.passed
        <4>1. passes'[k] = passes[k]
          BY <3>2, <1>2 DEF Passes
        <4> QED
          BY <4>1, <2>1, <2>5, <2>6, <2>7, <1>3
      <3> QED
        BY <3>1, <3>2
    <2>9. passes'[k].hits <= 2 * L + R + E
      <3>1. CASE passes'[k].start = F
        <4>1. passes'[k].hits \in Nat
          BY <1>2, <1>3, <1>4 DEF Passes
        <4> QED
          BY <3>1, <4>1, <2>1, <2>5, <2>8, <1>3
      <3>2. CASE passes'[k].start # F
        <4>1. passes'[k] = passes[k]
          BY <3>2, <1>2, <1>4 DEF Passes
        <4> QED
          BY <4>1, <2>1, <2>5, <2>7, <1>3
      <3> QED
        BY <3>1, <3>2
    <2>10. /\ Used(table["db"][k].burst, k)' = D2
           /\ Used(table["mem"][k].burst, k)' = M2
      BY <1>2 DEF Used, D2, M2
    <2> QED
      BY <2>1, <2>8, <2>9, <2>10, <1>2 DEF Accounted, R, E
  <1>9. Covered(k)'
    <2>1. told'[k].until >= told[k].until /\ (~v.passed => told'[k].until >= v.until)
      BY <1>3, <1>5, <1>6
    <2>2. told'[k].until \in Nat /\ c0.until <= told[k].until
      BY <1>3, <1>5, <1>6 DEF KeyInv, Covered
    <2>3. v.row.until <= told'[k].until
      BY <2>1, <2>2, <1>1, <1>3, <1>5 DEF Judged
    <2>4. \A o \in Backends \ {b} : table[o][k].until <= told'[k].until
      BY <2>1, <2>2, <1>3, KeyState DEF KeyInv, Covered
    <2> QED
      BY <2>3, <2>4, <1>2 DEF Covered
  <1>10. Written(k)'
    <2> SUFFICES ASSUME InForce(k)', TodayFor(k)'
                 PROVE  /\ table'[told'[k].by][k].until = told'[k].until
                        /\ told'[k].by = "db" => table'["db"][k].day = told'[k].day
      BY DEF Written
    <2>1. CASE v.passed \/ v.until <= told[k].until
      <3>1. told'[k] = told[k] /\ InForce(k) /\ TodayFor(k)
        BY <2>1, <1>2, <1>6 DEF InForce, TodayFor
      <3>2. /\ table[told[k].by][k].until = told[k].until
            /\ told[k].by = "db" => table["db"][k].day = now \div DayLength
        BY <3>1 DEF KeyInv, Written, TodayFor
      <3>3. table'[told[k].by][k] = table[told[k].by][k]
        <4>1. CASE told[k].by # b
          BY <4>1, <1>2, KeyState
        <4>2. CASE told[k].by = b
          <5>1. c0.until > now /\ (b = "db" => c0.day = now \div DayLength)
            BY <4>2, <3>1, <3>2, <1>3 DEF InForce
          <5> QED
            BY <4>2, <5>1, <1>1, <1>2 DEF Judged
        <4> QED
          BY <4>1, <4>2
      <3> QED
        BY <3>1, <3>2, <3>3 DEF TodayFor
    <2>2. CASE ~(v.passed \/ v.until <= told[k].until)
      BY <2>2, <1>1, <1>2, <1>6 DEF InForce, Judged
    <2> QED
      BY <2>1, <2>2
  <1>11. Waits(k)'
    <2> SUFFICES ASSUME Outlasts, NEW o \in Backends, Counted(table'[o][k], now)
                 PROVE  passes'[k].start = F \/ told'[k].until >= F + BurstWindow
      BY <1>2 DEF Waits, Counted, Outlasts
    <2>1. told'[k].until >= told[k].until /\ told'[k].until \in Nat
      BY <1>3, <1>5, <1>6
    <2>2. passes[k].start = F => passes'[k].start = F
      BY <1>2, <1>4 DEF Passes
    <2>3. CASE Counted(table[o][k], now)
      <3>1. passes[k].start = F \/ told[k].until >= F + BurstWindow
        BY <2>3 DEF KeyInv, Waits
      <3> QED
        BY <3>1, <2>1, <2>2, <1>3, Settings
    <2>4. CASE o = b /\ v.row.burst # c0.burst /\ v.passed
      BY <2>4, <1>2, <1>4 DEF Passes
    <2>5. CASE o = b /\ v.row.burst # c0.burst /\ ~v.passed
      <3>1. PICK s \in DOMAIN Schedule : v.until = now + Schedule[s]
        BY <2>5, <1>1 DEF Judged
      <3>2. Schedule[s] >= BurstWindow /\ Schedule[s] \in Nat
        BY WafSettings DEF Outlasts
      <3>3. told'[k].until >= v.until
        BY <2>5, <1>3, <1>5, <1>6
      <3> QED
        BY <3>1, <3>2, <3>3, <2>1, <1>3, Settings
    <2> QED
      BY <2>3, <2>4, <2>5, <1>2 DEF Counted
  <1> QED
    BY <1>7, <1>8, <1>9, <1>10, <1>11 DEF KeyInv

LEMMA TickKeeps ==
    ASSUME TypeOK, NEW k \in Keys, KeyInv(k), Tick
    PROVE  KeyInv(k)'
  <1> DEFINE F == Floor(now, BurstWindow)
  <1>1. /\ now' = now + 1 /\ now \in Nat /\ F \in Nat /\ F <= now
        /\ table' = table /\ told' = told /\ passes' = passes
        /\ failures' = failures /\ restarts' = restarts
        /\ told[k].until \in Nat /\ told[k].day \in Nat /\ told[k].by \in Backends
        /\ passes[k].start \in Nat /\ now \div DayLength \in Nat
        /\ \A b \in Backends : table[b][k].burst.start \in Nat
    BY KeyState DEF Tick
  <1>2. F' \in {F, now + 1}
    BY <1>1, FloorNext, Settings
  <1>3. now \div DayLength <= now' \div DayLength /\ now' \div DayLength \in Nat
    <2>1. now + 1 \in Nat
      BY <1>1
    <2>2. (now + 1) \div DayLength \in Nat
      BY <2>1, FloorIs, Settings
    <2>3. now \div DayLength <= (now + 1) \div DayLength
      BY <1>1, FloorIs, Settings
    <2> QED
      BY <2>2, <2>3, <1>1
  <1>4. Past(k)'
    BY <1>1, <1>3 DEF KeyInv, Past
  <1>5. ASSUME F' = F
        PROVE  Accounted(k)' /\ Waits(k)'
    BY <1>1, <1>5 DEF KeyInv, Accounted, Waits, Used, Counted, Outlasts
  <1>6. ASSUME F' = now + 1
        PROVE  Accounted(k)' /\ Waits(k)'
    <2>1. passes[k].start # F' /\ \A b \in Backends : table[b][k].burst.start # F'
      BY <1>1, <1>6 DEF KeyInv, Past
    <2>2. Accounted(k)'
      BY <2>1, <1>1 DEF KeyInv, Accounted
    <2>3. Waits(k)'
      BY <2>1, <1>1 DEF Waits, Counted
    <2> QED
      BY <2>2, <2>3
  <1>7. Covered(k)'
    BY <1>1 DEF KeyInv, Covered
  <1>8. Written(k)'
    <2>1. InForce(k)' /\ TodayFor(k)' => InForce(k) /\ TodayFor(k)
      BY <1>1, <1>3 DEF InForce, TodayFor, KeyInv, Past
    <2> QED
      BY <2>1, <1>1 DEF KeyInv, Written
  <1>9. Accounted(k)' /\ Waits(k)'
    BY <1>2, <1>5, <1>6
  <1> QED
    BY <1>4, <1>7, <1>8, <1>9 DEF KeyInv

LEMMA RestartKeeps ==
    ASSUME TypeOK, NEW k \in Keys, KeyInv(k), Restart
    PROVE  KeyInv(k)'
  <1>1. /\ now' = now /\ passes' = passes /\ failures' = failures
        /\ restarts' = restarts + 1
        /\ table'["db"][k] = table["db"][k] /\ table'["mem"][k] = Fresh
        /\ told'[k] = IF told[k].by = "mem" THEN [told[k] EXCEPT !.kept = FALSE] ELSE told[k]
        /\ Backends = {"db", "mem"}
    BY DEF Restart, TypeOK, Backends
  <1>2. /\ Fresh.burst.start = 0 /\ Fresh.burst.hits = 0 /\ Fresh.until = 0
    BY DEF Fresh
  <1>3. /\ told'[k].until = told[k].until /\ told'[k].by = told[k].by
        /\ told'[k].day = told[k].day
        /\ told'[k].kept => told[k].kept /\ told[k].by = "db"
    BY <1>1, KeyState DEF TypeOK, Backends
  <1>4. Past(k)' /\ Covered(k)' /\ Waits(k)'
    BY <1>1, <1>2, <1>3, KeyState DEF KeyInv, Past, Covered, Waits, Counted
  <1>5. Written(k)'
    BY <1>1, <1>3 DEF KeyInv, Written, InForce, TodayFor
  <1>6. Accounted(k)'
    <2> DEFINE L == Limit[k].burst
               D == Used(table["db"][k].burst, k)
               M == Used(table["mem"][k].burst, k)
               R == restarts * L
    <2>1. /\ D \in 0..L /\ M \in 0..L /\ R \in Nat /\ (2 + restarts) * L = 2 * L + R
          /\ L \in Nat /\ failures \in Nat /\ passes[k].hits \in Nat
      BY Uses, KeyState DEF Backends
    <2>2. restarts \in Nat
      BY KeyState
    <2>3. restarts' * L = R + L /\ (2 + restarts') * L = 2 * L + R + L
      BY <1>1, <2>1, <2>2
    <2>4. D' = D /\ M' = 0
      BY <1>1, <1>2, <2>1 DEF Used
    <2> HIDE DEF D, M, R, L
    <2>5. /\ passes[k].hits <= 2 * L + R + failures
          /\ passes[k].start = Floor(now, BurstWindow) => passes[k].hits <= D + M + R + failures
      BY <2>1 DEF KeyInv, Accounted, D, M, R, L
    <2>6. /\ passes[k].hits <= 2 * L + R + L + failures
          /\ passes[k].start = Floor(now, BurstWindow) => passes[k].hits <= D' + M' + (R + L) + failures
      BY <2>1, <2>4, <2>5
    <2> QED
      BY <1>1, <2>3, <2>6 DEF Accounted, D, M, L
  <1> QED
    BY <1>4, <1>5, <1>6 DEF KeyInv

-----------------------------------------------------------------------------
(* The invariant and the properties.                                         *)

LEMMA InitInv == Init => IInv
  <1> SUFFICES ASSUME Init PROVE IInv
    OBVIOUS
  <1>1. Fresh \in Row
    <2>1. [start |-> 0, hits |-> 0] \in Counter
      BY Settings DEF Counter
    <2> QED
      BY <2>1 DEF Fresh, Row
  <1>2. TypeOK
    <2>1. 0 \in 0..MaxFailures /\ 0 \in 0..MaxOutages /\ 0 \in 0..MaxRestarts /\ 1 \in 1..MaxTime
          /\ 0 \in 0..MaxTime
      BY Settings, WafSettings
    <2>2. [start |-> 0, hits |-> 0] \in Counter
      BY <2>1 DEF Counter
    <2> QED
      BY <1>1, <2>1, <2>2 DEF Init, TypeOK, Backends
  <1>3. ASSUME NEW k \in Keys
        PROVE  KeyInv(k)
    <2>1. /\ passes[k] = [start |-> 0, hits |-> 0]
          /\ told[k] = [until |-> 0, by |-> "db", day |-> 0, kept |-> FALSE]
          /\ \A b \in Backends : table[b][k] = Fresh
          /\ now = 1 /\ restarts = 0 /\ failures = 0
      BY DEF Init
    <2>2. Fresh.burst.start = 0 /\ Fresh.burst.hits = 0 /\ Fresh.until = 0
      BY DEF Fresh
    <2>3. Past(k) /\ Covered(k) /\ Written(k) /\ Waits(k)
      BY <1>2, <2>1, <2>2, KeyState DEF Past, Covered, Written, Waits, InForce, Counted
    <2>4. Accounted(k)
      <3>1. /\ \A b \in Backends : Used(table[b][k].burst, k) \in 0..Limit[k].burst
            /\ restarts * Limit[k].burst \in Nat
            /\ (2 + restarts) * Limit[k].burst = 2 * Limit[k].burst + restarts * Limit[k].burst
            /\ Limit[k].burst \in Nat
        BY <1>2, KeyState, Uses
      <3>2. passes[k].hits = 0
        BY <2>1
      <3>3. "db" \in Backends /\ "mem" \in Backends
        BY DEF Backends
      <3> QED
        BY <3>1, <3>2, <3>3, <2>1 DEF Accounted
    <2> QED
      BY <2>3, <2>4 DEF KeyInv
  <1> QED
    BY <1>2, <1>3 DEF IInv

LEMMA StepInv == IInv /\ [Next]_vars => IInv'
  <1> SUFFICES ASSUME IInv, [Next]_vars PROVE IInv'
    OBVIOUS
  <1>t. TypeOK /\ \A k \in Keys : KeyInv(k)
    BY DEF IInv
  <1>1. ASSUME NEW i \in Ips, NEW u \in Users, Request(i, u)
        PROVE  IInv'
    <2>1. /\ TypeOK' /\ UNCHANGED <<now, restarts>>
          /\ \A k \in Keys : Untouched(k) \/ \E b \in Backends, f \in FailPoints : Checked(k, b, f)
      BY <1>t, <1>1, RequestIs
    <2>2. ASSUME NEW k \in Keys
          PROVE  KeyInv(k)'
      <3>1. CASE Untouched(k)
        BY <1>t, <2>1, <3>1, UntouchedKeeps
      <3>2. ASSUME NEW b \in Backends, NEW f \in FailPoints, Checked(k, b, f)
            PROVE  KeyInv(k)'
        BY <1>t, <2>1, <3>2, CheckedKeeps
      <3> QED
        BY <2>1, <3>1, <3>2
    <2> QED
      BY <2>1, <2>2 DEF IInv
  <1>2. CASE Tick
    <2>1. TypeOK'
      BY <1>t, <1>2, Settings DEF TypeOK, Tick
    <2> QED
      BY <1>t, <1>2, <2>1, TickKeeps DEF IInv
  <1>3. CASE Restart
    <2>1. Fresh \in Row
      <3>1. [start |-> 0, hits |-> 0] \in Counter
        BY Settings DEF Counter
      <3> QED
        BY <3>1 DEF Fresh, Row
    <2>2. restarts' \in 0..MaxRestarts
      BY <1>t, <1>3, Settings DEF TypeOK, Restart
    <2>3. table' \in [Backends -> [Keys -> Row]]
      BY <1>t, <1>3, <2>1 DEF TypeOK, Restart, Backends
    <2>4. told' \in [Keys -> Notice]
      BY <1>t, <1>3 DEF TypeOK, Restart, Notice
    <2>5. TypeOK'
      BY <1>t, <1>3, <2>2, <2>3, <2>4 DEF TypeOK, Restart, Notice
    <2> QED
      BY <1>t, <1>3, <2>5, RestartKeeps DEF IInv
  <1>4. CASE UNCHANGED vars
    <2>1. TypeOK'
      BY <1>t, <1>4 DEF TypeOK, vars
    <2>2. ASSUME NEW k \in Keys
          PROVE  KeyInv(k)'
      BY <1>t, <1>4, <2>1, KeyState, UntouchedKeeps DEF Untouched, vars
    <2> QED
      BY <2>1, <2>2 DEF IInv
  <1> QED
    BY <1>1, <1>2, <1>3, <1>4 DEF Next

\* The invariant of every key holds in every reachable state.
THEOREM InvariantHolds == Spec => []IInv
  BY InitInv, StepInv, PTL DEF Spec

\* Every reachable state is well typed: waf/guard.py's rows, in either backend.
THEOREM TypeCorrect == Spec => []TypeOK
  <1>1. IInv => TypeOK
    BY DEF IInv
  <1> QED
    BY <1>1, InvariantHolds, PTL

\* In one burst window a key passes at most its limit in the database and once
\* more in the memory of each process, but for the statements that failed.
THEOREM WindowHolds == Spec => []WindowBounded
  <1>1. IInv => WindowBounded
    BY DEF IInv, KeyInv, Accounted, WindowBounded
  <1> QED
    BY <1>1, InvariantHolds, PTL

\* The checks of a step are checks of Request.
LEMMA ChecksAre ==
    ASSUME IInv, Next, NEW n \in DOMAIN checks'
    PROVE  \E k \in Keys, b \in Backends, f \in FailPoints :
              LET v == RateCheck(table[b][k], b, k, now, f) IN
              /\ checks'[n] = Check(k, b, f, v)
              /\ table'[b][k] = v.row
              /\ Judged(v, table[b][k], b, k, now, f)
              /\ KeyInv(k)
  <1>t. TypeOK /\ \A k \in Keys : KeyInv(k)
    BY DEF IInv
  <1>1. ~Tick /\ ~Restart
    BY DEF Tick, Restart
  <1>2. PICK i \in Ips, u \in Users : Request(i, u)
    BY <1>1 DEF Next
  <1>3. PICK k \in Keys, b \in Backends, f \in FailPoints :
           /\ Checked(k, b, f)
           /\ checks'[n] = Check(k, b, f, RateCheck(table[b][k], b, k, now, f))
    BY <1>t, <1>2, RequestIs
  <1>4. Judged(RateCheck(table[b][k], b, k, now, f), table[b][k], b, k, now, f)
    BY <1>t, AnswerIs
  <1> QED
    BY <1>t, <1>3, <1>4 DEF Checked

\* While a lockout that was written is in force, a check that looks where it
\* was written neither lets the key through nor strikes it again.
THEOREM LockoutsServed == Spec => LockoutServed
  <1>1. IInv /\ [Next]_vars =>
          [\A n \in DOMAIN checks' :
              LET c == checks'[n] IN
              InForce(c.key) /\ LooksThere(c) =>
                 /\ ~c.passed
                 /\ table'[c.by][c.key].strikes = table[c.by][c.key].strikes]_vars
    <2> SUFFICES ASSUME IInv, Next, NEW n \in DOMAIN checks',
                        InForce(checks'[n].key), LooksThere(checks'[n])
                 PROVE  /\ ~checks'[n].passed
                        /\ table'[checks'[n].by][checks'[n].key].strikes
                              = table[checks'[n].by][checks'[n].key].strikes
      OBVIOUS
    <2>1. PICK k \in Keys, b \in Backends, f \in FailPoints :
             LET v == RateCheck(table[b][k], b, k, now, f) IN
             /\ checks'[n] = Check(k, b, f, v)
             /\ table'[b][k] = v.row
             /\ Judged(v, table[b][k], b, k, now, f)
             /\ KeyInv(k)
      BY ChecksAre
    <2> DEFINE v == RateCheck(table[b][k], b, k, now, f)
    <2>2. /\ checks'[n].key = k /\ checks'[n].by = b /\ checks'[n].fail = f
          /\ checks'[n].passed = v.passed /\ table'[b][k] = v.row
          /\ Judged(v, table[b][k], b, k, now, f) /\ KeyInv(k)
      BY <2>1 DEF Check
    <2> HIDE DEF v
    <2>3. /\ InForce(k) /\ told[k].by = b /\ f # "read"
          /\ b = "db" => told[k].day = now \div DayLength
      BY <2>2 DEF LooksThere
    <2>4. table[b][k].until > now /\ (b = "db" => table[b][k].day = now \div DayLength)
      <3>1. /\ table[b][k].until = told[k].until
            /\ b = "db" => table[b][k].day = told[k].day
        BY <2>2, <2>3 DEF KeyInv, Written, TodayFor
      <3>2. now \in Nat /\ told[k].until \in Nat
        BY KeyState DEF IInv
      <3> QED
        BY <2>3, <3>1, <3>2 DEF InForce
    <2>5. v.row = table[b][k] /\ ~v.passed
      BY <2>2, <2>3, <2>4 DEF Judged
    <2> QED
      BY <2>2, <2>5
  <1> QED
    BY <1>1, InvariantHolds, PTL DEF Spec, LockoutServed

\* A client that stayed away as long as it was told is let through, if nobody
\* else used its key since and the sustained window has room, wherever a lockout
\* outlasts the burst window that caused it.
THEOREM PatienceSuffices == Spec => PatienceIsEnough
  <1>1. IInv /\ [Next]_vars =>
          [\A n \in DOMAIN checks' :
              LET c == checks'[n] IN
              /\ now >= told[c.key].until
              /\ \A s \in DOMAIN Schedule : Schedule[s] >= BurstWindow
              /\ passes[c.key].start # Floor(now, BurstWindow)
              /\ Room(c)
              => c.passed]_vars
    <2> SUFFICES ASSUME IInv, Next, NEW n \in DOMAIN checks',
                        now >= told[checks'[n].key].until, Outlasts,
                        passes[checks'[n].key].start # Floor(now, BurstWindow),
                        Room(checks'[n])
                 PROVE  checks'[n].passed
      BY DEF Outlasts
    <2>1. PICK k \in Keys, b \in Backends, f \in FailPoints :
             LET v == RateCheck(table[b][k], b, k, now, f) IN
             /\ checks'[n] = Check(k, b, f, v)
             /\ table'[b][k] = v.row
             /\ Judged(v, table[b][k], b, k, now, f)
             /\ KeyInv(k)
      BY ChecksAre
    <2> DEFINE v == RateCheck(table[b][k], b, k, now, f)
    <2>2. /\ checks'[n].key = k /\ checks'[n].by = b
          /\ checks'[n].passed = v.passed
          /\ Judged(v, table[b][k], b, k, now, f) /\ KeyInv(k)
      BY <2>1 DEF Check
    <2> HIDE DEF v
    <2>3. /\ now >= told[k].until /\ passes[k].start # Floor(now, BurstWindow)
          /\ RoomIn(table[b][k], k, now)
      BY <2>2 DEF Room, RoomIn
    <2>4. /\ now \in Nat /\ told[k].until \in Nat /\ table[b][k].until \in Nat
          /\ now < Floor(now, BurstWindow) + BurstWindow /\ Floor(now, BurstWindow) \in Nat
      BY KeyState DEF IInv
    <2>5. table[b][k].until <= now
      BY <2>2, <2>3, <2>4 DEF KeyInv, Covered
    <2>6. ~Counted(table[b][k], now)
      BY <2>2, <2>3, <2>4, Settings DEF KeyInv, Waits
    <2> QED
      BY <2>2, <2>3, <2>5, <2>6 DEF Judged
  <1> QED
    BY <1>1, InvariantHolds, PTL DEF Spec, PatienceIsEnough
=============================================================================
