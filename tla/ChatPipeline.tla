---------------------------- MODULE ChatPipeline ----------------------------
(***************************************************************************)
(* governed_chat of backend/app/main.py: concurrent /api/chat requests of  *)
(* one process through the plan quotas, the cost policy, run_step5 and its *)
(* attempts on the thread pool, under the attempt timeout and the total    *)
(* timeout.  Everything between two awaits is one step of the event loop.  *)
(*                                                                         *)
(* A request slot is one client: it sends, waits, gets its answer, and     *)
(* sends again at a later tick.  All slots share one IP; Owner gives each  *)
(* its subject, whose quota row lives in the database and survives a       *)
(* restart, while everything else is memory of the process.                *)
(***************************************************************************)
EXTENDS CostPolicyOps, SequencesExt

CONSTANTS
    Slots, Subjects, Owner,
    Inputs,             \* estimates of the inputs the clients may send
    Outputs,            \* estimates of the texts the provider may answer with
    FallbackTokens,     \* estimate of the text that replaces a failed answer
    MaxInput, MaxOutput, RequestLimit, TokenBudget, \* PlanLimits
    TotalTimeout,       \* api_chat_total_timeout_ms
    ModelTimeout,       \* model_call_timeout_ms
    MaxAttempts,        \* run_step5's max_attempts
    Workers,            \* threads of the default executor
    MaxTime,            \* bound on the clock
    MaxDbFailures       \* bound on the quota statements that fail

ASSUME PipelineSettings ==
    /\ IsFiniteSet(Slots) /\ Slots # {}
    /\ Owner \in [Slots -> Subjects]
    /\ \A s \in Subjects : \E r \in Slots : Owner[r] = s
    /\ Inputs \subseteq Nat /\ IsFiniteSet(Inputs)
    /\ Outputs \subseteq Nat /\ IsFiniteSet(Outputs)
    /\ FallbackTokens \in Nat
    /\ {MaxInput, MaxOutput, RequestLimit, TokenBudget} \subseteq Nat
    /\ {TotalTimeout, ModelTimeout, MaxAttempts, Workers} \subseteq Nat \ {0}
    /\ {MaxTime, MaxDbFailures} \subseteq Nat

VARIABLES
    now,        \* the clock, in seconds
    cost,       \* the CostPolicy singleton
    quota,      \* the quotas row of each subject for the last day it was used
    req,        \* the request of each slot
    queue,      \* slots whose attempt waits for a thread of the pool
    running,    \* slots whose attempt runs on a thread
    zombies,    \* threads still running for an attempt that was given up
    dbFailures  \* quota statements that failed so far

vars == <<now, cost, quota, req, queue, running, zombies, dbFailures>>
pool == <<queue, running, zombies>>

NoRequest == [phase |-> "idle", input |-> 0, deadline |-> 0, due |-> 0,
              attempt |-> 0, response |-> "none", tokens |-> 0]

Refusals == {"input_too_large", "requests_limit", "token_budget",
             "request_cap", "breaker", "global_daily", "ip_window", "actor_daily"}

Responses == {"none", "answer", "safety_blocked", "bad_response", "timeout",
              "timeout_total", "lost"} \cup Refusals

TypeOK ==
    /\ now \in 0..MaxTime
    /\ cost.breaker.state \in BreakerState
    /\ cost.breaker.failures \subseteq [at : 0..now, call : Slots]
    /\ quota \in [Subjects -> [day : Nat, requests : Nat, tokens : Nat]]
    /\ req \in [Slots -> [phase : {"idle", "waiting", "done"}, input : Nat,
                          deadline : Nat, due : Nat, attempt : 0..MaxAttempts,
                          response : Responses, tokens : Nat]]
    /\ IsInjective(queue)
    /\ Range(queue) \cap running = {}
    /\ Range(queue) \cup running = {r \in Slots : req[r].phase = "waiting"}
    /\ Cardinality(running) + zombies <= Workers
    /\ dbFailures \in 0..MaxDbFailures

Init ==
    /\ now = 0
    /\ cost = FreshCost(Subjects)
    /\ quota = [s \in Subjects |-> [day |-> 0, requests |-> 0, tokens |-> 0]]
    /\ req = [r \in Slots |-> NoRequest]
    /\ queue = <<>> /\ running = {} /\ zombies = 0
    /\ dbFailures = 0

-----------------------------------------------------------------------------
(* The quota row of plans/quota.py.                                          *)

\* _ensure_row: the row of today, fresh if the subject was last seen earlier.
RowToday(row) ==
    IF row.day = Day(now) THEN row ELSE [day |-> Day(now), requests |-> 0, tokens |-> 0]

\* A statement on the quotas table succeeds, or fails and is swallowed.
Db(failures) ==
    /\ dbFailures + failures <= MaxDbFailures
    /\ dbFailures' = dbFailures + failures

\* precheck_plan_and_quotas: the limit that refuses the request.  A check
\* whose statement fails lets the request pass.
QuotaScope(row, input, readRequests, readTokens) ==
    IF input > MaxInput THEN "input_too_large"
    ELSE IF readRequests /\ row.requests >= RequestLimit THEN "requests_limit"
    ELSE IF readTokens /\ row.tokens + input + MaxOutput > TokenBudget THEN "token_budget"
    ELSE "none"

Failed(oks) == Cardinality({i \in DOMAIN oks : ~oks[i]})

\* increment_usage, one request.
IncrementUsage(row, tokens) == [row EXCEPT !.requests = @ + 1, !.tokens = @ + tokens]

\* post_accounting: best effort.
PostAccounting(r, tokens) ==
    \E ok \in BOOLEAN :
        /\ Db(Failed(<<ok>>))
        /\ quota' = IF ok
                    THEN [quota EXCEPT ![Owner[r]] = IncrementUsage(RowToday(@), tokens)]
                    ELSE quota

-----------------------------------------------------------------------------
(* A request arrives.  From the first line of _process to the first await of *)
(* run_step5 nothing else runs.                                              *)

Answer(r, response) ==
    req' = [req EXCEPT ![r] = [NoRequest EXCEPT !.phase = "done", !.response = response]]

Start(input) ==
    [phase |-> "waiting", input |-> input, attempt |-> 1, response |-> "none", tokens |-> 0,
     deadline |-> now + TotalTimeout,
     due |-> now + (IF ModelTimeout < TotalTimeout THEN ModelTimeout ELSE TotalTimeout)]

Arrive(r) ==
    /\ req[r].phase = "idle"
    /\ now + TotalTimeout <= MaxTime
    /\ \E input \in Inputs, readRequests, readTokens \in BOOLEAN :
        LET row == RowToday(quota[Owner[r]])
            limit == QuotaScope(row, input, readRequests, readTokens)
            scope == Scope(cost, Owner[r], input, MaxOutput, now)
        IN
        /\ IF limit = "input_too_large"
           THEN UNCHANGED <<quota, dbFailures>>
           ELSE /\ Db(Failed(<<readRequests, readTokens>>))
                /\ quota' = [quota EXCEPT ![Owner[r]] = IF readRequests \/ readTokens THEN row ELSE @]
        /\ \/ /\ limit # "none"
              /\ Answer(r, limit)
              /\ UNCHANGED <<cost, pool>>
           \/ /\ limit = "none" /\ scope # "none"
              /\ Answer(r, scope)
              /\ cost' = RecordFailure(AfterScope(cost, scope, now), r, FALSE, now)
              /\ UNCHANGED pool
           \/ /\ limit = "none" /\ scope = "none"
              /\ cost' = AfterScope(cost, scope, now)
              /\ req' = [req EXCEPT ![r] = Start(input)]
              /\ queue' = Append(queue, r)
              /\ UNCHANGED <<running, zombies>>
    /\ UNCHANGED now

\* A free thread of the default executor takes the oldest waiting attempt.
Dispatch ==
    /\ queue # <<>>
    /\ Cardinality(running) + zombies < Workers
    /\ running' = running \cup {Head(queue)}
    /\ queue' = Tail(queue)
    /\ UNCHANGED <<now, cost, quota, req, zombies, dbFailures>>

-----------------------------------------------------------------------------
(* run_step5 returned: post_accounting, then the cost policy, in one step.   *)

Settle(r, response, tokens) ==
    /\ PostAccounting(r, req[r].input + tokens)
    /\ cost' = IF response = "answer"
               THEN RecordSuccess(cost, Owner[r], r, req[r].input + tokens, now)
               ELSE RecordFailure(cost, r, response = "bad_response", now)
    /\ req' = [req EXCEPT ![r] = [NoRequest EXCEPT !.phase = "done", !.response = response,
                                                   !.tokens = tokens]]

\* The attempt failed; there is another one, or the loop is over.  A loop that
\* ends on its deadline has failed with TIMEOUT whatever the attempts did.
NextAttempt(r, failure, gone) ==
    IF req[r].attempt < MaxAttempts /\ now < req[r].deadline
    THEN /\ req' = [req EXCEPT ![r].attempt = @ + 1,
                               ![r].due = IF now + ModelTimeout < req[r].deadline
                                          THEN now + ModelTimeout ELSE req[r].deadline]
         /\ queue' = Append(gone, r)
         /\ UNCHANGED <<cost, quota, dbFailures>>
    ELSE /\ Settle(r, IF req[r].attempt < MaxAttempts THEN "timeout" ELSE failure, FallbackTokens)
         /\ queue' = gone

\* The thread returns a text that passes, or does not pass, apply_safety.
ProviderAnswers(r) ==
    /\ r \in running
    /\ running' = running \ {r}
    /\ \/ \E tokens \in Outputs : Settle(r, "answer", tokens)
       \/ Settle(r, "safety_blocked", FallbackTokens)
    /\ UNCHANGED <<now, queue, zombies>>

\* The thread returns a result that is not ok.
ProviderFails(r) ==
    /\ r \in running
    /\ running' = running \ {r}
    /\ NextAttempt(r, "bad_response", queue)
    /\ UNCHANGED <<now, zombies>>

\* A thread nobody waits for any more returns: its result is dropped.
ZombieReturns ==
    /\ zombies > 0
    /\ zombies' = zombies - 1
    /\ UNCHANGED <<now, cost, quota, req, queue, running, dbFailures>>

\* Deviation: the attempt that was given up stays with the request.
GiveUpKeepsThread(r) ==
    /\ running' = running
    /\ zombies' = IF r \in running THEN zombies + 1 ELSE zombies

\* Cancelling the await drops an attempt still in the queue; a thread that
\* runs already cannot be stopped.
GiveUp(r) ==
    /\ running' = running \ {r}
    /\ zombies' = IF r \in running THEN zombies + 1 ELSE zombies

\* Deviation: the timer misses the moment it is due.
AttemptTimeoutMissed(r) ==
    /\ req[r].phase = "waiting" /\ now > req[r].due
    /\ GiveUp(r)
    /\ NextAttempt(r, "timeout", RemoveFirst(queue, r))
    /\ UNCHANGED now

\* enforce_timeout around one attempt.
AttemptTimeout(r) ==
    /\ req[r].phase = "waiting" /\ now >= req[r].due
    /\ GiveUp(r)
    /\ NextAttempt(r, "timeout", RemoveFirst(queue, r))
    /\ UNCHANGED now

\* Deviation: a request the total timeout ended is charged all the same.
TotalTimeoutBills(r) ==
    /\ req[r].phase = "waiting" /\ now >= req[r].deadline
    /\ GiveUp(r)
    /\ queue' = RemoveFirst(queue, r)
    /\ cost' = RecordFailure(cost, r, TRUE, now)
    /\ PostAccounting(r, req[r].input)
    /\ Answer(r, "timeout_total")
    /\ UNCHANGED now

\* enforce_timeout around _process: nothing after the await of run_step5 runs.
TotalTimeoutFires(r) ==
    /\ req[r].phase = "waiting" /\ now >= req[r].deadline
    /\ GiveUp(r)
    /\ queue' = RemoveFirst(queue, r)
    /\ cost' = RecordFailure(cost, r, TRUE, now)
    /\ Answer(r, "timeout_total")
    /\ UNCHANGED <<now, quota, dbFailures>>

\* A second passes.  The event loop has run every timer that was due and every
\* free thread has taken its work; the clients that were answered move on.
Tick ==
    /\ now < MaxTime
    /\ \A r \in Slots : req[r].phase = "waiting" => now < req[r].due
    /\ queue # <<>> => Cardinality(running) + zombies = Workers
    /\ now' = now + 1
    /\ req' = [r \in Slots |-> IF req[r].phase = "done" THEN NoRequest ELSE req[r]]
    /\ UNCHANGED <<cost, quota, queue, running, zombies, dbFailures>>

\* The process dies and a new one starts: the clients in flight get no answer,
\* the counters and the breaker are fresh, the quota rows stay.
Restart ==
    /\ cost' = FreshCost(Subjects)
    /\ req' = [r \in Slots |->
                 IF req[r].phase = "waiting"
                 THEN [NoRequest EXCEPT !.phase = "done", !.response = "lost"] ELSE req[r]]
    /\ queue' = <<>> /\ running' = {} /\ zombies' = 0
    /\ UNCHANGED <<now, quota, dbFailures>>

Next ==
    \/ \E r \in Slots : Arrive(r)
    \/ Dispatch
    \/ \E r \in Slots : ProviderAnswers(r)
    \/ \E r \in Slots : ProviderFails(r)
    \/ ZombieReturns
    \/ \E r \in Slots : AttemptTimeout(r)
    \/ \E r \in Slots : TotalTimeoutFires(r)
    \/ Tick
    \/ Restart

\* The event loop and the pool keep going and time passes.  Nothing is assumed
\* of the provider: a thread may never return.
Fairness ==
    /\ WF_vars(Tick)
    /\ WF_vars(Dispatch)
    /\ \A r \in Slots : WF_vars(AttemptTimeout(r)) /\ WF_vars(TotalTimeoutFires(r))

Spec == Init /\ [][Next]_vars /\ Fairness

-----------------------------------------------------------------------------
Waiting(r) == req[r].phase = "waiting"

Ends(r, responses) == Waiting(r) /\ ~Waiting(r)' /\ req'[r].response \in responses

\* The most a request the cost policy lets through can be charged, and what an
\* answer may be longer than the estimate it was admitted with.
Largest(S) == CHOOSE m \in S \cup {0} : \A n \in S : n <= m
MaxUse == Largest({i \in Inputs : i + MaxOutput <= RequestMaxTokens}) + Largest(Outputs)
Overrun == IF Largest(Outputs) > MaxOutput THEN Largest(Outputs) - MaxOutput ELSE 0

\* The global daily budget is checked before the provider is awaited and
\* charged after: the day's spend may pass the cap, but by no more than one
\* request of every other slot and the length of an answer nothing clamps.
SpendBounded ==
    DailyTotal(cost.global, now)
        <= GlobalCap + (Cardinality(Slots) - 1) * MaxUse + Overrun

\* Whatever the day's budget was charged with, some subject's quota row was
\* charged with too, but for the rows a failed statement left behind.
SpendIsBilled ==
    DailyTotal(cost.global, now)
        <= SumFunction([s \in Subjects |-> RowToday(quota[s]).tokens]) + dbFailures * MaxUse

\* A subject passes its daily request limit only by requests that were in
\* flight together or whose limit check failed.
QuotaBounded ==
    \A s \in Subjects :
        RowToday(quota[s]).requests
            <= RequestLimit + dbFailures + Cardinality({r \in Slots : Owner[r] = s}) - 1

\* Both limits are checked before the provider is awaited and charged after it: they
\* are passed by what was in flight together, and by no more.
LimitsBounded == SpendBounded /\ QuotaBounded

\* A quota row grows by one request, of a slot whose step 5 ended in this very
\* step: a refused request, one the total timeout ended or one whose thread
\* returns late is not charged.
BilledAtItsEnd ==
    [][\A s \in Subjects : RowToday(quota'[s]).requests > RowToday(quota[s]).requests =>
          /\ RowToday(quota'[s]).requests = RowToday(quota[s]).requests + 1
          /\ \E r \in Slots :
                /\ Owner[r] = s
                /\ Ends(r, {"answer", "safety_blocked", "bad_response", "timeout"})]_vars

\* Every request ends, even if the provider never answers and every thread of
\* the pool is taken.
EveryRequestEnds == \A r \in Slots : Waiting(r) ~> ~Waiting(r)

=============================================================================
