# A verification of the cognitive system

TLA+ models of the backend (`src/backend`) and of the web client (`src/frontend`),
checked with TLC, and theorems about them checked with TLAPS.  Paths below are
relative to `src/`; `backend/app` is written `app`, `backend/mci_backend` is
written `mci_backend`, and the phase documents of `docs/` go by their names.

## 1. The system

One uvicorn process (`backend/start.sh`) serves `app.main:app`.  All requests share
one event loop; what lies between two awaits is atomic with respect to other
requests.  Model calls run on the threads of the default executor.  Most state is
memory of the process; quotas, rate windows, lockouts and sessions are rows of a
database.  The web client keeps its chats in the browser's local storage.

### 1.1 Components

| Component | State | Operations | Where it is hard |
|---|---|---|---|
| Cost policy, breaker (`app/cost`) | breaker record, daily counters, rolling window; memory | `precheck`, `record_success`, `record_failure` | checked before an await, charged after it; late results reach a breaker that has moved on |
| Chat endpoint, step 5 (`app/main.governed_chat`, `app/reliability`, `app/perf`) | requests in flight, pool threads | admission, attempts, attempt and total timeout, settlement | a cancelled await does not stop a thread; the total timeout skips all bookkeeping |
| Plans and quotas (`app/plans`, `app/deps/plan_guard.py`) | one row per subject and day; database | `check_requests_limit`, `check_token_budget`, `increment_usage` | check and charge are apart; a failed statement lets the request pass |
| Request guard (`app/waf`) | two windows and a lockout per key; database with a memory fallback | `waf_dependency`, `_rate_check`, `_set_lockout_db` | two stores that do not know of each other; statements that fail in between; midnight |
| Model pipeline (`mci_backend`: invocation, adapter, verifier, fallback) | one call's stages | `render_governed_response` | every failure must end in a failure code or a fallback; what the verifier lets through in each form of text |
| Decision, orchestration, expression rules (`mci_backend`) | none | three assemblies of enumerations with their consistency checks | dozens of selectors and checks that must agree on every message |
| Memory (`app/memory`) | an append-only event log per scope | `write_memory`, expired and revoked marks, `get_current_view`, `read_memory_bundle` | the view is a replay of everything that ever happened, in order; two orders and two sets of caps |
| Deep thinking (`app/deepthink`) | plan, decision, strikes, budget of one run | `build_plan`, `run_engine`, the five passes, `validate_delta` | when a run stops and what it then delivers; rounding of the shares |
| Research tools (`app/research`, `app/retrieval`) | call budget and rate window, threaded through by the caller; a FIFO cache | `run_policy_gated_research`, `run_sandboxed_call`, `retrieve`, `get`, `put`, sanitising, grading, `bind_claims` | state handed on by value; a denial must not consume; a bucket's edge |
| Tenant, policy, retention (`app/governance`) | none of their own: they read the tenant's configuration and the memory log | `resolve_tenant_caps`, `decide_policy`, `create_deletion_plan` | no clamp may give back what another took; a plan lowered under data written on a higher one |
| Change control, audit log (`app/governance`) | the chained audit log | `apply_change_control`, `record_audit_event`, `append`, `verify_chain` | an allowed change whose event was not recorded; events written over by who holds them |
| Web client (`frontend`, the chat page) | React state per tab, local storage shared by tabs | send, retry, reset, new, select, delete, reload | answers that come after the user went elsewhere; effects that store what is displayed |
| Policy gates (`app/integration`) | none | gated read, write, research | caps of the policy that must reach every stage |
| Session and conversation services (`mci_backend/app`, `app/service.py`) | hypotheses of a session | `load`, `apply_clamped_update`, `save` | a stored set changed in place |
| Model providers (`app/providers`, `app/models`) | a circuit of their own | `is_open`, `record_failure`, `record_success` | as the cost breaker |
| Identity, sessions, abuse score (`app/auth`, `app/routers`, `app/security`) | session rows, key cache | login, signup, logout, scoring | expiry |
| Settings, logging, schema, accountability, launchers | none, or outside the process | | |

`PROJECT.json` lists every component with its files and status.

### 1.2 How they interact

A request to `/api/chat` passes `waf_dependency` (IP, then subject), the plan
quotas, the abuse score and `CostPolicy.precheck`; then `run_step5` awaits up to
two attempts on the thread pool, each under `enforce_timeout`, all of it under a
second `enforce_timeout` around `_process`.  An attempt calls
`render_governed_response`, which runs the three assemblies, calls the expression
model, verifies its text and falls back.  What `run_step5` returns is charged to the
quota row and reported to the cost policy.  From the first line of `_process` to
the first await nothing else runs; from the return of `run_step5` to the answer
nothing else runs either.  In between, anything does.

The answer's action and its cooldown header decide what the web client lets its
user do next.  The memory, the research tools and the deep-thinking engine are
called by the policy gates (`app/integration`) and by tests, not by the chat
endpoint; the governance rules and change control by the gates and tests.

### 1.3 What makes each part correct

- *Breaker*: it opens only on a full window of failures, lets nobody through
  while open, and probes only after its cooldown.
- *Chat*: budgets and quotas are passed by a bounded amount; what the day's budget
  is charged for, somebody's quota is charged for; a request is charged when its
  step 5 ends and at no other time; every request ends.
- *Guard*: the number of requests in a window is bounded whatever store holds the
  counter; a lockout in force holds; waiting it out is enough.
- *Model pipeline*: only low stakes get an answer; the rules never contradict one
  another; what reaches the user was verified.
- *Memory*: the replay means what the log says; a promise about one fact at a time;
  of what a reader may see it gets the best.
- *Deep thinking*: the caller gets the baseline untouched or a completed plan's
  result; a run overdraws by at most one pass.
- *Research*: the caps hold over a session; an answer that counts as supported rests
  on sources that were not dropped; the cache serves the latest bundle of its bucket.
- *Governance*: requests only clamp, a lower plan only takes, and pruning takes
  nothing that a reader of the plan in force could still see.
- *Change control*: versions only grow, at the level the change requires; the
  chain verifies unless an event was altered, and names the first that was; the
  signature of an allowed change names one event of the log.
- *Web client*: a page that waits has something to wait for; what the user left
  does not come back; a deleted chat is gone.

## 2. The modules

```
BreakerOps ─┬─ CostBreaker ─┬─ MCCostBreaker
            │               └─ CostBreakerProofs
            └─ CostPolicyOps ── ChatPipeline ─┬─ MCChatPipeline
                                              └─ ChatPipelineProofs
WafGuard ─┬─ MCWafGuard
          └─ WafGuardProofs
DecisionRules ── OrchestrationRules ── ExpressionRules ── ModelPipeline ─┬─ MCModelPipeline
AuditLog ── ChangeControl ─┬─ MCChangeControl                             │
DeepThink ─┬─ MCDeepThink  │                                              │
           └───────────────┴──────────── DecisionProofs ──────────────────┘
MemoryStore ─┬─ MemoryRead ─┬─ MCMemoryStore
             │              └─ MemoryProofs
             ├─ INSTANCE FactLife          (what the store promises)
             └─ used by Governance         (INSTANCE: the log retention plans for)
TenantRules ── Governance ─┬─ MCGovernance
                           └─ GovernanceProofs   (INSTANCE MemoryProofs: what a replay finds)
SandboxOps ──┬─ Research ─┬─ MCResearch
ResearchRules┘            └─ ResearchProofs
WebClient ─┬─ MCWebClient
           └─ WebClientProofs
```

A line is EXTENDS, from left to right, where nothing else is said.  The `map` of
`PROJECT.json` gives the lines of code each definition stands for.  A definition
whose comment starts with "Deviation:" is a plausible bug beside the operator it
deviates from.  No action uses it; put in that operator's place it must make a
property fail, which shows that the property can fail.

### BreakerOps, CostBreaker: the breaker between concurrent requests

`BreakerOps` is `CircuitBreaker` as operators on a record.  The code counts
failures per second in a dictionary; the model keeps one element per failure, with
the call that reported it, so the sum of the counts is a cardinality and a property
can ask whether a failure was real.  The settings name one provider and one model,
so a process has one record.

`CostBreaker` puts requests around it.  `Admit`, `Refuse` and `BudgetRefuse` are
the three outcomes of `CostPolicy.precheck` as the breaker sees them: the breaker
is asked before the token budgets, so a refused budget may already have moved it.
`Succeed`, `Fail` and `EndUncounted` are `record_success`, and `record_failure`
with and without `is_provider_failure`.  Time is whole seconds, as in the code.

### CostPolicyOps, ChatPipeline: a request from arrival to answer

`CostPolicyOps` adds the daily counters and the rolling window: `Scope` is the
order of the refusals in `precheck`, `AfterScope` what it leaves behind at each of
them.  `ChatPipeline` is `governed_chat`:

| Action | Code |
|---|---|
| `Arrive` | `_process` to the first await: quota checks, `precheck`, refusal or first attempt |
| `Dispatch` | a thread of the executor takes a queued attempt |
| `ProviderAnswers`, `ProviderFails` | the attempt returns; `run_step5` ends or tries again; settlement |
| `AttemptTimeout` | the inner `enforce_timeout`; the thread goes on |
| `TotalTimeoutFires` | the outer `enforce_timeout`; the rest of `_process` never runs |
| `ZombieReturns` | a thread nobody waits for returns |
| `Restart` | a new process: memory is gone, the quota rows stay |
| `Tick` | a second passes; due timers and free threads go first |

`IncrementUsage` is what the charge adds to a subject's row.  A quota statement may
fail, and is then swallowed as in the code.  A slot is a
client that asks again at a later tick.  Attempt and total timeout may be due at
the same instant and then fire in either order.

### WafGuard: windows and lockouts

One action, `Request`, is `waf_dependency`: it does not await between reading the
clock and its verdict.  `RateCheck` is `_rate_check` statement by statement, with
`fail` naming the statement that fails.  Both stores use one record: the database's
lockout row carries its day, memory's does not.  Each of a request's two checks
gets a connection or falls back to memory.  `told`, `passes` and `checks` record
what clients were told and what passed; the code has no such variables, and no
guard reads them.  A key is an IP or a subject, never both: a row's key holds its
scope (`WafSettings`).

### DecisionRules, OrchestrationRules, ExpressionRules, ModelPipeline: one answer

The three rule modules are pure: `AssembleDecisionState`, `AssembleControlPlan`
and `AssembleOutputPlan`, each with the operator that says when its consistency
checks raise (`DecisionFails`, `ControlPlanFails`, `OutputPlanFails`).  A message is
the groups of markers its text holds: for each classifier, the set of values one of
whose markers is a substring.  The lists of markers are left out, since any subset
of groups can occur together in a text; `MarkersFound` says which groups there are.

`ModelPipeline` is `render_governed_response` and `call_expression_model`.  Each
action of `CallStep` is a stage: `Receive`, the three assemblies, `BuildRequest`,
`InvokeModel`, `VerifyOutput`, `Fallback`, `Return`.  A reply is what HTTP did, the form of the
text (plain, JSON array, JSON object), whether it fits the schema of the planned
action, and the marks the guard and the verifier look for in it.

### MemoryStore, FactLife, MemoryRead: an event log, its promise and its readers

`Write` is `write_memory` followed by `write_facts_with_expiry`; a request that is
refused changes nothing and is not a step.  `MarkExpired` and `Revoke` append the
events their constructors make.  What is listed are the operators `Replay`
(`recompute_current_view`), `Active` and `Capped`.  A fact is an id, a category, a
rank (its priority key) and whether its checks pass.  `FactLife` is the promise
with no log: an id is free, holds one fact until a fixed time, or is buried.
`HeldBy(log)` is the refinement mapping.

`MemoryRead` is `read_memory_bundle` over what the store lists.  The store's order
(confidence, provenance, time, length of the key, id) and the read's (confidence,
time, category, hash) are independent numbers of a fact, `rank` and `place`.

### DeepThink: router and engine

`BuildPlan` is the router; `Begin`, `Stop`, `PassRaises`, `PassFails`,
`PassProposes` and `Complete` are `run_engine`, pass by pass (`RunSpec`).  The weights
of the passes are the code's; the tiers, the least shares, the costs and the times are
constants.  A patch is what it
sets the action to, `keep` when it changes texts only, `foreign` when it sets a
field outside the allowed ones.  Which of its cases a pass finds in the texts is
left open.  The runner of the REFINE pass belongs to the caller, so its patch is
arbitrary.

### SandboxOps, ResearchRules, Research: tools under caps

`SandboxOps` is the sandbox state and the fixed window of the rate limiter: both
are functions from a state and a time to a state and an answer.  `ResearchRules` is
what happens to the sources: sanitising, removal of duplicates, grading and its caps,
corroboration, `bind_claims` with its modes.  Where the code goes through nested
lists, an element is named by its place, a pair of indices, and the first of some
elements is the one whose place precedes all others (`Precedes`, `First`).  A text is a set of chunks, each with
the words the binder compares and what the sanitiser makes of it.

`Research` has two clients, one per behaviour.  A session calls
`run_policy_gated_research` (`RunResearch`) and hands the sandbox state of one
outcome to the next call, or calls the sandbox itself (`OpenSandbox`,
`RunSandboxedCall`); the other client puts bundles into the cache, and a lookup at any
time is what `CacheServesLatest` reads.  They never meet: a gated call that is given a cache ends in an error before it
reaches it (see 3.1).

### TenantRules, Governance: a tenant whose plan changes

`TenantRules` is `resolve_tenant_caps` (`Caps`), `decide_policy` (`Decide`, in the
order of its checks) and the retention windows.  `Governance` puts them beside the
memory log of one scope, whose events come from `MemoryStore` with the tiers' real
lifetimes (`GovernedMemory` is what `MemoryStore` assumes, of these).  `create_deletion_plan` is the planner; its executor is a stub in the
code, so no event is deleted and the properties ask what the log would be worth
without the planned events.  `Write`, `Mark`, `SetTenant` and `Pass` are the callers.

### AuditLog, ChangeControl: a chain of events and the changes it records

`AuditLog` is `audit.py`.  A signature is SHA-256 over an event's content and the
signature before it.  The model keeps what is hashed, the sequence of contents
below it, so two signatures are equal exactly when all of that is: it assumes that
SHA-256 has no collisions.  `Tried`, `Receipt` and `Recorded` are the three outcomes of
`record_audit_event`: the event as asked for, its fallback (a DENY, when the first
attempt raises), and the hard-coded event that is appended nowhere.  `Alter` is a
holder of an event who writes into its `struct_meta`, which the frozen event shares
with the log.  `recorded` remembers what was appended; no action reads it.

`ChangeControl` is `apply_change_control`: `Verdict` is the order of its refusals,
`Refuse` and `Allow` its answers.  It keeps no state of its own, so `last` is the
answer; other callers of the recorder are `OtherEvent`.  A recorder that cannot
write makes no difference to the answer, in the code as in the model.

### WebClient: the chat page in the tabs of a browser

An action is one turn of the event loop of the page (`page.tsx`) with the render and
the effects it causes, so the effect that stores the displayed chat is part of it
(`Render`).  `handleSend`, `SendInvalid`, `SendWhenFailed` and `retryLast` are
`sendMessage` and what calls it; `Headers`, `Body` and `Fails` are the points at
which its awaits resume, of which only the first is under the abort timer.
`handleSelectSession`, `handleDeleteSession`, `resetChat` and `NewChat` are the
handlers of the same names.  `copyMessage` starts a clipboard write, which the page
awaits (`clipboard`); `copyFails` resumes it when it was refused, with a notice in
whatever chat is displayed by then.  `Reload`, `Expire` and `CooledDown` are the tab and
its timers.  `abandoned` and `deleted` are history that no guard reads.

## 3. The runs

| Run | Question | Bounds | Distinct states, time |
|---|---|---|---|
| `cost_breaker` | when does the breaker open, probe and refuse? | 4 requests, threshold 2, window 1, cooldown 2, 6 seconds | 1.7 million, 20 s |
| `chat_pipeline` | what do budgets and quotas still bound, who is charged, does every request end? | 3 clients of 2 subjects, 1 thread, 2 attempts, 1 failing statement, 2 days of 2 seconds | 450 thousand, 95 s |
| `waf_guard` | how many get through, does a lockout hold, is waiting enough? | 1 IP and 1 subject, 10 seconds, a midnight, 1 failing statement, 1 outage, 1 restart | 700 thousand, 50 s |
| `model_pipeline` | which stakes get an answer, which plans fail, what was verified? | 2306 messages, 18 replies, configured or not | 85 thousand, 55 s |
| `memory_store` | does the log mean what it says, is it `FactLife`, what do readers get? | 4 ids, 6 facts, log of 4 events, 2 lifetimes, 8 reads | 140 thousand, 105 s |
| `deep_think` | what is delivered, and when does a run stop? | 27 inputs at the limits, all answers of all passes, two costs and two times of a pass | 1.8 million, 100 s |
| `research` | do the caps hold over a session, what supports an answer, what does the cache serve? | 3 calls, 1 per minute, a minute of 3, a total time of 7, 7 scenes, 5 answers, 4 policies; 2 entries, 5 puts | 170 thousand, 80 s |
| `governance` | do decisions only clamp, does a lower plan only take, what would a deletion plan lose? | 5 configurations, log of 3 events, 5 times up to 14 days | 1.3 million, 70 s |
| `change_control` | what do `verify_chain` and a receipt say, which bumps pass? | log of 3 events, 25 pairs of versions for 2 types of change, 3 states of the store, 2 of the clock | 160 thousand, 45 s |
| `web_client` | what becomes of answers, chats and waiting pages the user has left? | 2 tabs, 2 chats, 2 requests, 1 upset | 1.5 million, 60 s |
| `fails_closed`, `refusal_delivered` | see 3.1 | as `change_control`, `model_pipeline` | |

What the properties say, beyond one type invariant for each run:

- *Breaker*: `StateIsDue` (a closed breaker is below its threshold, a half-open one
  has cooled down), `OpenAdmitsNobody`, and of each step `TripIsEarned` (an opening
  rests on a threshold of real failures of the window that no success wiped out; out of
  half-open the document lets one failure do, so the property asks for one there).
- *Chat*: `LimitsBounded` (by how much the day's budget and a quota row can be
  passed: one overrun per request in flight), `SpendIsBilled`, `BilledAtItsEnd`, and
  `EveryRequestEnds`, the liveness property.
- *Guard*: `WindowBounded`, `LockoutServed` (nobody who was told to wait passes
  before, as long as the store that told so holds), `PatienceIsEnough` (who stayed
  away as told is let through, where every lockout outlasts the burst window).
- *Model pipeline*: `AnswersOnlyLowStakes` relates the text's markers to the action
  across all three layers; `FailsOnlyWhenEnforced` says the consistency checks of
  the first two layers never fire and the third refuses exactly ENFORCED rigor;
  `VerifiedDiscloses` is what any delivered text of the model has passed.
- *Memory*: `ReplayIsDeclared` compares the replay with a reading of the log that
  names no loop; `ReadersKeepTheBest` bounds what the two orders and the five cuts of
  store and read may take from a reader, and `KeepsItsPromise` is the refinement.
- *Deep thinking*: `PatchedOrBaseline` (the baseline untouched, or the decision that
  the applied patches of a completed plan made, in order; at most one patch was refused)
  and `OverdrawsOnePass` (no pass begins with the budget used up or the time over).  Both
  are what the engine does and weaker than its contract, see 3.1.
- *Research*: `CapsHold`, `SupportedByWhatIsLeft` and `CacheServesLatest`.
- *Governance*: `RequestsOnlyClamp`, `LoweringOnlyTakes` and `PruningIsSafe`, which
  allows a loss only where a tenant came from a plan with longer lifetimes or a
  plan of limited size split a revocation from its add.
- *Change control*: `VerifyFindsFirstEdit`, `ReceiptNamesItsEvent`, `BumpIsEnough`.
- *Web client*: `SendingIsAwaited`, `LateIsIgnored` and `DeletedIsGone`.

Why the bounds are enough:

- *Breaker*: two requests fill the window, a third trips or probes, a fourth is
  late; the clock allows a failure, a whole cooldown and a failure of the probe.
- *Chat*: one thread and three clients make a queue behind a zombie; the caps are
  such that each refusal happens; a day ends while a request is in flight; an
  answer may be longer than the estimate.
- *Guard*: limits 2/3 and 1/2 are passed within one burst window, the schedule's
  second step and its cooldown end inside the clock's range, and the day changes.
  A statement fails at each of the five places it can.
- *Model pipeline*: a call shares nothing with the next, so one message at a time is
  enough.  The messages hold every level of proximity, scope and ending with the
  marks of risk, reversibility and horizon that compete in the selectors; the
  replies hold each way to fail, alone, and each mark the verifier looks for, in each form.
- *Memory*: four events are an add, a mark and a second add, in every order, with a
  fact beside them and a full log; four ids overfill a category and the total; each
  cap of a read decides in one of the reads, and two reads are refused.
- *Deep thinking*: the settings are the code's own, and the inputs are those where a
  pass more or less fits and where a share must be raised.  A pass takes 550 ms, the
  raised total of 500 ms for two, or 3000 ms, a tier's total or half of it with no share
  raised.
- *Research*: the clock reaches a third window before the total time ends, so each of
  the three stops (time, budget, rate) happens; two queries in four buckets
  overfill a cache of two; the scenes have a duplicate, an injected part in one of two
  chunks, and a source of which nothing is left.
- *Governance*: the plans go up and down the whole scale and one configuration is
  malformed; the times lie past the windows of a day, of seven and of fourteen days;
  two of three candidates fit into a plan.
- *Change control*: three events have a first, a middle and a last one to write
  over, before or after the others are appended; the versions hold a bump and a
  downgrade at each level.
- *Web client*: two requests are one that was left and one sent after it; two chats
  are the one left and the one gone to; the upset is the one reload, expiry, cooldown,
  refused text or clipboard that happens.

The theorems of section 4 lift the bounds where they state the same property.

`CHECK_DEADLOCK FALSE` is said of `CostBreaker`, which stops when the clock is at
its bound and every call has ended; of `DeepThink`, where a run of the engine ends;
and of `Governance` and `WebClient`, where the bounded log, chats and requests may
leave nothing to do.  Elsewhere deadlock is checked.  Symmetry is used over the
breaker's requests and the browser's tabs; both runs check safety only, and neither
distinguishes its values.

**Fairness.** Only `ChatPipeline` has a liveness property, `EveryRequestEnds`.  It
assumes weak fairness of the clock, of the executor (`Dispatch`) and of the two
timers, which the event loop runs when they are due.  It assumes nothing of the
provider: no fairness is given to `ProviderAnswers`, `ProviderFails` or
`ZombieReturns`, so all threads may hang for good.  The web client has none to
offer: once an answer's headers are there its timer is off, and a body that never
ends leaves the page SENDING until the user leaves.

### 3.1 Where code and documents disagree

Two runs each violate a property that a line of the repository states.

- `fails_closed`: a change is allowed although its audit event could not be written;
  the comment (`app/governance/change_control.py:439`) says it fails closed.
- `refusal_delivered`: a message whose plan requires a refusal gets
  `OUTPUT_PLAN_ASSEMBLY_FAILED` instead, because such a plan comes with ENFORCED rigor and
  the rigor disclosure accepts that for no action.  `PHASE11_STEP8_ASSEMBLY_VALIDATION.md:24`
  says it becomes the action REFUSE.

Met while modelling, kept in the modules as the code has them, and not given a run:

| Code | What it does | What is said of it |
|---|---|---|
| `app/cost/breaker.py:51` | a half-open breaker admits every request | "one probe", `:52` and `PHASE16_STEP3_COST_CONTROL_LOCK.md:38` |
| `app/cost/breaker.py:68` | a failed probe re-opens the breaker only when the window holds a whole threshold of failures; with the default window (60 s) shorter than the cooldown (120 s), one failed probe leaves it half-open (`FailedProbeKeepsProbing`) | "re-closes or re-opens", the same document, `:38` |
| `app/main.py:1443` | a request whose attempts time out is not counted by the breaker | timeouts are counted, the same document, `:39` |
| `app/main.py:1439` | nothing clamps an answer to the plan's `max_output_tokens`; `Overrun` in `LimitsBounded` is the price | `PHASE15_STEP4_PLANS_QUOTAS_TTL.md:47` |
| `app/waf/guard.py:229` | lockout rows are keyed by UTC day: the schedule starts again at midnight, without its cooldown | `PHASE15_STEP5_ABUSE_DEFENSE.md:11` |
| `app/memory/store.py:338` | a fact marked expired, then revoked and added again, is acknowledged and never readable | `:321`, `test_phase19_store_properties.py:264` |
| `app/deepthink/engine.py:219`, `validator.py:84` | a pass that errs is skipped and one refused patch is tolerated; the run goes on, delivers the other patches and is SUCCESS_COMPLETED | any failed pass ends in the baseline, `PHASE17_DEEP_THINKING_CONTRACT.md:187`, `:195-198`; "all deltas applied", `:158`; "errors -> downgrade to baseline", `engine.py:123` |
| `app/deepthink/engine.py:163` | time and budget are looked at before a pass only, so the last pass may overdraw both by any amount | "must not exceed request budget", the same contract, `:137` |
| `app/deepthink/router.py:285` | shares below the least are raised after the total was dealt out: 500 ms for two passes become 300 and 250, and the engine's limit is their sum | "sum equals total_resource", `:257` |
| `app/deepthink/schema.py:14` | the validator refuses every patch that asks for clarification | the stress test forces one, `passes/stress_test.py:5` |
| `app/retrieval/adapter.py:309` | one charged call asks every allowed tool; hence the factor 2 in `CapsHold` | calls per session, `PHASE18_RESEARCH_CONTRACT.md:84` |
| `app/integration/research_wiring.py:621` | an injection ends in the baseline only when sanitising leaves nothing; else what is left is answered from (`test_phase18_integration_policy_caps.py:362` expects that) | any injection detected ends in the baseline, the same contract, `:105`, `:163` |
| `app/research/sandbox.py` | stops in the order time, budget, rate | rate first, the same contract, `:178` |
| `app/governance/retention.py:392` | a plan of limited size may split a revocation from its add; a lower plan prunes what a higher one wrote | "safely pruned" |
| `app/governance/change_control.py` | a refused change records no event | it must, test 8 of `test_phase20_rbac.py` |
| `page.tsx:634` | a chat that failed once and was refused later is FAILED when selected, and Retry sends in it | `PHASE14_STEP5_UI_ATTACKS.md:28`, `PHASE13_STEP3_UI_CONFORMANCE.md:27` |
| `page.tsx`, headers | the cooldown of a superseded answer is applied | "Stale responses → ignored", `PHASE13_STEP3_UI_CONFORMANCE.md:42` |
| `page.tsx`, expired session | the text is sent all the same, in a new chat | `PHASE14_STEP5_UI_ATTACKS.md:31` |

Other behaviour a reader of the models should expect, since it looks like a slip in
the model and is one of the code:

- A gated research call that is given a cache ends in `INTERNAL_INCONSISTENCY`
  (`CacheKeyParts` takes other arguments), and its outcome carries no sandbox state.
- A read's caps come after the store's default caps, so a narrow read can miss facts
  although it has room, and its reason is still OK; the character budget ends the
  list at the first fact that does not fit.
- An unsafe request to `decide_policy` is taken as an empty one, so the region check
  and the clamps are skipped; TOOL_CALL can be allowed with zero calls.
- A user's text that holds a term reserved to the prompt ("memory", "audit",
  "governance") fails with `REQUEST_BUILD_FAILED`; an unconfigured client's error is not
  caught (`raised`); a question the prompt asks for is always replaced by the
  fallback's, because the schema wants fields the prompt does not name.
- Selecting another chat leaves the request current, so its error is shown in the
  chat displayed then, and its own chat keeps a pending message.

## 4. What is proved

Eight modules hold the proofs.  They state thirty-nine of the forty properties the
runs check, every type invariant among them, for every value of the constants that
the named assumptions allow.  Each assumption is one of the model's module, TLC
evaluates it in the run, and the bounds of section 3 are not among them: the clocks,
logs, requests and faults are bounded by any natural number.

### The breaker

`CostBreakerProofs` proves for every finite set of requests, and every threshold,
window and cooldown of at least 1:

- `TypeCorrect`: `Spec => []TypeOK`;
- `StatesAreDue`: a closed breaker is below its threshold, a half-open one has
  cooled down;
- `BreakerSafe`: an open breaker has admitted nobody since it opened;
- `TripsTakeThreshold`: every trip, and every failure that holds the breaker open
  longer, rests on `Threshold` real failures of the window that no success wiped
  out, out of half-open as well;
- `TripsAreEarned`: `Spec => TripIsEarned`, which follows;
- `FailedProbeKeepsProbing`: with a threshold above one, a probe that fails when the
  window holds no other failure leaves the breaker half-open and trips nothing.  This is
  the outcome that 3.1 sets against the lock document.

Assumptions: `BreakerSettings` (the getters clamp to at least 1), `MaxTimeIsNat`
and `RequestsFinite`.

The argument: the checked invariants are not inductive.  `TripIsEarned` speaks of
calls, the trip rule counts elements of the breaker's set; `FailuresAreReal` ties
them together (every element is a call that failed in that second and that no
success followed), and `CallsInThePast` is needed to keep it true when a failure
is recorded "now".  `IInv` is these two with the checked invariants.  Lemmas about
the operators (`PruneForgets`, `PrecheckNeverOpens`, `OnFailureCounts`) carry the
cardinality reasoning; then one lemma per action shows that it keeps `IInv`.  The
same invariant gives the step property.

### The chat pipeline

`ChatPipelineProofs` proves, for any clients and subjects, budgets, timeouts, attempts
and threads, and any number of failing statements and restarts:

- `TypeCorrect`: among the types, that a waiting request has exactly one place, in
  the pool's queue or on a thread, and that threads given up still count;
- `LimitsHold`: `Spec => []LimitsBounded`;
- `BilledHolds`: what the day's budget was charged with is in the quota rows, but for
  one largest use per failed statement;
- `ChargedAtItsEnd`: a quota row grows by one request, and only in a step that ends
  step 5 of one of the subject's requests.

Assumptions: `BreakerSettings`, `CostSettings` and `PipelineSettings` (finite sets of
slots, inputs and outputs; every subject has a client; at least one thread, one
attempt and a second of each timeout).

The argument: what an action does to the pool and what it does to the books are
apart.  Every step is one of five kinds (`StepIs`): it charges and starts nothing
(`Quiet`), lets one request in (`Admits`), ends one and charges it (`Settles`), lets a
second pass, perhaps to a new day (`TimePasses`), or is a restart.  Each bound is
proved of the kinds.  Neither is inductive.  `SpendInv` has two cases: while a request
is in flight there is room for its estimate and for the most that all slots may use;
when those admitted together have ended, the last may have answered longer than its
estimate.  `QuotaInv` counts a subject's requests in flight beside its row.
`SpendIsBilled` compares two sums over subjects; `SumIs` and `SumGrows` say what a
sum does when one term changes.

### The guard

`WafGuardProofs` proves, for any keys, limits, windows, schedule and cooldown:

- `TypeCorrect`;
- `WindowHolds`: in one burst window a key passes at most its limit in the database
  and once more in the memory of each process, but for the statements that failed;
- `LockoutsServed`: while a lockout is in force where it was written, a check made
  there neither passes the key nor strikes it;
- `PatienceSuffices`: `Spec => PatienceIsEnough`.

Assumption: `WafSettings` (windows, limits and steps of the schedule of at least 1).
`PatienceIsEnough` has a hypothesis of its own, that every step of the schedule is at
least a burst window long; the settings the repository ships satisfy it, and without
it a client that waited comes back into the window that locked it out.

The argument: keys do not meet, so the invariant is a conjunction over keys
(`KeyInv`).  `Past`: no counter is ahead of the clock.  `Accounted`: what a key has
passed is on the counters, or on those a restart emptied, or in a failed statement.
`Covered`: a client was told to wait for as long as any store locks it out.
`Written`: a lockout in force is in the row that was written.  `Waits`: whoever is
counted in this window has passed in it or was told to wait for its end.  A check
changes one row of one store, `Judged` says how, and `Checked` what that does to the
key's history.

### Memory

`MemoryProofs` proves, for any facts, requests, lifetimes and caps and for logs of any
length:

- `TypeCorrect`;
- `ReplayIsSound`: replaying the log finds what its events declare;
- `StoreKeepsItsPromise`: `Spec => KeepsItsPromise`, the refinement of `FactLife`;
- `BestAreRead`: no cap of the store or of a read drops a fact while it keeps a worse
  one, and OK means that nothing asked for is missing but for those caps.

Assumptions: `MemorySettings` (lifetimes grow with their class) and `ReadSettings` (no
two facts share their place in a read's order).

The argument: a replay is a recursive function, so `Run` says what it is to be that
function up to some event, `RunExists` that there is one, and `Steps` that the replay
takes one step per event.  `Declared` is `ReplayIsDeclared` for the first events of a
log; an event keeps it (`DeclaredNext`), hence it holds of all.  For the refinement,
`Grows` says what one event may do to a view, `OnlyAdds` what an add leaves alone;
`HeldIs` turns the view into `FactLife`'s variables and `StepTells` maps a step to a
step or a stutter.  For the caps, the first n of a set in an order are those with
fewer than n before them (`First`), and sums of characters are counted by
`TotalGrows`, one fact at a time.

### Governance

`GovernanceProofs` proves, for every set of regions, configurations, requests and
facts, and for logs of any length:

- `TypeCorrect`: among the types, that a plan takes events of the log and no more than
  its limit;
- `OnlyClamps`: no limit of an answer of `decide_policy` exceeds what the plan and the
  features give, nor what a safe request asked for;
- `LoweringTakes`: a tenant that loses its plan, features, regions or validity is
  allowed nothing it was not allowed before, and nothing wider;
- `PruningLosesTheOld`: `Spec => []PruningIsSafe`.

Assumptions: `GovernanceSettings` (the constants have the types of the code's fields)
and `GovernedMemory` (the facts have those of the memory).

The argument for the decisions is about functions, since a tenant's answers depend on
its configuration alone: `Tables` and `TablesGrow` say that each table of the plans is
typed and grows with the plan; `CapsGrow`, `BaseGrows` and `ClampedGrows` carry "at
least as wide" through `resolve_tenant_caps`, the base limits and the clamps;
`DenialGrants` says what the order of refusals comes to, which is monotone.
`DecisionsClamp` and `DecisionsGrow` put them together for one and for two
configurations.

Pruning compares two replays, of the log and of the log without the planned events.
The first is `ReplayIsSound`'s, through an instance of `MemoryProofs`; `KeptDeclares`
is its counterpart for the second.  `GInv` adds that events carry the times at which
they were written, in order, and that what a plan takes was a whole retention window
old when it was made (`LogIsStamped`, `PlanIsOld`).  A fact that is lost was then
readable longer than its plan's lifetimes allow, or its revocation went and its add
stayed.

### Change control

`DecisionProofs` proves, for every set of requests, versions, contents and edits
and for logs of every length:

- `TypeCorrect`: `Spec => []TypeOK`;
- `VerifySound`: `verify_chain` names the first event whose content is not what was
  appended, and finds the chain intact when there is none;
- `ReceiptsAreUnique`: the signature of an allowed change names one event of a
  working log, the last;
- `BumpsAreEnough`: the comparison of versions allows exactly those that have grown
  at the level the change requires.

Assumptions: `MaxEventsIsNat`, `VersionsAreTriples`, `RequestsAreTyped`, `CoresAreTyped`
and `NoDecisionIsNone` say what the constants hold; that signatures do not collide is in
the form of `Sign`, and `SignInjective` is where it is used.

The argument: `Chained` says of every event that it hangs on the one before it, that
its signature is over what was *appended*, and that the signature is as long as its
position.  Recording keeps it because the new event hangs on the last signature,
whatever has happened to contents below; writing over an event keeps it because
it touches neither.  Then an event is bad to `verify_chain` exactly when its content
differs (`BadIsEdited`), and no two signatures are equal.  `Receipted` and `Judged` tie the last
answer to the log and to its request.

### Deep thinking

`DecisionProofs` proves, for every set of inputs and contexts, all tiers with plans of
up to five passes, all least shares of at least 2, costs, times and answers of the passes:

- `RunTypeCorrect`: `RunSpec => []RunTypeOK`;
- `RunsPatchOrFallBack`: `RunSpec => []PatchedOrBaseline`;
- `RunsOverdrawOnePass`: `RunSpec => []OverdrawsOnePass`.

Assumption: `DeepThinkSettings`, the types of the constants.  The code's least shares are
250 ms and 50 units; 0 and 1 are left out because the lemma below is about rounding.

The argument: no pass begins late because what its plan shares out is bounded.
`SharesFit`: the shares of two to five passes, rounded down, with what rounding left dealt
out again and every share raised to the least one, add up to no more than the total and
one least share, and to no more than the total where no share was raised: for each of the four templates of weights that is a statement of
linear arithmetic with division (`TwoShares` to `FiveShares`, `TwoDealt` to `FiveDealt`), and `TotalIsInt` and its
neighbours lead from the sum of a sequence to it.  `RunInv` says that what is left
of the budget is the total less the costs so far and that time is the sum of the times
(`Accounted`), that the summaries are the plan's first passes (`Followed`), that a run
that goes on had no exception and at most one refusal (`Forgiven`), and that
`current.by` names the applied passes in order (`Patched`).  `PatchedOrBaseline` is a
conjunct of it because `outcome` keeps what was delivered.  `StopBeforePassIs` reads the order of the
stop conditions: a pass begins only where none of them held.

### The model pipeline

`DecisionProofs` proves, for every set of messages and of replies, whatever groups of
markers and marks occur together in them:

- `CallTypeCorrect`: `CallSpec => []CallTypeOK`;
- `AnswersAreLowStakes`: `CallSpec => []AnswersOnlyLowStakes`;
- `FailuresAreEnforced`: `CallSpec => []FailsOnlyWhenEnforced`;
- `VerifiedTextDiscloses`: `CallSpec => []VerifiedDiscloses`;
- `NobodyIsRefused`: no output plan has the action REFUSE, for any message, which is
  the second disagreement of 3.1 without its bounds.

Assumptions: `PipelineInputs` (the marks are those the classifiers and checks look for)
and `NothingIsNone` (the value of a variable that holds nothing is no message, reply,
state or plan).

The argument is about the rules; the stages only carry what they make.  `Declared`: the
baseline declares all sources of doubt and no step takes one back, so each of the six
states passes the checks of its schema (`DecisionHolds`) and every decision state has
unknowns.  From there the control plan is a short table (`PlanMade`): whatever is not far
away, harmless and reversible is asked about (`Weighty`, `ReasonIs`); who is asked is not
refused, so a refusal needs friction STOP, which needs an imminent decision, whose
unknowns make the rigor ENFORCED.  `PlanIsValid` checks the eight invariants of the plan
against that table.  In the third layer ENFORCED always meets a question or an ending,
which `RigorRefused` refuses (`EnforcedFails`); without it no selector reaches a level
another one excludes, as unknowns rule out every baseline level (`OutputHolds`).
`CallInv` says that what a stage holds is what its assembly makes of the message, and
that a reply passed the checks made so far.  An answer is then a plan that asks
nothing, back to the classifiers (`AnswerIsLowStakes`), and the verifier's cases
finish the rest (`VerifiedIsClean`).

### The web client

`WebClientProofs` proves, for any number of tabs, chats, requests and upsets:

- `TypeCorrect`;
- `ComposerIsFreed`: `Spec => []SendingIsAwaited`;
- `LateStaysIgnored`: the outcome of a request that was left is shown in no tab and
  stored in no chat;
- `DeletedStaysGone`: a chat deleted while no other tab displayed it never comes back
  to the list.

Assumption: `Bounds` (the bounds are natural numbers, `Nobody` is no tab).

The argument: an action is one turn of one tab, so `Turn` says what a turn may put on
the page, in the store and on the calls, and every action is shown to be one.
`IInv`: every outcome among the messages, displayed or stored, is of a request that is
over and was not left (`Settled`); a page that is SENDING has a call that is its own,
and no page's current request was left (`Awaits`); what was deleted is neither
displayed nor listed (`Gone`).

### Research

`ResearchProofs` proves, for every budget, rate, window and total time, every set of
policies, scenes and answers, every cache limit and bucket, however often the session
calls and puts:

- `TypeCorrect`;
- `CapsKept`: `Spec => []CapsHold`;
- `AnswersAreSupported`: an accepted answer that has to be cited rests on what the
  sanitiser left of the sources of its own call;
- `LatestAreServed`: `Spec => []CacheServesLatest`.

Assumptions: `SandboxCaps`, `ResearchBounds` and `ResearchInputs`.

The argument for the caps: `CapsHold` speaks of all pairs of charged calls, the limiter
only of its current window.  `AroundWindow` says what is known of the calls before and
in the window: those in it are as many as it counts and came within a minute of its
start, those before came no later than that start, and those a minute's allowance
further back are a minute older.  `Spaced` is the claim itself, `InTime` the total time;
`Fits` joins them with the counter.  A call in the window keeps `Spaced` because two
allowances of calls reach back beyond the window's start (`WithinFits`); a call that
starts one restarts the count (`RestartFits`).  For the answers, `OutcomeIsTold` says that a
successful outcome is the pipeline's of the call it answers; the rest follows the
sources through sanitising and binding.  For the cache, `Stored`: puts are numbered, the
entries are the keys put last, up to the limit (`HoldsTheLast`), and an entry is of the
last put of its key.

### What is left to TLC

- `EveryRequestEnds`: liveness under fairness, and with it `ENABLED`, is beyond the
  prover.
- That the two runs of 3.1 violate their properties.

The library states induction for an operator, which the provers cannot take as an
argument.  The proofs that need it (replays, sums, least and largest elements) have it
in the form of a set of numbers instead: it holds 0 and with every number the next one
(`SetInduction`, from the well-foundedness of `<`).  A function that recurs over a log,
or a sum over a set, is the `CHOOSE` of a function that satisfies the recursion, and the
induction shows that there is one.

## 5. What is not modelled, and why

- The `FORCE_*` flags that make requests fail on purpose, and rejections that touch
  no state (content type, JSON, body size, abuse score).
- `app/cost/accounting.py`: a ring buffer nothing reads back.
- `cleanup_expired_records` of the guard: nothing in the program calls it.
- Several replicas: the launcher starts one process.
- Time below a second: the floors of 100 ms and 1000 ms under a timeout, and the
  truncation of `opened_at` and of Retry-After (`int(max(1, locked_until - now))`,
  `guard.py:337`, `:355`), which may name a time within the last second of the lockout.
- The lists of markers, the regular expressions and the word lists of the model
  pipeline, the research tools and the memory: what they find in a text is a set of
  marks, any that may occur together.  The verbosity cap, the identifiers and the
  intent framing of the rules, which nothing checks against another choice.
- `model_candidate_validation`, `model_verified_output` and `validate_model_result`:
  not called on the path of a request.
- The dictionary stub in `app/memory/adapter.py`, and the memory's checks of a
  single fact (schema, safety, provenance), which are one Boolean here.  Scopes are
  independent, so one is modelled.
- `DeepThink`: a pass's share of time and budget is computed but never enforced by
  the code, so it only appears in the plan; the quotient of a share is a float in
  the code and may differ by one; the baseline is a well-formed decision; telemetry
  and the decision signature.
- Research: inside the gated run `retrieve` catches what a tool raises and passes no
  duration, so SANDBOX_VIOLATION and the per-call timeout occur only to direct callers
  of the sandbox; telemetry.
- Governance: `regions.py` (two intersections that only tests reach) and `export.py`
  (one flag before a text is made safe); the executor of a deletion plan, a stub;
  the "TTL interlock", which never decides because each plan's retention window is
  longer than its lifetimes.
- `ChangeControl`: what sanitising leaves of a payload is one value; the bounded notes,
  the decision's own signature and `recompute_signatures` are left out, and so are
  request hints and the export operation of the roles, which no change uses.
- Web client: the branch for event streams (no endpoint of the backend streams), the
  sign-in hook, the other pages, all layout.  Two tabs that show one chat overwrite
  each other's messages (`chatStorage.ts:54`); the model shows it, and no line of the
  repository promises otherwise, so no property is about it.
- Policy gates: the memory gate is one flag before functions that keep the state, and
  the governance gate calls `resolve_tenant_caps`, `PolicyRequest` and `decide_policy`
  with arguments they do not take, so that every governed operation is denied.
- Session and conversation services: the store of `app/service.py` reads two settings
  that do not exist, so every load and save raises; its route is async and calls it
  without a pause, so two messages never interleave.  The service of
  `mci_backend/app` is mounted by no launcher, and its reasoning proposes the stored
  hypotheses unchanged.
- Model providers, identity and sessions, abuse score and headers, configuration,
  schema, accountability, launchers: with the reasons `PROJECT.json` gives.

## 6. Plan

Done, in this order: the breaker and its proofs, the chat pipeline, the guard, the
memory with its abstract specification, deep thinking, change control and its
proofs; then the rules and the model pipeline, the research tools, the governance
of a tenant, the web client, the memory's reads, and proofs for governance and
research; then the proofs of the guard, the web client, the memory with its
refinement, what was left of research and governance, the chat pipeline, deep
thinking and the rules with the model pipeline.

Next, proofs: the lemmas of sums and inductions that several proof modules share could
become a module of their own; an abstract specification of a call (an answer, a question,
an end or a failure) that the model pipeline implements.

Next, models: the circuit of the model providers, if the chat endpoint comes to use
it, and a deletion executor and a governed gate once the code has them.
