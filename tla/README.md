# Varsten: a TLA+ model of the optimizing proxy and its control plane

Varsten is a multi-tenant proxy between an application and its LLM provider.
It meters every call, recommends cost-saving changes ("levers": model
downshift, smart routing, prompt compression, token trim, semantic cache,
batching), tests them with shadow evals, applies the ones a human or the
automation approves, and rolls them back when quality drifts. The backend is one
FastAPI program (`src/backend/app`) run as several processes over a Postgres
database, with an optional Redis.

This directory holds TLA+ modules that model its stateful parts, TLC
configurations that check them on small instances, and TLAPS proofs of their
safety for every size of the instance. `PROJECT.json` links every definition to the lines it models and every
property to the hazards it is about.

    tlc -workers 2 -config governed.cfg MCChangeControl
    tlc -workers 2 -config hotpath.cfg MCHotPath
    tlapm HotPath_proofs.tla

## 1. Inventory

| Component (`src/backend/app/...`) | State | Operations | What makes it correct |
|---|---|---|---|
| Recommendations, policies (`recommendation_transitions.py`, `proxy/execution.py`, `routing.py`, `trim.py`, `compression.py`, `canary.py`) | `recommendations.status`, one `proxy_policies` row per lever, model and route | upsert, apply, dismiss, restore, rollback, pause/resume, bandit candidates, canary stages | nothing ungated or unapproved runs; withdrawing a recommendation stops what it started |
| Eval gate (`eval/gate.py`, `eval/runner.py`, `api/v1/evals.py`) | `eval_runs` | create, execute in the background, fail, gate | a model serves traffic only after an eval against the incumbent cleared it |
| Governance (`engine/governance.py`) | `change_requests` | propose, refresh, decide, activate, roll back | a decision is final; what goes live was decided |
| Drift sweep (`proxy/drift.py`) | none of its own | rollback, canary promotion | a drifting policy stops |
| Learning (`engine/outcomes.py`, `engine/promotion.py`, `engine/priors.py`, `api/v1/feedback.py`, `proxy/evidence.py`) | decisions, feedback, learned priors, recommendations | observe, review, score, propose, apply automatically | what the evidence says is acted on, and automation passes the same gates as a human |
| Circuit breaker (`proxy/circuit.py`, `proxy/shared_state.py`) | per process: state, failure count, open time; in Redis: open flag with TTL | allow, record success, record failure | a sick provider is shed and a recovered one is used again |
| Forwarding (`proxy/router.py`, `proxy/resilience.py`) | one coroutine per request | attempt, backoff, retry, stream, fallback | no client sees two attempts mixed; every request ends; metering once |
| Batch lane (`proxy/batch.py`, `proxy/openai_batch.py`, `api/v1/batches.py`, `storage/`, `scheduler.py`) | `batch_jobs`, staged objects, advisory lock | stage, submit, poll, finalize, purge | a finished job is metered and its output is delivered |
| Billing, entitlements (`billing_lifecycle.py`, `auth/entitlements.py`, `stripe_billing.py`) | five columns of `organizations`, a per-process entitlement cache | trial start, end, activation, cancellation, past due, plan changes | Pro only for trial or payment; one trial; a lock reaches the proxy |
| Hot path (`proxy/router.py`, `proxy/cache.py`, `proxy/ledger.py`) | response cache with snapshots, capture queue and workers, ledger | admit, probe, choose, forward, fall back, capture, meter, store, purge | every answer metered once; a process's copies of cached answers agree with the table; nothing degraded is reused; the ledger tells the truth about the experiment |
| Lever choice (`engine/planner.py`, `engine/classification.py`, `engine/bandit.py`, the `resolve_*` functions) | none: a function of the request, the policies and the priors | classify, plan, pick lever, arm and candidate | a request that must stay whole is not routed, rewritten or kept |
| Dialects (`proxy/client_transforms.py`, `proxy/providers/`, `proxy/routing_eligibility.py`) | a translator and a renderer per stream | check eligibility, translate a request, translate and render a stream | the client's SDK sees a well-formed stream of exactly what the provider said |
| Process caches (`proxy/keys.py`, `proxy/budget_enforcement.py`, policy, prior and price caches) | one bounded cache per process each, one shared entry for budgets | look up, fill, drop | an instance does not go back on a key it confirmed; every cache catches up |
| Savings and invoices (`savings.py`, `savings_measurement.py`, `billing.py`) | ledger columns, attributions, invoices | meter, measure, draft, send | a period bills no more than was earned in it; the dashboard's figures agree |
| Rate limiter, alerts (`core/ratelimit.py`, `alerts.py`) | a counter per window; fired alerts | allow; fire once | not modelled, section 5 |

How they interact. The control plane's HTTP handlers and the scheduler's sweeps
write the policy rows; the proxy's hot path reads them for every request, behind
short-lived per-process caches. Evals run as background tasks that outlive the
request that asked for them, and propose a change request when they finish.
Billing gates everything: an organization without Pro is proxied unoptimized.
The breaker's open flag is shared by the fleet through Redis, every error of
which is swallowed. The scheduler runs in every process; each job first takes a
Postgres advisory lock, and fails open when the lock cannot be asked for.

What is hard: a second evaluation while a request for the first one is being
decided; two recommendations that share one policy row; a sweep against a human;
a breaker flag that outlives its cause; streams that fail half way; two sessions
on one row, each deciding on a copy it read before an `await`; a crash or a
failed commit between the provider's side effect and the row that records it; a
cache filled with what was true before a commit; a capture queue that is full or
replaced; a stream translated twice on its way; one saving recorded in two
places. `PROJECT.json` lists 40 such
hazards with their lines and the properties that cover them.

## 2. Modules

| Module | Models | Used by |
|---|---|---|
| `ChangeControl` | recommendations, evals, change requests, policies, sweeps | `MCChangeControl`, `ChangeControl_proofs` |
| `CircuitBreaker` | breaker of each process and the shared flag | extended by `ForwardPath` |
| `ForwardPath` | requests over the breaker: attempts, streams, fallback | `MCForwardPath`, `ForwardPath_proofs` |
| `BatchLane` | batch jobs, clients, pollers, provider, object store | `MCBatchLane`, `BatchLane_proofs` |
| `Billing` | organization row, its writers, the proxy's cached view | `MCBilling`, `Billing_proofs` |
| `LeverChoice` | classification, plan and choice of a lever, as operators | extended by `HotPath` |
| `HotPath` | a request from admission to its ledger row | `MCHotPath`, `HotPath_proofs` |
| `UsageLedger` | abstract: what metering promises | implemented by `HotPath` |
| `Dialects` | crossing to another provider: request and stream | `MCDialects`, `Dialects_proofs` |
| `ProcessCaches` | one entry of each per-process cache, its readers and writers | `MCUpkeep`, `ProcessCaches_proofs` |
| `Learning` | evidence, scoring, the learning sweep | `MCUpkeep` |
| `SavingsLedger` | costs and savings of calls, dashboard, invoices | `MCSavingsLedger`, `SavingsLedger_proofs` |

The `MC*` modules declare model values and the instance's functions. `MCUpkeep`
also puts `ProcessCaches` and `Learning` side by side: they share no state, so a
behaviour moves one of them, chosen by `part`, and the state space is the sum and
not the product. A definition under a comment "Mutant:" is a plausible mistake in
the definition that follows it; nothing uses it, and substituting it must break
the property that `PROJECT.json` names.

### ChangeControl

One project. Each handler is one transaction, so one action. `runs` is the
append-only list of eval runs (`again` marks a run taken over by a second
evaluation request while it was pending); `cr[r]` the one change request per
recommendation; `pol[k]` the policy row of a key (lever, model, route), which
several recommendations can share; `pol[k].bandit` the extra arms. `cleared` and
`resumed` are history variables: the (incumbent, candidate) pairs some eval has
cleared, and the rows a human switched on by hand. Verdicts, drift signals and
what the generators recommend are nondeterministic, since what the control
plane must guarantee cannot depend on them. `Switches` names the operator's
switches that move in an instance (plan, enforcement, lever, automation, policy,
bandit), so that each run spends its states on its own question.

### CircuitBreaker and ForwardPath

`state`, `failures`, `wait` are the fields of one in-process breaker, `flag`
what is left of the Redis key's TTL. Time counts down. A request is a slot that
goes `connect → backoff → connect …`, or `connect → stream`, or `connect → body`
(a stream answered by an error status records its outcome and then awaits the
error's body), and ends with an answer. An action runs from one `await` to the next. `bad` and `ok` count what
the request recorded on the breaker, `served` the attempts whose bytes reached
the client, `captured` the metering calls. Whatever is answered before the
breaker is consulted (rate limit, cache, cap, missing key) is `ServeLocally`.

### BatchLane

A session is an HTTP handler or a scheduler tick. It loads the row, awaits the
provider, and commits the columns it changed. SQLAlchemy expires its copy at a
commit, so a new read follows. `ledger` counts usage rows per job and model,
each committed on its own as in `record_batch_usage`. `CallFails` is a failed
provider or storage call, output that cannot be parsed, or a failed commit;
`Crash` ends a session at any step, releasing the advisory lock with its
connection. `Acquire` fails open as the code does. A purge selects the expired jobs
and their keys (`SweepDone`), deletes one object per step (a failed delete is passed
over) and marks all rows in one commit, so it can die after any delete.

### Billing

One organization's five billing columns. Every writer is a session with three
steps of which two matter: load and compute (which also drops the process's own
cached entitlement), then commit the columns that differ from what was loaded:
SQLAlchemy's UPDATE names only changed columns, so two overlapping writers mix.
The hot path's lookup reads, then stores with an age, then answers from the
cache until `Ttl`. Stripe may redeliver any event, in any order.

### LeverChoice and HotPath

`LeverChoice` has no state. A request is what its body shows (`facts`), what its
caller says (`ctx`) and its messages; a world is everything else the choice
depends on: policy rows as the request meets them, priors, the holdback draw, the
bandit's records, the compression artifact. `ResolveOpenAIOptimizations` and
`MaybeRouteNativeCrossProvider` are the two ways through it.

`HotPath` follows two calls on one instance. A step ends where the handler awaits.
`req[q]` is the handler's local state, `job[q]` what is left to record for its
answer, `queue` and `dead` the detached capture with its bounded queue and
workers, `cached` the table and `snap` the in-process snapshots, each with the
ticks left to its deadline. Faults are failed ledger writes, cancelled tasks and
crashes. `dead` counts the workers that have ended: only the others take jobs, and
the next detached answer replaces the queue and all of them. An entry found in the
cache is held (`found`) until the handler answers, a step later, while clocks tick
and the purge runs. `UsageLedger` states the promise in five actions: an answered call is owed
a row, gets one, may be dropped when it cost nothing, and is lost only after a
fault. The refinement mapping `LedgerEntry` reads the promise's state off the job
and the rows.

### Dialects

`ask` crosses from a client dialect to another provider or is refused; `wire` is
what arrives. The provider's stream is any well-formed sequence of its events
(`Arrive`), whose bytes come in chunks that end anywhere. An event waits for its
blank line (`held`). The decoders decode each chunk by itself, so two kinds of ends
do harm (`Cuts`): within a character (`CutInCharacter`: other characters are read)
and after the third byte of CR LF CR LF (`CutInNewline`, `SkipGlued`: two events
become one that is no JSON). `cut` remembers what has happened to the stream.
OpenAI's translator keeps the bytes and decodes them once, so its completion is
spared; it also counts a last event without its blank line (`FinishShort`). `tr` is the provider's translator into OpenAI
chunks, `ren` the client's renderer, `client` what the SDK accumulates: its blocks
by number, and which of them are calls. The SDK and the provider are outside the
repository and marked external.

### ProcessCaches

`kind` picks one of seven caches: provider keys over the vault or the local
database, budget caps in the process or in the shared store, policies, priors,
prices. They differ in three things the model keeps: whether the fetch happens
under the lock, whether all instances share the entry, and the order in which a
writer stores and drops (`Programs`). Values are versions. A lookup reads and
fills in two steps; a failed vault read counts as "no key" and is cached.

### Learning

One lever. A decision has an age (fresh, a half-life old, out of the window), a
saving that is a gain, a loss or unknown, a quality verdict and feedback; weights
are counted in halves. `Readiness` is the code's ladder of thresholds. The sweep
is one session in three steps, scoring, applying and committing, with people, the drift
guard and months in between; the commit writes the session's copies.

### SavingsLedger

Calls are counted per month, kind (plain, cache hit, routed, held back, trimmed,
held back from trimming, degraded, batch, overhead) and size, to which the price is
proportional. `CostUsd` and `SavedUsd` are the two columns, for a call of size one;
the operators after them are the sums of the measurement, the dashboard and the
fee, in cents and rounded as the code rounds (ties aside). `MeasuredSavings` is the
difference of the means of two arms, times the calls treated, whatever requests fell
into the arms and however few; the code reports `has_signal` and decides nothing by it.
An invoice is computed in one step and saved in another.

## 3. Runs

| Run | Instance | Shows |
|---|---|---|
| `governed` | two recommendations on one policy row, two models, two eval runs, bandit arms, enforcement on | types; no governed row without a decided, activated request; a live row is backed by a recommendation that is not withdrawn; every model of a row has cleared an eval; decided requests are frozen |
| `transforms` | trim and compression on one model; lever, plan, rows and enforcement switched | a withdrawn recommendation's request is closed; nothing goes live without Pro and the lever |
| `forward` | two requests, two processes, all four kinds, threshold 2, one retry, fallback | breaker count and state agree; the fleet's flag has a breaker behind it; one attempt per client; what a request counts as failure follows from the answer its client got; metered once |
| `recovery` | two requests, one process, Redis that may fail | every request is answered; an open circuit closes again once the provider is healthy and stays so and traffic keeps coming |
| `batch` | one job, two models, one client, two pollers, one fault | a finalized job has every model's usage; its output is stored until the TTL; pollers exclude each other while the lock works; a completed batch is finalized in the end |
| `billing` | one organization, two overlapping sessions, a process that serves and one that does not, one operator write | Pro only for trial, payment or grant; one trial; every trial ends; a lock reaches the proxy within the TTL |
| `hotpath` | two calls of four kinds, one key, a queue of one and one worker, one fault, every combination of live policies | what the process holds of a cached answer is what the table holds; truthful ledger tags; bypassed and blocked requests stay whole; degraded answers are forgotten; metering implements `UsageLedger` and settles unless no worker is left |
| `dialects` | every pair of dialects, every message make-up with one extra, streams of up to four pieces and two tool calls | the SDK can place every event, wherever chunks end; unless a chunk boundary did harm it is never told what was not said, and a finished stream arrives whole, usage included; plain requests survive the crossing |
| `upkeep` | caches: two lookups and a writer on one instance, a writer on another, two writes, one failure or restart; learning: two segments, one of them refused by the gates, two decisions, three reviews, two months | a confirmed key is never followed by an older one; every cache ends with the stored value; evidence is heeded within the cuts of a sweep, also behind a recommendation refused every time |
| `books` | three calls over two months, some held back of a larger size, two acts of people, every period | where an experiment's calls have one size, an invoice bills no more than its period saved; the fee keeps its cap; chart, levers and headline agree |
| `batch_twice`, `unpriced` (violated) | as `batch`; as `books` with one size and a candidate that has no price | statements of a comment and of the product guide that the code does not keep: section 6 |

Bounds and why they suffice. Two recommendations on one key is the smallest
instance with take-over of a row; two models let an approved and an activated
candidate differ; two runs let a second evaluation overtake the first. Two
processes are what the shared flag needs; threshold 2 distinguishes the first
failure from the tripping one; one retry gives a first and a last attempt, and a
reset window of two ticks lets the flag and a local window be out of step. Two
pollers and a client cover every pair of sessions on a job, two models let
metering stop half way, one fault is a failure anywhere and its recovery. Two
sessions are what a lost update needs. A queue of one and two calls reach the
full queue and the overflow task; a deadline of one tick expires between any two
steps. Four pieces interleave text with two tool calls. Two writes let a fill
carry a value that is two versions old, two lookups on one instance let a slow
fill overtake a newer one, or wait for the other's lock. Two segments and one candidate a sweep make its first cut
bite; a limit of two lets a sweep go on from a refused recommendation to another,
and two months give up to four open ones, so that the second cut bites too. The code
takes ten candidates and tries twenty-five recommendations. Two routed calls
and one held back are the smallest experiment with a mean, one size beside the common
one makes its arms unlike, and two months give three periods that overlap. `MaxFaults`, `MaxRuns`, `MaxGrants`, `MaxRetries`,
`MaxPieces`, `MaxCalls`, `MaxWrites`, `MaxTroubles`, `MaxFeedback`, `MaxDeeds`,
`LastMonth`, `MaxRows`, `MaxMonth` and `MaxActs` are the named bounds. Symmetry is
used only in runs without liveness, over sets whose members the specification
never distinguishes; `governed` checks an action property under it, which
symmetry preserves. Deadlock is not checked where the system may rest with a
bound spent: `ChangeControl`, `HotPath`, `upkeep`, `books`.

### Fairness

* `recovery`: the clock ticks, and each request progresses: a coroutine resumes
  when its await ends, and every await on the provider has a timeout.
  `CircuitRecovers` assumes in its own statement that the provider stays up and
  requests keep arriving; the code can promise neither.
* `batch`: weak fairness of each poller. The scheduler's loop is started with
  the process and sleeps a fixed interval; a client is never assumed to come back.
* `billing`: the clock; a started lookup ends; the trial sweep runs and a loaded
  session commits, both strongly fair, as other sessions use the same
  connections and an aborted transaction is tried again at the next interval.
* `hotpath`: a waiting capture job is taken by a worker that has not ended, a job in
  a worker or a task of its own goes on. Nothing is assumed of clients, providers
  and clocks, so `MeteringSettles` leaves a job waiting where every worker has ended
  and no further answer comes to replace the queue.
* `upkeep`: a lookup and a writer finish what they began, time passes; the
  scheduler starts a sweep again and again and a sweep ends. `EvidenceIsHeeded`
  excuses what no step of the code can bring about: a segment behind a cut, one the
  gates refuse, one a person has declined this month.

## 4. Proofs

`ChangeControl_proofs` proves, for every set of recommendations, models, levers,
routes and canary stages that satisfies `ConstantsAssumption`, and any number of
runs:

| Theorem | Statement |
|---|---|
| `TypeCorrect` | `Spec => []TypeOK` |
| `EvalGate` | `Spec => []ClearedCandidates` |
| `GovernanceGate` | `Spec => []GovernedPolicies` |
| `WithdrawalCloses` | `Spec => []WithdrawnRequestIsClosed` |
| `WithdrawalStops` | `Spec => []LivePolicyIsBacked` |
| `DecisionFrozen` | `Spec => DecisionIsFinal` |
| `GoingLiveIsPaidFor` | `Spec => OnlyProGoesLive` |

The argument. None of these invariants is inductive. `ClearedCandidates` needs
to know what a finished run means, since apply takes the candidate from a run:
`RunsCleared` says that an actionable run's pair is in `cleared`. Its incumbent
is the recommendation's target, so that the row's key must match its source's:
`SourceKey`. `GovernedPolicies` needs that a request that is approved or active
was decided, `RequestDecided`, and `LivePolicyIsBacked` needs `SourceKey` and
`WithdrawnRequestIsClosed`. The inductive invariant is

    SafetyInv == TypeOK /\ SourceKey /\ RunsCleared /\ RequestDecided /\ ClearedCandidates
                 /\ GovernedPolicies /\ WithdrawnRequestIsClosed /\ LivePolicyIsBacked

with one lemma per group of actions (applying, evaluating, recommendations, the
drift sweep, operator's switches), under it one step per action and conjunct it
can disturb; helper lemmas say what the gate hands over, what an activation
leaves in a row and that a canary stage is a number.

`ForwardPath_proofs` proves the safety of the forward path and of the breakers,
for any number of requests and instances, any `Threshold`, `Reset` and
`MaxRetries`, with or without store, store failures and fallback
(`BreakerAssumption`, `ForwardAssumption`):

| Theorem | Statement |
|---|---|
| `ForwardTypeCorrect` | `Spec => []TypeOK` |
| `CountTracksState` | `Spec => []CountMatchesState` |
| `FlagNeverStale` | `Spec => []FlagIsBacked` |
| `NoMixedAttempts` | `Spec => []OneAttemptServed` |
| `FailuresAccounted` | `Spec => []FailuresMatchAnswer` |
| `CapturedExactlyOnce` | `Spec => []MeteredOnce` |

The breaker's half of the invariant, `BreakerInv`, adds to the two properties
that no flag is ever set without a store: a success whose call does not reach the
store would otherwise close the breaker that backs a flag. The requests' half,
`SlotSafe`, says what a slot looks like at every await: a request in flight is not
metered, has recorded a failure if and only if it is on the fallback leg or reads
the body of a provider's error, and only the attempt in progress has sent bytes,
none of them before its stream is open. One lemma per breaker operation and one case per step of a request show
both halves preserved.

`HotPath_proofs` proves the request path, for any requests, keys, kinds of call,
worlds (policies, priors, draws), queue size, number of workers, TTL and number
of faults. Beyond what the code fixes, `HotPathAssumption` asks only that there is
a request to send and a key to cache it under.

| Theorem | Statement |
|---|---|
| `TypeCorrect` | `Spec => []TypeOK` |
| `SnapshotNeverStale` | `Spec => []SnapshotIsCurrent` |
| `LedgerTagIsAlwaysTruthful` | `Spec => []LedgerTagIsTruthful` |
| `BypassIsAlwaysPlain` | `Spec => []BypassIsPlain` |
| `DegradedIsAlwaysForgotten` | `Spec => []DegradedIsForgotten` |
| `BlockedRequestsAlwaysStayWhole` | `Spec => []BlockedRequestsStayWhole`, if the planner answers in every world |
| `MeteringImplementsLedger` | `Spec => MeteringRefinesLedger` |

The hypothesis of `BlockedRequestsAlwaysStayWhole` is the instance's too: when the
planner itself raises, the code falls back to the policy alone, without the
classification's verdict (section 6). `HotInv` has four parts. `SlotSafe` follows a
handler from admission to answer: what it holds at each await, that nothing is
marked for storing before the cache policy has agreed, that a request in flight
respects its blockers, that a fallback answer is never to be stored. `TagSafe` and
`SafeEntry` carry this over to the ledger row, the cache and its snapshots, which
outlive the request. `MeteringSafe` is what the refinement needs: a queued job is
in the queue once, a request has a job exactly when its answer is out, and a row
exactly when its job has metered. The lemmas before the actions say of each step
of `LeverChoice` (classification, plan, arms, fallback body) which outcomes it can
give, so the actions cite `Allowed` and never unfold the choice. Each step of the
request path, the queue, the workers, crashes and clocks is shown to preserve
`HotInv` and to be a step or a stutter of `UsageLedger`. `SnapshotNeverStale` is a
second induction on top of it: a row is stored only where there is none, so a copy
that is still alive has been taken from the row that is there, and ages with it.

`BatchLane_proofs`, for any jobs, models, batches, clients, pollers and faults
(`BatchAssumption`):

| Theorem | Statement |
|---|---|
| `TypeCorrect` | `FairSpec => []TypeOK` |
| `FinalizedIsAlwaysMetered` | `FairSpec => []FinalizedIsMetered` |
| `OutputIsAlwaysKept` | `FairSpec => []OutputIsKept` |
| `SweepsAlwaysExclude` | `FairSpec => []SweepsExclude` |

A session works on a copy of the row and writes it back without looking again, so
`BatchInv` follows every session (`SlotSafe`): a session that records usage has in
the ledger what it has crossed off its list, and its output stored or its TTL behind
it; a purge has on its list only objects of jobs whose TTL is behind them. These promises rest on facts that no step takes back (`Grows`), which is why the
steps of other sessions, their crashes and their stale writes cannot break them.

`Billing_proofs`, for any sessions, processes and instances (`BillingAssumption`):
`TypeCorrect` (`Spec => []TypeOK`), `ProIsAlwaysPaid` (`Spec => []ProIsPaid`) and
`NoSecondTrial` (`Spec => TrialGrantedOnce`). A commit writes the columns its
session changed over whatever row it finds, so `BillingInv` speaks of pending
writes: only what never becomes false again (a payment method, the start of a
trial) may be remembered from the time a session loaded the row.

`ProcessCaches_proofs`: `ConfirmedKeyIsSeen` (`CacheSpec => []OwnKeyWriteIsSeen`), for
any instances, lookups and writers. The vault is written before the entry is
dropped, the drop takes the lock a fetch keeps until it has filled the entry, and
the vault holds the newest key (`VaultIsNewest`).

`SavingsLedger_proofs`: `BooksAlwaysBalance` (`BooksSpec => []BooksBalance`), for every
list price with a candidate that is not dearer, any finite set of requests, any number
of months, rows and acts, and any terms. Its hypothesis `Catalog = Models` is
necessary: run `unpriced` shows the books out of balance without it. So is, in the
property, the condition that the requests an experiment compares have one size
(`LikeArms`), without which the means measure the requests and not the models.
`BooksInv` adds that the invoice being
generated is already justified by the ledger, which other calls overtake before it
is saved. The first third of the module is about sums. `SumFunction` is a recursive
function over the subsets of a domain; that it exists, does not depend on the
order of its terms, grows with them and is what one expects of a few terms is
proved by induction over subsets (`SubsetInduction`, from the library's
well-foundedness theorems, stated with a set instead of an operator so that the
provers can instantiate it). `PriceTable` lists what each kind of call costs and
saves, `OneExperiment` that a mean of like requests is exact (also after rounding), and
`VerifiedAtMost` and `DashboardSums` compare the sums kind by kind.

`Dialects_proofs`, for every set of requests the APIs accept, all pairs of dialects,
and answers with any number of pieces and calls (`DialectsAssumption`):

| Theorem | Statement |
|---|---|
| `PlainRequestsAlwaysSurvive` | `Spec => []PlainRequestsSurvive` |
| `ClientIsNeverMisled` | `Spec => [](cut = "none" => ClientIsNotMisled)` |
| `AnswerIsAlwaysWhole` | `Spec => []WholeAnswer` |

The last two rest on `StreamInv`, which speaks of streams that no chunk boundary has
harmed, and of the translator's half alone (`Speaking`) for those of OpenAI's that
one has. That a harmed stream still leaves the SDK events it can place is checked by
TLC only. Neither property is inductive: whether the client
can place the next event depends on what the renderer believes of it, and whether
the answer is whole on an event that has not arrived yet. `StreamInv` therefore
speaks of three parties. `Knows`: the translator, once it has the event that waits
for its blank line (`Ahead`), knows just what the provider has said, up to
Anthropic's call whose block is still open. `Passes`: the chunks of that event say
just what the translator will have learnt by it; there are seven shapes they can
have. `Follows`: the client, with its renderer, has what the translator knows
already; for Anthropic's client (`Placed`) this means that each call has a block of
its own in the order of the calls, that these and the current text block are
exactly the open ones, and that the renderer's next number is the number of blocks.
One lemma per event of a provider (`StartGrows` to `StopGrows`) shows what it adds;
`ClientFollows` shows that all seven shapes reach every client; `ClientEnds` and
`ClientIsTold` treat the two ways to end. `Reads` and `RenderAll` are folds: what a
fold does to one more element (`FoldSteps`, `ReadsOn`) is proved by induction over
the length of the sequence, again with the induction hypothesis a set.

Only model-checked: every liveness property (`EveryRequestAnswered`,
`CircuitRecovers`, `CompletedIsFinalized`, `TrialEnds`,
`LockReachesProxy`, `MeteringSettles`, `CacheCatchesUp`, `EvidenceIsHeeded`). Liveness under fairness
and `ENABLED` are beyond the prover.

## 5. Not modelled

Statistics (drift tests, confidence sequences, eval scoring): only their verdicts
matter and they are nondeterministic. The detectors of `recommendations.py`, which
find the first candidates for a lever by thresholds over the ledger; loop and
prefix analysis; the generation of compressed prompts. The adaptive holdback
percent of a policy: a number that the sweep moves between 5, 2 and 1 and that only
changes how often a call is held back. The rate limiter (one counter and an
expiry), alerts (one guard, one delivery, one insert), usage events that clients
report themselves. Answers that are not streamed across dialects. Read-only
dashboards beyond the savings window, onboarding marks, identity, the audit log.
Frontend, website, SDKs, infrastructure, migrations and scripts, apart from the
write of the price sync. Object storage is reduced to whether an object exists.
Each handler of `ChangeControl` is one transaction and one action; overlapping
sessions are modelled where two writers meet in practice, in `BatchLane`,
`Billing`, `ProcessCaches` and `Learning`.

## 6. Where the code and its comments disagree

Shown by a run:

* `batch_twice`: batch.py:149-150 says a finalized job is returned untouched. The
  check is on a copy read before an await; a second sync overwrites the status
  and meters every model again.
* `unpriced`: docs/product/VARSTEN_PRODUCT_GUIDE.md:150 says unknown cost is never
  treated as zero. ledger.py:70 stores a routed call's as zero (82 any other call's) and
  `compute_experiment` averages it, so a candidate without a catalog price makes the
  incumbent's cost, less that of the calls held back, a verified, billed saving.

Reached by the models, without a run of their own:

* router.py:2704 says the breaker records one outcome per request. A
  stream answered by a 5xx or 429 records a failure and then awaits the error's
  body inside the same `try`; when the body does not come, the `except` clause
  records a second one (2730 and 2752, the native and cross-provider streams alike).
  `FailuresMatchAnswer` is what does hold: only such a stream counts twice.
* circuit.py:3 says that the breaker opens when the provider starts
  failing or timing out. A stream records a success at its header (router.py:2738)
  and a failure when it breaks (2752), so a provider that breaks every stream half
  way never opens it.
* models/batch.py:97 says that while `objects_purged_at` is NULL the
  objects are present. The purge deletes them (batch.py:91) before it commits the
  mark (94-96); one that dies in between leaves a finalized, unmarked job without its
  output. What holds is that no output goes before its TTL (`OutputIsKept`).
* batch.py:70-71 says the batch files must be retention-bounded. A
  batch that completes after its job was purged is finalized all the same, and its
  output stays for good, as the row is marked already. A delete that fails
  (batch.py:92-93) leaves its object in the same way.
* docs/FAILURE_MODES.md:29 says the client of a healthy stream sees the
  provider's chunks passed through. Streams that cross dialects are decoded chunk by
  chunk with `errors="replace"`, and CR LF is replaced chunk by chunk
  (providers/anthropic.py:56, providers/gemini.py:18, client_transforms.py:71): a
  chunk that ends within a character changes the text, one that ends within a blank
  line swallows two events. For Anthropic and Gemini the completion that is metered
  suffers too.
* promotion.py:9-11 says that under auto mode the sweep asks the transition
  layer to apply open, executable recommendations. It asks for the oldest
  twenty-five (promotion.py:571-572), and one that is refused stays open at its place:
  when that many are refused in every sweep, no younger one is ever tried.
* savings_measurement.py:152-153 says that experiments stay estimated until
  they have signal, docs/BILLING.md:92 that estimates are never billed. One row in each
  arm bills (savings_measurement.py:162-164); `has_signal` and the confidence interval
  are only reported. The mean of few requests of unlike sizes may be far from what was
  saved, upwards and downwards: `BooksBalance` therefore bounds an invoice by the real
  savings only where the requests compared have one size.

Noted while modelling:

* core/config.py:86 says past-due cache entries are skipped by lookups. The deadline
  is looked at when the entry is found (cache.py:106, 117-123), and the answer may
  leave one await later (router.py:911-914).
* A capture worker ends when its job is cancelled (router.py:383-384). When all have
  ended, queued jobs wait, and the next detached answer replaces the queue
  (394-413) and drops them: paid calls without a ledger row.
* config.py:274-277 says every model swap has a named approver. After approval, a
  second evaluation can finish with another candidate; the decided request is left
  as it is, and apply (execution.py:33) activates the new candidate.
* router.py:1319-1320 says at most one transform is live per model. Compression
  refuses when trim is live (compression.py:222-237), but trim (trim.py:211) does
  not look for compression.
* resilience.py:97 says exactly one breaker outcome per request. A fallback records
  the primary's failure (router.py:2890) and its own success (2971).
* billing_lifecycle.py:146 says an elapsed trial with payment readiness continues
  Pro. A webhook that commits between a sweep's load and its commit is overtaken,
  and nothing looks at an expired row again.
* routing_eligibility.py:1-6 says it only answers whether a request can be
  translated safely. A request it lets through can lose an image of an Anthropic
  message, the text beside a tool result, a developer prompt or a sampling
  parameter on its way (client_transforms.py, providers/anthropic.py).
* promotion.py:386-389 says that approving the proposal allows future equivalent
  changes to run automatically; applying it changes no `automation_mode`, which
  only product_sections.py:1675 writes.
* promotion.py:596-601 says non-open recommendations are never resurrected; a sweep
  that loaded a recommendation as open writes over a dismissal that commits before
  its own.
* The cut of the scoring starves as that of the applying does: with ten healthy
  segments that already run, an eleventh is never proposed, and the risk prior of one
  ranked behind them is dropped (outcomes.py:31).
* product_sections.py:1975-1976 drops the budget cache so that a rule takes effect
  promptly; a computation under way stores the old set after the drop.
* pricing/service.py:26-27 says the price sync calls `clear_price_cache`; nothing
  outside the tests does.
* With the local key back end a first lookup of a project without a key caches "no
  key", and connecting one drops the entry before the row exists; for a TTL the
  instance may go on without the key.
* savings.py:151 says one attribution per recommendation and period; it is a check
  and an insert without a constraint.
* `month_end` is the last second of a month and the preview of an invoice excludes
  it, unlike the invoice itself.
* billing.py:83-92 leaves a finalized invoice alone; one that is finalized between
  the read and the commit is written back to a draft. Custom periods may overlap
  and bill a month twice.
* Routed calls of a policy whose holdback is 0% are tagged as an experiment without
  a control and count for no bill.
* A planner that raises leaves the admission plan, which rejects nothing: the
  quality gate fails open.
* eval/capture.py:67 speaks of incumbent responses; answers of candidates are sampled
  into the replay corpus too, and an
  answer of a candidate stays in the response cache after its policy is rolled back.
* trim.py:10-12 says dropping unique content is out; the window drops every turn
  but the last ones, and a repeated short answer ("yes") counts as a duplicate.
* scheduler.py:231-234 says the learning sweep never applies a new optimization;
  engine/promotion.py:638 applies what is ready on automated levers.
* levers.py:8-10 says compression is approve-mode always; engine/promotion.py:59
  lists it as automatable and api/v1/product_sections.py:1674 lets it be switched.
* proxy/canary.py:3-8 starts an activation at a small percentage; a recommendation
  that takes over a live row with another candidate keeps the stage the row had (routing.py:331, 349).
* routing.py:392-394 promises a bandit arm "the same bar a single-candidate apply
  has to meet"; lines 401-402 accept a safe verdict without a change request, also
  while enforcement is on.
* circuit.py:3-6 lets an open circuit close only through a probe after the
  cooldown; `record_success` (87-92) closes it whatever its state, so a request
  admitted before the trip that succeeds late closes it at once.
* router.py:1504-1509 says one idempotency key never reaches the provider with a
  different body; the fallback leg (2961-2967) sends another model under it.
* billing_lifecycle.py:8-10 says the hot path sees a change immediately; the
  cache is per process and is dropped before the commit, so a lookup in between
  stores the old answer for a TTL. `LockReachesProxy` is the bound that holds.
* stripe_billing.py:12-13 says redelivered events reapply the same terminal state;
  an old checkout delivered after a cancellation activates again.
* `mark_past_due` says a successful retry can reactivate; no handler exists for a
  successful payment.
* Two writers mix columns: a webhook that activates from a copy with tier
  "performance", after a sweep has written "free", leaves an active row on the
  free tier. It errs against the customer and `ProIsPaid` still holds.

## 7. Plan

Done, in this order: `ChangeControl` with its proofs, `CircuitBreaker` and
`ForwardPath` with theirs, `BatchLane`, `Billing`, `LeverChoice` and `HotPath` with
the refinement of `UsageLedger`, `Dialects`, `ProcessCaches`, `Learning`,
`SavingsLedger`.

Proved: every safety property that a passing run checks, and the refinement of
`UsageLedger`. `Learning` has only liveness properties, which stay with TLC.

Left to model, if needed: alerts and the rate limiter; overlapping sweeps in
`ChangeControl`; the adaptive holdback together with the experiments of
`SavingsLedger`.
