# Verification of the multiple-API aggregator

TLA+ models of `src/aggregator`, the TLC runs that check them on small
instances, and TLAPS proofs of what matters most for every instance.

## 1. The system

Callers hand a `Request` to `Aggregator.submit` and await its response. Requests
wait in one priority queue; one scheduler loop picks the best request whose API
can be served, and starts a task that calls the API's adapter. Everything runs on
one asyncio event loop: nothing is preempted, but every `await` that suspends
lets every other task and callback run.

| component | state | operations | what makes it correct |
|---|---|---|---|
| orchestrator (`orchestrator/orchestrator.py`) | `_pending` (id -> future), `_dedup` (key -> future), the futures | `submit`, the done callback `_cleanup_dedup`, `start`, `stop` | one unresolved future per key; no future lost; an outcome is final; the maps drain |
| scheduler (`scheduler/scheduler.py`) | worker semaphore, `_inflight`, `_running`, where the loop and each task is | `_run`, `_select_dispatchable`, `_dispatch`, `_maybe_retry`, `_reject_or_replan`, `_on_dispatch_done`, `start`, `stop` | a request is in one place and called once per granted attempt; permits come back; a stuck API does not block the others; `stop` returns and settles everything |
| queue (`priority_queue/queue.py`) | heap, size, `_not_empty`, depth counters | `put`, `get`, `peek_pending`, `pop_specific`, `shutdown` | pops at different times agree on one order; bounded overtaking through aging; no lost wake-up; counters that match the heap |
| circuit breaker (`circuit_breaker/breaker.py`) | state, two streaks, probe slots, `_opened_at` | `state`, `allow`, `on_success`, `on_failure`, `force_*` | the documented automaton; the probe limit; an open circuit can close again |
| retry policy (`retry/policy.py`) | none | `decide`, `compute_backoff`, `classify_exception` | at most the granted retries; priorities stay in their buckets |
| token bucket and shared pool (`rate_limiter/`) | tokens, rate, time of the last refill | `_refill`, `try_acquire`, `refund`, `time_until`, the `rate` setter | never more than the declared budget; both buckets pay or neither |
| throttler (`throttler/adaptive.py`) | factor and rolling window per API | `record` | the factor within its bounds and in force; recovery |
| adapters (`adapters/base.py`) | HTTP session | `execute` | outcome classification |
| metrics, mock APIs, demo, tests | | | not modelled |

**How they interact.** `submit` registers a future, puts the request and awaits
the future. The loop takes a worker permit, reads the breakers and the buckets,
takes a request out of the queue and creates a dispatch task, whose done callback
gives the permit back. The task asks the breaker (`allow`), then the buckets
(`try_acquire`), awaits the adapter and reports to the breaker and the throttler;
it resolves the future or creates a task that sleeps and puts the request back.
The throttler sets the rate of the API's bucket. `stop` cancels the loop, waits
for the dispatch tasks, and fails what is still pending.

**What is hard.** Checks made at selection are stale when the dispatch task runs.
Done callbacks run later than the resolution that schedules them. Callers are
cancelled while their request is queued, called or asleep. Re-enqueue tasks are
waited for by nobody and outlive `stop`. The queue can be full for a request the
system itself puts back. Outcomes reach a breaker that has changed state since it
admitted the call, and some calls report no outcome. A timeout can race with the
result it waits for. `PROJECT.json` lists each of these at its line.

## 2. The modules

| module | what it is |
|---|---|
| `CircuitBreaker` | the breaker's operations as operators on one record; time is one bit, "`recovery_timeout` has passed" |
| `RetryPolicy` | retry limit and priority decay |
| `Aggregator` | the core: orchestrator, queue, scheduler, breakers and buckets composed; one action per stretch of code between two suspension points |
| `MCAggregator` | small instances of it |
| `AggregatorBreakers`, `MCAggregatorBreakers` | the breaker of one API within `Aggregator`, with history variables that say which calls are in flight and when they were admitted; refines `BreakerProbes` |
| `AggregatorPromise` | what callers are promised, in terms of submissions, calls and attempts only; `Aggregator` refines it |
| `Resubmission`, `MCResubmission` | one `Request` object submitted again and again while what earlier submissions left behind is still queued, called or asleep; every way `execute` can end |
| `AggregatorClaims` | what documentation and comments say of it and the code does not do |
| `BreakerAutomaton` | the abstract automaton: state, and outcomes in a row that lead out of it |
| `BreakerProbes`, `MCBreakerProbes` | one breaker under overlapping calls that report late or never, and admissions that are put back at once; refines `BreakerAutomaton` |
| `FluidBuckets` | the abstract two-level rate limit: buckets that fill continuously |
| `TokenCounts` | the same limit in whole tokens: counts that go up by one, and an acquire that takes one from both buckets |
| `RateControl`, `MCRateControl` | lazily refilled buckets, the atomic acquire and the throttler; refines `FluidBuckets` and `TokenCounts` |
| `AgingQueue`, `MCAgingQueue` | the queue with its clock, its event, several tasks in `get()` and its depth counters; refines `DeadlineQueue` |
| `DeadlineQueue` | the abstract queue: a request has a fixed deadline, the earliest among the wanted APIs is taken |
| `AgingDispatch` | `AgingQueue` under the scheduler loop and its dispatch tasks, with their put-backs, for one bucket |
| `BreakerLemmas`, `AggregatorProofs`, `CarrierProofs`, `AggregatorBreakersProofs`, `BreakerProofs`, `RateProofs`, `QueueProofs`, `ResubmissionProofs` | lemmas, theorems and proofs |

**How they fit together.** `Aggregator` composes the components on one event loop,
each abstracted to what the others can see of it, and for each of them a module
of its own has the detail. The abstractions meet in the middle:

* *Buckets.* `Aggregator` counts whole tokens that come one at a time. Its `tokens`
  implement `TokenCounts`, and so do the whole tokens of the lazily refilled,
  refunded and re-rated buckets of `RateControl`: what the scheduler's model
  assumes of the buckets is what the buckets do.
* *Breakers.* `BreakerProbes` lets calls overlap as they like. `AggregatorBreakers`
  shows that the calls of the aggregator to any one API are such calls, each
  admitted once and reporting once or never, to the breaker that admitted it. So
  the automaton and the accounting of probe slots, shown for `BreakerProbes`, hold
  for every breaker of the aggregator.
* *Queue.* `Aggregator` lets the queue give out any entry that no earlier one with
  an equal or better base priority precedes (`Best`). `OvertakesOnlyWorse` says of
  `AgingQueue`, with its clock, that it gives out no others.

### Aggregator: state and code

`fut` holds the outcome of the future made for a request (`none` until `submit`
makes one), `pending` the keys of `_pending`, `dedup` the owner of the future
each key maps to, `cleanups` the futures whose done callback has been scheduled
and has not run. `queue` is the content of the heap in `put` order; `hand` is a
request the inner task of `wait_for(queue.get())` has popped and the loop has not
received; `ready` are dispatch tasks created and not yet run, `calling` those
that await the adapter, `finished` those whose done callback is due;
`replanning` and `retrying` are the put-back and re-enqueue tasks. `permits` is
the semaphore. `loop` is where the loop task is: `run` (it holds the event loop),
`sem`, `nap` and `get` (it awaits the semaphore, `_wake`, or `queue.get()`), `off`.

*Atomicity.* An `asyncio.Lock` that is free is acquired without suspending, and
nothing awaits inside the locks of the queue and the pool, so they are always
free: `put`, `pop_specific` and `try_acquire` are steps of their callers. While
permits and servable requests last, the loop does not suspend either (a free
semaphore does not suspend): hence the guard `Yields` on every action of another
task. Tasks and callbacks are run first come first served, so what the loop
created before it suspended runs before it resumes (`Drained`). `wait_for` runs
`get()` in an inner task, so popping and receiving are two steps with others in
between.

*Order.* Waiting times are abstracted. An entry put later has waited less, so it
can precede an earlier one only with a strictly better base priority: `Best` is
the set of entries that are first for some waiting times, and the model lets any
of them be taken. `AgingQueue` has the clock.

*Tokens* are whole. The loop accepts an API up to 5 ms before its token is there;
`near` is the set of empty buckets of which that holds at the moment. The rate of
a bucket only decides when `Refill` happens, so the throttler is not in this
module. `RateControl` models fractions, rates and the throttler, and its ghost
`granted` counts what each bucket has paid out.

*Configuration.* Retry limits and capacities are per API; the breaker's
thresholds and the decay are one value for all APIs.

*Environment.* A request is submitted once (`Resubmission` has the rest); the keys of two requests are equal
only if their APIs are (the key contains the API). A caller in `Cancellers` may be
cancelled while it waits. Any adapter call ends with a response, `UpstreamError`
(or an exception outside the contract, treated alike), `RateLimitedError` or
`NonRetryableError`. `MaxStops` bounds how often `stop` is called.

### AggregatorBreakers: the mapping

The breaker record is mapped to that of `Watched`, any one API. `flight` says of
every request of that API whether its dispatch awaits the adapter (it is in
`calling`) and whether it was admitted in the present HALF_OPEN episode (`probe`)
or before (`early`); `late`, `lost` and `heard` are those of `BreakerProbes`. They
are history variables: `Tells`, `PutsBack`, `EndsUntold` and `Silent` are together
the actions of `Aggregator`, told apart by what they mean for the slots (an
outcome is reported, an admission is put back, a call ends with a 429 or a 4xx, or
none of these), and none is disabled by them. A put-back that passed `allow()` is
`PutBack` of `BreakerProbes`: it may reserve a slot that no call ever holds, and
`lost` counts it.
`healthy` stays FALSE, for nothing is assumed of the upstream.

### AggregatorPromise: the mapping

Its variables are variables of `Aggregator` (`submitted`, `awaits`, `fut`,
`calling`, `calls`), so the mapping is the identity, and everything else
(queue, permits, loop, buckets, breakers, retries, callbacks) is hidden. Each
action says what a caller may see: a submission is refused, joins the one
unresolved call of its key, or opens a call; an attempt starts only when none of
this request runs and the limit is not used up; a response comes from a running
attempt; the first outcome stays. A submission refused by a full queue is an
`Open` nobody awaits, since the code leaves its future behind (`orphan_shared`).

### AgingQueue: state and code

`items` is the heap as a set of records `[req, at, seq]` (`QueueItem`); a scan
over all entries with `seq` as tie-breaker depends on nothing else. `now` is the
clock, `counter` the next `seq`, `notEmpty` the event, `perApi` and
`perPriority` the depth counters, `prio` the priorities of the request objects,
which a retry changes (`Demote`) while the request is outside. `getter` is where
each task that calls `get()` is: `waiting` on the event, or `woken` by a `set()`
and not run yet. Between the two anything may happen: another task pops the
entry, `wait_for` cancels this one, the event is cleared. An awake task runs
through the lock to its return or back to the event in one step (`Look`), for the
lock is always free. `PeekAndPop` is `peek_pending` with any set of APIs excluded
followed by `pop_specific`, between which the scheduler does not suspend.

`AgingDispatch` adds what the scheduler does with the queue: it looks for a token,
pops, and goes round again before the dispatch task has taken the token, so
several tasks are created for one token and the later ones put back. A tick of
its clock is long: all that can run has run before it.

### Resubmission: state and code

A `Request` object carries its `id`, `retry_count` and `priority`, so a second
submission of it shares all three with entries the first one left behind.
`named` is `_pending[request.id]`; `dedup` the `_dedup` entry; `fut` the future
of each submission (`shared` if it awaits another's); `queued`, `calling` and
`sleeping` count the entries, which cannot be told apart, since `pop_specific`
finds by id. `retries` and `prio` are the object's. The environment is any
pattern of submissions and cancellations, with `stop` and `start`. The breaker's
denial and the outcome of a call are free choices; queue, workers and buckets
have room, as `Aggregator` has their limits.

Its outcome sets follow the two `execute` methods branch by branch: a status
below 400 is a response (a redirect and a 1xx too), 429 is `RateLimitedError`,
other 4xx `NonRetryableError`, 5xx, `TimeoutError` and `ConnectionError`
`UpstreamError`. A 429 whose `Retry-After` is an HTTP date makes `float()` raise
`ValueError`, which the scheduler treats as an upstream failure, breaker
included. (A `Retry-After: 0` means an immediate retry to `HTTPAdapter` and a
back-off to `CallableAdapter`.)

## 3. The runs

Deadlock is checked in every passing run but `agg_stop`, `agg_live` and
`resubmit`, where the system may stay stopped or everything be answered.

| run | instance | what it shows |
|---|---|---|
| `agg_core` | 3 requests, 2 APIs, `r1` and `r3` identical, `r1` LOW and cancellable, `r2` HIGH, one retry each for `r1` and `r2`, capacity 1, 2 workers, breakers that open after 2 failures and admit 1 probe, queue of 2, backpressure from depth 2, no stop; 1.8 million states | types; a request is in one place (`SingleCarrier`); dedup (`Coalesced`, `DedupDrains`); `PermitAccounting`; at most one call per granted attempt (`CallBudget`); outcomes are final (`FuturesFinal`); all that implements `AggregatorPromise` |
| `agg_stop` | `AggregatorBreakers` with 2 requests of one API whose calls overlap, a breaker that opens after 1 failure, admits 1 probe and closes after 2 successes, queue of 1, one `stop` at any moment, restart; 1.6 million states | `StopSettles`: when `stop` returns every future is settled, and nothing is dispatched until the next start; `SingleCarrier` across the restart although re-enqueue tasks survive it; one permit lost at most; the queue and the probe slots keep their limits (`WithinLimits`); the promise is kept with a full queue and a stop; tokens and breaker are used as `TokenCounts` and `BreakerProbes` say (`ImplementsCounts`, `ImplementsProbes`) |
| `agg_live` | 2 requests, 1 worker, API `a` of rate 0 whose caller may give up, queue of 2, one `stop`, fair; 225 thousand states | with room in the queue no request is lost, through retries, cancellation, `stop` and a restart, and `_pending` does not leak (`NothingLost`); `EventuallyResolved`: the request of `b` is answered even when that of `a` came first and can never be served; `StopCompletes` |
| `breaker` | 3 overlapping calls, 2 failures open, 2 successes close, 2 probes, fair; 9.6 thousand states | the automaton is implemented whatever late outcomes arrive (`ImplementsAutomaton`); every slot is accounted for from both sides (`ProbeSlots`); an open circuit closes once calls stop failing, although put-backs, 429s and 4xx go on, unless these took every slot of an episode (`RecoversFromOpen`) |
| `rate` | 2 APIs, half a token per tick, 3 ticks, costs 1 and 2, window 5, factor 1/3 to 1, fair | implements `FluidBuckets` and `TokenCounts`; factor in force; no bucket grants more than its budget, for any API; the rate recovers |
| `aging` | 3 requests (LOW and HIGH of one API, MEDIUM of another), 2 tasks in `get()`, aging of half the priority range per tick, 3 ticks, 4 puts, fair; 52 thousand states | no wake-up is lost (`NoLostWakeUp`) and a woken task is served (`GettersServed`); the depth counters match (`DepthsAccurate`); `get` and `peek_pending` serve fixed deadlines (`ImplementsDeadlines`); the starvation bound for time spent in the queue (`BoundedOvertaking`); only a worse base priority is ever overtaken (`OvertakesOnlyWorse`) |
| `resubmit` | 3 submissions of one object, 2 retries, one `stop` and restart, fair; 199 thousand states | nobody is stranded by the shared slot of `_pending` (`NeverStranded`); calls stay within submissions plus granted retries (`UpstreamBudget`); every submission is answered (`Resolved`); a priority never rises above the submitted one (`TypeOK`) |

*Bounds.* Three requests give one pair that shares a key, a third that competes
for permits and tokens, and a queue that can be empty, partly full and full for
its limit. Two workers let two dispatches overlap and exhaust the permits.
Capacity 1 makes every second dispatch meet an empty bucket. One retry takes a
request through the back edge of its life cycle once, to the exhausted limit
the second time. One `stop` and a restart reach the states a second life starts
from. In `agg_stop` the one call that fails while the other is in flight opens the
circuit, so outcomes of calls admitted earlier arrive in HALF_OPEN beside a probe,
take its slot or count for it, and an admitted dispatch that finds no token keeps
a slot. With two probes in `breaker` an episode survives the loss of one slot and
not of both, and a third call can be early or wait. `MaxTime = 3` lets a bucket of capacity 4 refill partly, at two rates.
In `aging` a LOW entry reaches the level of a fresh HIGH one after 2 ticks and
passes it in the third; 4 puts let a request come back once; two getters are
enough for one to take what woke the other. In `resubmit` the third submission
meets entries of two earlier ones, and 2 retries let one entry use up what
another could have had.

### What the code does not do

Each of these runs checks a statement of a document or comment, and TLC finds a
shortest behaviour of the code that violates it.

| run | statement | behaviour |
|---|---|---|
| `putback_lost` | "return the request and try again later" (`scheduler.py:189`) | a request is taken from the queue on a token that is 5 ms away, a retry comes back and fills the queue, and the dispatch task finds no token: its `put` (`scheduler.py:190`) raises `QueueFull`, the task ends, the request is in no structure and its caller waits until `stop` |
| `orphan_shared` | "Dedup layer returns the existing future" (`docs/ARCHITECTURE.md:119`) | a submission refused with `QueueFull` leaves its future in `_dedup`; the next identical one waits on it for ever |
| `permit_lost` | "held until the task completes, then released" (`docs/ARCHITECTURE.md:54`) | `stop` while the loop waits in `get()` loses its permit; the next `start` has a worker less |
| `probe_lost` | "Exactly `half_open_max_probes` requests get through" (`docs/ARCHITECTURE.md:117`) | a probe that ends with a 429, a 4xx or without a token keeps its slot: the circuit admits nothing more |
| `aging_reset` | "a LOW request can wait at most `(LOW - HIGH) / aging_factor` seconds in the worst case before it beats fresh HIGHs" (`docs/ARCHITECTURE.md:78`) | the LOW request was selected, found no token and was put back: its waiting time starts again, and a HIGH one submitted 3 ticks after it, where the bound is 2, is taken first. `BoundedOvertaking` shows what does hold: the bound counts from the last `put` |

Met while modelling, and contained in the models without a run of their own:

* The first of two identical submissions awaits the shared future unshielded
  (`orchestrator.py:138`), so cancelling it gives the second one `CancelledError`
  too, while the queued entry lives on and may be called beside a later identical
  submission (`GiveUp` in `AggregatorPromise`).
* The put of `_reject_or_replan` (`scheduler.py:177`) runs in a task nobody awaits
  and drops its request in the same way when the queue is full (`ReplanPuts`).
  `NothingLost` therefore speaks of a queue with room for every request.
* Lost probe slots (`probe_lost`) do not need a failing upstream: a dispatch that
  passed `allow()` and finds no token loses one while every call succeeds. When
  all are lost and no earlier call is left to report, the circuit stays HALF_OPEN
  and refuses everything until somebody forces it. `RecoversFromOpen` excepts exactly this case
  (`SlotsExhausted`), and without the exception TLC finds it violated.
* `on_success` in HALF_OPEN frees a probe slot whoever reports it: the late
  success of a call admitted before the circuit opened lets one more probe run
  than `half_open_max_probes` (`breaker.py:10`); `ProbeSlots` states the bound that
  does hold, which counts the late outcomes.
* "Snap to nearest defined Priority bucket" (`policy.py:96`) and "Each retry adds
  this to base priority" do not describe `_decay`: everything strictly between HIGH
  and LOW becomes MEDIUM, so HIGH plus 5 is MEDIUM, and a decay below the distance
  of MEDIUM and LOW never demotes further.
* An object submitted again may be queued twice; if its priority decays in
  between, one of its entries is subtracted from another counter than it was
  added to, and `stats()` drifts. `DepthsAccurate` holds without that.
* A retry limit counts per object, so a resubmitted object that used up its
  retries is failed by its next failure.

## 4. Fairness

`Fairness` in `Aggregator` says what asyncio and the clock guarantee. A task or
callback that can run is run (weak fairness). Actions of other tasks are off while
the loop runs, which it may do again and again; but whenever it suspends the event
loop first runs everything that was due, so what another task may do time and
again it does: strong fairness of the done callbacks, the answers and the
re-enqueue tasks. Timers fire, buckets of positive rate refill, and an adapter
call returns: `HTTPAdapter` has a timeout; a `CallableAdapter` handler is assumed
to return. Submissions, cancellations, `start` and `stop` are not fair.
In `BreakerProbes` calls keep being admitted when the breaker allows them (requests
keep coming and tokens refill, so that not every dispatch is put back), every call
in flight ends, which once `healthy` is with a success, a 429 or a 4xx, and
`recovery_timeout` passes. `healthy` disables only what makes the upstream sick or
the operator intervene (`Fails`, `Forced`): put-backs and calls that end without a
report stay possible at any time, and are never required. In `RateControl`
outcomes keep being recorded; once `calm` they are successes. In `AgingQueue`
only a task that was woken must run (weak fairness of `GetResumes`): nothing is
assumed of those that put or pop. In `Resubmission` a running scheduler
dispatches what is queued, calls return and back-off timers fire; the first is
what `EventuallyResolved` establishes for the loop.

## 5. Proofs

`tlapm` checks every proof to the last leaf; the assumptions are the `ASSUME`s of
the modules (`AggregatorAssumption`, `WatchedAssumption`, `BreakerAssumption`,
`DecayAssumption`, `CallsAssumption`, `RateAssumption`, `QueueAssumption`,
`ResubmissionAssumption`), which TLC evaluates in the runs that use
those modules.

* `TypeCorrect` (`AggregatorProofs`): `Spec => []TypeOK`, one case per action.
  What is not immediate: the queue stays a sequence of requests when an entry is
  cut out of its middle (`QueueOperations`), every operation of the breaker yields
  a breaker (`BreakerTypes`: no counter goes below zero), `Decay` stays within the
  priorities, and permits and tokens are only taken where they are positive.
* `AlwaysCoalesced`, `DedupAlwaysDrains`, `FuturesAreFinal` (`AggregatorProofs`).
  `Coalesced` and `DedupDrains` are not inductive: a submission must know that
  its request has no future and no due callback, and a callback must know that
  the entry it removes stands under its own key. `FutureInv` adds these three
  facts. `FutureSteps` shows that every action of the system does one of five
  things to the futures (nothing, register, cancel, clean up, settle), and each
  of the five keeps `FutureInv`. `FuturesFinal` follows step by step from
  `FutureInv`.
* `LimitsKept` (`AggregatorProofs`): `Spec => []WithinLimits`, which is inductive
  with `TypeOK`. `QueueSteps` says what any step does to the queue's length: only
  a put that saw room lengthens it, and nothing runs between the two.
  `BreakerSteps` says that any step leaves each breaker alone or applies one of
  its operations to it, `Allow` only after `Allows`, and `SlotsKept` (`BreakerLemmas`)
  that each operation keeps a breaker's slots within their limit.
* `TokensAreCounts` (`AggregatorProofs`): `Spec => ImplementsCounts`. `TokenInv`
  bounds every count by its capacity; `TokenSteps` shows that only `DispatchCalls`
  and `Refill` touch the tokens, the first where both buckets have one.
* `BreakersAreProbes` (`AggregatorBreakersProofs`): `BreakersSpec =>
  ImplementsProbes`, for any API. `SilentQuiet`, `PutBackQuiet` and `UntoldQuiet` sort the
  steps that report nothing by what they do to one breaker, its calls and its lost
  slots (`QuietStep`). That needs `CarrierInv`: a request
  that waits for its dispatch is in no call, so an admission starts a call that was
  not there. `FlightInv` ties `flight` to `calling`; `QuietMaps` and `TellsMaps`
  give the counterpart of each sort. By `HistorySpec`, `BreakersSpec => Spec`, the
  theorems about `Aggregator` hold here too. `SlotsAccounted` and
  `BreakerImplementsAutomaton`, read under the substitution of `Probes`, then hold
  of the breaker of every API (tlapm 1.4.5 does not let a proof cite a theorem of
  an instance, so this last step is not a theorem of its own).
* `TypeCorrect`, `SlotsAccounted` and `BreakerImplementsAutomaton`
  (`BreakerProofs`), for every number of calls and all thresholds. `ProbeSlots` is
  inductive together with `TypeOK`; its last part counts the probes in flight
  against the slots and the late outcomes, and the slots against the probes in
  flight and those that were lost, so the proof reasons about the cardinality of
  the set of probes as calls come and go. The refinement gives
  the abstract state of every operation's result (`AbstractOperations`,
  `SuccessMoves`, `FailureMoves`) and maps each step to one step of
  `BreakerAutomaton` or to a stutter.
* `FactorAlwaysInForce` (`RateProofs`): factors stay within their bounds and the
  buckets run at the rate the factor says. `RateInv` adds that factors are
  numbers, buckets are buckets and no refill is later than the clock;
  `AdjustedInBounds` needs a step down of at most 1 and a step up of at least 1,
  which `RateAssumption` states and the code does not check.
* `BucketsAreFluid` (`RateProofs`): `Spec => ImplementsFluid`. `LevelInv` bounds
  what every bucket holds by its capacity. A bucket's level, the tokens
  plus what the rate has added since the last refill, is what the fluid
  bucket holds. A tick raises both (`TickLevel`), a lazy refill changes neither
  (`SettledLevel`), an acquire takes from both or restores both
  (`AcquireLevels`), and the rate setter refills first.
* `BudgetKept` (`RateProofs`): `Spec => []Budget`. `Budget` alone is not inductive;
  `BudgetInv` says that what a bucket has granted and what it still holds are
  together at most its capacity and what its highest rate brought so far
  (`Ceiling`): a grant moves tokens from one to the other, and only a tick adds.
  The global bucket pays for every API, so no sum over APIs is needed.
* `BucketsAreCounts` (`RateProofs`): `Spec => ImplementsCounts`. The counts are the
  whole tokens of the levels; `Division` is what the quotient by `Unit` does when a
  level grows by less than a token or shrinks by whole ones, and
  `GrantedInWholeTokens` that an acquire is granted exactly where both counts
  suffice.
* `TypeCorrect` and `ShortWindowNeverAdjusts` (`RateProofs`) rest on `WindowInv`:
  a window never grows beyond `ErrorWindow`. So with fewer than five the warm-up is
  never over and no factor moves. `OversizedNeverGranted`: with `LevelInv`, a cost
  above the capacity of either bucket is never granted, so a blocking `acquire` for
  it would wait for ever.
* `CarrierProofs`, about `Aggregator` for any number of requests, APIs and
  workers. `CarrierInv` says where every request is, place by place, that no
  place is occupied twice, and that only submitted requests are anywhere; without
  the last a submission could bring in a second copy. `EveryMove` shows that
  each step moves at most one request, to one place or out: `OneCarrier` follows.
  `CallsWithinBudget` adds `CallInv`, that a request waiting for a dispatch has
  made at most one call per retry. `NothingIsLost` assumes a finite set of
  requests and a queue with room for all, which makes `QueueFull` impossible
  (`NeverSqueezed`, by counting a queue without duplicates); `HeldInv` then says
  that what `_pending` knows is somewhere. `StopAlwaysSettles` needs that a
  scheduler that is down has no loop and no dispatch, `PermitsAccounted` that the
  permit `stop` may cost is still there while it waits for the loop (`PermitInv`).
  `PromiseKept` is the refinement: callers' steps, denials and failures,
  dispatches and answers map to one action of `AggregatorPromise` each, with
  `CallInv` for the guard of `Attempt` and `FutureInv` for that of `Open`.
* `QueueProofs`, for any number of requests, APIs and tasks in `get()`, any aging
  factor and queue size. `NoLostWakeUp` is inductive together with `TypeOK`.
  `DepthsAlwaysAccurate` counts the entries of each API and priority across a put
  and a removal, and shows on the way that the clamp at zero is never used.
  `QueueServesDeadlines` and `OvertakingIsBounded` rest on `EffectiveIsDeadline`:
  two effective priorities differ by what the deadlines do, at every time.
  `OvertakenOnlyIfWorse` needs `ArrivalOrder`, that of two entries the one with the
  smaller number was not put later.
* `ResubmissionProofs`, for any number of submissions, stops and retries.
  `SlotInv` adds to `NeverStranded` that a due callback belongs to a resolved
  future; `BudgetInv` counts the calls still to come with those made.

Only model-checked: all liveness (`EventuallyResolved`, `StopCompletes`,
`RecoversFromOpen`, `RateRecovers`, `GettersServed`, `Resolved`), which this prover
does not treat. Every invariant and action property and every refinement that a
passing run checks is also a theorem. `AgingDispatch` is used by one violation run
and has no theorem.

## 6. Not modelled

* `_wake`: it shortens a nap that the model lets end at any time.
* `start` during `stop`; two overlapping `stop` calls.
* The branches of `_dispatch` and `_maybe_retry` for an API without adapter or
  policy, which `_validate_config` excludes; a handler that raises
  `CancelledError`, which no `except` clause catches, so that its future stays
  unresolved (`scheduler.py:220`).
* The length of the back-off and of `Retry-After`: a retry may come at any time.
* Blocking `acquire` (which sleeps for ever when asked for more than the
  capacity, or at rate 0) and `add_api`, which the aggregator never calls.
* `stats`, metrics, the HTTP session, the mock APIs and the demo: nothing in the
  aggregator reads what they keep.

## 7. Plan

Done: the core with its promise, breakers, rate control, the aging queue and
resubmission, each with its abstract specification or inductive invariants; the
abstractions `Aggregator` makes of buckets, breakers and queue shown to be what
the detailed modules do; and every safety property proved. Left: `start`
overlapping `stop`; back-off bounds with a clock; the blocking `acquire` for
several tasks on one bucket.
