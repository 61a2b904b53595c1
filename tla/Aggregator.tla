----------------------------- MODULE Aggregator -----------------------------
(***************************************************************************)
(* The life cycle of a request through the aggregator: Aggregator.submit   *)
(* (orchestrator/orchestrator.py), the AgingPriorityQueue                  *)
(* (priority_queue/queue.py), the Scheduler with its loop, its dispatch    *)
(* tasks and its re-enqueue tasks (scheduler/scheduler.py), the breakers,  *)
(* the token buckets it consults, and start and stop.                      *)
(*                                                                         *)
(* Everything runs on one asyncio event loop, so an action is what a task  *)
(* does between two points where it can suspend.  The locks of the queue   *)
(* and of the rate limiter never suspend anyone (nothing awaits inside     *)
(* them), so `put', `pop_specific' and `try_acquire' are steps of their    *)
(* callers.  The scheduler loop does not suspend either while permits and  *)
(* servable requests last: as long as loop = "run" it owns the event loop  *)
(* and every action of another task is disabled (Yields).  Time passes     *)
(* even then (Refill, RecoveryElapses).                                    *)
(*                                                                         *)
(* Abstractions.  Waiting times: the queue is a sequence in `put' order,   *)
(* and Best holds every entry that aging can put first for some waiting    *)
(* times.  Tokens are whole; a bucket that is empty but within 5 ms of a   *)
(* token is in `near'.  Refill rates (and so the throttler) only decide    *)
(* when Refill happens.  The 50 ms nap may end at any time, so the event   *)
(* that cuts it short (_wake) is not modelled.                             *)
(***************************************************************************)
EXTENDS CircuitBreaker, RetryPolicy, Sequences, FiniteSets, SequencesExt

CONSTANTS
  Requests,         \* the requests callers may submit, each once
  NoRequest,        \* not a request: None in the code
  APIs,             \* the configured API names
  Global,           \* the name of the global bucket
  Api,              \* Request.api
  Keys, Key,        \* Request.dedup_key()
  InitialPriority,  \* Request.priority at submission
  RequestRetries,   \* Request.max_retries
  PolicyRetries,    \* RetryConfig.max_retries of each API
  Capacity,         \* of each token bucket
  Dry,              \* buckets of rate 0: never refilled
  QueueMaxSize,     \* AggregatorConfig.queue_max_size
  DropThreshold,    \* AggregatorConfig.drop_low_priority_threshold
  WorkerCount,      \* AggregatorConfig.worker_count
  Cancellers,       \* requests whose caller may give up waiting
  MaxStops          \* bound: how often stop() takes effect

Buckets == APIs \cup {Global}

ASSUME AggregatorAssumption ==
  /\ NoRequest \notin Requests
  /\ Global \notin APIs
  /\ Api \in [Requests -> APIs]
  /\ Key \in [Requests -> Keys]
  /\ \A r, s \in Requests : Key[r] = Key[s] => Api[r] = Api[s]
  /\ InitialPriority \in [Requests -> Priority]
  /\ RequestRetries \in [Requests -> Nat]
  /\ PolicyRetries \in [APIs -> Nat]
  /\ Capacity \in [Buckets -> Nat \ {0}]
  /\ Dry \subseteq Buckets
  /\ QueueMaxSize \in Nat
  /\ DropThreshold \in Nat
  /\ WorkerCount \in Nat
  /\ Cancellers \subseteq Requests
  /\ MaxStops \in Nat

VARIABLES
  \* callers
  submitted,   \* requests handed to submit()
  awaits,      \* whose future the caller of a request awaits
  \* orchestrator
  fut,         \* the future made for each request
  pending,     \* domain of _pending
  dedup,       \* _dedup: the request whose future the key maps to
  cleanups,    \* requests whose _cleanup_dedup callback is due
  \* queue and the mutable fields of a request
  queue, prio, retries,
  \* start and stop
  phase,       \* "up" is _running, "stopping" is within stop()
  stops,
  \* scheduler loop
  loop,        \* where it is: running, or what it waits for
  hand,        \* popped by queue.get(), not yet seen by the loop
  permits,     \* value of the worker semaphore
  \* tasks the loop and the dispatches create
  ready,       \* dispatch tasks created and not yet run, in order
  calling,     \* requests whose dispatch task awaits the adapter
  finished,    \* dispatch tasks whose done callback is due
  replanning,  \* requests whose _reject_or_replan put is due
  retrying,    \* requests asleep in reenqueue()
  \* shared by all dispatches
  breaker, tokens,
  \* ghost
  calls        \* adapter calls made for each request

callerVars == <<submitted, awaits>>
futureVars == <<fut, pending, dedup, cleanups>>
queueVars  == <<queue, prio, retries>>
lifeVars   == <<phase, stops>>
loopVars   == <<loop, hand, permits>>
taskVars   == <<ready, calling, finished, replanning, retrying>>
apiVars    == <<breaker, tokens, calls>>
vars == <<callerVars, futureVars, queueVars, lifeVars, loopVars, taskVars,
          apiVars>>

\* Groups of them that many actions leave alone.
systemVars  == <<lifeVars, loopVars, taskVars, apiVars>>
requestVars == <<callerVars, futureVars, queueVars>>

FutureState == {"none", "pending", "response", "error", "stopped", "cancelled"}
Resolved    == FutureState \ {"none", "pending"}
Phase       == {"down", "up", "stopping"}
LoopState   == {"off", "run", "sem", "nap", "get"}

Init ==
  /\ submitted = {}
  /\ awaits = [r \in Requests |-> NoRequest]
  /\ fut = [r \in Requests |-> "none"]
  /\ pending = {}
  /\ dedup = [k \in Keys |-> NoRequest]
  /\ cleanups = {}
  /\ queue = <<>>
  /\ prio = InitialPriority
  /\ retries = [r \in Requests |-> 0]
  /\ phase = "down" /\ stops = 0
  /\ loop = "off" /\ hand = NoRequest /\ permits = WorkerCount
  /\ ready = <<>> /\ calling = {} /\ finished = 0
  /\ replanning = {} /\ retrying = {}
  /\ breaker = [a \in APIs |-> ResetToClosed]
  /\ tokens = Capacity
  /\ calls = [r \in Requests |-> 0]

-----------------------------------------------------------------------------
(* Helpers.                                                                *)

\* Another task than the scheduler loop may run.
Yields == loop # "run"

\* The tasks the loop created before it suspended ran before it resumes.
Drained == ready = <<>> /\ replanning = {}

QueueFull == Len(queue) >= QueueMaxSize

\* put in a task of its own, where QueueFull ends the task unobserved.
PutsAlways(r) == Append(queue, r)                         \* mutant
TryPut(r) == IF QueueFull THEN queue ELSE Append(queue, r)

LeavesEntry(i) == RemoveAt(queue, Len(queue))             \* mutant
KeepsEntry(i) == queue                                    \* mutant
Without(i) == RemoveAt(queue, i)

KeepsPermit == permits                                    \* mutant
Released == permits + 1

\* The futures of rs that are known and not done.
KnownDoneToo(rs) == rs \cap pending                       \* mutant
Unresolved(rs) == {r \in rs \cap pending : fut[r] = "pending"}

\* set_result / set_exception on them, each scheduling its done callback,
\* and the removal of rs from _pending.
Settle(rs, outcome) ==
  /\ fut' = [r \in Requests |-> IF r \in Unresolved(rs) THEN outcome
                                                         ELSE fut[r]]
  /\ cleanups' = cleanups \cup Unresolved(rs)
  /\ pending' = pending \ rs
  /\ UNCHANGED dedup

Limit(r) == RetryLimit(RequestRetries[r], PolicyRetries[Api[r]])

RetriesOnceMore(r) == retries[r] <= Limit(r)              \* mutant
MayRetry(r) == retries[r] < Limit(r)

\* _maybe_retry for a retryable exception.
RetryOrFail(r) ==
  IF MayRetry(r)
  THEN /\ retries' = [retries EXCEPT ![r] = @ + 1]
       /\ prio' = [prio EXCEPT ![r] = Decay(@)]
       /\ retrying' = retrying \cup {r}
       /\ UNCHANGED futureVars
  ELSE /\ Settle({r}, "error")
       /\ UNCHANGED <<retries, prio, retrying>>

\* The head of the queue or nothing.
HeadOnly(apis) ==                                         \* mutant
  {i \in DOMAIN queue : i = 1 /\ Api[queue[i]] \in apis}

\* Entries of these APIs that are first for some waiting times: an earlier
\* entry has waited longer, so only a worse base priority lets it lose.
Best(apis) ==
  {i \in DOMAIN queue :
     /\ Api[queue[i]] \in apis
     /\ \A k \in 1 .. (i - 1) :
          Api[queue[k]] \in apis => prio[queue[k]] > prio[queue[i]]}

\* Sets of empty buckets that may be within 5 ms of their next token.
NearlyFull == SUBSET {b \in Buckets \ Dry : tokens[b] = 0}

\* Neither circuit-open nor, for the scheduler's tolerance, out of tokens.
Servable(a, near) ==
  /\ Refresh(breaker[a]).state # "open"
  /\ \A b \in {a, Global} : tokens[b] > 0 \/ b \in near

-----------------------------------------------------------------------------
(* Callers: Aggregator.submit up to the await of the future, and a caller  *)
(* that is cancelled while it waits.                                       *)

Submits(r) == Yields /\ r \notin submitted /\ submitted' = submitted \cup {r}

SubmitRejected(r) ==
  /\ Submits(r)
  /\ Len(queue) >= DropThreshold /\ prio[r] >= LOW
  /\ UNCHANGED <<awaits, futureVars, queueVars, systemVars>>

Accepts(r) == Submits(r) /\ ~(Len(queue) >= DropThreshold /\ prio[r] >= LOW)

\* The future of an identical request that is not done yet.
InFlightOrDone(k) == dedup[k] # NoRequest                 \* mutant
InFlight(k) == dedup[k] # NoRequest /\ fut[dedup[k]] = "pending"

SubmitShared(r) ==
  /\ Accepts(r)
  /\ InFlight(Key[r])
  /\ awaits' = [awaits EXCEPT ![r] = dedup[Key[r]]]
  /\ UNCHANGED <<futureVars, queueVars, systemVars>>

RegisterFuture(r) ==
  /\ fut' = [fut EXCEPT ![r] = "pending"]
  /\ pending' = pending \cup {r}
  /\ dedup' = [dedup EXCEPT ![Key[r]] = r]
  /\ UNCHANGED cleanups

SubmitAccepted(r) ==
  /\ Accepts(r)
  /\ ~InFlight(Key[r])
  /\ RegisterFuture(r)
  /\ ~QueueFull
  /\ queue' = Append(queue, r)
  /\ awaits' = [awaits EXCEPT ![r] = r]
  /\ UNCHANGED <<prio, retries, systemVars>>

\* put raises QueueFull out of submit, after the future was registered.
SubmitQueueFull(r) ==
  /\ Accepts(r)
  /\ ~InFlight(Key[r])
  /\ RegisterFuture(r)
  /\ QueueFull
  /\ UNCHANGED <<awaits, queueVars, systemVars>>

\* Cancelling the task that runs `await fut' cancels the future itself.  A
\* caller that shares another's future is shielded: nothing changes for us.
CancelOwner(r) ==
  /\ Yields
  /\ r \in Cancellers /\ awaits[r] = r /\ fut[r] = "pending"
  /\ fut' = [fut EXCEPT ![r] = "cancelled"]
  /\ cleanups' = cleanups \cup {r}
  /\ UNCHANGED <<callerVars, pending, dedup, queueVars, systemVars>>

DropsAnyEntry(r) == [dedup EXCEPT ![Key[r]] = NoRequest]  \* mutant
KeepsOwnEntry(r) == IF dedup[Key[r]] = r THEN dedup       \* mutant
                    ELSE [dedup EXCEPT ![Key[r]] = NoRequest]
DedupWithout(r) == IF dedup[Key[r]] # r THEN dedup
                   ELSE [dedup EXCEPT ![Key[r]] = NoRequest]

\* _cleanup_dedup, the done callback of a future.
CleanupDedup(r) ==
  /\ Yields
  /\ r \in cleanups
  /\ cleanups' = cleanups \ {r}
  /\ dedup' = DedupWithout(r)
  /\ UNCHANGED <<callerVars, fut, pending, queueVars, systemVars>>

-----------------------------------------------------------------------------
(* start() and stop().                                                     *)

Start ==
  /\ Yields
  /\ phase = "down"               \* start and stop do not overlap
  /\ phase' = "up"
  /\ loop' = "nap"                \* the task exists and has not run yet
  /\ UNCHANGED <<stops, hand, permits, taskVars, apiVars, requestVars>>

StopBegin ==
  /\ Yields
  /\ phase = "up" /\ stops < MaxStops
  /\ phase' = "stopping"
  /\ stops' = stops + 1
  /\ UNCHANGED <<loopVars, taskVars, apiVars, requestVars>>

GathersNothing == loop = "off"                            \* mutant
GathersPermits == loop = "off" /\ permits = WorkerCount   \* mutant
DispatchesGathered ==
  loop = "off" /\ ready = <<>> /\ calling = {} /\ finished = 0

\* Loop gone, in-flight dispatches gathered: fail what is still pending.
StopFinish ==
  /\ phase = "stopping"
  /\ DispatchesGathered
  /\ Settle(Requests, "stopped")
  /\ phase' = "down"
  /\ UNCHANGED <<stops, loopVars, taskVars, apiVars, callerVars, queueVars>>

-----------------------------------------------------------------------------
(* The scheduler loop, _run and _select_dispatchable.                      *)

offLoop == <<lifeVars, taskVars, apiVars, requestVars>>

\* The loop task is cancelled where it waits.  wait_for swallows the
\* cancellation when get() has its request already (LoopTakes goes on);
\* when it has none the loop returns without releasing its permit.
LoopCancelled ==
  /\ phase = "stopping"
  /\ loop \in {"sem", "nap", "get"} /\ hand = NoRequest
  /\ Drained
  /\ loop' = "off"
  /\ UNCHANGED <<hand, permits, offLoop>>

LoopExits ==
  /\ loop = "run" /\ phase # "up"
  /\ loop' = "off"
  /\ UNCHANGED <<hand, permits, offLoop>>

LoopBlocks ==
  /\ loop = "run" /\ phase = "up" /\ permits = 0
  /\ loop' = "sem"
  /\ UNCHANGED <<hand, permits, offLoop>>

\* The semaphore is handed to the loop, or its nap is over.
LoopResumes ==
  /\ \/ loop = "sem" /\ permits > 0
     \/ loop = "nap"
  /\ Drained
  /\ loop' = "run"
  /\ UNCHANGED <<hand, permits, offLoop>>

\* A permit is free: the loop takes it and looks for a request.
Selecting == loop = "run" /\ phase = "up" /\ permits > 0

LoopWaitsForRequest ==
  /\ Selecting
  /\ queue = <<>>
  /\ loop' = "get"
  /\ permits' = permits - 1
  /\ UNCHANGED <<hand, offLoop>>

\* Reading every breaker's state moves those that are due to HALF_OPEN.
RefreshAll == breaker' = [a \in APIs |-> Refresh(breaker[a])]

LoopFindsNone ==
  /\ Selecting
  /\ queue # <<>>
  /\ RefreshAll
  /\ \E near \in NearlyFull : Best({a \in APIs : Servable(a, near)}) = {}
  /\ loop' = "nap"
  /\ UNCHANGED <<hand, permits, lifeVars, taskVars, tokens, calls, requestVars>>

\* peek_pending, pop_specific, create_task: the loop goes round again.
LoopDispatches ==
  /\ Selecting
  /\ RefreshAll
  /\ \E near \in NearlyFull :
       \E i \in Best({a \in APIs : Servable(a, near)}) :
         /\ queue' = Without(i)
         /\ ready' = Append(ready, queue[i])
  /\ permits' = permits - 1
  /\ UNCHANGED <<loop, hand, lifeVars, calling, finished, replanning, retrying,
                 tokens, calls, callerVars, futureVars, prio, retries>>

\* queue.get() inside wait_for: the inner task pops the best entry.
GetPops ==
  /\ loop = "get" /\ hand = NoRequest
  /\ Drained
  /\ \E i \in Best(APIs) :
       /\ hand' = queue[i]
       /\ queue' = Without(i)
  /\ UNCHANGED <<loop, permits, lifeVars, taskVars, apiVars, callerVars,
                 futureVars, prio, retries>>

GetTimesOut ==
  /\ loop = "get" /\ hand = NoRequest
  /\ Drained
  /\ loop' = "nap"
  /\ permits' = Released
  /\ UNCHANGED <<hand, offLoop>>

\* wait_for returns the request to the loop, which checks it again and
\* dispatches it or hands it to a task that will put it back.
LoopTakes ==
  /\ loop = "get" /\ hand # NoRequest
  /\ hand' = NoRequest
  /\ breaker' = [breaker EXCEPT ![Api[hand]] = Refresh(@)]
  /\ \E near \in NearlyFull :
       \/ /\ Servable(Api[hand], near)
          /\ ready' = Append(ready, hand)
          /\ loop' = "run"
          /\ UNCHANGED <<replanning, permits>>
       \/ /\ ~Servable(Api[hand], near)
          /\ replanning' = replanning \cup {hand}
          /\ permits' = Released
          /\ loop' = "nap"
          /\ UNCHANGED ready
  /\ UNCHANGED <<lifeVars, calling, finished, retrying, tokens, calls,
                 requestVars>>

\* The put of _reject_or_replan; QueueFull ends the task, unobserved.
ReplanPuts(r) ==
  /\ Yields
  /\ r \in replanning
  /\ replanning' = replanning \ {r}
  /\ queue' = TryPut(r)
  /\ UNCHANGED <<lifeVars, loopVars, ready, calling, finished, retrying,
                 apiVars, callerVars, futureVars, prio, retries>>

-----------------------------------------------------------------------------
(* A dispatch task up to the await of the adapter.                         *)

Starting == Yields /\ ready # <<>>

DispatchDenied ==
  LET r == Head(ready)
  IN  /\ Starting
      /\ ~Allows(breaker[Api[r]])
      /\ breaker' = [breaker EXCEPT ![Api[r]] = Refresh(@)]
      /\ RetryOrFail(r)
      /\ ready' = Tail(ready)
      /\ finished' = finished + 1
      /\ UNCHANGED <<lifeVars, loopVars, calling, replanning, tokens, calls,
                     callerVars, queue>>

HasOwnTokens(a) == tokens[a] > 0                          \* mutant
HasTokens(a) == \A b \in {a, Global} : tokens[b] > 0

\* try_acquire takes nothing (a global token is refunded).  The probe slot
\* that allow() may have reserved stays reserved; QueueFull ends the task.
DispatchPutsBack ==
  LET r == Head(ready)
  IN  /\ Starting
      /\ Allows(breaker[Api[r]])
      /\ ~HasTokens(Api[r])
      /\ breaker' = [breaker EXCEPT ![Api[r]] = Allow(@)]
      /\ queue' = TryPut(r)
      /\ ready' = Tail(ready)
      /\ finished' = finished + 1
      /\ UNCHANGED <<lifeVars, loopVars, calling, replanning, retrying,
                     tokens, calls, callerVars, futureVars, prio, retries>>

DispatchCalls ==
  LET r == Head(ready)
  IN  /\ Starting
      /\ Allows(breaker[Api[r]])
      /\ HasTokens(Api[r])
      /\ breaker' = [breaker EXCEPT ![Api[r]] = Allow(@)]
      /\ tokens' = [b \in Buckets |-> IF b \in {Api[r], Global}
                                      THEN tokens[b] - 1 ELSE tokens[b]]
      /\ calls' = [calls EXCEPT ![r] = @ + 1]
      /\ ready' = Tail(ready)
      /\ calling' = calling \cup {r}
      /\ UNCHANGED <<lifeVars, loopVars, finished, replanning, retrying,
                     requestVars>>

-----------------------------------------------------------------------------
(* The dispatch task from the adapter's answer to its end.                 *)

AnswersAgain(r) ==                                        \* mutant
  /\ Yields
  /\ r \in calling
  /\ finished' = finished + 1
  /\ UNCHANGED <<lifeVars, loopVars, ready, calling, replanning, tokens, calls,
                 callerVars, queue>>
Answers(r) ==
  /\ Yields
  /\ r \in calling
  /\ calling' = calling \ {r}
  /\ finished' = finished + 1
  /\ UNCHANGED <<lifeVars, loopVars, ready, replanning, tokens, calls,
                 callerVars, queue>>

CallSucceeds(r) ==
  /\ Answers(r)
  /\ breaker' = [breaker EXCEPT ![Api[r]] = OnSuccess(@)]
  /\ Settle({r}, "response")
  /\ UNCHANGED <<prio, retries, retrying>>

\* UpstreamError, or any exception outside the adapter contract.
CallFailsUpstream(r) ==
  /\ Answers(r)
  /\ breaker' = [breaker EXCEPT ![Api[r]] = OnFailure(@)]
  /\ RetryOrFail(r)

\* RateLimitedError: the breaker hears nothing.
CallRateLimited(r) ==
  /\ Answers(r)
  /\ RetryOrFail(r)
  /\ UNCHANGED breaker

\* NonRetryableError: the breaker hears nothing.
CallRefused(r) ==
  /\ Answers(r)
  /\ Settle({r}, "error")
  /\ UNCHANGED <<breaker, prio, retries, retrying>>

\* _on_dispatch_done.
DispatchDone ==
  /\ Yields
  /\ finished > 0
  /\ finished' = finished - 1
  /\ permits' = Released
  /\ UNCHANGED <<loop, hand, lifeVars, ready, calling, replanning, retrying,
                 apiVars, requestVars>>

\* reenqueue() after its back-off; QueueFull fails the request.
RetryPuts(r) ==
  /\ Yields
  /\ r \in retrying
  /\ retrying' = retrying \ {r}
  /\ \/ /\ ~QueueFull
        /\ queue' = Append(queue, r)
        /\ UNCHANGED futureVars
     \/ /\ QueueFull
        /\ Settle({r}, "error")
        /\ UNCHANGED queue
  /\ UNCHANGED <<lifeVars, loopVars, ready, calling, finished, replanning,
                 apiVars, callerVars, prio, retries>>

-----------------------------------------------------------------------------
(* Time.                                                                   *)

Refill(b) ==
  /\ b \notin Dry /\ tokens[b] < Capacity[b]
  /\ tokens' = [tokens EXCEPT ![b] = @ + 1]
  /\ UNCHANGED <<breaker, calls, lifeVars, loopVars, taskVars, requestVars>>

RecoveryElapses(a) ==
  /\ RecoveryDue(breaker[a])
  /\ breaker' = [breaker EXCEPT ![a] = Elapse(@)]
  /\ UNCHANGED <<tokens, calls, lifeVars, loopVars, taskVars, requestVars>>

-----------------------------------------------------------------------------
Submit(r) ==
  SubmitRejected(r) \/ SubmitShared(r) \/ SubmitAccepted(r) \/ SubmitQueueFull(r)

Call(r) ==
  CallSucceeds(r) \/ CallFailsUpstream(r) \/ CallRateLimited(r) \/ CallRefused(r)

Loop ==
  \/ LoopExits \/ LoopBlocks \/ LoopWaitsForRequest \/ LoopFindsNone
  \/ LoopDispatches \/ LoopResumes \/ GetPops \/ GetTimesOut \/ LoopTakes

Dispatch == DispatchDenied \/ DispatchPutsBack \/ DispatchCalls

Next ==
  \/ \E r \in Requests :
       \/ Submit(r) \/ CancelOwner(r) \/ CleanupDedup(r)
       \/ ReplanPuts(r) \/ Call(r) \/ RetryPuts(r)
  \/ Start \/ StopBegin \/ LoopCancelled \/ StopFinish
  \/ Loop \/ Dispatch \/ DispatchDone
  \/ \E b \in Buckets : Refill(b)
  \/ \E a \in APIs : RecoveryElapses(a)

Spec == Init /\ [][Next]_vars

(* What the event loop and the clock guarantee: a task or callback that    *)
(* can run is run, timers fire, every adapter call returns (HTTPAdapter    *)
(* has a timeout), a bucket with a positive rate refills and               *)
(* recovery_timeout passes.  The event loop runs what is due first come    *)
(* first served whenever the scheduler loop suspends, so what another task *)
(* may do time and again it does (SF): its guard is off only while the     *)
(* loop runs.  Callers and start/stop owe us nothing.                      *)
Fairness ==
  /\ WF_vars(Loop) /\ WF_vars(LoopCancelled) /\ WF_vars(StopFinish)
  /\ WF_vars(Dispatch) /\ SF_vars(DispatchDone)
  /\ \A r \in Requests :
       WF_vars(ReplanPuts(r)) /\ SF_vars(Call(r) \/ RetryPuts(r))
  /\ \A b \in Buckets : WF_vars(Refill(b))
  /\ \A a \in APIs : WF_vars(RecoveryElapses(a))

FairSpec == Spec /\ Fairness

-----------------------------------------------------------------------------
(* Properties.                                                             *)

CallerTypes ==
  /\ submitted \subseteq Requests
  /\ awaits \in [Requests -> Requests \cup {NoRequest}]

FutureTypes ==
  /\ fut \in [Requests -> FutureState]
  /\ pending \subseteq Requests
  /\ dedup \in [Keys -> Requests \cup {NoRequest}]
  /\ cleanups \subseteq Requests

QueueTypes ==
  /\ queue \in Seq(Requests)
  /\ prio \in [Requests -> Priority]
  /\ retries \in [Requests -> Nat]

LoopTypes ==
  /\ phase \in Phase /\ stops \in Nat
  /\ loop \in LoopState /\ permits \in Nat
  /\ hand \in Requests \cup {NoRequest}

TaskTypes ==
  /\ ready \in Seq(Requests)
  /\ calling \subseteq Requests /\ finished \in Nat
  /\ replanning \subseteq Requests /\ retrying \subseteq Requests

ApiTypes ==
  /\ breaker \in [APIs -> Breakers]
  /\ tokens \in [Buckets -> Nat]
  /\ calls \in [Requests -> Nat]

\* Every variable keeps the type its Python counterpart has; priorities stay
\* within the three buckets through any number of retries (_decay).
TypeOK ==
  CallerTypes /\ FutureTypes /\ QueueTypes /\ LoopTypes /\ TaskTypes /\ ApiTypes

\* The places that hold a request, each of which will act on it later.
Carried(r) ==
  \/ r \in ToSet(queue) \/ r = hand \/ r \in ToSet(ready)
  \/ r \in replanning \/ r \in calling \/ r \in retrying

\* A request is in at most one place: peek-then-pop, put-back, replan and
\* retry hand it over and never copy it, so it is never dispatched twice.
SingleCarrier ==
  /\ IsInjective(queue) /\ IsInjective(ready)
  /\ ToSet(queue) \cap ToSet(ready) = {}
  /\ hand \notin ToSet(queue) \cup ToSet(ready)
  /\ LET held == ToSet(queue) \cup ToSet(ready) \cup {hand}
     IN  /\ held \cap (replanning \cup calling \cup retrying) = {}
         /\ replanning \cap (calling \cup retrying) = {}
         /\ calling \cap retrying = {}

\* While the queue has room for every request: an unresolved future is known
\* to _pending, and whatever _pending knows is held somewhere, so somebody
\* will resolve it and the map does not leak.
NothingLost ==
  \A r \in Requests : /\ fut[r] = "pending" => r \in pending
                      /\ r \in pending => Carried(r)

\* Two unresolved futures never have the same dedup key, and the map names
\* the one there is, whatever order callbacks and submissions run in.
Coalesced ==
  \A r \in Requests : fut[r] = "pending" => dedup[Key[r]] = r

\* An entry of _dedup whose future is done still has its callback coming:
\* the map does not keep keys for ever.
DedupDrains ==
  \A k \in Keys : dedup[k] # NoRequest /\ fut[dedup[k]] \in Resolved
                    => dedup[k] \in cleanups

\* Every worker permit is free, held by the waiting loop or held by one
\* dispatch task whose done callback has not run; each stop() loses at most
\* one.  In particular at most WorkerCount calls are ever in flight.
PermitAccounting ==
  LET used == Len(ready) + Cardinality(calling) + finished
                + (IF loop = "get" THEN 1 ELSE 0)
  IN  permits + used \in (WorkerCount - stops) .. WorkerCount

\* The adapter is called at most once per attempt the retry policy granted,
\* however often the request was put back, replanned or denied on the way.
CallBudget ==
  \A r \in Requests : calls[r] <= retries[r] + 1 /\ retries[r] <= Limit(r)

\* Nothing outgrows its limit, whoever acts on what it saw before: the queue
\* queue_max_size, although put-backs, replans and retries come on top of what
\* callers put, and the probe slots of a HALF_OPEN circuit their number,
\* although several dispatches are selected on one free slot.
WithinLimits ==
  /\ Len(queue) <= QueueMaxSize
  /\ \A x \in APIs : /\ breaker[x].probes <= HalfOpenMaxProbes
                     /\ breaker[x].state # "half_open" => breaker[x].probes = 0

\* A resolved future keeps its outcome: no late answer, cancellation or stop
\* overwrites it (set_result on a done future would raise).
FuturesFinal ==
  [][\A r \in Requests : fut[r] \in Resolved => fut'[r] = fut[r]]_vars

Promise == INSTANCE AggregatorPromise

\* To its callers the aggregator is the promise it makes: every step of queue,
\* loop, dispatch, retry and callbacks is one step of it or none.
ImplementsPromise == Promise!Spec

Counts == INSTANCE TokenCounts

\* Tokens are spent only where both buckets have one, although the scheduler
\* selects on what they held before, and within 5 ms of what they will hold.
ImplementsCounts == Counts!Spec

\* When stop() returns, no future it could know of is unresolved, and no
\* dispatch is or comes in flight until the next start().
StopSettles ==
  [][/\ phase = "stopping" /\ phase' = "down" =>
          \A r \in Requests : fut'[r] # "pending"
     /\ phase' = "down" => /\ ready' = <<>> /\ calling' = {} /\ finished' = 0
                           /\ hand' = NoRequest /\ calls' = calls]_vars

\* A caller gets an answer: until the first stop(), and with room in the
\* queue, every unresolved future of an API that is not rate 0 is resolved,
\* even when the head of the queue is for one that is ("a stuck API never
\* blocks sibling APIs", docs/ARCHITECTURE.md:65).
EventuallyResolved ==
  \A r \in Requests : {Api[r], Global} \cap Dry = {} =>
    (phase = "up" /\ stops = 0 /\ fut[r] = "pending" ~> fut[r] # "pending")

\* stop() returns: whatever the loop was waiting for it ends, and every
\* dispatch in flight is waited for.
StopCompletes == phase = "stopping" ~> phase = "down"
=============================================================================
