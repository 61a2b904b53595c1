---------------------------- MODULE Resubmission ----------------------------
(***************************************************************************)
(* One Request object that is submitted again and again: by a caller that  *)
(* gave up waiting, failed or was stopped, while what it left behind is    *)
(* still queued, called or asleep before a retry.  All the entries share   *)
(* the object's id, and so one slot of _pending, its retry_count and its   *)
(* priority; the slot names the latest future.  Aggregator, where each     *)
(* request is submitted once, has everything this leaves out: other        *)
(* requests, the breaker, the limits of queue, workers and buckets.        *)
(*                                                                         *)
(* The entries cannot be told apart (pop_specific finds by id), so they    *)
(* are counted.  A put-back leaves the count as it was; the queue has room.*)
(***************************************************************************)
EXTENDS RetryPolicy, FiniteSets

CONSTANTS
  Callers,            \* submissions of the object
  None,               \* no submission
  InitialPriority,    \* Request.priority at the first of them
  MaxRetries, PolicyRetries,   \* Request.max_retries, RetryConfig.max_retries
  MaxStops            \* bound: how often stop() takes effect

ASSUME ResubmissionAssumption ==
  /\ None \notin Callers /\ IsFiniteSet(Callers)
  /\ InitialPriority \in Priority
  /\ MaxRetries \in Nat /\ PolicyRetries \in Nat /\ MaxStops \in Nat

VARIABLES
  fut,        \* the future each submission made, or the one it shares
  shares,     \* submissions that share another's future
  named,      \* _pending[request.id], by the submission that made it
  dedup,      \* _dedup[request.dedup_key()]
  cleanups,   \* futures whose done callback is due
  queued, calling, sleeping,    \* how many entries are where
  retries, prio,                \* retry_count and priority of the object
  calls,      \* ghost: adapter calls made
  up, stops   \* _running, and how often it was reset

futureVars == <<fut, shares, named, dedup, cleanups>>
entryVars  == <<queued, calling, sleeping>>
lifeVars   == <<up, stops>>
vars == <<futureVars, entryVars, retries, prio, calls, lifeVars>>

Future == {"none", "shared", "pending", "response", "error", "stopped", "cancelled"}

Init ==
  /\ fut = [c \in Callers |-> "none"] /\ shares = [c \in Callers |-> None]
  /\ named = None /\ dedup = None /\ cleanups = {}
  /\ queued = 0 /\ calling = 0 /\ sleeping = 0
  /\ retries = 0 /\ prio = InitialPriority
  /\ calls = 0
  /\ up = TRUE /\ stops = 0

-----------------------------------------------------------------------------
(* What an adapter's execute() can end with (adapters/base.py), by the     *)
(* branch of _dispatch that takes it.  A Retry-After that is no number     *)
(* raises ValueError, outside the contract.                                *)

Answered   == {"1xx", "2xx", "3xx"}
Refused    == {"4xx", "NonRetryableError"}
Throttled  == {"429", "RateLimitedError"}
Failed     == {"5xx", "UpstreamError", "TimeoutError", "ConnectionError"}
Unexpected == {"429 until a date", "other exception"}

\* classify_exception of what _maybe_retry is given.
Retryable == Throttled \cup Failed \cup Unexpected

-----------------------------------------------------------------------------
(* Futures.                                                                *)

Unresolved(c) == c # None /\ fut[c] = "pending"

\* submit() while an identical call is in flight.
Share(c) ==
  /\ fut[c] = "none" /\ Unresolved(dedup)
  /\ fut' = [fut EXCEPT ![c] = "shared"]
  /\ shares' = [shares EXCEPT ![c] = dedup]
  /\ UNCHANGED <<named, dedup, cleanups, entryVars, retries, prio, calls, lifeVars>>

\* submit() otherwise: the new future takes the slot of the object.
KeepsSlot(c) == named' = IF named = None THEN c ELSE named \* mutant
TakesSlot(c) == named' = c

Submit(c) ==
  /\ fut[c] = "none" /\ ~Unresolved(dedup)
  /\ fut' = [fut EXCEPT ![c] = "pending"]
  /\ TakesSlot(c)
  /\ dedup' = c
  /\ queued' = queued + 1
  /\ UNCHANGED <<shares, cleanups, calling, sleeping, retries, prio, calls, lifeVars>>

GiveUp(c) ==
  /\ fut[c] = "pending"
  /\ fut' = [fut EXCEPT ![c] = "cancelled"]
  /\ cleanups' = cleanups \cup {c}
  /\ UNCHANGED <<shares, named, dedup, entryVars, retries, prio, calls, lifeVars>>

CleanupDedup(c) ==
  /\ c \in cleanups
  /\ cleanups' = cleanups \ {c}
  /\ dedup' = IF dedup = c THEN None ELSE dedup
  /\ UNCHANGED <<fut, shares, named, entryVars, retries, prio, calls, lifeVars>>

\* _complete_request and _fail_request: whoever the slot names is answered,
\* by whichever entry gets there first.
Settle(outcome) ==
  /\ named' = None
  /\ IF Unresolved(named)
     THEN /\ fut' = [fut EXCEPT ![named] = outcome]
          /\ cleanups' = cleanups \cup {named}
     ELSE UNCHANGED <<fut, cleanups>>
  /\ UNCHANGED <<shares, dedup>>

-----------------------------------------------------------------------------
(* Entries.                                                                *)

Limit == RetryLimit(MaxRetries, PolicyRetries)

Promoted(p) == IF p = LOW THEN MEDIUM ELSE HIGH           \* mutant
Demoted(p) == Decay(p)

\* _maybe_retry: one count of retries for all entries of the object.
CountsPerEntry == retries <= Limit                        \* mutant
MayRetry == retries < Limit

RetryOrFail ==
  \/ /\ MayRetry
     /\ retries' = retries + 1
     /\ prio' = Demoted(prio)
     /\ sleeping' = sleeping + 1
     /\ UNCHANGED futureVars
  \/ /\ ~MayRetry
     /\ Settle("error")
     /\ UNCHANGED <<retries, prio, sleeping>>

\* The circuit denies a dispatch: it is retried or failed without a call.
Denied ==
  /\ up /\ queued > 0
  /\ queued' = queued - 1
  /\ RetryOrFail
  /\ UNCHANGED <<calling, calls, lifeVars>>

Called ==
  /\ up /\ queued > 0
  /\ queued' = queued - 1
  /\ calling' = calling + 1
  /\ calls' = calls + 1
  /\ UNCHANGED <<futureVars, sleeping, retries, prio, lifeVars>>

Returns == calling > 0 /\ calling' = calling - 1 /\ UNCHANGED <<queued, calls, lifeVars>>

\* The call ends with e.
Ends(e) ==
  /\ Returns
  /\ \/ /\ e \in Answered \cup Refused
        /\ Settle(IF e \in Answered THEN "response" ELSE "error")
        /\ UNCHANGED <<sleeping, retries, prio>>
     \/ e \in Retryable /\ RetryOrFail

Wakes ==
  /\ sleeping > 0
  /\ sleeping' = sleeping - 1
  /\ queued' = queued + 1
  /\ UNCHANGED <<futureVars, calling, retries, prio, calls, lifeVars>>

\* stop() after it gathered the calls: sleeping and queued entries survive.
Stop ==
  /\ up /\ stops < MaxStops /\ calling = 0
  /\ up' = FALSE /\ stops' = stops + 1
  /\ Settle("stopped")
  /\ UNCHANGED <<entryVars, retries, prio, calls>>

Start == ~up /\ up' = TRUE /\ UNCHANGED <<futureVars, entryVars, retries, prio, calls, stops>>

Answer == \E e \in Answered \cup Refused \cup Retryable : Ends(e)

Next ==
  \/ \E c \in Callers : Share(c) \/ Submit(c) \/ GiveUp(c) \/ CleanupDedup(c)
  \/ Denied \/ Called \/ Answer \/ Wakes \/ Stop \/ Start

Spec == Init /\ [][Next]_vars

\* A running scheduler dispatches what is queued, calls return, timers fire.
FairSpec ==
  Spec /\ WF_vars(Denied \/ Called) /\ WF_vars(Answer) /\ WF_vars(Wakes)

-----------------------------------------------------------------------------
(* Properties.                                                             *)

\* Types; whatever entry retries it, the object's priority is never better
\* than the one it was submitted with.
TypeOK ==
  /\ fut \in [Callers -> Future] /\ shares \in [Callers -> Callers \cup {None}]
  /\ {named, dedup} \subseteq Callers \cup {None} /\ cleanups \subseteq Callers
  /\ {queued, calling, sleeping, retries, calls, stops} \subseteq Nat
  /\ prio \in Priority /\ prio >= InitialPriority
  /\ up \in BOOLEAN

Opened == {c \in Callers : fut[c] \notin {"none", "shared"}}

\* A caller is never stranded: the slot of _pending names the one unresolved
\* future, though earlier submissions had it before, and an entry is left
\* that will settle it, though earlier entries use up the shared retries.
NeverStranded ==
  \A c \in Callers : fut[c] = "pending" =>
    named = c /\ dedup = c /\ queued + calling + sleeping > 0

\* The upstream is called once per submission and once per retry granted to
\* the object, however many of its entries are retried, denied or stopped.
UpstreamBudget == calls <= Cardinality(Opened) + retries /\ retries <= Limit

\* Every submission is answered, by its own entry or by another one's.
Resolved ==
  \A c \in Callers :
    up /\ fut[c] = "pending" ~> fut[c] # "pending"
=============================================================================
