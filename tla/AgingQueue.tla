----------------------------- MODULE AgingQueue -----------------------------
(***************************************************************************)
(* AgingPriorityQueue (priority_queue/queue.py) with its clock, the event  *)
(* that wakes the tasks waiting in get(), and the depth counters.  Several *)
(* tasks may wait in get(), each may be cancelled there (wait_for), while  *)
(* the scheduler peeks and pops and requests come back.                    *)
(*                                                                         *)
(* Nothing awaits inside the queue's lock, so put, pop_specific and what   *)
(* get does once it is awake are single steps.  The heap is a set: which   *)
(* entry is taken does not depend on its shape (_pop_best_locked scans it, *)
(* and the arrival number breaks ties).  The aggregator holds a request in *)
(* one place (SingleCarrier of Aggregator), so put gets a request that is  *)
(* not queued, and a priority changes only while its request is outside;   *)
(* an object that callers submit again is the subject of Resubmission.     *)
(***************************************************************************)
EXTENDS RetryPolicy, Integers, FiniteSets

CONSTANTS
  Requests, APIs, Api,   \* requests, API names, Request.api
  InitialPriority,       \* Request.priority at submission
  AgingFactor,           \* AggregatorConfig.aging_factor, per tick
  MaxSize,               \* AggregatorConfig.queue_max_size
  Getters,               \* tasks that call get()
  MaxTime, MaxPuts       \* bounds of the clock and of the arrival counter

ASSUME QueueAssumption ==
  /\ Api \in [Requests -> APIs]
  /\ InitialPriority \in [Requests -> Priority]
  /\ AgingFactor \in Nat /\ MaxSize \in Nat
  /\ MaxTime \in Nat /\ MaxPuts \in Nat

VARIABLES
  now,          \* the clock
  items,        \* the heap: requests with the time and the number of their put
  counter,      \* next arrival number
  notEmpty,     \* _not_empty
  getter,       \* in get(): asleep on the event, or woken and not yet run
  perApi, perPriority,   \* the depth counters
  prio          \* Request.priority

vars == <<now, items, counter, notEmpty, getter, perApi, perPriority, prio>>

GetterState == {"idle", "waiting", "woken"}
Item == [req : Requests, at : Nat, seq : Nat]

Init ==
  /\ now = 0
  /\ items = {} /\ counter = 0
  /\ notEmpty = FALSE /\ getter = [g \in Getters |-> "idle"]
  /\ perApi = [a \in APIs |-> 0] /\ perPriority = [p \in Priority |-> 0]
  /\ prio = InitialPriority

-----------------------------------------------------------------------------
(* Order.                                                                  *)

NoAging(e) == prio[e.req]                                 \* mutant
Effective(e) == prio[e.req] - AgingFactor * (now - e.at)

TiesToNewest(e, f) ==                                     \* mutant
  Effective(e) < Effective(f)
    \/ (Effective(e) = Effective(f) /\ e.seq > f.seq)
Before(e, f) ==
  Effective(e) < Effective(f)
    \/ (Effective(e) = Effective(f) /\ e.seq < f.seq)

Of(apis) == {e \in items : Api[e.req] \in apis}

Best(apis) == {e \in Of(apis) : \A f \in Of(apis) \ {e} : Before(e, f)}

-----------------------------------------------------------------------------
(* The event: set() wakes everyone who sleeps on it and stays set.         *)

WokenNot == UNCHANGED getter                              \* mutant
WakesAll ==
  getter' = [g \in Getters |-> IF getter[g] = "waiting" THEN "woken"
                                                        ELSE getter[g]]

Queued(r) == \E e \in items : e.req = r

\* An entry more, with the waiting time starting now.
Put(r) ==
  /\ ~Queued(r)
  /\ Cardinality(items) < MaxSize     \* or QueueFull, before any change
  /\ counter < MaxPuts
  /\ items' = items \cup {[req |-> r, at |-> now, seq |-> counter]}
  /\ counter' = counter + 1
  /\ perApi' = [perApi EXCEPT ![Api[r]] = @ + 1]
  /\ perPriority' = [perPriority EXCEPT ![prio[r]] = @ + 1]
  /\ notEmpty' = TRUE
  /\ WakesAll
  /\ UNCHANGED <<now, prio>>

KeepsCount(n) == n                                        \* mutant
OneLess(n) == IF n > 0 THEN n - 1 ELSE 0

\* An entry less; the event is cleared with the last one.
ClearsAlways(e) ==                                        \* mutant
  /\ items' = items \ {e}
  /\ perApi' = [perApi EXCEPT ![Api[e.req]] = OneLess(@)]
  /\ perPriority' = [perPriority EXCEPT ![prio[e.req]] = OneLess(@)]
  /\ notEmpty' = FALSE
Remove(e) ==
  /\ items' = items \ {e}
  /\ perApi' = [perApi EXCEPT ![Api[e.req]] = OneLess(@)]
  /\ perPriority' = [perPriority EXCEPT ![prio[e.req]] = OneLess(@)]
  /\ notEmpty' = (notEmpty /\ items # {e})

\* get() once `_not_empty.wait()' is over: the heap may be empty, since
\* another task popped the entry or shutdown() set the event.
Look(g) ==
  /\ \/ /\ \E e \in Best(APIs) : Remove(e)
        /\ getter' = [getter EXCEPT ![g] = "idle"]
     \/ /\ items = {}
        /\ notEmpty' = FALSE
        /\ getter' = [getter EXCEPT ![g] = "waiting"]
        /\ UNCHANGED <<items, perApi, perPriority>>
  /\ UNCHANGED <<now, counter, prio>>

GetSleeps(g) ==
  /\ getter[g] = "idle" /\ ~notEmpty
  /\ getter' = [getter EXCEPT ![g] = "waiting"]
  /\ UNCHANGED <<now, items, counter, notEmpty, perApi, perPriority, prio>>

GetAtOnce(g) == getter[g] = "idle" /\ notEmpty /\ Look(g)

GetResumes(g) == getter[g] = "woken" /\ Look(g)

\* wait_for cancels the task inside get(), before or after it was woken.
GetCancelled(g) ==
  /\ getter[g] # "idle"
  /\ getter' = [getter EXCEPT ![g] = "idle"]
  /\ UNCHANGED <<now, items, counter, notEmpty, perApi, perPriority, prio>>

\* peek_pending with some APIs excluded and pop_specific of what it found.
PeekAndPop(excluded) ==
  /\ \E e \in Best(APIs \ excluded) : Remove(e)
  /\ UNCHANGED <<now, counter, getter, prio>>

Shutdown ==
  /\ notEmpty' = TRUE
  /\ WakesAll
  /\ UNCHANGED <<now, items, counter, perApi, perPriority, prio>>

\* A retry lowers the priority of a request that is not queued.
Demote(r) ==
  /\ ~Queued(r)
  /\ prio' = [prio EXCEPT ![r] = Decay(@)]
  /\ UNCHANGED <<now, items, counter, notEmpty, getter, perApi, perPriority>>

Tick ==
  /\ now < MaxTime
  /\ now' = now + 1
  /\ UNCHANGED <<items, counter, notEmpty, getter, perApi, perPriority, prio>>

Next ==
  \/ \E r \in Requests : Put(r) \/ Demote(r)
  \/ \E g \in Getters :
       GetSleeps(g) \/ GetAtOnce(g) \/ GetResumes(g) \/ GetCancelled(g)
  \/ \E excluded \in SUBSET APIs : PeekAndPop(excluded)
  \/ Shutdown
  \/ Tick

Spec == Init /\ [][Next]_vars

\* A task that was woken runs.
FairSpec == Spec /\ \A g \in Getters : WF_vars(GetResumes(g))

-----------------------------------------------------------------------------
(* Properties.                                                             *)

\* Every variable keeps its type; a put is never in the future of the clock
\* and arrival numbers are handed out once.
TypeOK ==
  /\ now \in Nat /\ counter \in Nat
  /\ items \subseteq Item
  /\ \A e \in items : e.at <= now /\ e.seq < counter
  /\ \A e, f \in items : e.req = f.req \/ e.seq = f.seq => e = f
  /\ notEmpty \in BOOLEAN /\ getter \in [Getters -> GetterState]
  /\ perApi \in [APIs -> Nat] /\ perPriority \in [Priority -> Nat]
  /\ prio \in [Requests -> Priority]

\* No wake-up is lost: while there is an entry the event is set, and while it
\* is set nobody sleeps on it, whoever popped, cancelled or shut down between.
NoLostWakeUp ==
  /\ items # {} => notEmpty
  /\ notEmpty => \A g \in Getters : getter[g] # "waiting"

\* The counters that stats() shows are the numbers of entries, although they
\* are reduced under the priority the request has when it leaves.
DepthsAccurate ==
  /\ \A a \in APIs : perApi[a] = Cardinality(Of({a}))
  /\ \A p \in Priority :
       perPriority[p] = Cardinality({e \in items : prio[e.req] = p})

\* No starvation (queue.py:3-7): of two requests of one API the one that has
\* waited (LOW - HIGH) / aging_factor when the other is put leaves first.
BoundedOvertaking ==
  [][\A e \in items \ items', f \in items \cap items' :
       Api[e.req] = Api[f.req] => AgingFactor * (e.at - f.at) <= LOW - HIGH]_vars

\* Aging makes up for a worse priority, never for a later arrival: a request
\* leaves past an earlier one of its API only if that one's priority is worse.
\* (Best of Aggregator reads the order off the positions on this ground.)
OvertakesOnlyWorse ==
  [][\A e \in items \ items', f \in items \cap items' :
       Api[e.req] = Api[f.req] /\ f.seq < e.seq => prio[f.req] > prio[e.req]]_vars

Deadlines == INSTANCE DeadlineQueue WITH
  Priorities <- Priority,
  entries <- {[req |-> e.req, deadline |-> prio[e.req] + AgingFactor * e.at,
               seq |-> e.seq] : e \in items},
  arrivals <- counter

\* Re-evaluating the effective priorities at every pop never reorders two
\* entries: the queue serves fixed deadlines, for get and for peek and pop.
ImplementsDeadlines == Deadlines!Spec

\* A task in get() is served, or the entries are gone before it runs.
GettersServed ==
  \A g \in Getters :
    getter[g] # "idle" /\ items # {} ~> getter[g] = "idle" \/ items = {}
=============================================================================
