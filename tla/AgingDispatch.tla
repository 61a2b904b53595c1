---------------------------- MODULE AgingDispatch ----------------------------
(***************************************************************************)
(* The aging queue under the scheduler loop and its dispatch tasks, for    *)
(* one API and its token bucket.  The loop looks whether there is a token, *)
(* pops, creates a dispatch task, and goes round again without taking the  *)
(* token; the tasks run when it suspends, and one that finds no token puts *)
(* its request back (scheduler.py:153-191).                                *)
(***************************************************************************)
EXTENDS MCAgingQueue, Sequences

CONSTANTS WorkerCount, Capacity   \* worker_count, capacity of the bucket

VARIABLES
  tokens,     \* whole tokens in the bucket
  ready,      \* dispatch tasks created and not yet run
  calling,    \* requests whose dispatch awaits the adapter
  since       \* ghost: when a request was submitted

dispatchVars == <<tokens, ready, calling, since>>
allVars == <<vars, dispatchVars>>

NotYet == -1

\* From any moment at which nothing is queued or dispatched.
DispatchInit ==
  /\ Init
  /\ tokens \in 0 .. Capacity /\ ready = <<>> /\ calling = {}
  /\ since = [r \in Requests |-> NotYet]

Selects == tokens > 0 /\ items # {} /\ Len(ready) + Cardinality(calling) < WorkerCount

\* While it can select the loop holds the event loop.
Submit(r) ==
  /\ ~Selects
  /\ since[r] = NotYet
  /\ Put(r)
  /\ since' = [since EXCEPT ![r] = now]
  /\ UNCHANGED <<tokens, ready, calling>>

Select ==
  /\ Selects
  /\ PeekAndPop({})
  /\ \E e \in items \ items' : ready' = Append(ready, e.req)
  /\ UNCHANGED <<tokens, calling, since>>

Calls ==
  /\ ~Selects /\ ready # <<>> /\ tokens > 0
  /\ tokens' = tokens - 1
  /\ ready' = Tail(ready)
  /\ calling' = calling \cup {Head(ready)}
  /\ UNCHANGED <<vars, since>>

PutsBack ==
  /\ ~Selects /\ ready # <<>> /\ tokens = 0
  /\ Put(Head(ready))
  /\ ready' = Tail(ready)
  /\ UNCHANGED <<tokens, calling, since>>

Answers(r) ==
  /\ ~Selects /\ r \in calling
  /\ calling' = calling \ {r}
  /\ UNCHANGED <<vars, tokens, ready, since>>

Refill ==
  /\ tokens < Capacity
  /\ tokens' = tokens + 1
  /\ UNCHANGED <<vars, ready, calling, since>>

\* A tick is long: everything that can run has run before it.
TimePasses ==
  /\ ~Selects /\ ready = <<>>
  /\ Tick
  /\ UNCHANGED dispatchVars

DispatchNext ==
  \/ \E r \in Requests : Submit(r) \/ Answers(r)
  \/ Select \/ Calls \/ PutsBack \/ Refill \/ TimePasses

DispatchSpec == DispatchInit /\ [][DispatchNext]_allVars

\* ARCHITECTURE.md:78, "a LOW request can wait at most (LOW - HIGH) /
\* aging_factor seconds in the worst case before it beats fresh HIGHs": one
\* submitted that much before a HIGH is taken first.  But a put-back restarts
\* its waiting time.
BeatsFreshHighs ==
  [][\A e \in items \ items', f \in items \cap items' :
       prio[e.req] = HIGH /\ prio[f.req] = LOW =>
         AgingFactor * (since[e.req] - since[f.req]) <= LOW - HIGH]_allVars
=============================================================================
