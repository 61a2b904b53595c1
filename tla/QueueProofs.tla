----------------------------- MODULE QueueProofs -----------------------------
(***************************************************************************)
(* Theorems about AgingQueue, for every number of requests, APIs and       *)
(* getters, every queue size and every aging factor.                       *)
(***************************************************************************)
EXTENDS AgingQueue, FiniteSetTheorems, TLAPS

-----------------------------------------------------------------------------
(* What a step can do.                                                     *)

\* The content of the queue and what is derived from it.
heapVars == <<items, counter, perApi, perPriority, prio>>

\* A step leaves the content alone, or puts, or removes, or demotes.
Keeps == UNCHANGED heapVars

Removes(e) == e \in items /\ Remove(e) /\ UNCHANGED <<now, counter, prio>>

\* get, in its three forms, pops the best entry or goes to sleep.
LEMMA Looking ==
  ASSUME NEW g \in Getters, Look(g)
  PROVE  \/ /\ \E e \in Best(APIs) : Removes(e)
            /\ getter' = [getter EXCEPT ![g] = "idle"]
         \/ /\ items = {} /\ notEmpty' = FALSE /\ now' = now
            /\ Keeps
BY DEF Look, Removes, Keeps, heapVars, Best, Of

\* Every step is one of these.
LEMMA QueueSteps ==
  ASSUME [Next]_vars
  PROVE  \/ Keeps
         \/ \E r \in Requests : Put(r) \/ Demote(r)
         \/ \E apis \in SUBSET APIs, e \in items : e \in Best(apis) /\ Removes(e)
<1>1. ASSUME NEW g \in Getters,
             GetSleeps(g) \/ GetAtOnce(g) \/ GetResumes(g) \/ GetCancelled(g)
      PROVE  Keeps \/ \E e \in items : e \in Best(APIs) /\ Removes(e)
  BY <1>1, Looking DEF GetSleeps, GetAtOnce, GetResumes, GetCancelled, Keeps, heapVars,
     Removes
<1>2. ASSUME NEW x \in SUBSET APIs, PeekAndPop(x)
      PROVE  \E e \in items : e \in Best(APIs \ x) /\ Removes(e)
  BY <1>2 DEF PeekAndPop, Removes, Best, Of
<1>3. CASE Shutdown \/ Tick \/ UNCHANGED vars
  BY <1>3 DEF Shutdown, Tick, vars, Keeps, heapVars
<1> QED
  BY <1>1, <1>2, <1>3 DEF Next

\* The clock stands or ticks, and ticks alone.
LEMMA ClockSteps ==
  ASSUME [Next]_vars
  PROVE  now' = now \/ now' = now + 1
BY Looking DEF Next, Put, Demote, GetSleeps, GetAtOnce, GetResumes, GetCancelled,
   PeekAndPop, Shutdown, Tick, Removes, vars

-----------------------------------------------------------------------------
(* Types.                                                                  *)

\* The event and the getters keep their types.
LEMMA EventTypes ==
  ASSUME TypeOK, [Next]_vars
  PROVE  /\ now' \in Nat /\ now <= now'
         /\ notEmpty' \in BOOLEAN
         /\ getter' \in [Getters -> GetterState]
<1> USE DEF TypeOK, GetterState
<1>1. ASSUME WakesAll PROVE getter' \in [Getters -> GetterState]
  BY <1>1 DEF WakesAll
<1>2. ASSUME NEW r \in Requests, Put(r) \/ Demote(r)
      PROVE  /\ now' = now /\ notEmpty' \in BOOLEAN
             /\ getter' \in [Getters -> GetterState]
  BY <1>1, <1>2 DEF Put, Demote
<1>3. ASSUME NEW g \in Getters, Look(g)
      PROVE  /\ now' = now /\ notEmpty' \in BOOLEAN
             /\ getter' \in [Getters -> GetterState]
  BY <1>3 DEF Look, Remove
<1>4. ASSUME NEW g \in Getters,
             GetSleeps(g) \/ GetAtOnce(g) \/ GetResumes(g) \/ GetCancelled(g)
      PROVE  /\ now' = now /\ notEmpty' \in BOOLEAN
             /\ getter' \in [Getters -> GetterState]
  BY <1>3, <1>4 DEF GetSleeps, GetAtOnce, GetResumes, GetCancelled
<1>5. ASSUME NEW x \in SUBSET APIs, PeekAndPop(x)
      PROVE  /\ now' = now /\ notEmpty' \in BOOLEAN
             /\ getter' \in [Getters -> GetterState]
  BY <1>5 DEF PeekAndPop, Remove
<1>6. CASE Shutdown
  BY <1>1, <1>6 DEF Shutdown
<1>7. CASE Tick \/ UNCHANGED vars
  BY <1>7 DEF Tick, vars
<1> QED
  BY <1>2, <1>4, <1>5, <1>6, <1>7 DEF Next

\* A snapped priority is one of the three.
LEMMA DecayTypes == \A p \in Priority : Decay(p) \in Priority
BY DecayAssumption DEF Decay, Priority, HIGH, MEDIUM, LOW

\* The heap is finite, too.
FiniteTypes == TypeOK /\ IsFiniteSet(items)

\* Every step keeps the types.
LEMMA TypeInductive == FiniteTypes /\ [Next]_vars => FiniteTypes'
<1> SUFFICES ASSUME TypeOK, IsFiniteSet(items), [Next]_vars
             PROVE  TypeOK' /\ IsFiniteSet(items')
  BY DEF FiniteTypes
<1> USE QueueAssumption DEF TypeOK, Item
<1>0. /\ now' \in Nat /\ now <= now' /\ notEmpty' \in BOOLEAN
      /\ getter' \in [Getters -> GetterState]
  BY EventTypes
<1>1. CASE Keeps
  BY <1>0, <1>1 DEF Keeps, heapVars
<1>2. ASSUME NEW r \in Requests, Put(r)
      PROVE  TypeOK' /\ IsFiniteSet(items')
  <2> DEFINE new == [req |-> r, at |-> now, seq |-> counter]
  <2>1. /\ items' = items \cup {new} /\ counter' = counter + 1
        /\ now' = now /\ prio' = prio
        /\ \A e \in items : e.req # r
    BY <1>2 DEF Put, Queued
  <2>2. perApi' \in [APIs -> Nat] /\ perPriority' \in [Priority -> Nat]
    BY <1>2 DEF Put
  <2>3. IsFiniteSet(items')
    BY <2>1, FS_AddElement
  <2>4. \A e \in items' : e \in Item /\ e.at <= now' /\ e.seq < counter'
    BY <2>1
  <2>5. \A e, f \in items' : e.req = f.req \/ e.seq = f.seq => e = f
    BY <2>1
  <2> QED
    BY <1>0, <2>1, <2>2, <2>3, <2>4, <2>5
<1>3. ASSUME NEW e \in items, Removes(e)
      PROVE  TypeOK' /\ IsFiniteSet(items')
  <2>1. items' = items \ {e} /\ UNCHANGED <<now, counter, prio>>
    BY <1>3 DEF Removes, Remove
  <2>2. perApi' \in [APIs -> Nat] /\ perPriority' \in [Priority -> Nat]
    BY <1>3 DEF Removes, Remove, OneLess
  <2>3. IsFiniteSet(items')
    BY <2>1, FS_RemoveElement
  <2> QED
    BY <1>0, <2>1, <2>2, <2>3
<1>4. ASSUME NEW r \in Requests, Demote(r)
      PROVE  TypeOK' /\ IsFiniteSet(items')
  BY <1>0, <1>4, DecayTypes DEF Demote
<1> QED
  BY <1>1, <1>2, <1>3, <1>4, QueueSteps

\* They hold in every state.
LEMMA FiniteTypesInvariance == Spec => []FiniteTypes
<1>1. Init => FiniteTypes
  <2> SUFFICES ASSUME Init PROVE TypeOK /\ IsFiniteSet(items)
    BY DEF FiniteTypes
  <2>1. items = {} /\ IsFiniteSet(items)
    BY FS_EmptySet DEF Init
  <2> QED
    BY <2>1, QueueAssumption DEF Init, TypeOK, GetterState
<1> QED
  BY <1>1, TypeInductive, PTL DEF Spec

\* No step of a getter, the scheduler or a retry takes a variable out of its
\* type: no counter goes below zero, no entry is doubled, no put comes from
\* the future.
THEOREM TypeCorrect == Spec => []TypeOK
<1>1. FiniteTypes => TypeOK
  BY DEF FiniteTypes
<1> QED
  BY <1>1, FiniteTypesInvariance, PTL

-----------------------------------------------------------------------------
(* Wake-ups.                                                               *)

\* Every step keeps NoLostWakeUp: the event is cleared only with the last
\* entry, and a getter falls asleep only when it finds it cleared.
LEMMA WakeUpInductive == TypeOK /\ NoLostWakeUp /\ [Next]_vars => NoLostWakeUp'
<1> SUFFICES ASSUME TypeOK, NoLostWakeUp, [Next]_vars PROVE NoLostWakeUp'
  OBVIOUS
<1> USE DEF TypeOK, GetterState, NoLostWakeUp
<1>1. ASSUME WakesAll PROVE \A g \in Getters : getter'[g] # "waiting"
  BY <1>1 DEF WakesAll
<1>2. ASSUME NEW e \in items, Remove(e)
      PROVE  /\ items' # {} => notEmpty'
             /\ notEmpty' => notEmpty
  BY <1>2 DEF Remove
<1>3. ASSUME NEW r \in Requests, Put(r) \/ Demote(r)
      PROVE  NoLostWakeUp'
  BY <1>1, <1>3 DEF Put, Demote
<1>4. ASSUME NEW g \in Getters, Look(g)
      PROVE  NoLostWakeUp'
  BY <1>2, <1>4 DEF Look, Best, Of
<1>5. ASSUME NEW g \in Getters,
             GetSleeps(g) \/ GetAtOnce(g) \/ GetResumes(g) \/ GetCancelled(g)
      PROVE  NoLostWakeUp'
  BY <1>4, <1>5 DEF GetSleeps, GetAtOnce, GetResumes, GetCancelled
<1>6. ASSUME NEW x \in SUBSET APIs, PeekAndPop(x)
      PROVE  NoLostWakeUp'
  BY <1>2, <1>6 DEF PeekAndPop, Best, Of
<1>7. CASE Shutdown
  BY <1>1, <1>7 DEF Shutdown
<1>8. CASE Tick \/ UNCHANGED vars
  BY <1>8 DEF Tick, vars
<1> QED
  BY <1>3, <1>5, <1>6, <1>7, <1>8 DEF Next

\* The event of the queue (queue.py:95-107, 171-177) never leaves a task
\* asleep in get() while there is an entry, however many tasks wait there,
\* are cancelled, or lose the entry to another.
THEOREM NoWakeUpIsLost == Spec => []NoLostWakeUp
<1>1. Init => NoLostWakeUp
  BY DEF Init, NoLostWakeUp
<1> QED
  BY <1>1, WakeUpInductive, TypeCorrect, PTL DEF Spec

-----------------------------------------------------------------------------
(* Depth counters.                                                         *)

At(p) == {e \in items : prio[e.req] = p}

\* What is selected from the heap changes by the entry that comes or goes.
LEMMA Selections ==
  ASSUME FiniteTypes, NEW a \in APIs, NEW p \in Priority
  PROVE  /\ IsFiniteSet(Of({a})) /\ Cardinality(Of({a})) \in Nat
         /\ IsFiniteSet(At(p)) /\ Cardinality(At(p)) \in Nat
<1>1. Of({a}) \in SUBSET items /\ At(p) \in SUBSET items
  BY DEF Of, At
<1> QED
  BY <1>1, FS_Subset, FS_CardinalityType DEF FiniteTypes

\* An entry more is counted under its API and its priority.
LEMMA PutCounts ==
  ASSUME FiniteTypes, DepthsAccurate, NEW r \in Requests, Put(r)
  PROVE  DepthsAccurate'
<1> USE QueueAssumption DEF TypeOK, FiniteTypes, Item
<1> DEFINE new == [req |-> r, at |-> now, seq |-> counter]
<1>1. /\ items' = items \cup {new} /\ new \notin items /\ prio' = prio
      /\ perApi' = [perApi EXCEPT ![Api[r]] = @ + 1]
      /\ perPriority' = [perPriority EXCEPT ![prio[r]] = @ + 1]
  BY DEF Put, Queued
<1>2. ASSUME NEW a \in APIs PROVE perApi'[a] = Cardinality(Of({a}))'
  <2>1. CASE Api[r] = a
    <3>1. Of({a})' = Of({a}) \cup {new} /\ new \notin Of({a})
      BY <1>1, <2>1 DEF Of
    <3>2. Cardinality(Of({a}) \cup {new}) = Cardinality(Of({a})) + 1
      BY <3>1, Selections, FS_AddElement
    <3> QED
      BY <1>1, <2>1, <3>1, <3>2 DEF DepthsAccurate
  <2>2. CASE Api[r] # a
    <3>1. Of({a})' = Of({a})
      BY <1>1, <2>2 DEF Of
    <3> QED
      BY <1>1, <2>2, <3>1 DEF DepthsAccurate
  <2> QED
    BY <2>1, <2>2
<1>3. ASSUME NEW p \in Priority PROVE perPriority'[p] = Cardinality(At(p))'
  <2>1. CASE prio[r] = p
    <3>1. At(p)' = At(p) \cup {new} /\ new \notin At(p)
      BY <1>1, <2>1 DEF At
    <3>2. Cardinality(At(p) \cup {new}) = Cardinality(At(p)) + 1
      BY <3>1, Selections, FS_AddElement
    <3> QED
      BY <1>1, <2>1, <3>1, <3>2 DEF DepthsAccurate, At
  <2>2. CASE prio[r] # p
    <3>1. At(p)' = At(p)
      BY <1>1, <2>2 DEF At
    <3> QED
      BY <1>1, <2>2, <3>1 DEF DepthsAccurate, At
  <2> QED
    BY <2>1, <2>2
<1> QED
  BY <1>2, <1>3 DEF DepthsAccurate, At

\* An entry less is taken off the counters that counted it: max(0, ...) never
\* has to correct them.
LEMMA RemoveCounts ==
  ASSUME FiniteTypes, DepthsAccurate, NEW e \in items, Removes(e)
  PROVE  DepthsAccurate'
<1> USE QueueAssumption DEF TypeOK, FiniteTypes, Item
<1>1. /\ items' = items \ {e} /\ prio' = prio
      /\ perApi' = [perApi EXCEPT ![Api[e.req]] = OneLess(@)]
      /\ perPriority' = [perPriority EXCEPT ![prio[e.req]] = OneLess(@)]
  BY DEF Removes, Remove
<1>2. ASSUME NEW a \in APIs PROVE perApi'[a] = Cardinality(Of({a}))'
  <2>1. CASE Api[e.req] = a
    <3>1. Of({a})' = Of({a}) \ {e} /\ e \in Of({a})
      BY <1>1, <2>1 DEF Of
    <3>2. /\ Cardinality(Of({a}) \ {e}) = Cardinality(Of({a})) - 1
          /\ Cardinality(Of({a})) # 0
      BY <3>1, Selections, FS_RemoveElement, FS_EmptySet
    <3>3. perApi[a] = Cardinality(Of({a})) /\ Cardinality(Of({a})) \in Nat
      BY Selections DEF DepthsAccurate
    <3>4. perApi'[a] = perApi[a] - 1
      BY <1>1, <2>1, <3>2, <3>3 DEF OneLess
    <3> QED
      BY <3>1, <3>2, <3>3, <3>4
  <2>2. CASE Api[e.req] # a
    <3>1. Of({a})' = Of({a})
      BY <1>1, <2>2 DEF Of
    <3> QED
      BY <1>1, <2>2, <3>1 DEF DepthsAccurate
  <2> QED
    BY <2>1, <2>2
<1>3. ASSUME NEW p \in Priority PROVE perPriority'[p] = Cardinality(At(p))'
  <2>1. CASE prio[e.req] = p
    <3>1. At(p)' = At(p) \ {e} /\ e \in At(p)
      BY <1>1, <2>1 DEF At
    <3>2. /\ Cardinality(At(p) \ {e}) = Cardinality(At(p)) - 1
          /\ Cardinality(At(p)) # 0
      BY <3>1, Selections, FS_RemoveElement, FS_EmptySet
    <3>3. perPriority[p] = Cardinality(At(p)) /\ Cardinality(At(p)) \in Nat
      <4>1. Api[e.req] \in APIs
        OBVIOUS
      <4> QED
        BY <4>1, Selections DEF DepthsAccurate, At
    <3>4. perPriority'[p] = perPriority[p] - 1
      BY <1>1, <2>1, <3>2, <3>3 DEF OneLess
    <3> QED
      BY <3>1, <3>2, <3>3, <3>4
  <2>2. CASE prio[e.req] # p
    <3>1. At(p)' = At(p)
      BY <1>1, <2>2 DEF At
    <3> QED
      BY <1>1, <2>2, <3>1 DEF DepthsAccurate, At
  <2> QED
    BY <2>1, <2>2
<1> QED
  BY <1>2, <1>3 DEF DepthsAccurate, At

\* Every step keeps the counters accurate.
LEMMA DepthsInductive == FiniteTypes /\ DepthsAccurate /\ [Next]_vars => DepthsAccurate'
<1> SUFFICES ASSUME FiniteTypes, DepthsAccurate, [Next]_vars PROVE DepthsAccurate'
  OBVIOUS
<1>1. CASE Keeps
  BY <1>1 DEF Keeps, heapVars, DepthsAccurate, Of
<1>2. ASSUME NEW r \in Requests, Demote(r)
      PROVE  DepthsAccurate'
  <2>1. /\ UNCHANGED <<items, perApi, perPriority>>
        /\ \A e \in items : prio'[e.req] = prio[e.req]
    BY <1>2 DEF Demote, Queued, FiniteTypes, TypeOK, Item
  <2>2. /\ \A a \in APIs : Of({a})' = Of({a})
        /\ \A p \in Priority : At(p)' = At(p)
    BY <2>1 DEF Of, At
  <2> QED
    BY <2>1, <2>2 DEF DepthsAccurate, At
<1> QED
  BY <1>1, <1>2, PutCounts, RemoveCounts, QueueSteps

\* The depths that stats() reports (queue.py:66-70) are the numbers of queued
\* entries per API and per priority, after every sequence of puts, pops and
\* retry demotions.
THEOREM DepthsAlwaysAccurate == Spec => []DepthsAccurate
<1>1. Init => DepthsAccurate
  <2> SUFFICES ASSUME Init PROVE DepthsAccurate
    OBVIOUS
  <2>1. /\ \A a \in APIs : Of({a}) = {} /\ perApi[a] = 0
        /\ \A p \in Priority : At(p) = {} /\ perPriority[p] = 0
    BY DEF Init, Of, At
  <2> QED
    BY <2>1, FS_EmptySet DEF DepthsAccurate, At
<1> QED
  BY <1>1, DepthsInductive, FiniteTypesInvariance, PTL DEF Spec

-----------------------------------------------------------------------------
(* Order.                                                                  *)

Deadline(e) == prio[e.req] + AgingFactor * e.at

\* Arithmetic that the solvers need stated.
LEMMA Products == \A x, y \in Int : x * y \in Int
OBVIOUS

LEMMA Distributes == \A f, n, t \in Int : f * (n - t) = f * n - f * t
OBVIOUS

LEMMA DeadlineTypes ==
  ASSUME TypeOK, NEW e \in items
  PROVE  /\ Deadline(e) \in Int /\ AgingFactor * now \in Int
         /\ AgingFactor * e.at \in Int
<1>1. /\ now \in Int /\ e.at \in Int /\ AgingFactor \in Int
      /\ prio[e.req] \in Int
  BY QueueAssumption DEF TypeOK, Item, Priority, HIGH, MEDIUM, LOW
<1>2. AgingFactor * now \in Int /\ AgingFactor * e.at \in Int
  BY <1>1, Products
<1> QED
  BY <1>1, <1>2 DEF Deadline

\* The effective priority is the deadline less the same amount for all.
LEMMA EffectiveIsDeadline ==
  ASSUME TypeOK, NEW e \in items
  PROVE  Effective(e) = Deadline(e) - AgingFactor * now
<1>1. /\ now \in Int /\ e.at \in Int /\ AgingFactor \in Int
      /\ prio[e.req] \in Int
  BY QueueAssumption DEF TypeOK, Item, Priority, HIGH, MEDIUM, LOW
<1>2. AgingFactor * (now - e.at) = AgingFactor * now - AgingFactor * e.at
  BY <1>1, Distributes
<1> QED
  BY <1>1, <1>2, DeadlineTypes DEF Effective, Deadline

\* Of the entries of some APIs the best has the earliest deadline.
LEMMA BestIsFirst ==
  ASSUME TypeOK, NEW apis \in SUBSET APIs, NEW e \in Best(apis),
         NEW f \in items, f # e, Api[f.req] \in apis
  PROVE  \/ Deadline(e) < Deadline(f)
         \/ Deadline(e) = Deadline(f) /\ e.seq < f.seq
<1>1. e \in items /\ Before(e, f)
  BY DEF Best, Of
<1>2. /\ Effective(e) = Deadline(e) - AgingFactor * now
      /\ Effective(f) = Deadline(f) - AgingFactor * now
  BY <1>1, EffectiveIsDeadline
<1>3. AgingFactor * now \in Int /\ Deadline(e) \in Int /\ Deadline(f) \in Int
  BY <1>1, DeadlineTypes
<1> QED
  BY <1>1, <1>2, <1>3 DEF Before

\* Arrival numbers are handed out in the order of the clock.
ArrivalOrder == \A e, f \in items : e.seq < f.seq => e.at <= f.at

LEMMA ArrivalInductive == TypeOK /\ ArrivalOrder /\ [Next]_vars => ArrivalOrder'
<1> SUFFICES ASSUME TypeOK, ArrivalOrder, [Next]_vars PROVE ArrivalOrder'
  OBVIOUS
<1>1. CASE items' \subseteq items
  BY <1>1 DEF ArrivalOrder
<1>2. ASSUME NEW r \in Requests, Put(r) PROVE ArrivalOrder'
  <2> DEFINE new == [req |-> r, at |-> now, seq |-> counter]
  <2>1. items' = items \cup {new}
    BY <1>2 DEF Put
  <2>2. \A e \in items : e.at <= now /\ e.seq < counter /\ e.seq \in Nat
    BY DEF TypeOK, Item
  <2>3. new.at = now /\ new.seq = counter /\ counter \in Nat /\ now \in Nat
    BY DEF TypeOK
  <2> HIDE DEF new
  <2> QED
    BY <2>1, <2>2, <2>3 DEF ArrivalOrder
<1> QED
  BY <1>1, <1>2, QueueSteps DEF Keeps, heapVars, Removes, Remove, Demote

LEMMA ArrivalInvariance == Spec => []ArrivalOrder
<1>1. Init => ArrivalOrder
  BY DEF Init, ArrivalOrder
<1> QED
  BY <1>1, ArrivalInductive, FiniteTypesInvariance, PTL DEF Spec, FiniteTypes

\* What leaves was the best of some APIs.
LEMMA LeavesAsBest ==
  ASSUME [Next]_vars, NEW e \in items \ items'
  PROVE  \E apis \in SUBSET APIs : e \in Best(apis)
<1>1. CASE Keeps
  BY <1>1 DEF Keeps, heapVars
<1>2. ASSUME NEW r \in Requests, Put(r) \/ Demote(r) PROVE items \subseteq items'
  BY <1>2 DEF Put, Demote
<1>3. ASSUME NEW x \in items, Removes(x) PROVE e = x
  BY <1>3 DEF Removes, Remove
<1> QED
  BY <1>1, <1>2, <1>3, QueueSteps

\* The best entry of some APIs comes before every later one of its priority
\* or a worse one, whatever the waiting times are: its position among the
\* entries and the priorities tell which entries it can be.
LEMMA BestByPosition ==
  ASSUME TypeOK, ArrivalOrder, NEW apis \in SUBSET APIs, NEW e \in Best(apis),
         NEW f \in items, Api[f.req] \in apis, f.seq < e.seq
  PROVE  prio[f.req] > prio[e.req]
<1>1. e \in items /\ f # e
  BY DEF Best, Of, TypeOK, Item
<1>2. e.seq \in Nat /\ f.seq \in Nat /\ f.at <= e.at
  BY <1>1 DEF ArrivalOrder, TypeOK, Item
<1>3. Deadline(e) < Deadline(f)
  BY <1>1, <1>2, BestIsFirst
<1>4. /\ e.at \in Nat /\ f.at \in Nat /\ AgingFactor \in Nat
      /\ prio[e.req] \in Int /\ prio[f.req] \in Int
  BY <1>1, QueueAssumption DEF TypeOK, Item, Priority, HIGH, MEDIUM, LOW
<1>5. AgingFactor * f.at <= AgingFactor * e.at
  <2>1. AgingFactor * (e.at - f.at) = AgingFactor * e.at - AgingFactor * f.at
    BY <1>4, Distributes
  <2>2. \A x, y \in Nat : x * y >= 0
    OBVIOUS
  <2>3. e.at - f.at \in Nat
    BY <1>2, <1>4
  <2>4. AgingFactor * (e.at - f.at) >= 0
    BY <1>4, <2>2, <2>3
  <2>5. AgingFactor * e.at \in Int /\ AgingFactor * f.at \in Int
    BY <1>4, Products
  <2> QED
    BY <2>1, <2>4, <2>5
<1>6. AgingFactor * e.at \in Int /\ AgingFactor * f.at \in Int
  BY <1>4, Products
<1> QED
  BY <1>3, <1>4, <1>5, <1>6 DEF Deadline

\* get and peek_pending serve a request before every later one of its API that
\* is no better (queue.py:72-74, 109-116): nothing but a worse priority makes
\* a request wait for one that came after it.
THEOREM OvertakenOnlyIfWorse == Spec => OvertakesOnlyWorse
<1>1. FiniteTypes /\ ArrivalOrder /\ [Next]_vars =>
        [\A e \in items \ items', f \in items \cap items' :
           Api[e.req] = Api[f.req] /\ f.seq < e.seq => prio[f.req] > prio[e.req]]_vars
  <2> SUFFICES ASSUME TypeOK, ArrivalOrder, [Next]_vars,
                      NEW e \in items \ items', NEW f \in items \cap items',
                      Api[e.req] = Api[f.req], f.seq < e.seq
               PROVE  prio[f.req] > prio[e.req]
    BY DEF FiniteTypes
  <2>1. PICK apis \in SUBSET APIs : e \in Best(apis)
    BY LeavesAsBest
  <2>2. Api[f.req] \in apis
    BY <2>1 DEF Best, Of
  <2> QED
    BY <2>1, <2>2, BestByPosition
<1> QED
  BY <1>1, ArrivalInvariance, FiniteTypesInvariance, PTL DEF Spec, OvertakesOnlyWorse

\* Aging is bounded waiting (queue.py:3-7): of two requests of one API the one
\* that has waited (LOW - HIGH) / aging_factor when the other is put leaves
\* first, by get() or by peek_pending and pop_specific, whatever came between.
THEOREM OvertakingIsBounded == Spec => BoundedOvertaking
<1>1. FiniteTypes /\ [Next]_vars =>
        [\A e \in items \ items', f \in items \cap items' :
           Api[e.req] = Api[f.req] => AgingFactor * (e.at - f.at) <= LOW - HIGH]_vars
  <2> SUFFICES ASSUME TypeOK, [Next]_vars,
                      NEW e \in items \ items', NEW f \in items \cap items',
                      Api[e.req] = Api[f.req]
               PROVE  AgingFactor * (e.at - f.at) <= LOW - HIGH
    BY DEF FiniteTypes
  <2>1. PICK apis \in SUBSET APIs : e \in Best(apis)
    BY LeavesAsBest
  <2>2. Api[f.req] \in apis
    BY <2>1 DEF Best, Of
  <2>3. Deadline(e) <= Deadline(f)
    BY <2>1, <2>2, BestIsFirst, DeadlineTypes
  <2>4. /\ prio[e.req] \in 0 .. 100 /\ prio[f.req] \in 0 .. 100
        /\ e.at \in Int /\ f.at \in Int /\ AgingFactor \in Int
    BY QueueAssumption DEF TypeOK, Item, Priority, HIGH, MEDIUM, LOW
  <2>5. AgingFactor * (e.at - f.at) = AgingFactor * e.at - AgingFactor * f.at
    BY <2>4, Distributes
  <2>6. AgingFactor * e.at \in Int /\ AgingFactor * f.at \in Int
    BY <2>4, Products
  <2>7. \A p, q \in 0 .. 100, x, y \in Int : p + x <= q + y => x - y <= 100
    OBVIOUS
  <2>8. AgingFactor * e.at - AgingFactor * f.at <= 100
    BY <2>3, <2>4, <2>6, <2>7 DEF Deadline
  <2> QED
    BY <2>5, <2>8 DEF LOW, HIGH
<1> QED
  BY <1>1, FiniteTypesInvariance, PTL DEF Spec, BoundedOvertaking

-----------------------------------------------------------------------------
(* Refinement.                                                             *)

\* The entry of DeadlineQueue that an item stands for.
Entry(e) == [req |-> e.req, deadline |-> prio[e.req] + AgingFactor * e.at, seq |-> e.seq]

LEMMA EntriesAre == Deadlines!vars = <<now, {Entry(e) : e \in items}, counter>>
BY DEF Deadlines!vars, Entry

\* A put is an Insert with the present priority of the request.
LEMMA PutInserts ==
  ASSUME TypeOK, NEW r \in Requests, Put(r)
  PROVE  \E p \in Priority : Deadlines!Insert(r, p)
<1> PICK p \in Priority : p = prio[r]
  BY DEF TypeOK
<1> DEFINE new == [req |-> r, at |-> now, seq |-> counter]
<1>1. /\ items' = items \cup {new} /\ prio' = prio
      /\ counter' = counter + 1 /\ now' = now
      /\ \A e \in items : e.req # r
  BY DEF Put, Queued
<1>2. {Entry(e) : e \in items}' = {Entry(e) : e \in items} \cup {Entry(new)}
  BY <1>1 DEF Entry
<1>3. Deadlines!Insert(r, p)
  BY <1>1, <1>2 DEF Deadlines!Insert, Entry
<1> QED
  BY <1>3

\* A pop of the best entry of some APIs is a Take of them.
LEMMA RemoveTakes ==
  ASSUME TypeOK, NEW apis \in SUBSET APIs, NEW e \in Best(apis), Removes(e)
  PROVE  Deadlines!Take(apis)
<1>1. /\ items' = items \ {e} /\ e \in items /\ Api[e.req] \in apis
      /\ UNCHANGED <<now, counter, prio>>
  BY DEF Removes, Remove, Best, Of
<1>2. \A f \in items : f # e => f.req # e.req
  BY <1>1 DEF TypeOK
<1>3. {Entry(f) : f \in items}' = {Entry(f) : f \in items} \ {Entry(e)}
  BY <1>1, <1>2 DEF Entry
<1>4. ASSUME NEW f \in items, Entry(f) # Entry(e), Api[f.req] \in apis
      PROVE  Deadlines!Precedes(Entry(e), Entry(f))
  <2>1. f # e
    BY <1>4
  <2> QED
    BY <1>4, <2>1, BestIsFirst DEF Deadlines!Precedes, Entry, Deadline
<1> QED
  BY <1>1, <1>3, <1>4 DEF Deadlines!Take, Entry

\* Every step of the queue is one of DeadlineQueue or none.
LEMMA StepsImplement == FiniteTypes /\ [Next]_vars => [Deadlines!Next]_(Deadlines!vars)
<1> SUFFICES ASSUME TypeOK, [Next]_vars
             PROVE  Deadlines!Next \/ UNCHANGED Deadlines!vars
  BY DEF FiniteTypes
<1>1. CASE Keeps
  <2>1. now' = now \/ now' = now + 1
    BY <1>1, ClockSteps
  <2>2. {Entry(e) : e \in items}' = {Entry(e) : e \in items} /\ counter' = counter
    BY <1>1 DEF Keeps, heapVars, Entry
  <2> QED
    BY <2>1, <2>2 DEF Deadlines!Next, Deadlines!Tick, Deadlines!vars, Entry
<1>2. ASSUME NEW r \in Requests, Demote(r)
      PROVE  UNCHANGED Deadlines!vars
  <2>1. /\ UNCHANGED <<now, items, counter>>
        /\ \A e \in items : prio'[e.req] = prio[e.req]
    BY <1>2 DEF Demote, Queued, TypeOK, Item
  <2>2. {Entry(e) : e \in items}' = {Entry(e) : e \in items}
    BY <2>1 DEF Entry
  <2> QED
    BY <2>1, <2>2 DEF Deadlines!vars, Entry
<1>3. ASSUME NEW r \in Requests, Put(r)
      PROVE  Deadlines!Next
  BY <1>3, PutInserts DEF Deadlines!Next
<1>4. ASSUME NEW apis \in SUBSET APIs, NEW e \in Best(apis), Removes(e)
      PROVE  Deadlines!Next
  BY <1>4, RemoveTakes DEF Deadlines!Next
<1> QED
  BY <1>1, <1>2, <1>3, <1>4, QueueSteps

\* Priority aging is a queue of fixed deadlines: re-evaluating effective
\* priorities at every pop (queue.py:72-74, 109-116, 133-152) never reorders
\* two entries, neither for get() nor for peek_pending with excluded APIs.
THEOREM QueueServesDeadlines == Spec => ImplementsDeadlines
<1>1. Init => Deadlines!Init
  BY DEF Init, Deadlines!Init
<1> QED
  BY <1>1, StepsImplement, FiniteTypesInvariance, PTL
     DEF Spec, ImplementsDeadlines, Deadlines!Spec
=============================================================================
