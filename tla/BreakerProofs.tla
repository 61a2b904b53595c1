---------------------------- MODULE BreakerProofs ----------------------------
(***************************************************************************)
(* Theorems about BreakerProbes for every number of calls and every        *)
(* threshold: types, the accounting of probe slots, and that the breaker   *)
(* implements BreakerAutomaton under any interleaving of late outcomes.    *)
(***************************************************************************)
EXTENDS BreakerProbes, BreakerLemmas, FiniteSetTheorems

-----------------------------------------------------------------------------
(* Types.                                                                  *)

\* Every step of a call, the clock or an operator keeps the types.
LEMMA TypeInductive == TypeOK /\ [Next]_vars => TypeOK'
<1> SUFFICES ASSUME TypeOK, [Next]_vars PROVE TypeOK'
  OBVIOUS
<1> USE DEF TypeOK, Flight
<1>1. /\ Reclassified \in [Calls -> Flight]
      /\ Restarted(late) \in Nat /\ Restarted(lost) \in Nat
  BY DEF Reclassified, Restarted
<1>2. ASSUME NEW c \in Calls, Admit(c)
      PROVE  TypeOK'
  <2>1. breaker' \in Breakers
    BY <1>2, BreakerTypes DEF Admit
  <2>2. flight' \in [Calls -> Flight]
    BY <1>1, <1>2 DEF Admit
  <2> QED
    BY <1>1, <1>2, <2>1, <2>2 DEF Admit
<1>3. ASSUME NEW c \in Calls, NEW o \in {"success", "failure"}, Reports(c, o)
      PROVE  /\ flight' \in [Calls -> Flight] /\ late' \in Nat
             /\ heard' \in [outcome : {"none", "success", "failure"}, turn : {0, 1}]
             /\ UNCHANGED <<lost, healthy>>
  BY <1>3 DEF Reports, Ends
<1>4. ASSUME NEW c \in Calls, Succeeds(c) \/ Fails(c)
      PROVE  TypeOK'
  BY <1>3, <1>4, BreakerTypes DEF Succeeds, Fails
<1>5. ASSUME NEW c \in Calls, Vanishes(c)
      PROVE  TypeOK'
  BY <1>5 DEF Vanishes, Ends
<1>6. CASE Look \/ PutBack
  BY <1>1, <1>6, BreakerTypes DEF Look, PutBack
<1>7. CASE Forced
  BY <1>7, BreakerTypes DEF Forced
<1>8. CASE RecoveryElapses
  BY <1>8, BreakerTypes DEF RecoveryElapses
<1>9. CASE Heals \/ UNCHANGED vars
  BY <1>9 DEF Heals, vars
<1> QED
  BY <1>2, <1>4, <1>5, <1>6, <1>7, <1>8, <1>9 DEF Next

\* No outcome, however late, takes a counter of the breaker below zero or
\* leaves it in a state it does not have.
THEOREM TypeCorrect == Spec => []TypeOK
<1>1. Init => TypeOK
  <2> SUFFICES ASSUME Init PROVE TypeOK
    OBVIOUS
  <2>1. breaker \in Breakers
    BY ClosedBreaker DEF Init
  <2> QED
    BY <2>1 DEF Init, TypeOK, Flight
<1> QED
  BY <1>1, TypeInductive, PTL DEF Spec

-----------------------------------------------------------------------------
(* Probe slots.                                                            *)

\* A set of probes that loses or gains one call.
LEMMA ProbingSize ==
  ASSUME NEW c \in Calls
  PROVE  /\ IsFiniteSet(Probing) /\ Cardinality(Probing) \in Nat
         /\ Cardinality(Probing \ {c}) \in Nat
         /\ Cardinality(Probing \ {c}) =
              Cardinality(Probing) - (IF c \in Probing THEN 1 ELSE 0)
         /\ Cardinality(Probing \ {c}) <= Cardinality(Probing)
         /\ c \notin Probing => Cardinality(Probing \cup {c}) = Cardinality(Probing) + 1
<1>1. IsFiniteSet(Probing)
  BY CallsAssumption, FS_Subset DEF Probing
<1>2. Cardinality(Probing) \in Nat
  BY <1>1, FS_CardinalityType
<1>3. Cardinality(Probing \ {c}) = Cardinality(Probing) - (IF c \in Probing THEN 1 ELSE 0)
  <2>1. CASE c \in Probing
    BY <1>1, <1>2, <2>1, FS_RemoveElement
  <2>2. CASE c \notin Probing
    BY <1>2, <2>2, Probing \ {c} = Probing
  <2> QED
    BY <2>1, <2>2
<1>4. Cardinality(Probing \ {c}) \in Nat
  BY <1>1, FS_CardinalityType, FS_RemoveElement
<1>5. c \notin Probing => Cardinality(Probing \cup {c}) = Cardinality(Probing) + 1
  BY <1>1, FS_AddElement
<1>6. Cardinality(Probing \ {c}) <= Cardinality(Probing)
  BY <1>2, <1>3
<1> QED
  BY <1>1, <1>2, <1>3, <1>4, <1>5, <1>6
\* The probe slots the breaker gives back and keeps.
LEMMA SlotArithmetic ==
  ASSUME NEW n \in Nat
  PROVE  ReleaseProbe(n) \in Nat /\ ReleaseProbe(n) <= n /\ n <= ReleaseProbe(n) + 1
BY DEF ReleaseProbe

\* The accounting of one episode: probes in flight and slots, each counted
\* but for the outcomes of earlier calls and the probes that were lost.
Accounted(inFlight, slots, early, gone) ==
  inFlight <= slots + early /\ slots <= inFlight + gone

\* What a read of the state does to slots and probes: it starts an episode
\* without any, or nothing happens.
LEMMA EnteringSlots ==
  ASSUME TypeOK, ProbeSlots
  PROVE  LET b == Refresh(breaker)
             p == {c \in Calls : Reclassified[c] = "probe"}
         IN  /\ b \in Breakers /\ b.probes <= HalfOpenMaxProbes
             /\ b.state # "half_open" => b.probes = 0
             /\ p \subseteq Calls /\ Reclassified \in [Calls -> Flight]
             /\ Restarted(late) \in Nat /\ Restarted(lost) \in Nat
             /\ b.state = "half_open" =>
                  Accounted(Cardinality(p), b.probes, Restarted(late), Restarted(lost))
<1> DEFINE b == Refresh(breaker)
           p == {c \in Calls : Reclassified[c] = "probe"}
<1>1. /\ b \in Breakers /\ p \subseteq Calls /\ Reclassified \in [Calls -> Flight]
      /\ Restarted(late) \in Nat /\ Restarted(lost) \in Nat
  BY BreakerTypes DEF TypeOK, Reclassified, Restarted, Flight
<1>2. CASE Entering
  <2>1. b.probes = 0 /\ p = {}
    BY <1>2 DEF Entering, Refresh, Reclassified, TypeOK, Breakers
  <2>2. Cardinality(p) = 0
    BY <2>1, FS_EmptySet
  <2>3. Restarted(late) = 0 /\ Restarted(lost) = 0
    BY <1>2 DEF Restarted
  <2> QED
    BY <1>1, <2>1, <2>2, <2>3, BreakerAssumption DEF Accounted
<1>3. CASE ~Entering
  <2>1. /\ b = breaker /\ p = Probing
        /\ Restarted(late) = late /\ Restarted(lost) = lost
    BY <1>3 DEF Entering, Refresh, Reclassified, Restarted, Probing, TypeOK, Breakers
  <2> HIDE DEF b, p
  <2>2. /\ breaker.probes <= HalfOpenMaxProbes
        /\ breaker.state # "half_open" => breaker.probes = 0
        /\ breaker.state = "half_open" =>
             Accounted(Cardinality(Probing), breaker.probes, late, lost)
    BY DEF ProbeSlots, Accounted
  <2>3. /\ b \in Breakers /\ p \subseteq Calls /\ Reclassified \in [Calls -> Flight]
        /\ Restarted(late) \in Nat /\ Restarted(lost) \in Nat
    BY <1>1
  <2> QED
    BY <2>1, <2>2, <2>3 DEF b, p
<1> QED
  BY <1>2, <1>3

\* Where allow() says yes it takes a slot in HALF_OPEN, and there was one
\* (breaker.py:76-78).
LEMMA SlotTaken ==
  ASSUME NEW b \in Breakers, Allows(b)
  PROVE  LET c == Refresh(b)
         IN  \/ c.state # "half_open" /\ Allow(b) = c
             \/ /\ c.state = "half_open" /\ c.probes < HalfOpenMaxProbes
                /\ Allow(b).state = "half_open" /\ Allow(b).probes = c.probes + 1
<1> DEFINE c == Refresh(b)
<1>1. c \in Breakers
  BY BreakerTypes
<1>2. \/ c.state # "half_open" /\ Allow(b) = c
      \/ /\ c.state = "half_open" /\ c.probes < HalfOpenMaxProbes
         /\ Allow(b) = [c EXCEPT !.probes = @ + 1]
  BY DEF Allow, Allows
<1> HIDE DEF c
<1>3. [c EXCEPT !.probes = @ + 1].state = c.state
      /\ [c EXCEPT !.probes = @ + 1].probes = c.probes + 1
  BY <1>1 DEF Breakers
<1> QED
  BY <1>2, <1>3 DEF c

\* An admitted probe takes one slot and there was one (allow, breaker.py:76-78).
LEMMA AdmitSlots ==
  ASSUME TypeOK, ProbeSlots, NEW c \in Calls, Admit(c)
  PROVE  ProbeSlots'
<1> DEFINE b == Refresh(breaker)
           p == {d \in Calls : Reclassified[d] = "probe"}
<1>1. /\ b \in Breakers /\ p \subseteq Calls /\ b.probes \in Nat
      /\ b.probes <= HalfOpenMaxProbes
      /\ b.state # "half_open" => b.probes = 0
      /\ b.state = "half_open" =>
           Accounted(Cardinality(p), b.probes, Restarted(late), Restarted(lost))
  BY EnteringSlots DEF Breakers
<1>2. late' = Restarted(late) /\ lost' = Restarted(lost)
  BY DEF Admit
<1>3. breaker \in Breakers /\ Allows(breaker) /\ breaker' = Allow(breaker)
  BY DEF TypeOK, Admit
<1>4. CASE b.state # "half_open" /\ breaker' = b
  BY <1>1, <1>4 DEF ProbeSlots
<1>5. CASE /\ b.state = "half_open" /\ b.probes < HalfOpenMaxProbes
           /\ breaker'.state = "half_open" /\ breaker'.probes = b.probes + 1
  <2>1. flight[c] = "idle" /\ flight' = [Reclassified EXCEPT ![c] = "probe"]
    BY <1>5 DEF Admit
  <2>2. Reclassified \in [Calls -> Flight] /\ Reclassified[c] = "idle"
    BY <2>1, EnteringSlots DEF Reclassified, TypeOK
  <2>3. Probing' = p \cup {c} /\ c \notin p
    BY <2>1, <2>2 DEF Probing
  <2>4. IsFiniteSet(p)
    BY <1>1, CallsAssumption, FS_Subset
  <2>5. Cardinality(p) \in Nat /\ Cardinality(Probing') = Cardinality(p) + 1
    BY <2>3, <2>4, FS_CardinalityType, FS_AddElement
  <2>6. Restarted(late) \in Nat /\ Restarted(lost) \in Nat
    BY EnteringSlots
  <2> HIDE DEF b, p
  <2>7. /\ Cardinality(Probing') <= breaker'.probes + late'
        /\ breaker'.probes <= Cardinality(Probing') + lost'
    BY <1>1, <1>2, <1>5, <2>5, <2>6 DEF Accounted
  <2>8. breaker'.probes <= HalfOpenMaxProbes
    BY <1>1, <1>5, BreakerAssumption
  <2> QED
    BY <1>5, <2>7, <2>8 DEF ProbeSlots
<1> QED
  BY <1>3, <1>4, <1>5, SlotTaken

\* Reading the state starts an episode without probes or changes nothing.
LEMMA LookSlots ==
  ASSUME TypeOK, ProbeSlots, Look
  PROVE  ProbeSlots'
<1>1. /\ breaker' = Refresh(breaker)
      /\ late' = Restarted(late) /\ lost' = Restarted(lost)
      /\ Probing' = {c \in Calls : Reclassified[c] = "probe"}
  BY DEF Look, Probing
<1> QED
  BY <1>1, EnteringSlots DEF ProbeSlots, Accounted

\* An admission that is put back takes a slot for a probe that never flies.
LEMMA PutBackSlots ==
  ASSUME TypeOK, ProbeSlots, PutBack
  PROVE  ProbeSlots'
<1> DEFINE b == Refresh(breaker)
           p == {c \in Calls : Reclassified[c] = "probe"}
<1>1. /\ b \in Breakers /\ p \subseteq Calls /\ b.probes \in Nat
      /\ b.probes <= HalfOpenMaxProbes
      /\ b.state # "half_open" => b.probes = 0
      /\ b.state = "half_open" =>
           Accounted(Cardinality(p), b.probes, Restarted(late), Restarted(lost))
  BY EnteringSlots DEF Breakers
<1>2. /\ late' = Restarted(late) /\ Probing' = p
      /\ lost' = Restarted(lost) + (IF breaker'.state = "half_open" THEN 1 ELSE 0)
  BY DEF PutBack, Probing
<1>3. breaker \in Breakers /\ Allows(breaker) /\ breaker' = Allow(breaker)
  BY DEF TypeOK, PutBack
<1>4. CASE b.state # "half_open" /\ breaker' = b
  BY <1>1, <1>4 DEF ProbeSlots
<1>5. CASE /\ b.state = "half_open" /\ b.probes < HalfOpenMaxProbes
           /\ breaker'.state = "half_open" /\ breaker'.probes = b.probes + 1
  <2>1. IsFiniteSet(p)
    BY <1>1, CallsAssumption, FS_Subset
  <2>2. Cardinality(p) \in Nat
    BY <2>1, FS_CardinalityType
  <2>3. Restarted(late) \in Nat /\ Restarted(lost) \in Nat
    BY EnteringSlots
  <2> HIDE DEF b, p
  <2>4. /\ Cardinality(Probing') <= breaker'.probes + late'
        /\ breaker'.probes <= Cardinality(Probing') + lost'
    BY <1>1, <1>2, <1>5, <2>2, <2>3 DEF Accounted
  <2>5. breaker'.probes <= HalfOpenMaxProbes
    BY <1>1, <1>5, BreakerAssumption
  <2> QED
    BY <1>5, <2>4, <2>5 DEF ProbeSlots
<1> QED
  BY <1>3, <1>4, <1>5, SlotTaken

\* A success gives one slot back: the probe's own, or one that `late' counts.
LEMMA SucceedsSlots ==
  ASSUME TypeOK, ProbeSlots, NEW c \in Calls, Succeeds(c)
  PROVE  ProbeSlots'
<1> USE DEF TypeOK
<1>1. flight' = [flight EXCEPT ![c] = "idle"] /\ flight[c] # "idle"
  BY DEF Succeeds, Reports, Ends
<1>2. Probing' = Probing \ {c}
  BY <1>1 DEF Probing
<1>3. CASE breaker.state # "half_open"
  <2>1. breaker' = [breaker EXCEPT !.failures = 0]
    BY <1>3 DEF Succeeds, OnSuccess
  <2> QED
    BY <1>3, <2>1 DEF ProbeSlots, Breakers
<1>4. CASE breaker.state = "half_open" /\ breaker.successes + 1 >= SuccessThreshold
  <2>1. breaker' = ResetToClosed
    BY <1>4 DEF Succeeds, OnSuccess
  <2> QED
    BY <2>1, BreakerAssumption DEF ProbeSlots, ResetToClosed
<1>5. CASE breaker.state = "half_open" /\ ~(breaker.successes + 1 >= SuccessThreshold)
  <2> DEFINE n == ReleaseProbe(breaker.probes)  k == breaker.successes + 1
  <2>1. breaker' = [breaker EXCEPT !.probes = n, !.successes = k]
    BY <1>5 DEF Succeeds, OnSuccess
  <2>2. breaker.probes \in Nat
    BY DEF Breakers
  <2>3. n \in Nat /\ n <= breaker.probes /\ breaker.probes <= n + 1
    BY <2>2, SlotArithmetic
  <2> HIDE DEF n, k
  <2>4. breaker'.probes = n /\ breaker'.state = "half_open"
    BY <1>5, <2>1 DEF Breakers
  <2>5. n <= HalfOpenMaxProbes
    BY <2>2, <2>3, BreakerAssumption DEF ProbeSlots
  <2>6. /\ Cardinality(Probing) <= breaker.probes + late
        /\ breaker.probes <= Cardinality(Probing) + lost
    BY <1>5 DEF ProbeSlots
  <2>7. late' = (IF flight[c] = "early" THEN late + 1 ELSE late) /\ lost' = lost
    BY <1>5 DEF Succeeds, Reports
  <2>8. c \notin Probing => flight[c] = "early"
    BY <1>1 DEF Probing, Flight
  <2>9. c \in Probing => flight[c] # "early"
    BY DEF Probing
  <2>10. Cardinality(Probing') <= n + late' /\ n <= Cardinality(Probing') + lost'
    <3>1. /\ Cardinality(Probing) \in Nat /\ Cardinality(Probing') \in Nat
          /\ Cardinality(Probing') = Cardinality(Probing) - (IF c \in Probing THEN 1 ELSE 0)
      BY <1>2, ProbingSize
    <3>2. late' = late + (IF c \in Probing THEN 0 ELSE 1)
      BY <2>7, <2>8, <2>9
    <3>3. Cardinality(Probing') <= n + late'
      BY <2>2, <2>3, <2>6, <3>1, <3>2
    <3>4. n <= Cardinality(Probing') + lost'
      <4>1. n = IF breaker.probes = 0 THEN 0 ELSE breaker.probes - 1
        BY DEF n, ReleaseProbe
      <4> QED
        BY <2>2, <2>6, <2>7, <3>1, <4>1
    <3> QED
      BY <3>3, <3>4
  <2> QED
    BY <2>4, <2>5, <2>10 DEF ProbeSlots
<1> QED
  BY <1>3, <1>4, <1>5

\* A failure opens the circuit, where there are no slots, or leaves them alone.
LEMMA FailsSlots ==
  ASSUME TypeOK, ProbeSlots, NEW c \in Calls, Fails(c)
  PROVE  ProbeSlots'
<1> DEFINE k == breaker.failures + 1
<1>1. \/ breaker' = Trip
      \/ breaker.state # "half_open" /\ breaker' = [breaker EXCEPT !.failures = k, !.successes = 0]
  BY DEF Fails, OnFailure
<1> HIDE DEF k
<1>2. CASE breaker' = Trip
  BY <1>2, BreakerAssumption DEF ProbeSlots, Trip, ResetToClosed
<1>3. CASE breaker.state # "half_open" /\ breaker' = [breaker EXCEPT !.failures = k, !.successes = 0]
  BY <1>3 DEF ProbeSlots, TypeOK, Breakers
<1> QED
  BY <1>1, <1>2, <1>3

\* Every step keeps the accounting of slots.
LEMMA SlotsInductive == TypeOK /\ ProbeSlots /\ [Next]_vars => ProbeSlots'
<1> SUFFICES ASSUME TypeOK, ProbeSlots, [Next]_vars PROVE ProbeSlots'
  OBVIOUS
<1>1. ASSUME NEW c \in Calls, Vanishes(c)
      PROVE  ProbeSlots'
  <2>1. /\ Probing' = Probing \ {c} /\ UNCHANGED <<breaker, late>>
        /\ lost' = lost + (IF c \in Probing THEN 1 ELSE 0)
    BY <1>1 DEF Vanishes, Ends, Probing, TypeOK
  <2>2. /\ Cardinality(Probing) \in Nat /\ Cardinality(Probing') \in Nat
        /\ Cardinality(Probing') = Cardinality(Probing) - (IF c \in Probing THEN 1 ELSE 0)
    BY <2>1, ProbingSize
  <2>3. breaker.probes \in Nat /\ late \in Nat /\ lost \in Nat
    BY DEF TypeOK, Breakers
  <2> QED
    BY <2>1, <2>2, <2>3 DEF ProbeSlots
<1>2. CASE Forced
  BY <1>2, BreakerAssumption DEF Forced, ProbeSlots, Trip, ResetToClosed
<1>3. CASE RecoveryElapses
  <2>1. /\ breaker'.state = breaker.state /\ breaker'.probes = breaker.probes
        /\ flight' = flight /\ late' = late /\ lost' = lost
    BY <1>3 DEF RecoveryElapses, Elapse, TypeOK, Breakers
  <2> QED
    BY <2>1 DEF ProbeSlots, Probing
<1>4. CASE Heals \/ UNCHANGED vars
  BY <1>4 DEF Heals, vars, ProbeSlots, Probing
<1> QED
  BY <1>1, <1>2, <1>3, <1>4, AdmitSlots, LookSlots, PutBackSlots, SucceedsSlots, FailsSlots
     DEF Next

\* The breaker never counts more probes than it may admit and none outside
\* HALF_OPEN.  A probe in flight has a slot unless a late outcome gave it away,
\* and a slot has a probe in flight unless one was lost: max(0, n - 1) hides no
\* other mistake (breaker.py:68-99).
THEOREM SlotsAccounted == Spec => []ProbeSlots
<1>1. Init => ProbeSlots
  BY BreakerAssumption DEF Init, ProbeSlots, ResetToClosed
<1> QED
  BY <1>1, SlotsInductive, TypeCorrect, PTL DEF Spec
-----------------------------------------------------------------------------
(* Refinement of the documented automaton.                                 *)

\* The abstract state of a breaker record.
Streak(b) == CASE b.state = "closed"    -> b.failures
               [] b.state = "half_open" -> b.successes
               [] b.state = "open"      -> 0

\* The state and streak a closed or tripped breaker, a read, a success and a
\* failure lead to, as the automaton counts them.
LEMMA AbstractOperations ==
  ASSUME NEW b \in Breakers
  PROVE  /\ Streak(ResetToClosed) = 0 /\ Streak(Trip) = 0
         /\ \/ Refresh(b) = b
            \/ b.state = "open" /\ Refresh(b).state = "half_open" /\ Streak(Refresh(b)) = 0
         /\ Allow(b).state = Refresh(b).state /\ Streak(Allow(b)) = Streak(Refresh(b))
         /\ Elapse(b).state = b.state /\ Streak(Elapse(b)) = Streak(b)
<1>1. Streak(ResetToClosed) = 0 /\ Streak(Trip) = 0
  BY DEF Streak, ResetToClosed, Trip
<1>2. \/ Refresh(b) = b
      \/ b.state = "open" /\ Refresh(b).state = "half_open" /\ Streak(Refresh(b)) = 0
  BY DEF Refresh, Streak, Breakers
<1>3. \A c \in Breakers : /\ [c EXCEPT !.probes = @ + 1].state = c.state
                          /\ Streak([c EXCEPT !.probes = @ + 1]) = Streak(c)
  BY DEF Breakers, Streak
<1>4. Allow(b).state = Refresh(b).state /\ Streak(Allow(b)) = Streak(Refresh(b))
  <2>1. Refresh(b) \in Breakers
    BY BreakerTypes
  <2> QED
    BY <1>3, <2>1 DEF Allow
<1>5. Elapse(b).state = b.state /\ Streak(Elapse(b)) = Streak(b)
  BY DEF Elapse, Breakers, Streak
<1> QED
  BY <1>1, <1>2, <1>4, <1>5

\* Where on_success leads, as the automaton counts.
LEMMA SuccessMoves ==
  ASSUME NEW b \in Breakers
  PROVE  LET c == OnSuccess(b)
         IN  \/ b.state = "closed" /\ c.state = "closed" /\ Streak(c) = 0
             \/ /\ b.state = "half_open"
                /\ IF Streak(b) + 1 >= SuccessThreshold
                   THEN c.state = "closed" /\ Streak(c) = 0
                   ELSE c.state = "half_open" /\ Streak(c) = Streak(b) + 1
             \/ b.state = "open" /\ c.state = "open" /\ Streak(c) = Streak(b)
<1> DEFINE n == ReleaseProbe(b.probes)  k == b.successes + 1
<1>1. CASE b.state # "half_open"
  <2>1. OnSuccess(b) = [b EXCEPT !.failures = 0]
    BY <1>1 DEF OnSuccess
  <2> QED
    BY <1>1, <2>1 DEF Streak, Breakers, CircuitState
<1>2. CASE b.state = "half_open" /\ k >= SuccessThreshold
  <2>1. OnSuccess(b) = ResetToClosed
    BY <1>2 DEF OnSuccess
  <2> QED
    BY <1>2, <2>1 DEF Streak, ResetToClosed
<1>3. CASE b.state = "half_open" /\ ~(k >= SuccessThreshold)
  <2>1. OnSuccess(b) = [b EXCEPT !.probes = n, !.successes = k]
    BY <1>3 DEF OnSuccess
  <2>2. Streak(b) = b.successes
    BY <1>3 DEF Streak
  <2>3. Streak(OnSuccess(b)) = k /\ OnSuccess(b).state = "half_open"
    <3> HIDE DEF n, k
    <3> QED
      BY <1>3, <2>1 DEF Streak, Breakers
  <2> QED
    BY <1>3, <2>2, <2>3
<1> QED
  BY <1>1, <1>2, <1>3

\* Where on_failure leads, as the automaton counts.
LEMMA FailureMoves ==
  ASSUME NEW b \in Breakers
  PROVE  LET c == OnFailure(b)
         IN  \/ /\ b.state = "closed"
                /\ IF Streak(b) + 1 >= FailureThreshold
                   THEN c.state = "open" /\ Streak(c) = 0
                   ELSE c.state = "closed" /\ Streak(c) = Streak(b) + 1
             \/ b.state = "half_open" /\ c.state = "open" /\ Streak(c) = 0
             \/ b.state = "open" /\ c.state = "open" /\ Streak(c) = Streak(b)
<1> DEFINE k == b.failures + 1
<1>1. CASE b.state = "half_open" \/ k >= FailureThreshold
  <2>1. OnFailure(b) = Trip
    BY <1>1 DEF OnFailure
  <2>2. Trip.state = "open" /\ Streak(Trip) = 0
    BY DEF Trip, ResetToClosed, Streak
  <2> QED
    BY <1>1, <2>1, <2>2 DEF Streak, Breakers, CircuitState
<1>2. CASE ~(b.state = "half_open" \/ k >= FailureThreshold)
  <2>1. OnFailure(b) = [b EXCEPT !.failures = k, !.successes = 0]
    BY <1>2 DEF OnFailure
  <2>2. OnFailure(b).state = b.state /\ OnFailure(b).failures = k
    <3> HIDE DEF k
    <3> QED
      BY <2>1 DEF Breakers
  <2> QED
    BY <1>2, <2>2 DEF Streak, Breakers, CircuitState
<1> QED
  BY <1>1, <1>2

\* Every step of a breaker under concurrent calls is a step of the automaton
\* or leaves its state alone.
LEMMA StepRefines == TypeOK /\ [Next]_vars => [Automaton!Next]_(Automaton!vars)
<1> SUFFICES ASSUME TypeOK, [Next]_vars
             PROVE  Automaton!Next \/ UNCHANGED Automaton!vars
  BY DEF Automaton!vars
<1> USE DEF TypeOK
<1>0. /\ Streak(breaker) = CASE breaker.state = "closed"    -> breaker.failures
                             [] breaker.state = "half_open" -> breaker.successes
                             [] breaker.state = "open"      -> 0
      /\ Streak(breaker') = CASE breaker'.state = "closed"    -> breaker'.failures
                              [] breaker'.state = "half_open" -> breaker'.successes
                              [] breaker'.state = "open"      -> 0
  BY DEF Streak
<1>1. ASSUME breaker'.state = breaker.state, Streak(breaker') = Streak(breaker),
             heard' = heard
      PROVE  UNCHANGED Automaton!vars
  BY <1>0, <1>1 DEF Automaton!vars
<1>2. ASSUME breaker.state = "open", breaker'.state = "half_open", Streak(breaker') = 0,
             heard' = heard
      PROVE  Automaton!Recover
  BY <1>0, <1>2 DEF Automaton!Recover, Automaton!Moves
<1>3. CASE Look \/ PutBack \/ \E c \in Calls : Admit(c)
  <2>1. /\ heard' = heard /\ breaker'.state = Refresh(breaker).state
        /\ Streak(breaker') = Streak(Refresh(breaker))
    BY <1>3, AbstractOperations DEF Admit, Look, PutBack
  <2>2. CASE Refresh(breaker) = breaker
    BY <2>1, <2>2, <1>1
  <2>3. CASE /\ breaker.state = "open" /\ Refresh(breaker).state = "half_open"
             /\ Streak(Refresh(breaker)) = 0
    BY <2>1, <2>3, <1>2 DEF Automaton!Next
  <2> QED
    BY <2>2, <2>3, AbstractOperations
<1>4. ASSUME NEW c \in Calls, Succeeds(c)
      PROVE  Automaton!Success
  <2>1. breaker' = OnSuccess(breaker) /\ Automaton!Hears("success")
    BY <1>4 DEF Succeeds, Reports, Automaton!Hears
  <2> QED
    BY <1>0, <2>1, SuccessMoves DEF Automaton!Success, Automaton!Counts, Automaton!Moves
<1>5. ASSUME NEW c \in Calls, Fails(c)
      PROVE  Automaton!Failure
  <2>1. breaker' = OnFailure(breaker) /\ Automaton!Hears("failure")
    BY <1>5 DEF Fails, Reports, Automaton!Hears
  <2> QED
    BY <1>0, <2>1, FailureMoves DEF Automaton!Failure, Automaton!Counts, Automaton!Moves
<1>6. CASE Forced
  <2>1. /\ breaker'.state = "open" \/ breaker'.state = "closed"
        /\ Streak(breaker') = 0 /\ heard' = heard
    <3>1. ResetToClosed.state = "closed" /\ Trip.state = "open"
      BY DEF Trip, ResetToClosed
    <3>2. Streak(ResetToClosed) = 0 /\ Streak(Trip) = 0
      BY AbstractOperations
    <3>3. breaker' = Trip \/ breaker' = ResetToClosed
      BY <1>6 DEF Forced
    <3> QED
      BY <1>6, <3>1, <3>2, <3>3 DEF Forced
  <2> QED
    BY <1>0, <2>1 DEF Automaton!Next, Automaton!Forced, Automaton!Moves
<1>7. CASE RecoveryElapses
  BY <1>1, <1>7, AbstractOperations DEF RecoveryElapses
<1>8. CASE (\E c \in Calls : Vanishes(c)) \/ Heals \/ UNCHANGED vars
  BY <1>1, <1>8 DEF Vanishes, Heals, vars
<1> QED
  BY <1>3, <1>4, <1>5, <1>6, <1>7, <1>8 DEF Next, Automaton!Next

\* The breaker implements the state machine its docstring draws (breaker.py:
\* 3-8): no late, lost or repeated outcome takes it along another edge.
THEOREM BreakerImplementsAutomaton == Spec => ImplementsAutomaton
<1>1. Init => Automaton!Init
  BY DEF Init, ResetToClosed, Automaton!Init
<1> QED
  BY <1>1, StepRefines, TypeCorrect, PTL DEF Spec, ImplementsAutomaton, Automaton!Spec
=============================================================================
