---------------------------- MODULE BreakerLemmas ----------------------------
(* Facts about the operators of CircuitBreaker, cited by the proofs about  *)
(* the modules that hold a breaker.                                        *)
EXTENDS CircuitBreaker, TLAPS

\* A new breaker is one (breaker.py:30-46).
LEMMA ClosedBreaker == ResetToClosed \in Breakers
BY DEF Breakers, CircuitState, ResetToClosed

\* Every operation of the breaker yields a breaker: no counter ever goes
\* below zero, whatever it is called on (breaker.py:61-114).
LEMMA BreakerTypes ==
  ASSUME NEW b \in Breakers
  PROVE  /\ ResetToClosed \in Breakers /\ Trip \in Breakers
         /\ Refresh(b) \in Breakers /\ Allow(b) \in Breakers
         /\ OnSuccess(b) \in Breakers /\ OnFailure(b) \in Breakers
         /\ Elapse(b) \in Breakers
<1>1. ResetToClosed \in Breakers /\ Trip \in Breakers
  BY DEF Breakers, CircuitState, ResetToClosed, Trip
<1>2. Refresh(b) \in Breakers
  BY DEF Refresh, Breakers, CircuitState
<1>3. \A c \in Breakers : [c EXCEPT !.probes = @ + 1] \in Breakers
  BY DEF Breakers
<1>4. Allow(b) \in Breakers
  BY <1>2, <1>3, Zenon DEF Allow
<1>5. ReleaseProbe(b.probes) \in Nat
  BY DEF ReleaseProbe, Breakers
<1>6. OnSuccess(b) \in Breakers
  <2>1. [b EXCEPT !.failures = 0] \in Breakers
    BY DEF Breakers
  <2>2. [b EXCEPT !.probes = ReleaseProbe(@), !.successes = @ + 1] \in Breakers
    <3>1. b.successes + 1 \in Nat
      BY DEF Breakers
    <3> DEFINE n == ReleaseProbe(b.probes)  m == b.successes + 1
    <3>2. n \in Nat /\ m \in Nat
      BY <3>1, <1>5
    <3> HIDE DEF n, m
    <3>3. [b EXCEPT !.probes = n, !.successes = m] \in Breakers
      BY <3>2 DEF Breakers
    <3> QED
      BY <3>3 DEF n, m
  <2> QED
    BY <1>1, <2>1, <2>2, Zenon DEF OnSuccess
<1>7. OnFailure(b) \in Breakers
  <2> DEFINE n == b.failures + 1
  <2>2. n \in Nat
    BY DEF Breakers
  <2>1. [b EXCEPT !.failures = n, !.successes = 0] \in Breakers
    <3> HIDE DEF n
    <3> QED
      BY <2>2 DEF Breakers
  <2> QED
    BY <1>1, <2>1, Zenon DEF OnFailure
<1>8. Elapse(b) \in Breakers
  BY DEF Elapse, Breakers
<1> QED
  BY <1>1, <1>2, <1>4, <1>6, <1>7, <1>8

\* The probe slots a breaker counts: no more than there are, none outside
\* HALF_OPEN.
SlotsInLimit(b) == b.probes <= HalfOpenMaxProbes /\ (b.state # "half_open" => b.probes = 0)

\* Every operation keeps them so, an admission because allow() said yes, and
\* an outcome whoever reports it (breaker.py:68-99).
LEMMA SlotsKept ==
  ASSUME NEW b \in Breakers, SlotsInLimit(b)
  PROVE  /\ SlotsInLimit(Refresh(b)) /\ SlotsInLimit(Elapse(b))
         /\ SlotsInLimit(OnSuccess(b)) /\ SlotsInLimit(OnFailure(b))
         /\ Allows(b) => SlotsInLimit(Allow(b))
<1>1. b.probes \in Nat /\ HalfOpenMaxProbes \in Nat
  BY BreakerAssumption DEF Breakers
<1>2. SlotsInLimit(ResetToClosed) /\ SlotsInLimit(Trip)
  BY <1>1 DEF SlotsInLimit, ResetToClosed, Trip
<1>3. SlotsInLimit(Refresh(b))
  BY <1>1 DEF SlotsInLimit, Refresh, Breakers
<1>4. SlotsInLimit(Elapse(b))
  BY DEF SlotsInLimit, Elapse, Breakers
<1>5. SlotsInLimit(OnSuccess(b))
  <2> DEFINE n == ReleaseProbe(b.probes)  m == b.successes + 1
  <2>1. n \in Nat /\ n <= HalfOpenMaxProbes
    BY <1>1 DEF ReleaseProbe, SlotsInLimit
  <2>2. \/ OnSuccess(b) = ResetToClosed
        \/ b.state # "half_open" /\ OnSuccess(b) = [b EXCEPT !.failures = 0]
        \/ b.state = "half_open" /\ OnSuccess(b) = [b EXCEPT !.probes = n, !.successes = m]
    BY DEF OnSuccess
  <2> HIDE DEF n, m
  <2> QED
    BY <1>2, <2>1, <2>2 DEF SlotsInLimit, Breakers
<1>6. SlotsInLimit(OnFailure(b))
  <2> DEFINE n == b.failures + 1
  <2>1. \/ OnFailure(b) = Trip
        \/ OnFailure(b) = [b EXCEPT !.failures = n, !.successes = 0]
    BY DEF OnFailure
  <2> HIDE DEF n
  <2> QED
    BY <1>2, <2>1 DEF SlotsInLimit, Breakers
<1>7. ASSUME Allows(b)
      PROVE  SlotsInLimit(Allow(b))
  <2> DEFINE c == Refresh(b)
  <2>1. c \in Breakers
    BY BreakerTypes
  <2>2. \/ c.state # "half_open" /\ Allow(b) = c
        \/ /\ c.state = "half_open" /\ c.probes < HalfOpenMaxProbes
           /\ Allow(b) = [c EXCEPT !.probes = @ + 1]
    BY <1>7 DEF Allow, Allows
  <2> HIDE DEF c
  <2>3. c.probes \in Nat
    BY <2>1 DEF Breakers
  <2>4. CASE c.state # "half_open" /\ Allow(b) = c
    BY <1>3, <2>4 DEF c
  <2>5. CASE /\ c.state = "half_open" /\ c.probes < HalfOpenMaxProbes
             /\ Allow(b) = [c EXCEPT !.probes = @ + 1]
    <3>1. Allow(b).state = "half_open" /\ Allow(b).probes = c.probes + 1
      BY <2>1, <2>5 DEF Breakers
    <3> QED
      BY <1>1, <2>3, <2>5, <3>1 DEF SlotsInLimit
  <2> QED
    BY <2>2, <2>4, <2>5
<1> QED
  BY <1>3, <1>4, <1>5, <1>6, <1>7
=============================================================================
