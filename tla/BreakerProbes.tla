---------------------------- MODULE BreakerProbes ----------------------------
(***************************************************************************)
(* One circuit breaker under concurrent calls: calls admitted by allow()   *)
(* stay in flight for as long as they like and report on_success,          *)
(* on_failure or nothing at all (a 429 or a 4xx), possibly in a later      *)
(* state of the breaker than the one that admitted them.  Others are let   *)
(* through and never start.  AggregatorBreakers shows that this is how the *)
(* aggregator uses the breaker of every API.                               *)
(***************************************************************************)
EXTENDS CircuitBreaker, FiniteSets

CONSTANT Calls    \* bound: how many calls are in flight at once

ASSUME CallsAssumption == IsFiniteSet(Calls)

VARIABLES
  breaker,
  flight,    \* of each call slot: idle, "probe" of this HALF_OPEN episode,
             \* or "early", admitted before it
  late,      \* early outcomes reported in this HALF_OPEN episode (ghost)
  lost,      \* its slots taken for a probe that never reports (ghost)
  heard,     \* the last outcome reported (ghost)
  healthy    \* no call fails from now on (environment)

vars == <<breaker, flight, late, lost, heard, healthy>>

Flight == {"idle", "early", "probe"}

Init ==
  /\ breaker = ResetToClosed
  /\ flight = [c \in Calls |-> "idle"]
  /\ late = 0 /\ lost = 0
  /\ heard = [outcome |-> "none", turn |-> 0]
  /\ healthy = FALSE

-----------------------------------------------------------------------------
\* A HALF_OPEN episode begins: whoever is in flight was admitted before it.
Entering == Refresh(breaker).state # breaker.state

Reclassified ==
  IF Entering THEN [c \in Calls |-> IF flight[c] = "idle" THEN "idle" ELSE "early"]
  ELSE flight

\* The count n of something in this episode.
Restarted(n) == IF Entering THEN 0 ELSE n

\* allow() says yes.
Admit(c) ==
  /\ flight[c] = "idle"
  /\ Allows(breaker)
  /\ breaker' = Allow(breaker)
  /\ flight' = [Reclassified EXCEPT ![c] =
                  IF Refresh(breaker).state = "half_open" THEN "probe" ELSE "early"]
  /\ late' = Restarted(late) /\ lost' = Restarted(lost)
  /\ UNCHANGED <<heard, healthy>>

\* `state' is read, or allow() says no.
Look ==
  /\ breaker' = Refresh(breaker)
  /\ flight' = Reclassified
  /\ late' = Restarted(late) /\ lost' = Restarted(lost)
  /\ UNCHANGED <<heard, healthy>>

\* allow() says yes and the dispatch finds no token, however healthy the
\* upstream is: it is put back at once, and what allow() reserved stays so.
PutBack ==
  /\ Allows(breaker)
  /\ breaker' = Allow(breaker)
  /\ flight' = Reclassified
  /\ late' = Restarted(late)
  /\ lost' = Restarted(lost) + (IF breaker'.state = "half_open" THEN 1 ELSE 0)
  /\ UNCHANGED <<heard, healthy>>

Ends(c) == flight[c] # "idle" /\ flight' = [flight EXCEPT ![c] = "idle"]

Reports(c, o) ==
  /\ Ends(c)
  /\ late' = IF breaker.state = "half_open" /\ flight[c] = "early"
             THEN late + 1 ELSE late
  /\ heard' = [outcome |-> o, turn |-> 1 - heard.turn]
  /\ UNCHANGED <<lost, healthy>>

Succeeds(c) == Reports(c, "success") /\ breaker' = OnSuccess(breaker)

Fails(c) == ~healthy /\ Reports(c, "failure") /\ breaker' = OnFailure(breaker)

\* The dispatch ends, with a 429 or a 4xx, and the breaker is not told.
Vanishes(c) ==
  /\ Ends(c)
  /\ lost' = lost + (IF flight[c] = "probe" THEN 1 ELSE 0)
  /\ UNCHANGED <<breaker, late, heard, healthy>>

\* force_open and force_close, which nothing in the aggregator calls.
Forced ==
  /\ ~healthy
  /\ breaker' \in {Trip, ResetToClosed}
  /\ UNCHANGED <<flight, late, lost, heard, healthy>>

RecoveryElapses ==
  /\ RecoveryDue(breaker)
  /\ breaker' = Elapse(breaker)
  /\ UNCHANGED <<flight, late, lost, heard, healthy>>

Heals == ~healthy /\ healthy' = TRUE /\ UNCHANGED <<breaker, flight, late, lost, heard>>

Next ==
  \/ \E c \in Calls : Admit(c) \/ Succeeds(c) \/ Fails(c) \/ Vanishes(c)
  \/ Look \/ PutBack \/ Forced \/ RecoveryElapses \/ Heals

Spec == Init /\ [][Next]_vars

\* Requests keep coming and some of them find their tokens, every call ends
\* and a healthy upstream fails none, time passes.
FairSpec ==
  /\ Spec
  /\ WF_vars(\E c \in Calls : Admit(c)) /\ WF_vars(RecoveryElapses)
  /\ \A c \in Calls : WF_vars(Succeeds(c))

-----------------------------------------------------------------------------
(* Properties.                                                             *)

\* The breaker's counters stay natural numbers and its state one of the three,
\* whatever is reported when (the clamp in on_success and on_failure).
TypeOK ==
  /\ breaker \in Breakers
  /\ flight \in [Calls -> Flight]
  /\ late \in Nat /\ lost \in Nat
  /\ heard \in [outcome : {"none", "success", "failure"}, turn : {0, 1}]
  /\ healthy \in BOOLEAN

Probing == {c \in Calls : flight[c] = "probe"}

\* The slots the breaker counts: no more than HalfOpenMaxProbes, none outside
\* HALF_OPEN.  Every probe in flight has one unless the outcome of an earlier
\* call, reported in this episode, gave it back, so no other probe is extra;
\* and a slot without a probe in flight is one that was lost, so max(0, n - 1)
\* leaks none.
ProbeSlots ==
  /\ breaker.probes <= HalfOpenMaxProbes
  /\ breaker.state # "half_open" => breaker.probes = 0
  /\ breaker.state = "half_open" =>
       /\ Cardinality(Probing) <= breaker.probes + late
       /\ breaker.probes <= Cardinality(Probing) + lost

\* The breaker implements the documented automaton under any interleaving of
\* late outcomes: none of them is miscounted, none moves it by another edge.
Automaton == INSTANCE BreakerAutomaton WITH
  state  <- breaker.state,
  streak <- CASE breaker.state = "closed"    -> breaker.failures
              [] breaker.state = "half_open" -> breaker.successes
              [] breaker.state = "open"      -> 0

ImplementsAutomaton == Automaton!Spec

\* Every slot is taken, and as many were lost: a 429, a 4xx or a dispatch that
\* finds no token each cost one (probe_lost).
SlotsExhausted ==
  /\ breaker.state = "half_open"
  /\ breaker.probes = HalfOpenMaxProbes /\ lost >= HalfOpenMaxProbes

\* An open circuit whose upstream is healthy again closes, whatever calls were
\* in flight before it opened and although probes are put back or end without
\* a report at any time, unless these took every slot of an episode.
RecoversFromOpen ==
  healthy /\ breaker.state = "open" ~> breaker.state = "closed" \/ SlotsExhausted
=============================================================================
