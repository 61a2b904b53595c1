------------------------- MODULE AggregatorBreakers -------------------------
(***************************************************************************)
(* The breaker of one API within the whole aggregator.  The loop reads it, *)
(* dispatch tasks ask it, and answers are reported to it while others are  *)
(* in flight (scheduler/scheduler.py); history variables record of every   *)
(* step what BreakerProbes knows of the calls.  They follow the step and   *)
(* never keep one from happening.                                          *)
(***************************************************************************)
EXTENDS Aggregator

CONSTANT Watched   \* any API

ASSUME WatchedAssumption == Watched \in APIs

VARIABLES flight,  \* of each request of the API: no call, a "probe" of this
                   \* HALF_OPEN episode, or a call admitted "early"
          late,    \* early outcomes reported in this HALF_OPEN episode
          lost,    \* its slots taken for a probe that never reports
          heard    \* the last outcome reported

breakerVars == <<vars, flight, late, lost, heard>>

WatchedCalls == {r \in Requests : Api[r] = Watched}

BreakersInit ==
  /\ Init
  /\ flight = [r \in WatchedCalls |-> "idle"]
  /\ late = 0 /\ lost = 0
  /\ heard = [outcome |-> "none", turn |-> 0]

-----------------------------------------------------------------------------
\* A step in which a HALF_OPEN episode begins.
Begins == breaker[Watched].state = "open" /\ breaker'[Watched].state = "half_open"

\* What is in flight after the step.
Flies ==
  flight' = [r \in WatchedCalls |->
               IF r \notin calling' THEN "idle"
               ELSE IF r \in calling THEN IF Begins THEN "early" ELSE flight[r]
               ELSE IF breaker'[Watched].state = "half_open" THEN "probe" ELSE "early"]

\* The step tells no breaker of an outcome; n slots of the episode are lost.
Unheard(n) ==
  /\ Flies
  /\ late' = IF Begins THEN 0 ELSE late
  /\ lost' = (IF Begins THEN 0 ELSE lost) + n
  /\ UNCHANGED heard

\* It tells the breaker of r's API how the call ended.
Heard(r, o) ==
  /\ Flies
  /\ IF Api[r] = Watched
     THEN /\ late' = IF breaker[Watched].state = "half_open" /\ flight[r] = "early"
                     THEN late + 1 ELSE late
          /\ heard' = [outcome |-> o, turn |-> 1 - heard.turn]
     ELSE UNCHANGED <<late, heard>>
  /\ UNCHANGED lost

Tells ==
  \E r \in Requests : \/ CallSucceeds(r) /\ Heard(r, "success")
                      \/ CallFailsUpstream(r) /\ Heard(r, "failure")

\* A put-back leaves the slot that allow() reserved taken.
PutsBack ==
  /\ DispatchPutsBack
  /\ Unheard(IF Api[Head(ready)] = Watched /\ breaker'[Watched].state = "half_open"
             THEN 1 ELSE 0)

\* So does a probe that ends with a 429 or a 4xx.
EndsUntold ==
  \E r \in Requests :
    /\ CallRateLimited(r) \/ CallRefused(r)
    /\ Unheard(IF r \in WatchedCalls /\ flight[r] = "probe" THEN 1 ELSE 0)

\* Every other step.
Silent ==
  \/ \E r \in Requests :
       Submit(r) \/ CancelOwner(r) \/ CleanupDedup(r) \/ ReplanPuts(r) \/ RetryPuts(r)
  \/ Start \/ StopBegin \/ LoopCancelled \/ StopFinish
  \/ Loop \/ DispatchDenied \/ DispatchCalls \/ DispatchDone
  \/ \E b \in Buckets : Refill(b)
  \/ \E a \in APIs : RecoveryElapses(a)

BreakersNext == Tells \/ PutsBack \/ EndsUntold \/ (Silent /\ Unheard(0))

BreakersSpec == BreakersInit /\ [][BreakersNext]_breakerVars

-----------------------------------------------------------------------------
Probes == INSTANCE BreakerProbes WITH
  breaker <- breaker[Watched],
  Calls   <- WatchedCalls,
  healthy <- FALSE

\* The calls BreakerProbes lets overlap are those the aggregator makes: each
\* is admitted once and reports once or never, to the breaker that admitted it,
\* through put-backs, denials, retries, cancellations and stop(), and a slot is
\* lost only where a dispatch is put back or ends with a 429 or a 4xx.
ImplementsProbes == Probes!Spec
=============================================================================
