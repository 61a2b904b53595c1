--------------------------- MODULE CircuitBreaker ---------------------------
(***************************************************************************)
(* The per-API circuit breaker, circuit_breaker/breaker.py, as operators   *)
(* on one record.  The breaker has no task of its own: the scheduler and   *)
(* its dispatch tasks call it, so the modules that compose it (Aggregator, *)
(* BreakerProbes) hold the record and decide who calls what when.          *)
(*                                                                         *)
(* Time is abstracted to one bit: `elapsed' says that recovery_timeout has *)
(* passed since _opened_at.  It matters in state OPEN only; the owner of   *)
(* the record sets it in an action of the environment.                     *)
(***************************************************************************)
EXTENDS Naturals

CONSTANTS FailureThreshold,   \* consecutive failures that open the circuit
          HalfOpenMaxProbes,  \* calls let through at once while HALF_OPEN
          SuccessThreshold    \* HALF_OPEN successes that close the circuit

ASSUME BreakerAssumption ==
  /\ FailureThreshold \in Nat
  /\ HalfOpenMaxProbes \in Nat
  /\ SuccessThreshold \in Nat

CircuitState == {"closed", "open", "half_open"}

Breakers == [state     : CircuitState,
             failures  : Nat,       \* _consec_failures
             successes : Nat,       \* _consec_successes
             probes    : Nat,       \* _probes_in_flight
             elapsed   : BOOLEAN]

ResetToClosed ==
  [state |-> "closed", failures |-> 0, successes |-> 0, probes |-> 0,
   elapsed |-> FALSE]

Trip == [ResetToClosed EXCEPT !.state = "open"]

-----------------------------------------------------------------------------
(* _maybe_transition_to_half_open, the side effect of reading `state' and  *)
(* of calling allow().                                                     *)
Refresh(b) ==
  IF b.state = "open" /\ b.elapsed
  THEN [b EXCEPT !.state = "half_open", !.probes = 0, !.successes = 0,
                 !.elapsed = FALSE]
  ELSE b

\* What allow() answers, and the record it leaves behind when it says yes.
Allows(b) ==
  LET c == Refresh(b)
  IN  \/ c.state = "closed"
      \/ c.state = "half_open" /\ c.probes < HalfOpenMaxProbes

AllowUncounted(b) == Refresh(b)                            \* mutant
Allow(b) ==
  LET c == Refresh(b)
  IN  IF c.state = "half_open" THEN [c EXCEPT !.probes = @ + 1] ELSE c

ReleaseUnclamped(n) == n - 1                               \* mutant
ReleaseNothing(n) == n                                     \* mutant
ReleaseProbe(n) == IF n = 0 THEN 0 ELSE n - 1   \* max(0, n - 1)

SuccessForgetsStreak(b) ==                                 \* mutant
  IF b.state # "half_open" THEN b
  ELSE IF b.successes + 1 >= SuccessThreshold THEN ResetToClosed
  ELSE [b EXCEPT !.probes = ReleaseProbe(@), !.successes = @ + 1]
OnSuccess(b) ==
  IF b.state # "half_open" THEN [b EXCEPT !.failures = 0]
  ELSE IF b.successes + 1 >= SuccessThreshold THEN ResetToClosed
  ELSE [b EXCEPT !.probes = ReleaseProbe(@), !.successes = @ + 1]

OnFailure(b) ==
  IF b.state = "half_open" \/ b.failures + 1 >= FailureThreshold THEN Trip
  ELSE [b EXCEPT !.failures = @ + 1, !.successes = 0]

\* recovery_timeout runs out while the circuit is OPEN (environment).
RecoveryDue(b) == b.state = "open" /\ ~b.elapsed
Elapse(b)      == [b EXCEPT !.elapsed = TRUE]
=============================================================================
