----------------------------- MODULE RetryPolicy -----------------------------
(***************************************************************************)
(* The part of retry/policy.py that the life cycle of a request depends    *)
(* on: how many retries it has, and the priority it is re-queued with.     *)
(* The length of the back-off is left out: a retry may come at any time.   *)
(***************************************************************************)
EXTENDS Naturals

CONSTANT PriorityDecay    \* RetryConfig.priority_decay

ASSUME DecayAssumption == PriorityDecay \in Nat

HIGH   == 0
MEDIUM == 50
LOW    == 100
Priority == {HIGH, MEDIUM, LOW}

\* min(request.max_retries, self._config.max_retries)
RetryLimit(requested, configured) ==
  IF requested <= configured THEN requested ELSE configured

Unsnapped(p) == p + PriorityDecay                         \* mutant

\* The new priority of a retried request, snapped to one of the three.
Decay(p) ==
  IF p + PriorityDecay <= HIGH THEN HIGH
  ELSE IF p + PriorityDecay >= LOW THEN LOW
  ELSE MEDIUM
=============================================================================
