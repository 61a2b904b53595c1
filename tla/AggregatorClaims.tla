-------------------------- MODULE AggregatorClaims --------------------------
(***************************************************************************)
(* What the documentation and comments of the repository say of the        *)
(* aggregator and its code does not do: TLC finds each of these violated.  *)
(***************************************************************************)
EXTENDS MCAggregator

\* scheduler.py:189, a dispatch that finds no token will "return the request
\* and try again later": while its future is unresolved the request is in the
\* queue again when the task ends.
PutBackReturns ==
  [][DispatchPutsBack /\ fut[Head(ready)] = "pending"
       => Head(ready) \in ToSet(queue')]_vars

\* ARCHITECTURE.md:119, "Identical request already in flight: Dedup layer
\* returns the existing future": a shared future belongs to a request that was
\* accepted.  One that was refused by a full queue leaves its future behind.
SharedIsInFlight ==
  \A r \in Requests :
    awaits[r] \notin {NoRequest, r} => awaits[awaits[r]] = awaits[r]

\* ARCHITECTURE.md:54, "The semaphore is held until the task completes, then
\* released": with no task left every worker permit is free.
PermitsComeBack ==
  phase = "down" /\ DispatchesGathered => permits = WorkerCount

\* ARCHITECTURE.md:117, of a HALF_OPEN circuit "Exactly half_open_max_probes
\* requests get through": slots that are all taken are taken by calls that
\* will report, not by a probe that got a 429, a 4xx or no token.
ProbesReport ==
  \A x \in APIs :
    breaker[x].state = "half_open" /\ breaker[x].probes = HalfOpenMaxProbes
      => \E r \in calling : Api[r] = x
=============================================================================
