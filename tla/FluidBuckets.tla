---------------------------- MODULE FluidBuckets ----------------------------
(***************************************************************************)
(* What the two-level rate limit promises: every bucket fills continuously *)
(* at the rate in force, up to its capacity, and a grant takes its cost    *)
(* from the global bucket and from one API's bucket together, or nothing   *)
(* from either.  Amounts are in units: a token is Unit of them.            *)
(***************************************************************************)
EXTENDS Naturals

CONSTANTS APIs, Global, Capacity

VARIABLES level, rate

vars == <<level, rate>>

Buckets == APIs \cup {Global}

Capped(b, x) == IF x <= Capacity[b] THEN x ELSE Capacity[b]

Init == level = Capacity /\ rate \in [Buckets -> Nat]

\* One unit of time goes by.
Tick ==
  /\ level' = [b \in Buckets |-> Capped(b, level[b] + rate[b])]
  /\ UNCHANGED rate

Grant(a, cost) ==
  /\ level[a] >= cost /\ level[Global] >= cost
  /\ level' = [b \in Buckets |-> IF b \in {a, Global} THEN level[b] - cost
                                                      ELSE level[b]]
  /\ UNCHANGED rate

\* The rate of an API's bucket changes, from now on.
SetRate(a) ==
  /\ rate' \in [Buckets -> Nat]
  /\ \A b \in Buckets \ {a} : rate'[b] = rate[b]
  /\ UNCHANGED level

Next ==
  \/ Tick
  \/ \E a \in APIs : SetRate(a)
  \/ \E a \in APIs, cost \in 1 .. Capacity[Global] : Grant(a, cost)

Spec == Init /\ [][Next]_vars
=============================================================================
