----------------------------- MODULE TokenCounts -----------------------------
(***************************************************************************)
(* What the scheduler may rely on of the two-level rate limit: numbers of  *)
(* whole tokens that grow by themselves up to the capacity and shrink only *)
(* when somebody is granted that many, from the global bucket and from an  *)
(* API's together.  RateControl, with its clock and its fractions, and     *)
(* Aggregator, which knows neither, both implement it.                     *)
(***************************************************************************)
EXTENDS Naturals

CONSTANTS APIs, Global, Capacity   \* capacity in whole tokens

VARIABLE tokens

vars == <<tokens>>

Buckets == APIs \cup {Global}

Init == tokens = Capacity

Fill ==
  /\ tokens' \in [Buckets -> Nat]
  /\ \A b \in Buckets : tokens[b] <= tokens'[b] /\ tokens'[b] <= Capacity[b]

Take(a, n) ==
  /\ tokens[a] >= n /\ tokens[Global] >= n
  /\ tokens' = [b \in Buckets |-> IF b \in {a, Global} THEN tokens[b] - n
                                                       ELSE tokens[b]]

Next == Fill \/ \E a \in APIs, n \in 1 .. Capacity[Global] : Take(a, n)

Spec == Init /\ [][Next]_vars
=============================================================================
