------------------------ MODULE MCAggregatorBreakers ------------------------
(* Two requests to one API for TLC, so that their calls overlap.           *)
EXTENDS AggregatorBreakers

CONSTANTS a, global   \* the API and the global bucket
CONSTANTS r1, r2      \* the requests

OneApi == {a}
SameApi == [r \in Requests |-> a]
OwnKey == [r \in Requests |-> IF r = r1 THEN 1 ELSE 2]
TwoKeys == {1, 2}

\* r1 is LOW and r2 HIGH: aging alone can put r1 first.
MixedPriority == [r \in Requests |-> IF r = r1 THEN LOW ELSE HIGH]

OneRetry  == [r \in Requests |-> 1]
PolicyOne == [x \in OneApi |-> 1]
OneToken  == [x \in OneApi \cup {global} |-> 1]
=============================================================================
