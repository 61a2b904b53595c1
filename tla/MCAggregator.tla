---------------------------- MODULE MCAggregator ----------------------------
(* Small instances of Aggregator for TLC.                                  *)
EXTENDS Aggregator

CONSTANTS a, b, global   \* two APIs and the global bucket
CONSTANTS r1, r2, r3     \* the requests

TwoAPIs == {a, b}
TwoKeys == {1, 2}

\* r1 and r3 are identical calls of one API, r2 calls the other.
SharedApi == [r \in Requests |-> IF r = r2 THEN b ELSE a]
SharedKey == [r \in Requests |-> IF r = r2 THEN 2 ELSE 1]

\* r1 is LOW and r2 HIGH: aging alone can put r1 first.
MixedPriority == [r \in Requests |-> CASE r = r1 -> LOW
                                       [] r = r2 -> HIGH
                                       [] OTHER  -> MEDIUM]

\* r1 and r2 may be retried once, r3 never.
SomeRetry   == [r \in Requests |-> IF r = r3 THEN 0 ELSE 1]
PolicyOne   == [x \in TwoAPIs |-> 1]
OneToken    == [x \in TwoAPIs \cup {global} |-> 1]
=============================================================================
