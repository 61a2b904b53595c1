---------------------------- MODULE MCRateControl ----------------------------
(* Small instance of RateControl for TLC.                                  *)
EXTENDS RateControl
CONSTANTS a, b, global

TwoAPIs == {a, b}

\* Two units to a token: at one unit per tick a refill is half a token.
Capacities == [x \in TwoAPIs \cup {global} |-> IF x = a THEN 2 ELSE 4]
Rates      == [x \in TwoAPIs |-> 1]
=============================================================================
