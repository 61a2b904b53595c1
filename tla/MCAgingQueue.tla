---------------------------- MODULE MCAgingQueue ----------------------------
(* Small instance of AgingQueue for TLC.                                   *)
EXTENDS AgingQueue
CONSTANTS a, b, r1, r2, r3

TwoAPIs == {a, b}
Apis    == [r \in Requests |-> IF r = r2 THEN b ELSE a]

\* Fresh requests of every priority; with 50 a tick LOW beats HIGH after 2.
Mixed   == [r \in Requests |-> CASE r = r1 -> LOW [] r = r2 -> MEDIUM
                                 [] OTHER -> HIGH]

\* One API only, where LOW requests come before a HIGH one.
SameApi    == [r \in Requests |-> a]
LowLowHigh == [r \in Requests |-> IF r = r3 THEN HIGH ELSE LOW]
=============================================================================
