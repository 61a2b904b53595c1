-------------------------- MODULE BreakerAutomaton --------------------------
(***************************************************************************)
(* The state machine of circuit_breaker/breaker.py over what an observer   *)
(* sees: the state, the outcomes reported, and one count of the outcomes   *)
(* in a row that lead out of the state (the edges drawn in breaker.py:3-8, *)
(* and the overrides).  It knows no probe slots and none of the counters   *)
(* the code keeps.                                                         *)
(***************************************************************************)
EXTENDS Naturals

CONSTANTS FailureThreshold, SuccessThreshold

VARIABLES state,
          streak,  \* failures in a row while closed, successes while half-open
          heard    \* the last outcome reported; `turn' tells it from the next

vars == <<state, streak, heard>>

Init == /\ state = "closed" /\ streak = 0
        /\ heard = [outcome |-> "none", turn |-> 0]

Hears(o) == heard' = [outcome |-> o, turn |-> 1 - heard.turn]

Moves(s) == state' = s /\ streak' = 0

\* One more of n that lead from here to state s.
Counts(n, s) == IF streak + 1 >= n THEN Moves(s)
                ELSE streak' = streak + 1 /\ UNCHANGED state

Failure ==
  /\ Hears("failure")
  /\ \/ state = "closed" /\ Counts(FailureThreshold, "open")
     \/ state = "half_open" /\ Moves("open")
     \/ state = "open" /\ UNCHANGED <<state, streak>>

Success ==
  /\ Hears("success")
  /\ \/ state = "closed" /\ streak' = 0 /\ UNCHANGED state
     \/ state = "half_open" /\ Counts(SuccessThreshold, "closed")
     \/ state = "open" /\ UNCHANGED <<state, streak>>

\* recovery_timeout has elapsed.
Recover == state = "open" /\ Moves("half_open") /\ UNCHANGED heard

\* force_open, force_close.
Forced == (Moves("open") \/ Moves("closed")) /\ UNCHANGED heard

Next == Failure \/ Success \/ Recover \/ Forced

Spec == Init /\ [][Next]_vars
=============================================================================
