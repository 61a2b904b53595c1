---------------------------- MODULE DeadlineQueue ----------------------------
(***************************************************************************)
(* What the aging queue promises: a request gets a deadline when it is put *)
(* in, later the worse its priority is, and whoever takes a request takes  *)
(* the one with the earliest deadline among those of the APIs it can       *)
(* serve, the first come of equal ones.  Nothing changes a deadline.       *)
(***************************************************************************)
EXTENDS Integers

CONSTANTS Requests, APIs, Api, Priorities, AgingFactor

VARIABLES now, entries, arrivals

vars == <<now, entries, arrivals>>

Init == now = 0 /\ entries = {} /\ arrivals = 0

Tick == now' = now + 1 /\ UNCHANGED <<entries, arrivals>>

\* A request of priority p joins.
Insert(r, p) ==
  /\ \A e \in entries : e.req # r
  /\ entries' = entries \cup
       {[req |-> r, deadline |-> p + AgingFactor * now, seq |-> arrivals]}
  /\ arrivals' = arrivals + 1
  /\ UNCHANGED now

Precedes(e, f) ==
  e.deadline < f.deadline \/ (e.deadline = f.deadline /\ e.seq < f.seq)

\* The first of the entries of some APIs leaves.
Take(apis) ==
  /\ \E e \in entries :
       /\ Api[e.req] \in apis
       /\ \A f \in entries \ {e} : Api[f.req] \in apis => Precedes(e, f)
       /\ entries' = entries \ {e}
  /\ UNCHANGED <<now, arrivals>>

Next ==
  \/ Tick
  \/ \E r \in Requests, p \in Priorities : Insert(r, p)
  \/ \E apis \in SUBSET APIs : Take(apis)

Spec == Init /\ [][Next]_vars
=============================================================================
