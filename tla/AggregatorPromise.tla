-------------------------- MODULE AggregatorPromise --------------------------
(***************************************************************************)
(* What the aggregator promises its callers.  A submission is refused, or  *)
(* joins the one unresolved call with its key, or opens a call of its own. *)
(* A call is attempted at most once more than it may be retried, one       *)
(* attempt at a time.  A response comes from a running attempt and from    *)
(* nowhere else, and the first outcome of a call is its only one.          *)
(***************************************************************************)
EXTENDS Naturals

CONSTANTS Requests, NoRequest, Key, Cancellers,
          Limit(_)    \* how often a request may be retried

VARIABLES
  submitted, awaits,  \* who asked, and whose call each caller waits for
  fut,                \* the call of each request: none, pending or its outcome
  calling, calls      \* running attempts, and attempts so far

vars == <<submitted, awaits, fut, calling, calls>>

Init ==
  /\ submitted = {} /\ awaits = [r \in Requests |-> NoRequest]
  /\ fut = [r \in Requests |-> "none"]
  /\ calling = {} /\ calls = [r \in Requests |-> 0]

Unresolved(k) == {r \in Requests : Key[r] = k /\ fut[r] = "pending"}

Asks(r) ==
  /\ r \notin submitted
  /\ submitted' = submitted \cup {r}
  /\ UNCHANGED <<calling, calls>>

Refuse(r) == Asks(r) /\ UNCHANGED <<awaits, fut>>

Join(r) ==
  /\ Asks(r)
  /\ \E s \in Unresolved(Key[r]) : awaits' = [awaits EXCEPT ![r] = s]
  /\ UNCHANGED fut

\* Its caller waits for it, unless the queue was full: then nobody does.
Open(r) ==
  /\ Asks(r)
  /\ fut[r] = "none" /\ Unresolved(Key[r]) = {}
  /\ fut' = [fut EXCEPT ![r] = "pending"]
  /\ awaits' \in {awaits, [awaits EXCEPT ![r] = r]}

Ends(r, outcomes) ==
  /\ fut[r] = "pending"
  /\ \E o \in outcomes : fut' = [fut EXCEPT ![r] = o]
  /\ UNCHANGED <<submitted, awaits, calls>>

Attempt(r) ==
  /\ r \notin calling /\ calls[r] <= Limit(r)
  /\ calling' = calling \cup {r}
  /\ calls' = [calls EXCEPT ![r] = @ + 1]
  /\ UNCHANGED <<submitted, awaits, fut>>

\* An attempt ends; with an outcome, or to be retried, or too late to matter.
Return(r) ==
  /\ r \in calling
  /\ calling' = calling \ {r}
  /\ \/ Ends(r, {"response", "error"})
     \/ UNCHANGED <<submitted, awaits, fut, calls>>

Fail(r) == Ends(r, {"error"}) /\ UNCHANGED calling

GiveUp(r) ==
  /\ r \in Cancellers /\ awaits[r] = r
  /\ Ends(r, {"cancelled"}) /\ UNCHANGED calling

Stop ==
  /\ calling = {}
  /\ fut' = [r \in Requests |-> IF fut[r] = "pending" THEN "stopped" ELSE fut[r]]
  /\ UNCHANGED <<submitted, awaits, calling, calls>>

Next ==
  \/ \E r \in Requests :
       \/ Refuse(r) \/ Join(r) \/ Open(r) \/ Attempt(r)
       \/ Return(r) \/ Fail(r) \/ GiveUp(r)
  \/ Stop

Spec == Init /\ [][Next]_vars
=============================================================================
