----------------------------- MODULE RateControl -----------------------------
(***************************************************************************)
(* rate_limiter/token_bucket.py, rate_limiter/shared_pool.py and           *)
(* throttler/adaptive.py: lazily refilled buckets, the atomic acquire over *)
(* the global one and an API's, and the throttler that moves the API's     *)
(* rate with its recent errors.                                            *)
(*                                                                         *)
(* Amounts are whole units, Unit of them to a token, so that a refill is a *)
(* fraction of a token as in the code; the clock counts whole ticks.  A    *)
(* factor is a whole number of steps, Scale of them being 1.0, and what    *)
(* step_down and step_up multiply it to is rounded down to one.  The lock  *)
(* of the pool suspends nobody, so every operation is one step.            *)
(***************************************************************************)
EXTENDS Naturals, Sequences

CONSTANTS
  APIs, Global,
  Unit,                      \* units in a token
  Capacity,                  \* of each bucket, in units
  BaseRate,                  \* of an API per step of its factor, units per tick
  GlobalRate,                \* of the global bucket, units per tick
  Enabled,                   \* APIs with AdaptiveConfig.enabled
  Scale,                     \* the factor 1.0
  MinFactor, MaxFactor,      \* min_rate_factor, max_rate_factor
  DownNum, DownDen,          \* step_down as a fraction
  UpNum, UpDen,              \* step_up as a fraction
  ErrorWindow,               \* error_window
  HighPercent, LowPercent,   \* high_error_rate, low_error_rate
  MaxTime                    \* bound on the clock

Buckets == APIs \cup {Global}

ASSUME RateAssumption ==
  /\ Global \notin APIs
  /\ Unit \in Nat \ {0}
  /\ Capacity \in [Buckets -> Nat]
  /\ BaseRate \in [APIs -> Nat] /\ GlobalRate \in Nat
  /\ Enabled \subseteq APIs
  /\ MinFactor \in Nat /\ MaxFactor \in Nat /\ Scale \in MinFactor .. MaxFactor
  /\ {DownNum, UpNum, HighPercent, LowPercent, MaxTime} \subseteq Nat
  /\ {DownDen, UpDen, ErrorWindow} \subseteq Nat \ {0}
  /\ DownNum <= DownDen /\ UpDen <= UpNum   \* down is down, which no code checks

VARIABLES
  now,       \* the clock
  bucket,    \* TokenBucket objects
  factor,    \* _APIState.factor
  outcomes,  \* _APIState.outcomes, 1 for an error
  granted,   \* units every bucket has paid for grants so far (ghost)
  calm       \* every outcome is a success from now on (environment)

vars == <<now, bucket, factor, outcomes, granted, calm>>

FullBucket(b, rate) == [tokens |-> Capacity[b], rate |-> rate, last |-> 0]

Init ==
  /\ now = 0
  /\ bucket = [b \in Buckets |->
                 FullBucket(b, IF b = Global THEN GlobalRate
                                             ELSE BaseRate[b] * Scale)]
  /\ factor = [a \in APIs |-> Scale]
  /\ outcomes = [a \in APIs |-> <<>>]
  /\ granted = [b \in Buckets |-> 0]
  /\ calm = FALSE

-----------------------------------------------------------------------------
(* TokenBucket.                                                            *)

Least(x, y)    == IF x <= y THEN x ELSE y
Greatest(x, y) == IF x >= y THEN x ELSE y

\* _refill.
Overfilled(b) ==                                           \* mutant
  [bucket[b] EXCEPT !.tokens = @ + (now - bucket[b].last) * bucket[b].rate, !.last = now]
RefilledAgain(b) ==                                        \* mutant
  [bucket[b] EXCEPT
     !.tokens = Least(Capacity[b], @ + (now - bucket[b].last) * bucket[b].rate)]
Refilled(b) ==
  [bucket[b] EXCEPT
     !.tokens = Least(Capacity[b], @ + (now - bucket[b].last) * bucket[b].rate),
     !.last = now]

\* try_acquire once refilled: is there enough, and what remains.
Has(k, cost)  == k.tokens >= cost
Pays(k, cost) == [k EXCEPT !.tokens = @ - cost]

NoRefund(b, k, cost) == k                                  \* mutant
Refund(b, k, cost) == [k EXCEPT !.tokens = Least(Capacity[b], @ + cost)]

\* The setter of `rate' settles what accrued at the old one first.
RateOnly(a, x) == [bucket[a] EXCEPT !.rate = x]            \* mutant
WithRate(a, x) == [Refilled(a) EXCEPT !.rate = x]

-----------------------------------------------------------------------------
(* SharedRateLimiter.                                                      *)

\* What try_acquire leaves in the buckets.
AfterAcquire(a, cost) ==
  LET g == Refilled(Global)
      p == Refilled(a)
  IN  IF ~Has(g, cost) THEN [bucket EXCEPT ![Global] = g]
      ELSE IF ~Has(p, cost)
           THEN [bucket EXCEPT ![Global] = Refund(Global, Pays(g, cost), cost),
                               ![a] = p]
      ELSE [bucket EXCEPT ![Global] = Pays(g, cost), ![a] = Pays(p, cost)]

TryAcquire(a, n) ==
  LET cost == n * Unit
  IN  /\ bucket' = AfterAcquire(a, cost)
      /\ granted' = IF Has(Refilled(Global), cost) /\ Has(Refilled(a), cost)
                    THEN [granted EXCEPT ![a] = @ + cost, ![Global] = @ + cost]
                    ELSE granted
      /\ UNCHANGED <<now, factor, outcomes, calm>>

\* time_until refills both buckets.
TimeUntil(a) ==
  /\ bucket' = [b \in Buckets |-> IF b \in {a, Global} THEN Refilled(b)
                                                       ELSE bucket[b]]
  /\ UNCHANGED <<now, factor, outcomes, granted, calm>>

-----------------------------------------------------------------------------
(* AdaptiveThrottler.                                                      *)

Outcomes == {"success", "failure", "rate_limited"}

StopsSliding(w, x) ==                                      \* mutant
  IF Len(w) >= ErrorWindow THEN w ELSE Append(w, x)
Slide(w, x) ==
  LET v == Append(w, x)
  IN  IF Len(v) > ErrorWindow THEN Tail(v) ELSE v

\* A 429 counts twice.
Recorded(w, o) ==
  IF o = "success" THEN Slide(w, 0)
  ELSE IF o = "failure" THEN Slide(w, 1)
  ELSE Slide(Slide(w, 1), 1)

Warmup == Greatest(5, ErrorWindow \div 4)

Errors(w) == Len(SelectSeq(w, LAMBDA x : x = 1))

Unbounded(a, w) ==                                         \* mutant
  IF Errors(w) * 100 >= HighPercent * Len(w) THEN (factor[a] * DownNum) \div DownDen
  ELSE (factor[a] * UpNum) \div UpDen
Adjusted(a, w) ==
  IF Len(w) < Warmup THEN factor[a]
  ELSE IF Errors(w) * 100 >= HighPercent * Len(w)
       THEN Greatest(MinFactor, (factor[a] * DownNum) \div DownDen)
  ELSE IF Errors(w) * 100 <= LowPercent * Len(w)
       THEN Least(MaxFactor, (factor[a] * UpNum) \div UpDen)
  ELSE factor[a]

\* record and _maybe_adjust.
Record(a, o) ==
  LET w == Recorded(outcomes[a], o)
      f == Adjusted(a, w)
  IN  /\ a \in Enabled
      /\ calm => o = "success"
      /\ outcomes' = [outcomes EXCEPT ![a] = w]
      /\ factor' = [factor EXCEPT ![a] = f]
      /\ bucket' = IF f = factor[a] THEN bucket
                   ELSE [bucket EXCEPT ![a] = WithRate(a, BaseRate[a] * f)]
      /\ UNCHANGED <<now, granted, calm>>

-----------------------------------------------------------------------------
Tick == now < MaxTime /\ now' = now + 1
        /\ UNCHANGED <<bucket, factor, outcomes, granted, calm>>

CalmsDown == ~calm /\ calm' = TRUE
             /\ UNCHANGED <<now, bucket, factor, outcomes, granted>>

Next ==
  \/ \E a \in APIs :
       \/ \E n \in {1, 2} : TryAcquire(a, n)
       \/ TimeUntil(a)
       \/ \E o \in Outcomes : Record(a, o)
  \/ Tick \/ CalmsDown

Spec == Init /\ [][Next]_vars

FairSpec == Spec /\ \A a \in APIs : WF_vars(Record(a, "success"))

-----------------------------------------------------------------------------
(* Properties.                                                             *)

\* Every variable keeps its type.  A bucket holds what it can and neither owes
\* tokens nor was refilled in the future; a window holds no more outcomes than
\* error_window, also when a 429 counts twice.
TypeOK ==
  /\ now \in Nat
  /\ bucket \in [Buckets -> [tokens : Nat, rate : Nat, last : Nat]]
  /\ \A b \in Buckets : bucket[b].tokens <= Capacity[b] /\ bucket[b].last <= now
  /\ factor \in [APIs -> Nat]
  /\ outcomes \in [APIs -> Seq({0, 1})]
  /\ \A a \in APIs : Len(outcomes[a]) <= ErrorWindow
  /\ granted \in [Buckets -> Nat] /\ calm \in BOOLEAN

\* The lazily refilled buckets are the fluid ones: reading a level, a failed
\* acquire and its refund change nothing an observer could tell, and a new
\* rate never applies to the time before it was set.
Fluid == INSTANCE FluidBuckets WITH
  level <- [b \in Buckets |-> Refilled(b).tokens],
  rate  <- [b \in Buckets |-> bucket[b].rate]

ImplementsFluid == Fluid!Spec

\* Counted in whole tokens they fill by themselves and are emptied by grants
\* alone: what Aggregator, which knows no clock and no fractions, assumes.
Counts == INSTANCE TokenCounts WITH
  tokens   <- [b \in Buckets |-> Refilled(b).tokens \div Unit],
  Capacity <- [b \in Buckets |-> Capacity[b] \div Unit]

ImplementsCounts == Counts!Spec

\* The throttler's factor stays within its bounds and the bucket runs at it,
\* however outcomes, refills and acquires interleave.
FactorInForce ==
  \A a \in APIs : /\ factor[a] \in MinFactor .. MaxFactor
                  /\ bucket[a].rate = BaseRate[a] * factor[a]

\* No API is ever granted more than its capacity and what its declared rate
\* accrued since the start, nor all of them together, who all draw on the
\* global bucket, more than that bucket's ("so we never exceed the
\* operator-declared budget").
Budget ==
  /\ \A a \in APIs : granted[a] <= Capacity[a] + BaseRate[a] * MaxFactor * now
  /\ granted[Global] <= Capacity[Global] + GlobalRate * now

\* Once calls only succeed, the API's rate climbs back to its ceiling.
RateRecovers ==
  \A a \in Enabled : calm ~> factor[a] = MaxFactor
=============================================================================
