----------------------------- MODULE RateProofs -----------------------------
(***************************************************************************)
(* Theorems about RateControl for every set of APIs, every rate, capacity, *)
(* window and step.                                                        *)
(***************************************************************************)
EXTENDS RateControl, TLAPS

BucketRecords == [tokens : Nat, rate : Nat, last : Nat]

\* The inductive invariant: the bounds and the rate in force need only that
\* factors are numbers and buckets are buckets.
RateInv ==
  /\ factor \in [APIs -> Nat]
  /\ now \in Nat
  /\ bucket \in [Buckets -> BucketRecords]
  /\ \A x \in Buckets : bucket[x].last <= now
  /\ FactorInForce

\* A refilled bucket is a bucket with the same rate (token_bucket.py:53-59).
LEMMA RefilledTypes ==
  ASSUME RateInv, NEW x \in Buckets
  PROVE  /\ Refilled(x) \in BucketRecords
         /\ Refilled(x).rate = bucket[x].rate /\ Refilled(x).last = now
<1> DEFINE t == Least(Capacity[x], bucket[x].tokens + (now - bucket[x].last) * bucket[x].rate)
<1>1. /\ bucket[x] \in BucketRecords /\ now \in Nat /\ Capacity[x] \in Nat
      /\ now - bucket[x].last \in Nat
  BY RateAssumption DEF RateInv, BucketRecords
<1>2. (now - bucket[x].last) * bucket[x].rate \in Nat
  BY <1>1 DEF BucketRecords
<1>3. t \in Nat
  BY <1>1, <1>2 DEF Least, BucketRecords
<1>4. Refilled(x) = [bucket[x] EXCEPT !.tokens = t, !.last = now]
  BY DEF Refilled
<1> HIDE DEF t
<1> QED
  BY <1>1, <1>3, <1>4 DEF BucketRecords

\* The throttler's next factor stays within its bounds (adaptive.py:60-72).
LEMMA AdjustedInBounds ==
  ASSUME RateInv, NEW a \in APIs, NEW w
  PROVE  Adjusted(a, w) \in MinFactor .. MaxFactor
<1> DEFINE d == (factor[a] * DownNum) \div DownDen
           u == (factor[a] * UpNum) \div UpDen
<1>1. factor[a] \in MinFactor .. MaxFactor /\ MinFactor \in Nat /\ MaxFactor \in Nat
  BY RateAssumption DEF RateInv, FactorInForce
<1>2. MinFactor <= MaxFactor
  BY RateAssumption
<1>3. factor[a] * DownNum \in Nat /\ factor[a] * UpNum \in Nat
  BY <1>1, RateAssumption
<1>4. d \in Nat /\ u \in Nat
  BY <1>3, RateAssumption
<1>5. d <= factor[a] /\ factor[a] <= u
  <2>1. \A f, n, m \in Nat : m > 0 /\ n <= m => (f * n) \div m <= f
    OBVIOUS
  <2>2. \A f, n, m \in Nat : m > 0 /\ m <= n => f <= (f * n) \div m
    OBVIOUS
  <2> QED
    BY <1>1, <2>1, <2>2, RateAssumption
<1> HIDE DEF d, u
<1>6. Greatest(MinFactor, d) \in MinFactor .. MaxFactor
  BY <1>1, <1>4, <1>5 DEF Greatest
<1>7. Least(MaxFactor, u) \in MinFactor .. MaxFactor
  BY <1>1, <1>2, <1>4, <1>5 DEF Least
<1>8. Adjusted(a, w) \in {factor[a], Greatest(MinFactor, d), Least(MaxFactor, u)}
  BY Zenon DEF Adjusted, d, u
<1> QED
  BY <1>1, <1>6, <1>7, <1>8

-----------------------------------------------------------------------------
(* Steps.                                                                  *)

\* Taking a cost there is, and giving back what was taken, leave a bucket with
\* its rate (token_bucket.py:61-75).
LEMMA PayAndRefund ==
  ASSUME NEW k \in BucketRecords, NEW cost \in Nat, NEW x \in Buckets
  PROVE  /\ Has(k, cost) => /\ Pays(k, cost) \in BucketRecords
                            /\ Pays(k, cost).rate = k.rate /\ Pays(k, cost).last = k.last
         /\ Refund(x, k, cost) \in BucketRecords
         /\ Refund(x, k, cost).rate = k.rate /\ Refund(x, k, cost).last = k.last
<1> DEFINE t == Least(Capacity[x], k.tokens + cost)
<1>1. ASSUME Has(k, cost)
      PROVE  /\ Pays(k, cost) \in BucketRecords
             /\ Pays(k, cost).rate = k.rate /\ Pays(k, cost).last = k.last
  BY <1>1 DEF Has, Pays, BucketRecords
<1>2. t \in Nat
  BY RateAssumption DEF Least, BucketRecords
<1>3. Refund(x, k, cost) = [k EXCEPT !.tokens = t]
  BY DEF Refund
<1> HIDE DEF t
<1> QED
  BY <1>1, <1>2, <1>3 DEF BucketRecords

\* An acquire, whether it succeeds or not, leaves buckets with their rates
\* (shared_pool.py:45-56).
LEMMA AcquireBuckets ==
  ASSUME RateInv, NEW a \in APIs, NEW cost \in Nat
  PROVE  LET k == AfterAcquire(a, cost)
         IN  /\ k \in [Buckets -> BucketRecords]
             /\ \A x \in Buckets : k[x].rate = bucket[x].rate /\ k[x].last <= now
<1> DEFINE g == Refilled(Global)  p == Refilled(a)
           paid == Pays(g, cost)  back == Refund(Global, paid, cost)  rest == Pays(p, cost)
           Fits(k, x) == k \in BucketRecords /\ k.rate = bucket[x].rate /\ k.last <= now
<1>1. a \in Buckets /\ Global \in Buckets /\ a # Global /\ now \in Nat
  BY RateAssumption DEF Buckets, RateInv
<1>2. Fits(g, Global) /\ Fits(p, a)
  BY <1>1, RefilledTypes DEF RateInv
<1>3. Has(g, cost) => Fits(paid, Global) /\ Fits(back, Global)
  BY <1>1, <1>2, PayAndRefund, SMTT(30)
<1>4. Has(p, cost) => Fits(rest, a)
  BY <1>1, <1>2, PayAndRefund
<1>5. \A x \in Buckets : Fits(bucket[x], x)
  BY DEF RateInv
<1>6. bucket \in [Buckets -> BucketRecords]
  BY DEF RateInv
<1>7. \/ AfterAcquire(a, cost) = [bucket EXCEPT ![Global] = g]
      \/ /\ Has(g, cost)
         /\ AfterAcquire(a, cost) = [bucket EXCEPT ![Global] = back, ![a] = p]
      \/ /\ Has(g, cost) /\ Has(p, cost)
         /\ AfterAcquire(a, cost) = [bucket EXCEPT ![Global] = paid, ![a] = rest]
  BY DEF AfterAcquire
<1> HIDE DEF g, p, paid, back, rest
<1> QED
  BY <1>1, <1>2, <1>3, <1>4, <1>5, <1>6, <1>7

\* Every outcome, refill, acquire and refund keeps the invariant: one case per
\* action of the throttler and the buckets (adaptive.py:47-76,
\* shared_pool.py:45-56).
LEMMA RateInductive == RateInv /\ [Next]_vars => RateInv'
<1> SUFFICES ASSUME RateInv, [Next]_vars PROVE RateInv'
  OBVIOUS
<1>1. APIs \subseteq Buckets /\ Global \in Buckets /\ Global \notin APIs
  BY RateAssumption DEF Buckets
<1>2. ASSUME UNCHANGED <<now, factor>>, bucket' \in [Buckets -> BucketRecords],
             \A x \in Buckets : bucket'[x].rate = bucket[x].rate /\ bucket'[x].last <= now
      PROVE  RateInv'
  BY <1>1, <1>2 DEF RateInv, FactorInForce
<1>3. ASSUME NEW a \in APIs, NEW n \in {1, 2}, TryAcquire(a, n)
      PROVE  RateInv'
  <2>1. n * Unit \in Nat
    BY RateAssumption
  <2> QED
    BY <1>2, <1>3, <2>1, AcquireBuckets DEF TryAcquire
<1>4. ASSUME NEW a \in APIs, TimeUntil(a)
      PROVE  RateInv'
  <2>1. \A x \in Buckets : /\ bucket'[x] \in {bucket[x], Refilled(x)}
                           /\ bucket'[x] \in BucketRecords
                           /\ bucket'[x].rate = bucket[x].rate /\ bucket'[x].last <= now
    BY <1>4, RefilledTypes DEF TimeUntil, RateInv
  <2>2. bucket' \in [Buckets -> BucketRecords]
    BY <1>4, <2>1 DEF TimeUntil
  <2> QED
    BY <1>2, <1>4, <2>1, <2>2 DEF TimeUntil
<1>5. ASSUME NEW a \in APIs, NEW o \in Outcomes, Record(a, o)
      PROVE  RateInv'
  <2> DEFINE f == Adjusted(a, Recorded(outcomes[a], o))
             k == WithRate(a, BaseRate[a] * f)
  <2>1. f \in MinFactor .. MaxFactor /\ f \in Nat /\ BaseRate[a] * f \in Nat
    BY AdjustedInBounds, RateAssumption
  <2>2. k \in BucketRecords /\ k.rate = BaseRate[a] * f /\ k.last = now
    <3> DEFINE r == BaseRate[a] * f  q == Refilled(a)
    <3>1. q \in BucketRecords /\ q.last = now /\ r \in Nat
      BY <1>1, <2>1, RefilledTypes
    <3>2. k = [q EXCEPT !.rate = r]
      BY DEF WithRate
    <3> HIDE DEF q, r, k
    <3>3. k \in BucketRecords /\ k.rate = r /\ k.last = now
      BY <3>1, <3>2 DEF BucketRecords
    <3> QED
      BY <3>3 DEF r
  <2>3. /\ factor' = [factor EXCEPT ![a] = f] /\ now' = now
        /\ bucket' = IF f = factor[a] THEN bucket ELSE [bucket EXCEPT ![a] = k]
    BY <1>5 DEF Record
  <2> HIDE DEF f, k
  <2>4. factor' \in [APIs -> Nat] /\ bucket' \in [Buckets -> BucketRecords]
    BY <1>1, <2>1, <2>2, <2>3 DEF RateInv
  <2>5. \A x \in Buckets : bucket'[x].last <= now
    BY <1>1, <2>2, <2>3 DEF RateInv
  <2>6. FactorInForce'
    BY <1>1, <2>1, <2>2, <2>3 DEF RateInv, FactorInForce
  <2> QED
    BY <2>3, <2>4, <2>5, <2>6 DEF RateInv
<1>6. CASE Tick
  BY <1>1, <1>6 DEF Tick, RateInv, FactorInForce, BucketRecords
<1>7. CASE CalmsDown \/ UNCHANGED vars
  BY <1>2, <1>7 DEF CalmsDown, vars, RateInv
<1> QED
  BY <1>3, <1>4, <1>5, <1>6, <1>7 DEF Next

\* The initial rates are the declared ones.
LEMMA InitialRates == Init => RateInv
<1> SUFFICES ASSUME Init PROVE RateInv
  OBVIOUS
<1>1. \A x \in Buckets : /\ bucket[x] \in BucketRecords /\ bucket[x].last = 0
                         /\ x \in APIs => bucket[x].rate = BaseRate[x] * Scale
  BY RateAssumption DEF Init, FullBucket, BucketRecords, Buckets
<1>2. Scale \in Nat /\ Scale \in MinFactor .. MaxFactor
  BY RateAssumption
<1>3. bucket \in [Buckets -> BucketRecords]
  BY <1>1 DEF Init
<1>4. factor = [a \in APIs |-> Scale] /\ now = 0
  BY DEF Init
<1> QED
  BY <1>1, <1>2, <1>3, <1>4 DEF RateInv, FactorInForce, Buckets

\* The factor of every API stays between min_rate_factor and max_rate_factor,
\* and its bucket runs at exactly the rate the factor says, for all rates,
\* windows and steps, however outcomes, refills, acquires and refunds
\* interleave (adaptive.py:60-76, token_bucket.py:37-42).
THEOREM FactorAlwaysInForce == Spec => []FactorInForce
<1>1. RateInv => FactorInForce
  BY DEF RateInv
<1> QED
  BY <1>1, InitialRates, RateInductive, PTL DEF Spec

-----------------------------------------------------------------------------
(* The lazy buckets are fluid ones.                                        *)

Level(x) == Refilled(x).tokens

\* A bucket never holds more than its capacity.
LevelInv == \A x \in Buckets : bucket[x].tokens <= Capacity[x]

\* What a refill makes of a bucket, in numbers.
LEMMA LevelValue ==
  ASSUME RateInv, NEW x \in Buckets
  PROVE  /\ Level(x) = Least(Capacity[x], bucket[x].tokens
                                            + (now - bucket[x].last) * bucket[x].rate)
         /\ Level(x) \in Nat /\ Level(x) <= Capacity[x]
<1> DEFINE d == (now - bucket[x].last) * bucket[x].rate
           t == Least(Capacity[x], bucket[x].tokens + d)
<1>1. /\ bucket[x] \in BucketRecords /\ Capacity[x] \in Nat
      /\ now - bucket[x].last \in Nat /\ bucket[x].rate \in Nat /\ bucket[x].tokens \in Nat
  BY RateAssumption DEF RateInv, BucketRecords
<1>2. d \in Nat
  BY <1>1
<1>3. Refilled(x) = [bucket[x] EXCEPT !.tokens = t, !.last = now]
  BY DEF Refilled
<1> HIDE DEF d
<1>4. t \in Nat /\ t <= Capacity[x]
  BY <1>1, <1>2 DEF Least
<1> HIDE DEF t
<1>5. Level(x) = t
  BY <1>1, <1>3 DEF Level, BucketRecords
<1> QED
  BY <1>4, <1>5 DEF t, d

\* Time fills a lazy bucket as it fills a fluid one, though nothing is written.
LEMMA TickLevel ==
  ASSUME RateInv, RateInv', LevelInv, NEW x \in Buckets, bucket' = bucket, now' = now + 1
  PROVE  Level(x)' = Least(Capacity[x], Level(x) + bucket[x].rate)
<1> DEFINE r == bucket[x].rate
           t == bucket[x].tokens
           d == (now - bucket[x].last) * r
           e == (now + 1 - bucket[x].last) * r
<1>1. /\ t \in Nat /\ r \in Nat /\ Capacity[x] \in Nat /\ t <= Capacity[x]
      /\ now \in Nat /\ bucket[x].last \in Nat /\ bucket[x].last <= now
  BY RateAssumption DEF RateInv, BucketRecords, LevelInv
<1>2. now - bucket[x].last \in Nat
  BY <1>1
<1>3. \A m, n \in Nat : m * n \in Nat /\ (m + 1) * n = m * n + n
  OBVIOUS
<1>4. now + 1 - bucket[x].last = (now - bucket[x].last) + 1
  BY <1>1
<1>5. d \in Nat /\ e = d + r
  BY <1>1, <1>2, <1>3, <1>4
<1>6. Level(x) = Least(Capacity[x], t + d)
  BY LevelValue
<1>7. Level(x)' = Least(Capacity[x], t + e)
  <2> DEFINE k == bucket'[x]
             v == Least(Capacity[x], k.tokens + (now' - k.last) * k.rate)
  <2>1. Refilled(x)' = [k EXCEPT !.tokens = v, !.last = now']
    BY DEF Refilled
  <2>2. k \in BucketRecords
    BY DEF RateInv
  <2>3. v = Least(Capacity[x], t + e)
    <3>1. k.tokens = t /\ k.rate = r /\ now' = now + 1
      OBVIOUS
    <3>2. k.last = bucket[x].last
      OBVIOUS
    <3>3. now' - k.last = now + 1 - bucket[x].last
      BY <1>1, <3>1, <3>2
    <3>4. k.tokens + (now' - k.last) * k.rate = t + e
      BY <1>1, <1>4, <3>1, <3>3
    <3> QED
      BY <3>4
  <2> HIDE DEF k, v
  <2>4. Level(x)' = v
    BY <2>1, <2>2 DEF Level, BucketRecords
  <2> QED
    BY <2>3, <2>4
<1> HIDE DEF d, e, t, r
<1>8. Level(x)' = Least(Capacity[x], Level(x) + r)
  BY <1>1, <1>5, <1>6, <1>7 DEF Least
<1> QED
  BY <1>8 DEF r

\* A bucket that was just settled holds what it says.
LEMMA SettledLevel ==
  ASSUME RateInv', NEW x \in Buckets, now' = now,
         bucket'[x].last = now, bucket'[x].tokens <= Capacity[x]
  PROVE  Level(x)' = bucket'[x].tokens
<1> DEFINE k == bucket'[x]
<1>1. k \in BucketRecords /\ now \in Nat /\ Capacity[x] \in Nat
  BY RateAssumption DEF RateInv
<1>2. Refilled(x)' = [k EXCEPT !.tokens = Least(Capacity[x], k.tokens + (now - k.last) * k.rate),
                               !.last = now]
  BY DEF Refilled
<1> HIDE DEF k
<1>3. k.last = now /\ k.tokens <= Capacity[x]
  BY DEF k
<1>4. k.tokens \in Nat /\ k.rate \in Nat
  BY <1>1 DEF BucketRecords
<1>5. (now - k.last) * k.rate = 0
  <2>1. now - k.last = 0
    BY <1>1, <1>3
  <2> QED
    BY <1>4, <2>1
<1>6. Least(Capacity[x], k.tokens + (now - k.last) * k.rate) = k.tokens
  BY <1>1, <1>3, <1>4, <1>5 DEF Least
<1>7. Refilled(x)' = [k EXCEPT !.tokens = k.tokens, !.last = now]
  BY <1>2, <1>6
<1> QED
  BY <1>1, <1>7 DEF Level, BucketRecords, k

\* What an acquire does to the levels: all or nothing, also through a refund.
Granted(a, cost) == Has(Refilled(Global), cost) /\ Has(Refilled(a), cost)

LEMMA AcquireLevels ==
  ASSUME RateInv, RateInv', LevelInv, NEW a \in APIs, NEW cost \in Nat, now' = now,
         bucket' = AfterAcquire(a, cost)
  PROVE  /\ LevelInv'
         /\ \/ ~Granted(a, cost) /\ \A x \in Buckets : Level(x)' = Level(x)
            \/ /\ Granted(a, cost) /\ cost <= Level(a) /\ cost <= Level(Global)
               /\ \A x \in Buckets : Level(x)' = IF x \in {a, Global} THEN Level(x) - cost
                                                                      ELSE Level(x)
<1> DEFINE g == Refilled(Global)  p == Refilled(a)
           paid == Pays(g, cost)  back == Refund(Global, paid, cost)  rest == Pays(p, cost)
<1>1. /\ a \in Buckets /\ Global \in Buckets /\ a # Global /\ now \in Nat
      /\ \A x \in Buckets : Capacity[x] \in Nat
  BY RateAssumption DEF Buckets, RateInv
<1>2. /\ g \in BucketRecords /\ g.last = now /\ g.tokens = Level(Global)
      /\ p \in BucketRecords /\ p.last = now /\ p.tokens = Level(a)
  BY <1>1, RefilledTypes DEF Level
<1>3. \A x \in Buckets : Level(x) \in Nat /\ Level(x) <= Capacity[x]
  BY LevelValue
<1>4. Has(g, cost) => /\ paid.last = now /\ paid.tokens = Level(Global) - cost
                      /\ back.last = now /\ back.tokens = Level(Global)
                      /\ cost <= Level(Global)
  <2> SUFFICES ASSUME Has(g, cost)
               PROVE  /\ paid.last = now /\ paid.tokens = Level(Global) - cost
                      /\ back.last = now /\ back.tokens = Level(Global)
                      /\ cost <= Level(Global)
    OBVIOUS
  <2> DEFINE t == Least(Capacity[Global], paid.tokens + cost)
  <2> HIDE DEF g
  <2>1. /\ paid \in BucketRecords /\ paid.last = now /\ paid.tokens = Level(Global) - cost
        /\ cost <= Level(Global)
    BY <1>1, <1>2, <1>3 DEF Has, Pays, BucketRecords
  <2>2. back = [paid EXCEPT !.tokens = t]
    BY DEF Refund
  <2> HIDE DEF paid
  <2>3. t = Level(Global)
    BY <1>1, <1>3, <2>1 DEF Least
  <2> HIDE DEF t, back
  <2> QED
    BY <2>1, <2>2, <2>3 DEF BucketRecords
<1>5. Has(p, cost) => /\ rest.last = now /\ rest.tokens = Level(a) - cost
                      /\ cost <= Level(a)
  <2> HIDE DEF p
  <2> QED
    BY <1>1, <1>2, <1>3 DEF Has, Pays, BucketRecords
<1>6. bucket \in [Buckets -> BucketRecords]
  BY DEF RateInv
<1>7. \/ ~Has(g, cost) /\ bucket' = [bucket EXCEPT ![Global] = g]
      \/ /\ Has(g, cost) /\ ~Has(p, cost)
         /\ bucket' = [bucket EXCEPT ![Global] = back, ![a] = p]
      \/ /\ Has(g, cost) /\ Has(p, cost)
         /\ bucket' = [bucket EXCEPT ![Global] = paid, ![a] = rest]
  BY DEF AfterAcquire
<1>8. Granted(a, cost) <=> Has(g, cost) /\ Has(p, cost)
  BY DEF Granted
<1> HIDE DEF g, p, paid, back, rest
<1>9. ASSUME NEW x \in Buckets, bucket'[x] = bucket[x]
      PROVE  Level(x)' = Level(x) /\ bucket'[x].tokens <= Capacity[x]
  <2>1. Refilled(x)' = Refilled(x)
    BY <1>9 DEF Refilled
  <2> QED
    BY <1>9, <2>1 DEF Level, LevelInv
<1>10. ASSUME NEW x \in Buckets, NEW v \in Nat, v <= Capacity[x],
             bucket'[x].last = now, bucket'[x].tokens = v
      PROVE  Level(x)' = v /\ bucket'[x].tokens <= Capacity[x]
  BY <1>10, SettledLevel
<1>11. CASE ~Has(g, cost) /\ bucket' = [bucket EXCEPT ![Global] = g]
  <2>1. \A x \in Buckets : x # Global => bucket'[x] = bucket[x]
    BY <1>6, <1>11
  <2>2. bucket'[Global] = g
    BY <1>1, <1>6, <1>11
  <2>3. Level(Global)' = Level(Global) /\ bucket'[Global].tokens <= Capacity[Global]
    BY <1>1, <1>2, <1>3, <1>10, <2>2
  <2> QED
    BY <1>9, <1>11, <1>8, <2>1, <2>3 DEF LevelInv
<1>12. CASE Has(g, cost) /\ ~Has(p, cost) /\ bucket' = [bucket EXCEPT ![Global] = back, ![a] = p]
  <2>1. \A x \in Buckets : x \notin {a, Global} => bucket'[x] = bucket[x]
    BY <1>6, <1>12
  <2>2. bucket'[Global] = back /\ bucket'[a] = p
    BY <1>1, <1>6, <1>12
  <2>3. Level(Global)' = Level(Global) /\ bucket'[Global].tokens <= Capacity[Global]
    BY <1>1, <1>3, <1>4, <1>10, <1>12, <2>2
  <2>4. Level(a)' = Level(a) /\ bucket'[a].tokens <= Capacity[a]
    BY <1>1, <1>2, <1>3, <1>10, <2>2
  <2> QED
    BY <1>9, <1>12, <1>8, <2>1, <2>3, <2>4 DEF LevelInv
<1>13. CASE Has(g, cost) /\ Has(p, cost) /\ bucket' = [bucket EXCEPT ![Global] = paid, ![a] = rest]
  <2>1. \A x \in Buckets : x \notin {a, Global} => bucket'[x] = bucket[x]
    BY <1>6, <1>13
  <2>2. bucket'[Global] = paid /\ bucket'[a] = rest
    BY <1>1, <1>6, <1>13
  <2>3. /\ Level(Global) - cost \in Nat /\ Level(Global) - cost <= Capacity[Global]
        /\ Level(a) - cost \in Nat /\ Level(a) - cost <= Capacity[a]
    BY <1>1, <1>3, <1>4, <1>5, <1>13
  <2>4. Level(Global)' = Level(Global) - cost /\ bucket'[Global].tokens <= Capacity[Global]
    BY <1>1, <1>4, <1>10, <1>13, <2>2, <2>3
  <2>5. Level(a)' = Level(a) - cost /\ bucket'[a].tokens <= Capacity[a]
    BY <1>1, <1>5, <1>10, <1>13, <2>2, <2>3
  <2>6. LevelInv'
    BY <1>9, <2>1, <2>4, <2>5 DEF LevelInv
  <2>7. \A x \in Buckets : Level(x)' = IF x \in {a, Global} THEN Level(x) - cost ELSE Level(x)
    BY <1>9, <2>1, <2>4, <2>5
  <2> QED
    BY <1>4, <1>5, <1>13, <1>8, <2>6, <2>7
<1> QED
  BY <1>7, <1>11, <1>12, <1>13

\* A level that is read, or settled before its rate changes, stays.
LEMMA SameLevels ==
  ASSUME RateInv, RateInv', LevelInv, now' = now,
         \A x \in Buckets : \/ bucket'[x] = bucket[x]
                            \/ bucket'[x].last = now /\ bucket'[x].tokens = Level(x)
  PROVE  LevelInv' /\ \A x \in Buckets : Level(x)' = Level(x)
<1> SUFFICES ASSUME NEW x \in Buckets
             PROVE  bucket'[x].tokens <= Capacity[x] /\ Level(x)' = Level(x)
  BY DEF LevelInv
<1>1. CASE bucket'[x] = bucket[x]
  <2>1. Refilled(x)' = Refilled(x)
    BY <1>1 DEF Refilled
  <2> QED
    BY <1>1, <2>1 DEF Level, LevelInv
<1>2. CASE bucket'[x].last = now /\ bucket'[x].tokens = Level(x)
  BY <1>2, LevelValue, SettledLevel
<1> QED
  BY <1>1, <1>2

rates == [x \in Buckets |-> bucket[x].rate]
levels == [x \in Buckets |-> Level(x)]

\* Every step is a grant, a new rate, a tick of the fluid buckets, or nothing.
LEMMA FluidSteps ==
  ASSUME RateInv, RateInv', LevelInv, [Next]_vars
  PROVE  LevelInv' /\ (Fluid!Next \/ UNCHANGED <<levels, rates>>)
<1>1. APIs \subseteq Buckets /\ Global \in Buckets /\ Global \notin APIs
      /\ Fluid!Buckets = Buckets
  BY RateAssumption DEF Buckets, Fluid!Buckets
<1>2. \A x \in Buckets : Level(x) \in Nat /\ Level(x) <= Capacity[x] /\ Capacity[x] \in Nat
  BY LevelValue, RateAssumption
<1>3. ASSUME now' = now,
             \A x \in Buckets : \/ bucket'[x] = bucket[x]
                                \/ /\ bucket'[x].last = now /\ bucket'[x].tokens = Level(x)
                                   /\ bucket'[x].rate = bucket[x].rate
      PROVE  LevelInv' /\ UNCHANGED <<levels, rates>>
  BY <1>3, SameLevels DEF levels, rates
<1>4. ASSUME NEW a \in APIs, NEW n \in {1, 2}, TryAcquire(a, n)
      PROVE  LevelInv' /\ (Fluid!Next \/ UNCHANGED <<levels, rates>>)
  <2>1. PICK cost \in Nat : cost = n * Unit /\ cost > 0
    BY RateAssumption
  <2>2. bucket' = AfterAcquire(a, cost) /\ now' = now
    BY <1>4, <2>1 DEF TryAcquire
  <2>3. UNCHANGED rates
    BY <2>2, AcquireBuckets DEF rates
  <2>4. /\ LevelInv'
        /\ \/ \A x \in Buckets : Level(x)' = Level(x)
           \/ /\ cost <= Level(a) /\ cost <= Level(Global)
              /\ \A x \in Buckets : Level(x)' = IF x \in {a, Global} THEN Level(x) - cost
                                                                     ELSE Level(x)
    BY <2>2, AcquireLevels
  <2>5. CASE \A x \in Buckets : Level(x)' = Level(x)
    BY <2>3, <2>4, <2>5 DEF levels
  <2>6. CASE /\ cost <= Level(a) /\ cost <= Level(Global)
             /\ \A x \in Buckets : Level(x)' = IF x \in {a, Global} THEN Level(x) - cost
                                                                    ELSE Level(x)
    <3>1. cost \in 1 .. Capacity[Global]
      BY <1>1, <1>2, <2>1, <2>6
    <3>2. Fluid!Grant(a, cost)
      BY <1>1, <2>3, <2>6 DEF Fluid!Grant, levels, rates, Level
    <3> QED
      BY <2>4, <3>1, <3>2 DEF Fluid!Next
  <2> QED
    BY <2>4, <2>5, <2>6
<1>5. ASSUME NEW a \in APIs, TimeUntil(a)
      PROVE  LevelInv' /\ UNCHANGED <<levels, rates>>
  <2>1. \A x \in Buckets : bucket'[x] \in {bucket[x], Refilled(x)}
    BY <1>5 DEF TimeUntil
  <2>2. \A x \in Buckets : /\ Refilled(x).last = now /\ Refilled(x).tokens = Level(x)
                           /\ Refilled(x).rate = bucket[x].rate
    BY RefilledTypes DEF Level
  <2> QED
    BY <1>3, <1>5, <2>1, <2>2 DEF TimeUntil
<1>6. ASSUME NEW a \in APIs, NEW o \in Outcomes, Record(a, o)
      PROVE  LevelInv' /\ (Fluid!Next \/ UNCHANGED <<levels, rates>>)
  <2> DEFINE r == BaseRate[a] * Adjusted(a, Recorded(outcomes[a], o))
             k == WithRate(a, r)
  <2>1. now' = now /\ (bucket' = bucket \/ bucket' = [bucket EXCEPT ![a] = k])
    BY <1>6 DEF Record
  <2>2. k.last = now /\ k.tokens = Level(a)
    <3>1. k = [Refilled(a) EXCEPT !.rate = r]
      BY DEF WithRate
    <3> HIDE DEF k, r
    <3> QED
      BY <1>1, <3>1, RefilledTypes DEF Level, BucketRecords
  <2> HIDE DEF k
  <2>3. bucket \in [Buckets -> BucketRecords] /\ bucket' \in [Buckets -> BucketRecords]
    BY DEF RateInv
  <2>4. \A x \in Buckets : \/ bucket'[x] = bucket[x]
                           \/ /\ x = a
                              /\ bucket'[x].last = now /\ bucket'[x].tokens = Level(x)
    BY <1>1, <2>1, <2>2, <2>3
  <2>5. LevelInv' /\ UNCHANGED levels
    BY <2>1, <2>4, SameLevels DEF levels
  <2>6. /\ rates' \in [Buckets -> Nat]
        /\ \A x \in Buckets \ {a} : rates'[x] = rates[x]
    BY <2>3, <2>4 DEF rates, BucketRecords
  <2>7. Fluid!SetRate(a)
    BY <1>1, <2>5, <2>6 DEF Fluid!SetRate, levels, rates, Level
  <2> QED
    BY <2>5, <2>7 DEF Fluid!Next
<1>7. CASE Tick
  <2>1. now' = now + 1 /\ bucket' = bucket
    BY <1>7 DEF Tick
  <2>2. LevelInv'
    BY <2>1 DEF LevelInv
  <2>3. ASSUME NEW x \in Buckets
        PROVE  Level(x)' = Fluid!Capped(x, Level(x) + bucket[x].rate)
    <3>1. Level(x)' = Least(Capacity[x], Level(x) + bucket[x].rate)
      BY <2>1, TickLevel
    <3>2. bucket[x].rate \in Nat
      BY DEF RateInv, BucketRecords
    <3> QED
      BY <1>2, <3>1, <3>2 DEF Least, Fluid!Capped
  <2>4. Fluid!Tick
    BY <1>1, <2>1, <2>3 DEF Fluid!Tick, Level
  <2> QED
    BY <2>2, <2>4 DEF Fluid!Next
<1>8. CASE CalmsDown \/ UNCHANGED vars
  BY <1>3, <1>8 DEF CalmsDown, vars
<1> QED
  BY <1>4, <1>5, <1>6, <1>7, <1>8 DEF Next

\* The buckets start full.
LEMMA FullBuckets == Init => RateInv /\ LevelInv /\ Fluid!Init
<1> SUFFICES ASSUME Init PROVE RateInv /\ LevelInv /\ Fluid!Init
  OBVIOUS
<1>1. RateInv
  BY InitialRates
<1>2. \A x \in Buckets : bucket[x].tokens = Capacity[x] /\ bucket[x].last = 0 /\ now = 0
  BY DEF Init, FullBucket
<1>3. \A x \in Buckets : Capacity[x] \in Nat /\ bucket[x] \in BucketRecords
  BY <1>1, RateAssumption DEF RateInv
<1>4. LevelInv
  BY <1>2, <1>3 DEF LevelInv
<1>5. ASSUME NEW x \in Buckets
      PROVE  Level(x) = Capacity[x]
  <2>1. (now - bucket[x].last) * bucket[x].rate = 0
    <3>1. bucket[x].rate \in Nat /\ now - bucket[x].last = 0
      BY <1>2, <1>3 DEF BucketRecords
    <3> QED
      BY <3>1
  <2> QED
    BY <1>1, <1>2, <1>3, <2>1, LevelValue DEF Least
<1>6. Fluid!Buckets = Buckets /\ Capacity \in [Buckets -> Nat]
  BY RateAssumption DEF Buckets, Fluid!Buckets
<1>7. Fluid!Init
  BY <1>3, <1>5, <1>6 DEF Fluid!Init, Level, BucketRecords
<1> QED
  BY <1>1, <1>4, <1>7

\* The lazily refilled buckets implement continuously filling ones for all
\* rates and capacities: a level that is read, an acquire that fails and
\* refunds, a rate that changes between two refills are invisible, and a grant
\* pays from both levels at once (token_bucket.py:37-75, shared_pool.py:45-56).
THEOREM BucketsAreFluid == Spec => ImplementsFluid
<1>1. RateInv /\ RateInv' /\ LevelInv /\ [Next]_vars
        => LevelInv' /\ [Fluid!Next]_(Fluid!vars)
  BY FluidSteps DEF Fluid!vars, levels, rates, Level
<1> QED
  BY <1>1, FullBuckets, RateInductive, PTL DEF Spec, ImplementsFluid, Fluid!Spec

\* Reading the levels, recording an outcome and calming down let no level, no
\* account and not the clock move, even where a new rate settles the bucket
\* (token_bucket.py:37-42, shared_pool.py:63-66).
LEMMA QuietSteps ==
  ASSUME RateInv, RateInv', LevelInv,
         \/ \E a \in APIs : TimeUntil(a) \/ \E o \in Outcomes : Record(a, o)
         \/ CalmsDown \/ UNCHANGED vars
  PROVE  /\ UNCHANGED <<now, granted>> /\ bucket'[Global].rate = bucket[Global].rate
         /\ \A x \in Buckets : Level(x)' = Level(x)
<1> DEFINE Quiet == /\ UNCHANGED <<now, granted>>
                    /\ bucket'[Global].rate = bucket[Global].rate
                    /\ \A x \in Buckets : Level(x)' = Level(x)
<1>1. APIs \subseteq Buckets /\ Global \in Buckets /\ Global \notin APIs
  BY RateAssumption DEF Buckets
<1>2. ASSUME NEW a \in APIs, TimeUntil(a)
      PROVE  Quiet
  <2>1. \A x \in Buckets : bucket'[x] \in {bucket[x], Refilled(x)}
    BY <1>2 DEF TimeUntil
  <2>2. \A x \in Buckets : /\ Refilled(x).last = now /\ Refilled(x).tokens = Level(x)
                           /\ Refilled(x).rate = bucket[x].rate
    BY RefilledTypes DEF Level
  <2>3. \A x \in Buckets : Level(x)' = Level(x)
    BY <1>2, <2>1, <2>2, SameLevels DEF TimeUntil
  <2> QED
    BY <1>1, <1>2, <2>1, <2>2, <2>3 DEF TimeUntil
<1>3. ASSUME NEW a \in APIs, NEW o \in Outcomes, Record(a, o)
      PROVE  Quiet
  <2> DEFINE r == BaseRate[a] * Adjusted(a, Recorded(outcomes[a], o))
             k == WithRate(a, r)
  <2>1. /\ UNCHANGED <<now, granted>>
        /\ bucket' = bucket \/ bucket' = [bucket EXCEPT ![a] = k]
    BY <1>3 DEF Record
  <2>2. k.last = now /\ k.tokens = Level(a)
    <3>1. k = [Refilled(a) EXCEPT !.rate = r]
      BY DEF WithRate
    <3> HIDE DEF k, r
    <3> QED
      BY <1>1, <3>1, RefilledTypes DEF Level, BucketRecords
  <2> HIDE DEF k
  <2>3. bucket \in [Buckets -> BucketRecords]
    BY DEF RateInv
  <2>4. \A x \in Buckets : \/ bucket'[x] = bucket[x]
                           \/ /\ x = a
                              /\ bucket'[x].last = now /\ bucket'[x].tokens = Level(x)
    BY <1>1, <2>1, <2>2, <2>3
  <2>5. \A x \in Buckets : Level(x)' = Level(x)
    BY <2>1, <2>4, SameLevels
  <2>6. bucket'[Global].rate = bucket[Global].rate
    BY <1>1, <2>4
  <2> QED
    BY <2>1, <2>5, <2>6
<1>4. CASE CalmsDown \/ UNCHANGED vars
  <2>1. UNCHANGED <<now, granted, bucket>>
    BY <1>4 DEF CalmsDown, vars
  <2>2. \A x \in Buckets : Level(x)' = Level(x)
    BY <2>1, SameLevels
  <2> QED
    BY <2>1, <2>2
<1> QED
  BY <1>2, <1>3, <1>4

-----------------------------------------------------------------------------
(* The lazy buckets in whole tokens.                                       *)

Whole(x) == Level(x) \div Unit

\* Division of a level into tokens.
LEMMA Division ==
  ASSUME NEW u \in Nat \ {0}, NEW m \in Nat, NEW k \in Nat, NEW n \in Nat
  PROVE  /\ m \div u \in Nat
         /\ m <= k => m \div u <= k \div u
         /\ n * u <= m <=> n <= m \div u
         /\ n * u <= m => (m - n * u) \div u = (m \div u) - n
<1>1. m \div u \in Nat /\ (m \div u) * u <= m /\ m < (m \div u) * u + u
  OBVIOUS
<1>2. m <= k => m \div u <= k \div u
  OBVIOUS
<1>3. n * u <= m => (m - n * u) \div u = (m \div u) - n /\ n <= m \div u
  OBVIOUS
<1>4. n <= m \div u => n * u <= m
  <2>1. \A q \in Nat : n <= q => n * u <= q * u
    OBVIOUS
  <2>2. n * u \in Nat /\ (m \div u) * u \in Nat
    BY <1>1
  <2> QED
    BY <1>1, <2>1, <2>2
<1> QED
  BY <1>1, <1>2, <1>3, <1>4

\* An acquire of n tokens is granted exactly where both buckets hold n whole
\* ones: fractions never decide (token_bucket.py:61-65, shared_pool.py:48-54).
LEMMA GrantedInWholeTokens ==
  ASSUME RateInv, NEW a \in APIs, NEW n \in Nat
  PROVE  Granted(a, n * Unit) <=> n <= Whole(a) /\ n <= Whole(Global)
<1>1. /\ a \in Buckets /\ Global \in Buckets /\ Unit \in Nat \ {0}
      /\ n * Unit \in Nat
  BY RateAssumption DEF Buckets
<1>2. Level(a) \in Nat /\ Level(Global) \in Nat
  BY <1>1, LevelValue
<1>3. Granted(a, n * Unit) <=> n * Unit <= Level(a) /\ n * Unit <= Level(Global)
  BY <1>1, <1>2 DEF Granted, Has, Level
<1> QED
  BY <1>1, <1>2, <1>3, Division DEF Whole

wholes == [x \in Buckets |-> Whole(x)]

\* Every step fills the counts, takes from two of them what is granted, or
\* does nothing to them.
LEMMA CountSteps ==
  ASSUME RateInv, RateInv', LevelInv, [Next]_vars
  PROVE  Counts!Next \/ UNCHANGED wholes
<1>1. /\ APIs \subseteq Buckets /\ Global \in Buckets /\ Counts!Buckets = Buckets
      /\ Unit \in Nat \ {0}
  BY RateAssumption DEF Buckets, Counts!Buckets
<1>2. \A x \in Buckets : /\ Level(x) \in Nat /\ Capacity[x] \in Nat /\ Level(x) <= Capacity[x]
                         /\ Whole(x) \in Nat /\ Whole(x) <= Capacity[x] \div Unit
  BY <1>1, LevelValue, Division, RateAssumption DEF Whole
<1>3. ASSUME \A x \in Buckets : Level(x)' = Level(x)
      PROVE  UNCHANGED wholes
  BY <1>3 DEF wholes, Whole
<1>4. ASSUME NEW a \in APIs, NEW n \in {1, 2}, TryAcquire(a, n)
      PROVE  Counts!Next \/ UNCHANGED wholes
  <2>1. n \in Nat /\ n >= 1
    OBVIOUS
  <2>2. PICK cost \in Nat : cost = n * Unit
    BY <1>1
  <2>3. bucket' = AfterAcquire(a, cost) /\ now' = now
    BY <1>4, <2>2 DEF TryAcquire
  <2>4. CASE ~Granted(a, cost)
    BY <1>3, <2>3, <2>4, AcquireLevels
  <2>5. CASE Granted(a, cost)
    <3>1. \A x \in Buckets : Level(x)' = IF x \in {a, Global} THEN Level(x) - cost ELSE Level(x)
      BY <2>3, <2>5, AcquireLevels
    <3>2. n <= Whole(a) /\ n <= Whole(Global)
      BY <2>1, <2>2, <2>5, GrantedInWholeTokens
    <3>3. \A x \in {a, Global} : (Level(x) - cost) \div Unit = Whole(x) - n
      BY <1>1, <1>2, <2>1, <2>2, <3>2, Division DEF Whole
    <3>4. \A x \in Buckets : Whole(x)' = IF x \in {a, Global} THEN Whole(x) - n ELSE Whole(x)
      BY <3>1, <3>3 DEF Whole
    <3>5. wholes' = [x \in Buckets |-> IF x \in {a, Global} THEN wholes[x] - n ELSE wholes[x]]
      BY <3>4 DEF wholes
    <3>6. Counts!Take(a, n)
      BY <1>1, <3>2, <3>5 DEF Counts!Take, wholes, Whole, Level
    <3>7. n \in 1 .. Capacity[Global] \div Unit
      <4>1. /\ Whole(Global) \in Nat /\ Whole(Global) <= Capacity[Global] \div Unit
            /\ Capacity[Global] \div Unit \in Nat
        BY <1>1, <1>2, Division
      <4> QED
        BY <2>1, <3>2, <4>1
    <3> QED
      BY <1>1, <3>6, <3>7 DEF Counts!Next
  <2> QED
    BY <2>4, <2>5
<1>5. CASE Tick
  <2>1. now' = now + 1 /\ bucket' = bucket
    BY <1>5 DEF Tick
  <2>2. ASSUME NEW x \in Buckets
        PROVE  Whole(x)' \in Nat /\ Whole(x) <= Whole(x)' /\ Whole(x)' <= Capacity[x] \div Unit
    <3>1. bucket[x].rate \in Nat
      BY DEF RateInv, BucketRecords
    <3>2. Level(x)' = Least(Capacity[x], Level(x) + bucket[x].rate)
      BY <2>1, TickLevel
    <3>3. Level(x)' \in Nat /\ Level(x) <= Level(x)' /\ Level(x)' <= Capacity[x]
      BY <1>2, <3>1, <3>2 DEF Least
    <3>4. Whole(x)' = Level(x)' \div Unit
      BY DEF Whole
    <3> QED
      BY <1>1, <1>2, <3>3, <3>4, Division DEF Whole
  <2>3. Counts!Fill
    BY <1>1, <2>2 DEF Counts!Fill, Whole, Level
  <2> QED
    BY <2>3 DEF Counts!Next
<1> QED
  BY <1>3, <1>4, <1>5, QuietSteps DEF Next

\* In whole tokens the two-level rate limit is the counts the scheduler works
\* with, for every unit, rate and capacity: they grow by themselves and shrink
\* only by grants, in both buckets at once (token_bucket.py:53-75,
\* shared_pool.py:45-56).
THEOREM BucketsAreCounts == Spec => ImplementsCounts
<1>1. Init => Counts!Init
  <2> SUFFICES ASSUME Init PROVE Counts!Init
    OBVIOUS
  <2>1. \A x \in Buckets : Level(x) = Capacity[x]
    BY FullBuckets DEF Fluid!Init, Level
  <2> QED
    BY <2>1 DEF Counts!Init, Level
<1>2. RateInv /\ RateInv' /\ LevelInv /\ [Next]_vars
        => LevelInv' /\ [Counts!Next]_(Counts!vars)
  BY FluidSteps, CountSteps DEF Counts!vars, wholes, Whole, Level
<1> QED
  BY <1>1, <1>2, FullBuckets, RateInductive, PTL DEF Spec, ImplementsCounts, Counts!Spec
-----------------------------------------------------------------------------
(* Budget.                                                                 *)

\* The highest rate a bucket ever runs at: only the throttler changes rates,
\* and only those of the APIs' buckets.
Ceiling(x) == IF x = Global THEN GlobalRate ELSE BaseRate[x] * MaxFactor

\* The inductive invariant: what a bucket paid and what is left in it come
\* from its first filling and from its rate.
BudgetInv ==
  /\ granted \in [Buckets -> Nat]
  /\ bucket[Global].rate = GlobalRate
  /\ \A x \in Buckets : granted[x] + Level(x) <= Capacity[x] + Ceiling(x) * now

\* Arithmetic that the solvers need stated.
LEMMA TimesMonotone ==
  ASSUME NEW n \in Nat, NEW f \in Nat, NEW m \in Nat, f <= m
  PROVE  n * f \in Nat /\ n * m \in Nat /\ n * f <= n * m
<1>1. PICK d \in Nat : m = f + d
  <2>1. m - f \in Nat /\ m = f + (m - f)
    OBVIOUS
  <2> QED
    BY <2>1
<1>2. n * m = n * f + n * d /\ n * d \in Nat /\ n * f \in Nat
  BY <1>1
<1> QED
  BY <1>2

\* No bucket is refilled faster than its ceiling.
LEMMA RatesBelowCeiling ==
  ASSUME RateInv, bucket[Global].rate = GlobalRate, NEW x \in Buckets
  PROVE  bucket[x].rate \in Nat /\ Ceiling(x) \in Nat /\ bucket[x].rate <= Ceiling(x)
<1>1. bucket[x].rate \in Nat
  BY DEF RateInv, BucketRecords
<1>2. CASE x = Global
  BY <1>1, <1>2 DEF Ceiling
<1>3. CASE x # Global
  <2>1. /\ x \in APIs /\ bucket[x].rate = BaseRate[x] * factor[x]
        /\ factor[x] \in MinFactor .. MaxFactor
    BY <1>3 DEF Buckets, RateInv, FactorInForce
  <2>2. BaseRate[x] \in Nat /\ factor[x] \in Nat /\ MaxFactor \in Nat /\ factor[x] <= MaxFactor
    BY <2>1, RateAssumption
  <2> QED
    BY <1>1, <1>3, <2>1, <2>2, TimesMonotone DEF Ceiling
<1> QED
  BY <1>2, <1>3

\* A step that leaves clock and levels alone and grants nothing keeps it.
LEMMA BudgetUntouched ==
  ASSUME BudgetInv, UNCHANGED <<now, granted>>, bucket'[Global].rate = bucket[Global].rate,
         \A x \in Buckets : Level(x)' = Level(x)
  PROVE  BudgetInv'
BY DEF BudgetInv, Ceiling

\* An acquire takes from the levels what it adds to the accounts.
LEMMA GrantKeepsBudget ==
  ASSUME RateInv, RateInv', LevelInv, BudgetInv,
         NEW a \in APIs, NEW n \in {1, 2}, TryAcquire(a, n)
  PROVE  BudgetInv'
<1>1. PICK cost \in Nat : cost = n * Unit
  BY RateAssumption
<1>2. a \in Buckets /\ Global \in Buckets /\ a # Global
  BY RateAssumption DEF Buckets
<1>3. /\ bucket' = AfterAcquire(a, cost) /\ now' = now
      /\ granted' = IF Granted(a, cost)
                    THEN [granted EXCEPT ![a] = @ + cost, ![Global] = @ + cost] ELSE granted
  BY <1>1 DEF TryAcquire, Granted
<1>4. bucket'[Global].rate = bucket[Global].rate
  BY <1>2, <1>3, AcquireBuckets
<1>5. CASE ~Granted(a, cost)
  <2>1. \A x \in Buckets : Level(x)' = Level(x)
    BY <1>3, <1>5, AcquireLevels
  <2> QED
    BY <1>3, <1>4, <1>5, <2>1, BudgetUntouched
<1>6. CASE Granted(a, cost)
  <2>1. \A x \in Buckets : Level(x)' = IF x \in {a, Global} THEN Level(x) - cost ELSE Level(x)
    BY <1>3, <1>6, AcquireLevels
  <2>2. \A x \in Buckets : /\ granted[x] \in Nat /\ Level(x) \in Nat
                           /\ granted'[x] = IF x \in {a, Global} THEN granted[x] + cost
                                                                 ELSE granted[x]
    BY <1>2, <1>3, <1>6, LevelValue DEF BudgetInv
  <2>3. granted' \in [Buckets -> Nat]
    BY <1>2, <1>3, <1>6 DEF BudgetInv
  <2>4. ASSUME NEW x \in Buckets PROVE granted'[x] + Level(x)' = granted[x] + Level(x)
    BY <2>1, <2>2
  <2> QED
    BY <1>3, <1>4, <2>3, <2>4 DEF BudgetInv, Ceiling
<1> QED
  BY <1>5, <1>6

\* A tick raises the allowance by at least what it adds to a level.
LEMMA TickKeepsBudget ==
  ASSUME RateInv, RateInv', LevelInv, BudgetInv, Tick
  PROVE  BudgetInv'
<1>1. now' = now + 1 /\ bucket' = bucket /\ granted' = granted /\ now \in Nat
  BY DEF Tick, RateInv
<1>2. ASSUME NEW x \in Buckets
      PROVE  granted'[x] + Level(x)' <= Capacity[x] + Ceiling(x)' * now'
  <2>1. /\ bucket[x].rate \in Nat /\ Ceiling(x) \in Nat /\ bucket[x].rate <= Ceiling(x)
        /\ Ceiling(x)' = Ceiling(x)
    BY RatesBelowCeiling DEF BudgetInv, Ceiling
  <2>2. /\ Level(x) \in Nat /\ Capacity[x] \in Nat /\ granted[x] \in Nat
        /\ granted[x] + Level(x) <= Capacity[x] + Ceiling(x) * now
    BY LevelValue, RateAssumption DEF BudgetInv
  <2>3. Level(x)' = Least(Capacity[x], Level(x) + bucket[x].rate)
    BY <1>1, TickLevel
  <2>4. Level(x)' \in Nat /\ Level(x)' <= Level(x) + bucket[x].rate
    BY <2>1, <2>2, <2>3 DEF Least
  <2>5. /\ Ceiling(x) * now \in Nat
        /\ Ceiling(x) * (now + 1) = Ceiling(x) * now + Ceiling(x)
    <3>1. \A c, t \in Nat : c * t \in Nat /\ c * (t + 1) = c * t + c
      OBVIOUS
    <3> QED
      BY <1>1, <2>1, <3>1
  <2>6. granted[x] + Level(x)' <= Capacity[x] + (Ceiling(x) * now + Ceiling(x))
    BY <2>1, <2>2, <2>4, <2>5
  <2> QED
    BY <1>1, <2>1, <2>5, <2>6
<1> QED
  BY <1>1, <1>2 DEF BudgetInv

\* Every step keeps the account of every bucket.
LEMMA BudgetInductive ==
  RateInv /\ RateInv' /\ LevelInv /\ BudgetInv /\ [Next]_vars => BudgetInv'
<1> SUFFICES ASSUME RateInv, RateInv', LevelInv, BudgetInv, [Next]_vars PROVE BudgetInv'
  OBVIOUS
<1>1. CASE \/ \E a \in APIs : TimeUntil(a) \/ \E o \in Outcomes : Record(a, o)
           \/ CalmsDown \/ UNCHANGED vars
  BY <1>1, QuietSteps, BudgetUntouched
<1> QED
  BY <1>1, GrantKeepsBudget, TickKeepsBudget DEF Next

\* The accounts open with full buckets.
LEMMA BudgetInitially == Init => BudgetInv
<1> SUFFICES ASSUME Init PROVE BudgetInv
  OBVIOUS
<1>1. RateInv /\ LevelInv /\ Global \in Buckets
  BY FullBuckets DEF Buckets
<1>2. granted = [x \in Buckets |-> 0] /\ now = 0 /\ bucket[Global].rate = GlobalRate
  BY <1>1 DEF Init, FullBucket
<1>3. ASSUME NEW x \in Buckets
      PROVE  granted[x] + Level(x) <= Capacity[x] + Ceiling(x) * now
  <2>1. Level(x) \in Nat /\ Level(x) <= Capacity[x] /\ Capacity[x] \in Nat
    BY <1>1, LevelValue, RateAssumption
  <2>2. Ceiling(x) \in Nat
    BY <1>1, <1>2, RatesBelowCeiling
  <2>3. Ceiling(x) * now = 0
    BY <1>2, <2>2
  <2> QED
    BY <1>2, <2>1, <2>3
<1> QED
  BY <1>2, <1>3 DEF BudgetInv

\* The operator's budget (shared_pool.py:9-14) is never exceeded, whatever the
\* order of acquires, refunds, reads and new rates: no API is granted more than
\* a full bucket and its declared rate times max_rate_factor, and all APIs
\* together no more than a full global bucket and the global rate.
THEOREM BudgetKept == Spec => []Budget
<1>1. RateInv /\ LevelInv /\ BudgetInv => Budget
  <2> SUFFICES ASSUME RateInv, LevelInv, BudgetInv, NEW x \in Buckets
               PROVE  granted[x] <= Capacity[x] + Ceiling(x) * now
    BY RateAssumption DEF Budget, Ceiling, Buckets
  <2>1. /\ Level(x) \in Nat /\ Capacity[x] \in Nat /\ granted[x] \in Nat /\ now \in Nat
        /\ granted[x] + Level(x) <= Capacity[x] + Ceiling(x) * now
    BY LevelValue, RateAssumption DEF BudgetInv, RateInv
  <2>2. Ceiling(x) * now \in Nat
    BY <2>1, RatesBelowCeiling DEF BudgetInv
  <2> QED
    BY <2>1, <2>2
<1>2. RateInv /\ RateInv' /\ LevelInv /\ [Next]_vars => LevelInv'
  BY FluidSteps
<1> QED
  BY <1>1, <1>2, FullBuckets, BudgetInitially, RateInductive, BudgetInductive, PTL DEF Spec

-----------------------------------------------------------------------------
(* Types, and the window of the throttler.                                 *)

\* The outcomes of every API fit its window.
WindowInv ==
  /\ outcomes \in [APIs -> Seq({0, 1})]
  /\ \A a \in APIs : Len(outcomes[a]) <= ErrorWindow
  /\ calm \in BOOLEAN

\* A full window drops its oldest outcome for a new one (adaptive.py:43).
LEMMA SlideTypes ==
  ASSUME NEW w \in Seq({0, 1}), Len(w) <= ErrorWindow, NEW x \in {0, 1}
  PROVE  Slide(w, x) \in Seq({0, 1}) /\ Len(Slide(w, x)) <= ErrorWindow
<1> DEFINE v == Append(w, x)
<1>1. v \in Seq({0, 1}) /\ Len(v) = Len(w) + 1 /\ Len(w) \in Nat
  OBVIOUS
<1>2. v # <<>>
  BY <1>1
<1> HIDE DEF v
<1>3. Tail(v) \in Seq({0, 1}) /\ Len(Tail(v)) = Len(v) - 1
  BY <1>1, <1>2
<1>4. ErrorWindow \in Nat
  BY RateAssumption
<1>5. Slide(w, x) = IF Len(v) > ErrorWindow THEN Tail(v) ELSE v
  BY DEF Slide, v
<1> QED
  BY <1>1, <1>3, <1>4, <1>5

\* Whatever is recorded, the window is one.
LEMMA RecordedTypes ==
  ASSUME NEW w \in Seq({0, 1}), Len(w) <= ErrorWindow, NEW o \in Outcomes
  PROVE  Recorded(w, o) \in Seq({0, 1}) /\ Len(Recorded(w, o)) <= ErrorWindow
<1>1. Recorded(w, o) \in {Slide(w, 0), Slide(w, 1), Slide(Slide(w, 1), 1)}
  BY DEF Recorded
<1>2. \A v \in Seq({0, 1}), x \in {0, 1} :
        Len(v) <= ErrorWindow => Slide(v, x) \in Seq({0, 1}) /\ Len(Slide(v, x)) <= ErrorWindow
  BY SlideTypes
<1>3. 0 \in {0, 1} /\ 1 \in {0, 1}
  OBVIOUS
<1>4. Slide(w, 1) \in Seq({0, 1}) /\ Len(Slide(w, 1)) <= ErrorWindow
  BY <1>2, <1>3
<1> QED
  BY <1>1, <1>2, <1>3, <1>4

\* Every step keeps the windows.
LEMMA WindowInductive == WindowInv /\ [Next]_vars => WindowInv'
<1> SUFFICES ASSUME WindowInv, [Next]_vars PROVE WindowInv'
  OBVIOUS
<1>1. ASSUME NEW a \in APIs, NEW o \in Outcomes, Record(a, o)
      PROVE  WindowInv'
  <2>1. /\ outcomes' = [outcomes EXCEPT ![a] = Recorded(outcomes[a], o)]
        /\ calm' = calm
    BY <1>1 DEF Record
  <2>2. Recorded(outcomes[a], o) \in Seq({0, 1}) /\ Len(Recorded(outcomes[a], o)) <= ErrorWindow
    BY RecordedTypes DEF WindowInv
  <2> QED
    BY <2>1, <2>2 DEF WindowInv
<1>2. CASE outcomes' = outcomes /\ calm' \in {calm, TRUE}
  BY <1>2 DEF WindowInv
<1> QED
  BY <1>1, <1>2 DEF Next, TryAcquire, TimeUntil, Tick, CalmsDown, vars

\* They hold in every state.
LEMMA RateInvariance == Spec => [](RateInv /\ LevelInv /\ BudgetInv /\ WindowInv)
<1>1. RateInv /\ RateInv' /\ LevelInv /\ [Next]_vars => LevelInv'
  BY FluidSteps
<1>2. Init => WindowInv
  <2> SUFFICES ASSUME Init PROVE WindowInv
    OBVIOUS
  <2> DEFINE none == <<>>
  <2>1. none \in Seq({0, 1}) /\ Len(none) <= ErrorWindow
    BY RateAssumption
  <2>2. outcomes = [a \in APIs |-> none] /\ calm \in BOOLEAN
    BY DEF Init
  <2> HIDE DEF none
  <2>3. \A a \in APIs : outcomes[a] = none
    BY <2>2
  <2>4. outcomes \in [APIs -> Seq({0, 1})]
    BY <2>1, <2>2
  <2> QED
    BY <2>1, <2>2, <2>3, <2>4 DEF WindowInv
<1> QED
  BY <1>1, <1>2, FullBuckets, BudgetInitially, RateInductive, BudgetInductive,
     WindowInductive, PTL DEF Spec

\* Buckets hold what they can, never less than nothing, and windows never grow
\* (token_bucket.py:53-75, adaptive.py:43).
THEOREM TypeCorrect == Spec => []TypeOK
<1>1. RateInv /\ LevelInv /\ BudgetInv /\ WindowInv => TypeOK
  BY DEF RateInv, LevelInv, BudgetInv, WindowInv, TypeOK, BucketRecords
<1> QED
  BY <1>1, RateInvariance, PTL

\* With error_window below five the throttler never moves a rate: its warm-up
\* is five outcomes, more than the window ever holds (adaptive.py:62-64).
THEOREM ShortWindowNeverAdjusts ==
  ASSUME ErrorWindow < 5
  PROVE  Spec => [](factor = [a \in APIs |-> Scale])
<1> DEFINE AtScale == factor = [a \in APIs |-> Scale]
<1>1. Init => AtScale
  BY DEF Init
<1>2. WindowInv /\ AtScale /\ [Next]_vars => AtScale'
  <2> SUFFICES ASSUME WindowInv, AtScale, [Next]_vars PROVE AtScale'
    OBVIOUS
  <2>1. ASSUME NEW a \in APIs, NEW o \in Outcomes, Record(a, o)
        PROVE  factor' = factor
    <3> DEFINE w == Recorded(outcomes[a], o)
    <3>1. Len(w) \in Nat /\ Len(w) < 5
      <4>1. w \in Seq({0, 1}) /\ Len(w) <= ErrorWindow
        BY RecordedTypes DEF WindowInv
      <4>2. ErrorWindow \in Nat /\ Len(w) \in Nat
        BY <4>1, RateAssumption
      <4> QED
        BY <4>1, <4>2
    <3>2. Warmup \in Nat /\ Warmup >= 5
      <4>1. ErrorWindow \div 4 \in Nat
        BY RateAssumption
      <4> QED
        BY <4>1 DEF Warmup, Greatest
    <3>3. Adjusted(a, w) = factor[a]
      <4>1. Len(w) < Warmup
        BY <3>1, <3>2
      <4> QED
        BY <4>1, Zenon DEF Adjusted
    <3> QED
      BY <2>1, <3>3 DEF Record
  <2> QED
    BY <2>1 DEF Next, TryAcquire, TimeUntil, Tick, CalmsDown, vars
<1> QED
  BY <1>1, <1>2, RateInvariance, PTL DEF Spec

\* acquire(n) with more tokens than one of the two buckets can hold is never
\* granted, so without a timeout it waits for ever (token_bucket.py:94-104,
\* shared_pool.py:45-56).
THEOREM OversizedNeverGranted ==
  ASSUME NEW a \in APIs, NEW n \in Nat,
         Capacity[a] < n * Unit \/ Capacity[Global] < n * Unit
  PROVE  Spec => []~Granted(a, n * Unit)
<1>1. RateInv /\ LevelInv => ~Granted(a, n * Unit)
  <2> SUFFICES ASSUME RateInv, LevelInv, Granted(a, n * Unit) PROVE FALSE
    OBVIOUS
  <2>1. a \in Buckets /\ Global \in Buckets
    BY DEF Buckets
  <2>2. /\ Level(a) <= Capacity[a] /\ Level(Global) <= Capacity[Global]
        /\ {Level(a), Level(Global), Capacity[a], Capacity[Global], n * Unit} \subseteq Nat
    BY <2>1, LevelValue, RateAssumption
  <2>3. n * Unit <= Level(a) /\ n * Unit <= Level(Global)
    BY <2>2 DEF Granted, Has, Level
  <2> QED
    BY <2>2, <2>3
<1> QED
  BY <1>1, RateInvariance, PTL
=============================================================================
