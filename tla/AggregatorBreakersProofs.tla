---------------------- MODULE AggregatorBreakersProofs ----------------------
(***************************************************************************)
(* The aggregator uses the breaker of every API as BreakerProbes says:     *)
(* what is proved there of one breaker under overlapping calls is about    *)
(* the breakers of the whole system, for every set of requests and APIs.   *)
(***************************************************************************)
EXTENDS CarrierProofs, AggregatorBreakers

Watch == breaker[Watched]

-----------------------------------------------------------------------------
(* Steps.                                                                  *)

\* Only a yes of allow() or a look at the state begins a HALF_OPEN episode.
LEMMA Beginnings ==
  ASSUME NEW b \in Breakers
  PROVE  /\ Refresh(b).state # b.state <=> b.state = "open" /\ Refresh(b).state = "half_open"
         /\ Allow(b).state = Refresh(b).state
         /\ Elapse(b).state = b.state
         /\ b.state = "open" => /\ OnSuccess(b).state # "half_open"
                                /\ OnFailure(b).state # "half_open"
<1>1. Refresh(b) \in Breakers
  BY BreakerTypes
<1>2. Refresh(b).state # b.state <=> b.state = "open" /\ Refresh(b).state = "half_open"
  BY DEF Refresh, Breakers
<1>3. \A c \in Breakers : [c EXCEPT !.probes = @ + 1].state = c.state
  BY DEF Breakers
<1>4. Allow(b).state = Refresh(b).state
  BY <1>1, <1>3, Zenon DEF Allow
<1>5. Elapse(b).state = b.state
  BY DEF Elapse, Breakers
<1>6. ASSUME b.state = "open"
      PROVE  OnSuccess(b).state # "half_open"
  BY <1>6 DEF OnSuccess, Breakers
<1>7. ASSUME b.state = "open"
      PROVE  OnFailure(b).state # "half_open"
  <2> DEFINE n == b.failures + 1
  <2>1. \/ OnFailure(b) = Trip
        \/ OnFailure(b) = [b EXCEPT !.failures = n, !.successes = 0]
    BY DEF OnFailure
  <2> HIDE DEF n
  <2> QED
    BY <1>7, <2>1 DEF Trip, ResetToClosed, Breakers
<1> QED
  BY <1>2, <1>4, <1>5, <1>6, <1>7

\* What a step does to the calls of the watched API.
SameCalls == \A r \in WatchedCalls : r \in calling' <=> r \in calling
Starts(r) == /\ r \notin calling /\ r \in calling'
             /\ \A s \in WatchedCalls \ {r} : s \in calling' <=> s \in calling
Stops(r)  == /\ r \in calling /\ r \notin calling'
             /\ \A s \in WatchedCalls \ {r} : s \in calling' <=> s \in calling

\* A step that reports no outcome, to its breaker and its calls, and whether it
\* loses a slot.
QuietStep(n) ==
  \/ n = 0 /\ SameCalls /\ Watch' \in {Watch, Refresh(Watch)}
  \/ n = 0 /\ SameCalls /\ RecoveryDue(Watch) /\ Watch' = Elapse(Watch)
  \/ /\ n = IF Watch'.state = "half_open" THEN 1 ELSE 0
     /\ SameCalls /\ Allows(Watch) /\ Watch' = Allow(Watch)
  \/ \E r \in WatchedCalls :
       n = 0 /\ Starts(r) /\ Allows(Watch) /\ Watch' = Allow(Watch)
  \/ \E r \in WatchedCalls :
       /\ n = IF flight[r] = "probe" THEN 1 ELSE 0
       /\ Stops(r) /\ Watch' = Watch

\* A dispatch asks the breaker of the request it is for.  Its request is in no
\* call, so an admission starts one that was not there.
LEMMA DispatchQuiet ==
  ASSUME TypeOK, CarrierInv, DispatchDenied \/ DispatchCalls
  PROVE  QuietStep(0)
<1> DEFINE r == Head(ready)
<1>1. ready \in Seq(Requests) /\ ready # <<>>
  BY DEF DispatchDenied, DispatchCalls, Starting, TypeOK, TaskTypes
<1>2. r \in Requests /\ r \in ToSet(ready)
  BY <1>1, TailDistinct DEF CarrierInv
<1>3. r \notin calling
  BY <1>2 DEF CarrierInv, Holds, Places
<1>4. Api[r] \in APIs /\ breaker \in [APIs -> Breakers] /\ Watched \in APIs
  BY <1>2, AggregatorAssumption, WatchedAssumption DEF TypeOK, ApiTypes
<1>5. CASE DispatchDenied
  <2>1. breaker' = [breaker EXCEPT ![Api[r]] = Refresh(@)] /\ calling' = calling
    BY <1>5 DEF DispatchDenied
  <2> HIDE DEF r
  <2>2. Watch' \in {Watch, Refresh(Watch)}
    BY <1>4, <2>1 DEF Watch
  <2> QED
    BY <2>1, <2>2 DEF QuietStep, SameCalls
<1>6. CASE DispatchCalls
  <2>1. /\ Allows(breaker[Api[r]]) /\ calling' = calling \cup {r}
        /\ breaker' = [breaker EXCEPT ![Api[r]] = Allow(@)]
    BY <1>6 DEF DispatchCalls
  <2> HIDE DEF r
  <2>2. CASE Api[r] = Watched
    <3>1. r \in WatchedCalls /\ Starts(r)
      BY <1>2, <1>3, <2>1, <2>2 DEF WatchedCalls, Starts
    <3>2. Allows(Watch) /\ Watch' = Allow(Watch)
      BY <1>4, <2>1, <2>2 DEF Watch
    <3> QED
      BY <3>1, <3>2 DEF QuietStep
  <2>3. CASE Api[r] # Watched
    <3>1. SameCalls
      BY <2>1, <2>3 DEF SameCalls, WatchedCalls
    <3>2. Watch' = Watch
      BY <1>4, <2>1, <2>3 DEF Watch
    <3> QED
      BY <3>1, <3>2 DEF QuietStep
  <2> QED
    BY <2>2, <2>3
<1> QED
  BY <1>5, <1>6

\* A dispatch that is put back starts no call, and the slot it reserved, if it
\* did, is lost.
LEMMA PutBackQuiet ==
  ASSUME TypeOK, DispatchPutsBack,
         NEW n, n = IF Api[Head(ready)] = Watched /\ breaker'[Watched].state = "half_open"
                    THEN 1 ELSE 0
  PROVE  QuietStep(n)
<1> DEFINE r == Head(ready)
<1>1. ready \in Seq(Requests) /\ ready # <<>>
  BY DEF DispatchPutsBack, Starting, TypeOK, TaskTypes
<1>2. r \in Requests
  BY <1>1
<1>3. Api[r] \in APIs /\ breaker \in [APIs -> Breakers] /\ Watched \in APIs
  BY <1>2, AggregatorAssumption, WatchedAssumption DEF TypeOK, ApiTypes
<1>4. /\ Allows(breaker[Api[r]]) /\ calling' = calling
      /\ breaker' = [breaker EXCEPT ![Api[r]] = Allow(@)]
  BY DEF DispatchPutsBack
<1>5. n = IF Api[r] = Watched /\ Watch'.state = "half_open" THEN 1 ELSE 0
  BY DEF Watch
<1> HIDE DEF r
<1>6. CASE Api[r] = Watched
  <2>1. Allows(Watch) /\ Watch' = Allow(Watch) /\ SameCalls
    BY <1>3, <1>4, <1>6 DEF Watch, SameCalls
  <2>2. n = IF Watch'.state = "half_open" THEN 1 ELSE 0
    BY <1>5, <1>6
  <2> QED
    BY <2>1, <2>2 DEF QuietStep
<1>7. CASE Api[r] # Watched
  <2>1. Watch' = Watch /\ SameCalls
    BY <1>3, <1>4, <1>7 DEF Watch, SameCalls
  <2>2. n = 0
    BY <1>5, <1>7
  <2> QED
    BY <2>1, <2>2 DEF QuietStep
<1> QED
  BY <1>6, <1>7

\* A 429 or a 4xx ends a call and the breaker is not told; if it was a probe its
\* slot is lost.
LEMMA UntoldQuiet ==
  ASSUME NEW r \in Requests, CallRateLimited(r) \/ CallRefused(r),
         NEW n, n = IF r \in WatchedCalls /\ flight[r] = "probe" THEN 1 ELSE 0
  PROVE  QuietStep(n)
<1>1. r \in calling /\ calling' = calling \ {r} /\ Watch' = Watch
  BY DEF CallRateLimited, CallRefused, Answers, Watch
<1>2. CASE r \in WatchedCalls
  <2>1. Stops(r)
    BY <1>1 DEF Stops
  <2>2. n = IF flight[r] = "probe" THEN 1 ELSE 0
    BY <1>2
  <2> QED
    BY <1>1, <1>2, <2>1, <2>2 DEF QuietStep
<1>3. CASE r \notin WatchedCalls
  <2>1. SameCalls
    BY <1>1, <1>3 DEF SameCalls
  <2> QED
    BY <1>1, <1>3, <2>1 DEF QuietStep
<1> QED
  BY <1>2, <1>3

\* The loop reads breakers and starts or ends no call.
LEMMA LoopQuiet ==
  ASSUME TypeOK, Loop
  PROVE  QuietStep(0)
<1> USE DEF offLoop, taskVars, apiVars
<1>1. breaker \in [APIs -> Breakers] /\ Watched \in APIs
  BY WatchedAssumption DEF TypeOK, ApiTypes
<1>2. SameCalls
  BY DEF SameCalls, Loop, LoopExits, LoopBlocks, LoopWaitsForRequest, LoopFindsNone,
     LoopDispatches, LoopResumes, GetPops, GetTimesOut, LoopTakes
<1>3. CASE LoopFindsNone \/ LoopDispatches
  <2>1. Watch' = Refresh(Watch)
    BY <1>1, <1>3 DEF LoopFindsNone, LoopDispatches, RefreshAll, Watch
  <2> QED
    BY <1>2, <2>1 DEF QuietStep
<1>4. CASE LoopTakes
  <2>1. breaker' = [breaker EXCEPT ![Api[hand]] = Refresh(@)]
    BY <1>4 DEF LoopTakes
  <2>2. Watch' \in {Watch, Refresh(Watch)}
    BY <1>1, <2>1 DEF Watch
  <2> QED
    BY <1>2, <2>2 DEF QuietStep
<1>5. CASE \/ LoopExits \/ LoopBlocks \/ LoopWaitsForRequest \/ LoopResumes
           \/ GetPops \/ GetTimesOut
  <2>1. Watch' = Watch
    BY <1>5 DEF LoopExits, LoopBlocks, LoopWaitsForRequest, LoopResumes, GetPops,
       GetTimesOut, Watch
  <2> QED
    BY <1>2, <2>1 DEF QuietStep
<1> QED
  BY <1>3, <1>4, <1>5 DEF Loop

\* So is every other step that reports no outcome.
LEMMA SilentQuiet ==
  ASSUME TypeOK, CarrierInv, Silent
  PROVE  QuietStep(0)
<1> USE DEF systemVars, requestVars, lifeVars, loopVars, taskVars, apiVars, offLoop
<1>1. breaker \in [APIs -> Breakers] /\ Watched \in APIs
  BY WatchedAssumption DEF TypeOK, ApiTypes
<1>2. ASSUME UNCHANGED <<breaker, calling>>
      PROVE  QuietStep(0)
  BY <1>2 DEF QuietStep, SameCalls, Watch
<1>3. ASSUME NEW r \in Requests,
             Submit(r) \/ CancelOwner(r) \/ CleanupDedup(r) \/ ReplanPuts(r) \/ RetryPuts(r)
      PROVE  UNCHANGED <<breaker, calling>>
  BY <1>3 DEF Submit, SubmitRejected, SubmitShared, SubmitAccepted, SubmitQueueFull,
     CancelOwner, CleanupDedup, ReplanPuts, RetryPuts
<1>4. CASE \/ Start \/ StopBegin \/ LoopCancelled \/ StopFinish \/ DispatchDone
           \/ \E b \in Buckets : Refill(b)
  BY <1>2, <1>4 DEF Start, StopBegin, LoopCancelled, StopFinish, DispatchDone, Refill
<1>5. ASSUME NEW a \in APIs, RecoveryElapses(a)
      PROVE  QuietStep(0)
  <2>1. /\ RecoveryDue(breaker[a]) /\ calling' = calling
        /\ breaker' = [breaker EXCEPT ![a] = Elapse(@)]
    BY <1>5 DEF RecoveryElapses
  <2>2. Watch' = Watch \/ (RecoveryDue(Watch) /\ Watch' = Elapse(Watch))
    BY <1>1, <2>1 DEF Watch
  <2> QED
    BY <2>1, <2>2 DEF QuietStep, SameCalls
<1> QED
  BY <1>2, <1>3, <1>4, <1>5, LoopQuiet, DispatchQuiet DEF Silent

\* The aggregator with history variables takes the aggregator's steps.
LEMMA HistoryOnly == BreakersNext => Next
BY DEF BreakersNext, Tells, PutsBack, EndsUntold, Silent, Next, Call, Dispatch

LEMMA HistorySpec == BreakersSpec => Spec
<1>1. [BreakersNext]_breakerVars => [Next]_vars
  BY HistoryOnly DEF breakerVars
<1>2. BreakersInit => Init
  BY DEF BreakersInit
<1> QED
  BY <1>1, <1>2, PTL DEF BreakersSpec, Spec

-----------------------------------------------------------------------------
(* Their counterparts.                                                     *)

\* The operators of CircuitBreaker that BreakerProbes uses are the aggregator's.
LEMMA SameBreaker ==
  /\ Probes!ResetToClosed = ResetToClosed
  /\ \A b : /\ Probes!Refresh(b) = Refresh(b)
            /\ Probes!Allows(b) <=> Allows(b)
            /\ Probes!Allow(b) = Allow(b)
            /\ Probes!OnSuccess(b) = OnSuccess(b)
            /\ Probes!OnFailure(b) = OnFailure(b)
            /\ Probes!RecoveryDue(b) <=> RecoveryDue(b)
            /\ Probes!Elapse(b) = Elapse(b)
<1>1. Probes!ResetToClosed = ResetToClosed /\ Probes!Trip = Trip
  BY DEF Probes!ResetToClosed, ResetToClosed, Probes!Trip, Trip
<1>2. \A b : Probes!Refresh(b) = Refresh(b)
  BY DEF Probes!Refresh, Refresh
<1>3. \A b : (Probes!Allows(b) <=> Allows(b)) /\ Probes!Allow(b) = Allow(b)
  BY <1>2 DEF Probes!Allows, Allows, Probes!Allow, Allow
<1>4. \A n : Probes!ReleaseProbe(n) = ReleaseProbe(n)
  BY DEF Probes!ReleaseProbe, ReleaseProbe
<1>5. \A b : Probes!OnSuccess(b) = OnSuccess(b)
  BY <1>1, <1>4 DEF Probes!OnSuccess, OnSuccess
<1>6. \A b : Probes!OnFailure(b) = OnFailure(b)
  BY <1>1 DEF Probes!OnFailure, OnFailure
<1>7. \A b : (Probes!RecoveryDue(b) <=> RecoveryDue(b)) /\ Probes!Elapse(b) = Elapse(b)
  BY DEF Probes!RecoveryDue, RecoveryDue, Probes!Elapse, Elapse
<1> QED
  BY <1>1, <1>2, <1>3, <1>5, <1>6, <1>7

\* What BreakerProbes takes to be in flight is what the aggregator calls.
FlightInv ==
  /\ flight \in [WatchedCalls -> Probes!Flight]
  /\ \A r \in WatchedCalls : flight[r] # "idle" <=> r \in calling
  /\ lost \in Nat

\* The step keeps in flight what was, unless an episode begins.
LEMMA NoneFlies ==
  ASSUME FlightInv, Flies, SameCalls, Watch \in Breakers,
         Watch'.state = Refresh(Watch).state \/ Watch'.state = Watch.state
  PROVE  /\ flight' = IF Begins THEN [r \in WatchedCalls |->
                                        IF flight[r] = "idle" THEN "idle" ELSE "early"]
                      ELSE flight
         /\ Watch'.state = Refresh(Watch).state => (Begins <=> Probes!Entering)
         /\ Watch'.state = Watch.state => ~Begins
<1>1. Begins <=> Watch.state = "open" /\ Watch'.state = "half_open"
  BY DEF Begins, Watch
<1>2. Probes!Entering <=> Refresh(Watch).state # Watch.state
  BY SameBreaker DEF Probes!Entering, Watch
<1>3. \A r \in WatchedCalls :
        flight'[r] = IF flight[r] = "idle" THEN "idle"
                     ELSE IF Begins THEN "early" ELSE flight[r]
  BY DEF Flies, FlightInv, SameCalls
<1>4. flight' = [r \in WatchedCalls |-> flight'[r]]
  BY DEF Flies
<1>5. ASSUME Begins
      PROVE  flight' = [r \in WatchedCalls |-> IF flight[r] = "idle" THEN "idle" ELSE "early"]
  <2>1. [r \in WatchedCalls |-> flight'[r]] =
          [r \in WatchedCalls |-> IF flight[r] = "idle" THEN "idle" ELSE "early"]
    BY <1>3, <1>5
  <2> QED
    BY <1>4, <2>1, Zenon
<1>6. ASSUME ~Begins
      PROVE  flight' = flight
  <2>1. flight = [r \in WatchedCalls |-> flight[r]]
    BY DEF FlightInv
  <2>2. [r \in WatchedCalls |-> flight'[r]] = [r \in WatchedCalls |-> flight[r]]
    BY <1>3, <1>6
  <2> QED
    BY <1>4, <2>1, <2>2, Zenon
<1>7. Watch'.state = Refresh(Watch).state => (Begins <=> Probes!Entering)
  BY <1>1, <1>2, Beginnings
<1>8. Watch'.state = Watch.state => ~Begins
  BY <1>1
<1> QED
  BY <1>5, <1>6, <1>7, <1>8, Zenon

\* Each step without an outcome is one of BreakerProbes, or none.
LEMMA QuietMaps ==
  ASSUME TypeOK, FlightInv, NEW n, QuietStep(n), Unheard(n)
  PROVE  [Probes!Next]_(Probes!vars)
<1>0. Watch \in Breakers /\ lost \in Nat
  BY WatchedAssumption DEF TypeOK, ApiTypes, Watch, FlightInv
<1>1. /\ Flies /\ heard' = heard
      /\ late' = (IF Begins THEN 0 ELSE late) /\ lost' = (IF Begins THEN 0 ELSE lost) + n
  BY DEF Unheard
<1>2. CASE n = 0 /\ SameCalls /\ Watch' = Refresh(Watch)
  <2>1. /\ flight' = Probes!Reclassified
        /\ late' = Probes!Restarted(late) /\ lost' = Probes!Restarted(lost)
    BY <1>0, <1>1, <1>2, NoneFlies DEF Probes!Reclassified, Probes!Restarted
  <2>2. Probes!Look
    BY <1>1, <1>2, <2>1, SameBreaker DEF Probes!Look, Watch
  <2> QED
    BY <2>2 DEF Probes!Next
<1>3. CASE n = 0 /\ SameCalls /\ Watch' = Watch
  <2>1. UNCHANGED <<flight, late, lost>>
    BY <1>0, <1>1, <1>3, NoneFlies
  <2> QED
    BY <1>1, <1>3, <2>1 DEF Probes!vars, Watch
<1>4. CASE n = 0 /\ SameCalls /\ RecoveryDue(Watch) /\ Watch' = Elapse(Watch)
  <2>1. UNCHANGED <<flight, late, lost>>
    BY <1>0, <1>1, <1>4, NoneFlies, Beginnings
  <2>2. Probes!RecoveryElapses
    BY <1>1, <1>4, <2>1, SameBreaker DEF Probes!RecoveryElapses, Watch
  <2> QED
    BY <2>2 DEF Probes!Next
<1>5. CASE /\ n = IF Watch'.state = "half_open" THEN 1 ELSE 0
           /\ SameCalls /\ Allows(Watch) /\ Watch' = Allow(Watch)
  <2>1. /\ flight' = Probes!Reclassified
        /\ late' = Probes!Restarted(late) /\ lost' = Probes!Restarted(lost) + n
    BY <1>0, <1>1, <1>5, NoneFlies, Beginnings DEF Probes!Reclassified, Probes!Restarted
  <2>2. Probes!PutBack
    BY <1>1, <1>5, <2>1, SameBreaker DEF Probes!PutBack, Watch
  <2> QED
    BY <2>2 DEF Probes!Next
<1>6. ASSUME n = 0, NEW r \in WatchedCalls, Starts(r), Allows(Watch), Watch' = Allow(Watch)
      PROVE  Probes!Admit(r)
  <2>1. /\ Begins <=> Probes!Entering
        /\ Watch'.state = Refresh(Watch).state
    BY <1>0, <1>6, Beginnings, SameBreaker DEF Begins, Probes!Entering, Watch
  <2>2. flight[r] = "idle"
    BY <1>6 DEF FlightInv, Starts
  <2>3. late' = Probes!Restarted(late) /\ lost' = Probes!Restarted(lost)
    BY <1>0, <1>1, <1>6, <2>1 DEF Probes!Restarted
  <2>4. flight' = [Probes!Reclassified EXCEPT ![r] =
                     IF Refresh(Watch).state = "half_open" THEN "probe" ELSE "early"]
    <3>1. flight'[r] = IF Refresh(Watch).state = "half_open" THEN "probe" ELSE "early"
      BY <1>1, <1>6, <2>1 DEF Flies, Starts, Watch
    <3>2. \A s \in WatchedCalls \ {r} : flight'[s] = Probes!Reclassified[s]
      BY <1>1, <1>6, <2>1 DEF Flies, Starts, FlightInv, Probes!Reclassified
    <3>3. Probes!Reclassified = [s \in WatchedCalls |-> Probes!Reclassified[s]]
      BY DEF Probes!Reclassified, FlightInv
    <3>4. flight' = [s \in WatchedCalls |-> flight'[s]]
      BY <1>1 DEF Flies
    <3> HIDE DEF WatchedCalls
    <3> QED
      BY <3>1, <3>2, <3>3, <3>4
  <2> QED
    BY <1>1, <1>6, <2>2, <2>3, <2>4, SameBreaker DEF Probes!Admit, Watch
<1>7. ASSUME NEW r \in WatchedCalls, n = (IF flight[r] = "probe" THEN 1 ELSE 0),
             Stops(r), Watch' = Watch
      PROVE  Probes!Vanishes(r)
  <2>1. ~Begins
    BY <1>7 DEF Begins, Watch
  <2>2. flight[r] # "idle" /\ flight' = [flight EXCEPT ![r] = "idle"]
    BY <1>1, <1>7, <2>1 DEF Flies, Stops, FlightInv
  <2> QED
    BY <1>1, <1>7, <2>1, <2>2 DEF Probes!Vanishes, Probes!Ends, Watch
<1> QED
  BY <1>2, <1>3, <1>4, <1>5, <1>6, <1>7 DEF QuietStep, Probes!Next

\* A report ends one call, that of the request it is for, and is to the
\* breaker that admitted it.
LEMMA TellsMaps ==
  ASSUME TypeOK, FlightInv, Tells
  PROVE  [Probes!Next]_(Probes!vars)
<1>0. /\ Watch \in Breakers /\ breaker \in [APIs -> Breakers] /\ Watched \in APIs
  BY WatchedAssumption DEF TypeOK, ApiTypes, Watch
<1>1. PICK r \in Requests, o \in {"success", "failure"} :
        /\ \/ o = "success" /\ CallSucceeds(r)
           \/ o = "failure" /\ CallFailsUpstream(r)
        /\ Heard(r, o)
  BY DEF Tells
<1>2. /\ Api[r] \in APIs /\ r \in calling /\ calling' = calling \ {r} /\ Flies
      /\ breaker' = [breaker EXCEPT ![Api[r]] =
                       IF o = "success" THEN OnSuccess(@) ELSE OnFailure(@)]
  BY <1>1, AggregatorAssumption DEF CallSucceeds, CallFailsUpstream, Answers, Heard
<1>3. CASE Api[r] # Watched
  <2>1. /\ Watch' = Watch /\ SameCalls
        /\ late' = late /\ lost' = lost /\ heard' = heard
    BY <1>0, <1>1, <1>2, <1>3 DEF Watch, SameCalls, WatchedCalls, Heard
  <2>2. flight' = flight
    BY <1>0, <1>2, <2>1, NoneFlies
  <2> QED
    BY <2>1, <2>2 DEF Probes!vars, Watch
<1>4. CASE Api[r] = Watched
  <2>1. r \in WatchedCalls /\ Stops(r)
    BY <1>2, <1>4 DEF WatchedCalls, Stops
  <2>2. Watch' = IF o = "success" THEN OnSuccess(Watch) ELSE OnFailure(Watch)
    BY <1>0, <1>2, <1>4 DEF Watch
  <2>3. ~Begins
    BY <1>0, <2>2, Beginnings DEF Begins, Watch
  <2>4. flight[r] # "idle" /\ flight' = [flight EXCEPT ![r] = "idle"]
    BY <1>2, <2>1, <2>3 DEF Flies, Stops, FlightInv
  <2>5. Probes!Reports(r, o)
    BY <1>1, <1>4, <2>4 DEF Probes!Reports, Probes!Ends, Heard
  <2>6. Probes!Succeeds(r) \/ Probes!Fails(r)
    BY <1>1, <2>2, <2>5, SameBreaker DEF Probes!Succeeds, Probes!Fails, Watch
  <2> QED
    BY <2>1, <2>6 DEF Probes!Next
<1> QED
  BY <1>3, <1>4

\* The calls in flight stay the ones the aggregator makes.
LEMMA FlightInductive == FlightInv /\ [BreakersNext]_breakerVars => FlightInv'
<1> SUFFICES ASSUME FlightInv, [BreakersNext]_breakerVars PROVE FlightInv'
  OBVIOUS
<1>1. ASSUME Flies, lost' \in Nat
      PROVE  FlightInv'
  BY <1>1 DEF Flies, FlightInv, Probes!Flight
<1>2. ASSUME NEW n \in Nat, Unheard(n)
      PROVE  FlightInv'
  BY <1>1, <1>2 DEF Unheard, FlightInv
<1>3. CASE Tells
  BY <1>1, <1>3 DEF Tells, Heard, FlightInv
<1>4. CASE PutsBack \/ EndsUntold \/ (Silent /\ Unheard(0))
  BY <1>2, <1>4 DEF PutsBack, EndsUntold
<1>5. CASE UNCHANGED breakerVars
  BY <1>5 DEF FlightInv, breakerVars, vars, taskVars
<1> QED
  BY <1>3, <1>4, <1>5 DEF BreakersNext

\* One breaker among overlapping dispatches (scheduler.py:200-262): in every
\* step of loop, dispatch, answer, put-back, denial, retry and stop() the
\* breaker of any API sees at most one admission or one report, of a call that
\* was admitted once and has not reported yet, and no slot is lost but to a
\* put-back, a 429 or a 4xx.
THEOREM BreakersAreProbes == BreakersSpec => ImplementsProbes
<1>1. BreakersInit => Probes!Init /\ FlightInv
  BY WatchedAssumption, SameBreaker
     DEF BreakersInit, Init, Probes!Init, FlightInv, Probes!Flight
<1>2. TypeOK /\ CarrierInv /\ FlightInv /\ [BreakersNext]_breakerVars
        => [Probes!Next]_(Probes!vars)
  <2> SUFFICES ASSUME TypeOK, CarrierInv, FlightInv, [BreakersNext]_breakerVars
               PROVE  [Probes!Next]_(Probes!vars)
    OBVIOUS
  <2>1. CASE UNCHANGED breakerVars
    BY <2>1 DEF breakerVars, vars, apiVars, Probes!vars
  <2>2. CASE Silent /\ Unheard(0)
    BY <2>2, SilentQuiet, QuietMaps
  <2>3. CASE PutsBack
    BY <2>3, PutBackQuiet, QuietMaps DEF PutsBack
  <2>4. CASE EndsUntold
    BY <2>4, UntoldQuiet, QuietMaps DEF EndsUntold
  <2>5. CASE Tells
    BY <2>5, TellsMaps
  <2> QED
    BY <2>1, <2>2, <2>3, <2>4, <2>5 DEF BreakersNext
<1> QED
  BY <1>1, <1>2, FlightInductive, HistorySpec, TypeCorrect, CarrierInvariance, PTL
     DEF BreakersSpec, ImplementsProbes, Probes!Spec
=============================================================================
