-------------------------- MODULE AggregatorProofs --------------------------
(***************************************************************************)
(* Theorems about Aggregator for every set of requests, APIs and keys,     *)
(* every queue size, worker count, retry limit and bucket capacity.        *)
(***************************************************************************)
EXTENDS Aggregator, BreakerLemmas, SequenceTheorems

-----------------------------------------------------------------------------
(* Lemmas about the helpers.                                               *)

\* A queue loses one entry or gains one and stays a sequence of requests.
LEMMA QueueOperations ==
  ASSUME queue \in Seq(Requests)
  PROVE  /\ \A i \in DOMAIN queue : Without(i) \in Seq(Requests) /\ queue[i] \in Requests
         /\ \A r \in Requests : TryPut(r) \in Seq(Requests)
<1>1. ASSUME NEW i \in DOMAIN queue
      PROVE  Without(i) \in Seq(Requests) /\ queue[i] \in Requests
  <2>1. i \in 1 .. Len(queue) /\ Len(queue) \in Nat
    BY LenProperties
  <2>2. \A j \in 1 .. Len(queue) : queue[j] \in Requests
    BY ElementOfSeq
  <2>3. SubSeq(queue, 1, i - 1) \in Seq(Requests)
    BY <2>1, <2>2, SubSeqProperties
  <2>4. SubSeq(queue, i + 1, Len(queue)) \in Seq(Requests)
    BY <2>1, <2>2, SubSeqProperties
  <2> QED
    BY <2>1, <2>2, <2>3, <2>4, ConcatProperties DEF Without, RemoveAt
<1>2. ASSUME NEW r \in Requests
      PROVE  TryPut(r) \in Seq(Requests)
  BY AppendProperties DEF TryPut
<1> QED
  BY <1>1, <1>2

\* A selected position is one of the queue.
LEMMA BestInQueue == \A apis : Best(apis) \subseteq DOMAIN queue
BY DEF Best

\* Decay maps priorities to priorities (policy.py:94-101).
LEMMA DecayType == \A p : Decay(p) \in Priority
BY DEF Decay, Priority

\* Settling futures keeps the orchestrator's maps well typed.
LEMMA SettleTypes ==
  ASSUME FutureTypes, NEW rs, NEW o \in FutureState, Settle(rs, o)
  PROVE  FutureTypes'
BY DEF FutureTypes, Settle, Unresolved

\* A retry or a final failure keeps the types (scheduler.py:240-265).
LEMMA RetryOrFailTypes ==
  ASSUME FutureTypes, QueueTypes, retrying \subseteq Requests,
         NEW r \in Requests, RetryOrFail(r)
  PROVE  /\ FutureTypes'
         /\ prio' \in [Requests -> Priority]
         /\ retries' \in [Requests -> Nat]
         /\ retrying' \subseteq Requests
<1>1. CASE MayRetry(r)
  <2>1. /\ retries' = [retries EXCEPT ![r] = @ + 1]
        /\ prio' = [prio EXCEPT ![r] = Decay(@)]
        /\ retrying' = retrying \cup {r}
        /\ UNCHANGED futureVars
    BY <1>1 DEF RetryOrFail
  <2>2. FutureTypes'
    BY <2>1 DEF FutureTypes, futureVars
  <2>3. prio' \in [Requests -> Priority]
    BY <2>1, DecayType DEF QueueTypes
  <2>4. retries' \in [Requests -> Nat]
    BY <2>1 DEF QueueTypes
  <2> QED
    BY <2>1, <2>2, <2>3, <2>4
<1>2. CASE ~MayRetry(r)
  <2>1. Settle({r}, "error") /\ UNCHANGED <<retries, prio, retrying>>
    BY <1>2 DEF RetryOrFail
  <2>2. "error" \in FutureState
    BY DEF FutureState
  <2> QED
    BY <2>1, <2>2, SettleTypes DEF QueueTypes
<1> QED
  BY <1>1, <1>2

\* Whatever a task does to the breaker of one API leaves a breaker for each.
LEMMA BreakersOfAPIs ==
  ASSUME breaker \in [APIs -> Breakers], NEW x \in APIs
  PROVE  /\ \A c \in Breakers : [breaker EXCEPT ![x] = c] \in [APIs -> Breakers]
         /\ {Refresh(breaker[x]), Allow(breaker[x]), OnSuccess(breaker[x]),
             OnFailure(breaker[x]), Elapse(breaker[x])} \subseteq Breakers
BY BreakerTypes

-----------------------------------------------------------------------------
(* Type correctness.                                                       *)

\* The initial state is well typed.
LEMMA InitTypes == Init => TypeOK
BY AggregatorAssumption, ClosedBreaker
   DEF Init, TypeOK, CallerTypes, FutureTypes, QueueTypes, LoopTypes, TaskTypes,
       ApiTypes, FutureState, Phase, LoopState

\* What a caller does keeps the types.
LEMMA CallerStepTypes ==
  ASSUME TypeOK, NEW r \in Requests,
         Submit(r) \/ CancelOwner(r) \/ CleanupDedup(r)
  PROVE  TypeOK'
<1> USE AggregatorAssumption
    DEF TypeOK, CallerTypes, FutureTypes, QueueTypes, LoopTypes, TaskTypes, ApiTypes,
        callerVars, futureVars, queueVars, lifeVars, loopVars, taskVars, apiVars,
        systemVars, requestVars, FutureState
<1>1. CASE SubmitRejected(r)
  BY <1>1 DEF SubmitRejected, Submits
<1>2. CASE SubmitShared(r)
  BY <1>2 DEF SubmitShared, Accepts, Submits
<1>3. CASE SubmitAccepted(r)
  <2>1. Append(queue, r) \in Seq(Requests)
    BY AppendProperties
  <2>2. CallerTypes' /\ FutureTypes'
    BY <1>3 DEF SubmitAccepted, Accepts, Submits, RegisterFuture
  <2>3. QueueTypes'
    BY <1>3, <2>1 DEF SubmitAccepted
  <2>4. LoopTypes' /\ TaskTypes' /\ ApiTypes'
    BY <1>3 DEF SubmitAccepted
  <2> QED
    BY <2>2, <2>3, <2>4
<1>4. CASE SubmitQueueFull(r)
  BY <1>4 DEF SubmitQueueFull, Accepts, Submits, RegisterFuture
<1>5. CASE CancelOwner(r)
  BY <1>5 DEF CancelOwner
<1>6. CASE CleanupDedup(r)
  BY <1>6 DEF CleanupDedup, DedupWithout
<1> QED
  BY <1>1, <1>2, <1>3, <1>4, <1>5, <1>6 DEF Submit
\* So do start, stop and the scheduler loop.
LEMMA LoopStepTypes ==
  ASSUME TypeOK, Start \/ StopBegin \/ LoopCancelled \/ StopFinish \/ Loop
  PROVE  TypeOK'
<1> USE AggregatorAssumption
    DEF TypeOK, CallerTypes, QueueTypes, LoopTypes, TaskTypes, ApiTypes,
        callerVars, futureVars, queueVars, lifeVars, loopVars, taskVars, apiVars,
        requestVars, offLoop, Phase, LoopState
<1>1. CASE Start
  BY <1>1 DEF Start, FutureTypes
<1>2. CASE StopBegin
  BY <1>2 DEF StopBegin, FutureTypes
<1>3. CASE LoopCancelled
  BY <1>3 DEF LoopCancelled, FutureTypes
<1>4. CASE StopFinish
  <2>1. FutureTypes'
    BY <1>4, SettleTypes DEF StopFinish, FutureState
  <2> QED
    BY <1>4, <2>1 DEF StopFinish
<1>5. CASE LoopExits
  BY <1>5 DEF LoopExits, FutureTypes
<1>6. CASE LoopBlocks
  BY <1>6 DEF LoopBlocks, FutureTypes
<1>7. CASE LoopWaitsForRequest
  BY <1>7 DEF LoopWaitsForRequest, Selecting, FutureTypes
<1>8. CASE LoopFindsNone
  BY <1>8, BreakerTypes DEF LoopFindsNone, RefreshAll, FutureTypes
<1>9. CASE LoopDispatches
  <2>1. PICK i \in DOMAIN queue : queue' = Without(i) /\ ready' = Append(ready, queue[i])
    BY <1>9, BestInQueue DEF LoopDispatches
  <2>2. queue' \in Seq(Requests) /\ ready' \in Seq(Requests)
    BY <2>1, QueueOperations, AppendProperties
  <2>3. ApiTypes'
    BY <1>9, BreakerTypes DEF LoopDispatches, RefreshAll
  <2>4. LoopTypes'
    BY <1>9 DEF LoopDispatches, Selecting
  <2>5. QueueTypes' /\ TaskTypes'
    BY <1>9, <2>2 DEF LoopDispatches
  <2> QED
    BY <1>9, <2>3, <2>4, <2>5 DEF LoopDispatches, FutureTypes
<1>10. CASE LoopResumes
  BY <1>10 DEF LoopResumes, FutureTypes
<1>11. CASE GetPops
  <2>1. PICK i \in DOMAIN queue : hand' = queue[i] /\ queue' = Without(i)
    BY <1>11, BestInQueue DEF GetPops
  <2>2. queue' \in Seq(Requests) /\ hand' \in Requests
    BY <2>1, QueueOperations
  <2> QED
    BY <1>11, <2>2 DEF GetPops, FutureTypes
<1>12. CASE GetTimesOut
  BY <1>12 DEF GetTimesOut, Released, FutureTypes
<1>13. CASE LoopTakes
  <2>1. hand \in Requests
    BY <1>13 DEF LoopTakes
  <2>2. breaker' \in [APIs -> Breakers]
    BY <1>13, <2>1, BreakersOfAPIs DEF LoopTakes
  <2>3. ready' \in Seq(Requests) /\ replanning' \subseteq Requests
    <3>1. Append(ready, hand) \in Seq(Requests)
      BY <2>1, AppendProperties
    <3> QED
      BY <1>13, <2>1, <3>1 DEF LoopTakes
  <2>4. LoopTypes'
    BY <1>13 DEF LoopTakes, Released
  <2>5. ApiTypes' /\ TaskTypes'
    BY <1>13, <2>2, <2>3 DEF LoopTakes
  <2> QED
    BY <1>13, <2>4, <2>5 DEF LoopTakes, FutureTypes
<1> QED
  BY <1>1, <1>2, <1>3, <1>4, <1>5, <1>6, <1>7, <1>8, <1>9, <1>10, <1>11, <1>12,
     <1>13 DEF Loop

\* So do the dispatch tasks before the adapter is called.
LEMMA DispatchStepTypes ==
  ASSUME TypeOK, Dispatch \/ DispatchDone
  PROVE  TypeOK'
<1> USE AggregatorAssumption
    DEF TypeOK, CallerTypes, QueueTypes, LoopTypes, TaskTypes, ApiTypes,
        callerVars, futureVars, queueVars, lifeVars, loopVars, taskVars, apiVars,
        requestVars
<1>1. ASSUME Starting
      PROVE  Head(ready) \in Requests /\ Tail(ready) \in Seq(Requests)
  BY <1>1, HeadTailProperties DEF Starting
<1>2. CASE DispatchDenied
  <2>1. Head(ready) \in Requests /\ Tail(ready) \in Seq(Requests)
    BY <1>1, <1>2 DEF DispatchDenied
  <2>2. /\ FutureTypes' /\ retrying' \subseteq Requests
        /\ prio' \in [Requests -> Priority] /\ retries' \in [Requests -> Nat]
    BY <1>2, <2>1, RetryOrFailTypes DEF DispatchDenied
  <2>3. breaker' \in [APIs -> Breakers]
    BY <1>2, <2>1, BreakersOfAPIs DEF DispatchDenied
  <2>4. CallerTypes'
    BY <1>2 DEF DispatchDenied
  <2>5. QueueTypes'
    BY <1>2, <2>2 DEF DispatchDenied
  <2>6. LoopTypes'
    BY <1>2 DEF DispatchDenied
  <2>7. TaskTypes'
    <3>1. ready' \in Seq(Requests)
      BY <1>2, <2>1 DEF DispatchDenied
    <3>2. finished' \in Nat
      BY <1>2 DEF DispatchDenied
    <3> QED
      BY <1>2, <2>2, <3>1, <3>2 DEF DispatchDenied
  <2>8. ApiTypes'
    BY <1>2, <2>3 DEF DispatchDenied
  <2> QED
    BY <2>2, <2>4, <2>5, <2>6, <2>7, <2>8
<1>3. CASE DispatchPutsBack
  <2>1. Head(ready) \in Requests /\ Tail(ready) \in Seq(Requests)
    BY <1>1, <1>3 DEF DispatchPutsBack
  <2>2. queue' \in Seq(Requests)
    BY <1>3, <2>1, QueueOperations DEF DispatchPutsBack
  <2>3. breaker' \in [APIs -> Breakers]
    BY <1>3, <2>1, BreakersOfAPIs DEF DispatchPutsBack
  <2>4. CallerTypes' /\ FutureTypes' /\ LoopTypes'
    BY <1>3 DEF DispatchPutsBack, FutureTypes
  <2>5. QueueTypes' /\ TaskTypes'
    <3>1. finished' \in Nat
      BY <1>3 DEF DispatchPutsBack
    <3>2. ready' \in Seq(Requests)
      BY <1>3, <2>1 DEF DispatchPutsBack
    <3> QED
      BY <1>3, <2>2, <3>1, <3>2 DEF DispatchPutsBack
  <2>6. ApiTypes'
    BY <1>3, <2>3 DEF DispatchPutsBack
  <2> QED
    BY <2>4, <2>5, <2>6
<1>4. CASE DispatchCalls
  <2>1. Head(ready) \in Requests /\ Tail(ready) \in Seq(Requests)
    BY <1>1, <1>4 DEF DispatchCalls
  <2>2. breaker' \in [APIs -> Breakers]
    BY <1>4, <2>1, BreakersOfAPIs DEF DispatchCalls
  <2>3. tokens' \in [Buckets -> Nat]
    <3>1. \A b \in {Api[Head(ready)], Global} : tokens[b] > 0
      BY <1>4 DEF DispatchCalls, HasTokens
    <3>2. tokens' = [b \in Buckets |-> IF b \in {Api[Head(ready)], Global}
                                      THEN tokens[b] - 1 ELSE tokens[b]]
      BY <1>4 DEF DispatchCalls
    <3>3. ASSUME NEW b \in Buckets
          PROVE  (IF b \in {Api[Head(ready)], Global}
                  THEN tokens[b] - 1 ELSE tokens[b]) \in Nat
      <4>1. tokens[b] \in Nat
        OBVIOUS
      <4>2. b \in {Api[Head(ready)], Global} => tokens[b] > 0
        BY <3>1
      <4>3. tokens[b] > 0 => tokens[b] - 1 \in Nat
        BY <4>1
      <4> QED
        BY <4>1, <4>2, <4>3
    <3> QED
      BY <3>2, <3>3
  <2>4. calls' \in [Requests -> Nat]
    BY <1>4, <2>1, SMTT(30) DEF DispatchCalls
  <2> QED
    BY <1>4, <2>1, <2>2, <2>3, <2>4 DEF DispatchCalls, FutureTypes
<1>5. CASE DispatchDone
  BY <1>5, SMTT(30) DEF DispatchDone, Released, FutureTypes
<1> QED
  BY <1>2, <1>3, <1>4, <1>5 DEF Dispatch

\* So do answers, put-backs, retries and the clock.
LEMMA TaskStepTypes ==
  ASSUME TypeOK,
         \/ \E r \in Requests : ReplanPuts(r) \/ Call(r) \/ RetryPuts(r)
         \/ \E b \in Buckets : Refill(b)
         \/ \E x \in APIs : RecoveryElapses(x)
  PROVE  TypeOK'
<1> USE AggregatorAssumption
    DEF TypeOK, CallerTypes, QueueTypes, LoopTypes, TaskTypes, ApiTypes,
        callerVars, futureVars, queueVars, lifeVars, loopVars, taskVars, apiVars,
        requestVars
<1>1. ASSUME NEW r \in Requests, ReplanPuts(r)
      PROVE  TypeOK'
  BY <1>1, QueueOperations DEF ReplanPuts, FutureTypes
<1>2. ASSUME NEW r \in Requests, Call(r)
      PROVE  TypeOK'
  <2>1. /\ FutureTypes' /\ retrying' \subseteq Requests
        /\ prio' \in [Requests -> Priority] /\ retries' \in [Requests -> Nat]
    <3>1. CASE CallSucceeds(r)
      BY <3>1, SettleTypes DEF CallSucceeds, FutureState
    <3>2. CASE CallFailsUpstream(r)
      BY <3>2, RetryOrFailTypes DEF CallFailsUpstream
    <3>3. CASE CallRateLimited(r)
      BY <3>3, RetryOrFailTypes DEF CallRateLimited
    <3>4. CASE CallRefused(r)
      BY <3>4, SettleTypes DEF CallRefused, FutureState
    <3> QED
      BY <1>2, <3>1, <3>2, <3>3, <3>4 DEF Call
  <2>2. breaker' \in [APIs -> Breakers]
    <3>1. \/ breaker' = breaker
          \/ breaker' = [breaker EXCEPT ![Api[r]] = OnSuccess(@)]
          \/ breaker' = [breaker EXCEPT ![Api[r]] = OnFailure(@)]
      BY <1>2
         DEF Call, CallSucceeds, CallFailsUpstream, CallRateLimited, CallRefused
    <3>2. Api[r] \in APIs
      OBVIOUS
    <3>3. OnSuccess(breaker[Api[r]]) \in Breakers /\ OnFailure(breaker[Api[r]]) \in Breakers
      BY <3>2, BreakersOfAPIs
    <3> QED
      BY <3>1, <3>2, <3>3, ZenonT(30)
  <2>3. Answers(r)
    BY <1>2 DEF Call, CallSucceeds, CallFailsUpstream, CallRateLimited, CallRefused
  <2>4. CallerTypes' /\ QueueTypes' /\ LoopTypes'
    BY <2>1, <2>3 DEF Answers
  <2>5. TaskTypes'
    <3>1. /\ ready' = ready /\ replanning' = replanning
          /\ calling' = calling \ {r} /\ finished' = finished + 1
      BY <2>3 DEF Answers
    <3> QED
      BY <2>1, <3>1, SMTT(30)
  <2>6. ApiTypes'
    BY <2>2, <2>3 DEF Answers
  <2> QED
    BY <2>1, <2>4, <2>5, <2>6
<1>3. ASSUME NEW r \in Requests, RetryPuts(r)
      PROVE  TypeOK'
  <2>1. queue' \in Seq(Requests)
    <3>1. Append(queue, r) \in Seq(Requests)
      BY AppendProperties
    <3> QED
      BY <1>3, <3>1 DEF RetryPuts
  <2>2. FutureTypes'
    BY <1>3, SettleTypes DEF RetryPuts, FutureState, FutureTypes
  <2> QED
    BY <1>3, <2>1, <2>2 DEF RetryPuts
<1>4. ASSUME NEW b \in Buckets, Refill(b)
      PROVE  TypeOK'
  BY <1>4, SMTT(30) DEF Refill, FutureTypes
<1>5. ASSUME NEW x \in APIs, RecoveryElapses(x)
      PROVE  TypeOK'
  BY <1>5, BreakerTypes DEF RecoveryElapses, FutureTypes
<1> QED
  BY <1>1, <1>2, <1>3, <1>4, <1>5

\* No step of any task takes a variable out of its type: the three priorities
\* survive _decay, the probe counters survive late outcomes, and no permit,
\* token or count of done callbacks goes below zero.
THEOREM TypeCorrect == Spec => []TypeOK
<1>1. TypeOK /\ [Next]_vars => TypeOK'
  <2> SUFFICES ASSUME TypeOK, [Next]_vars PROVE TypeOK'
    OBVIOUS
  <2>1. CASE Next
    BY <2>1, CallerStepTypes, LoopStepTypes, DispatchStepTypes, TaskStepTypes DEF Next
  <2>2. CASE UNCHANGED vars
    BY <2>2 DEF vars, TypeOK, CallerTypes, FutureTypes, QueueTypes, LoopTypes,
       TaskTypes, ApiTypes, callerVars, futureVars, queueVars, lifeVars, loopVars,
       taskVars, apiVars
  <2> QED
    BY <2>1, <2>2
<1> QED
  BY <1>1, InitTypes, PTL DEF Spec

-----------------------------------------------------------------------------
(* Limits.                                                                 *)

\* A put happens where there is room, a removal shortens the queue.
LEMMA QueueLengths ==
  ASSUME queue \in Seq(Requests), Len(queue) <= QueueMaxSize
  PROVE  /\ \A i \in DOMAIN queue : Len(Without(i)) <= QueueMaxSize
         /\ \A r \in Requests : /\ Len(TryPut(r)) <= QueueMaxSize
                                /\ ~QueueFull => Len(Append(queue, r)) <= QueueMaxSize
<1>1. Len(queue) \in Nat /\ QueueMaxSize \in Nat
  BY LenProperties, AggregatorAssumption
<1>2. ASSUME NEW i \in DOMAIN queue
      PROVE  Len(Without(i)) <= QueueMaxSize
  <2> DEFINE left == SubSeq(queue, 1, i - 1)  right == SubSeq(queue, i + 1, Len(queue))
  <2>1. i \in 1 .. Len(queue) /\ \A j \in 1 .. Len(queue) : queue[j] \in Requests
    BY LenProperties, ElementOfSeq
  <2>2. left \in Seq(Requests) /\ Len(left) = i - 1
    BY <1>1, <2>1, SubSeqProperties
  <2>3. right \in Seq(Requests) /\ Len(right) = Len(queue) - i
    BY <1>1, <2>1, SubSeqProperties
  <2>4. Without(i) = left \o right
    BY DEF Without, RemoveAt
  <2> HIDE DEF left, right
  <2>5. Len(Without(i)) = Len(left) + Len(right)
    BY <2>2, <2>3, <2>4, ConcatProperties
  <2> QED
    BY <1>1, <2>1, <2>2, <2>3, <2>5
<1>3. ASSUME NEW r \in Requests
      PROVE  /\ Len(TryPut(r)) <= QueueMaxSize
             /\ ~QueueFull => Len(Append(queue, r)) <= QueueMaxSize
  <2>1. Len(Append(queue, r)) = Len(queue) + 1
    BY AppendProperties
  <2>2. ~QueueFull => Len(Append(queue, r)) <= QueueMaxSize
    BY <1>1, <2>1 DEF QueueFull
  <2> QED
    BY <2>2 DEF TryPut
<1> QED
  BY <1>2, <1>3

\* What a step makes of the queue, whoever takes it.
LEMMA QueueSteps ==
  ASSUME TypeOK, [Next]_vars
  PROVE  \/ queue' = queue
         \/ \E i \in DOMAIN queue : queue' = Without(i)
         \/ \E r \in Requests : queue' = TryPut(r)
         \/ ~QueueFull /\ \E r \in Requests : queue' = Append(queue, r)
<1> USE DEF callerVars, futureVars, queueVars, lifeVars, loopVars, taskVars, apiVars,
            systemVars, requestVars, offLoop
<1>1. ASSUME NEW r \in Requests, Submit(r) \/ CancelOwner(r) \/ CleanupDedup(r)
      PROVE  queue' = queue \/ (~QueueFull /\ queue' = Append(queue, r))
  BY <1>1 DEF Submit, SubmitRejected, SubmitShared, SubmitAccepted, SubmitQueueFull,
              CancelOwner, CleanupDedup
<1>2. ASSUME NEW r \in Requests, ReplanPuts(r) \/ RetryPuts(r)
      PROVE  \/ queue' \in {queue, TryPut(r)}
             \/ ~QueueFull /\ queue' = Append(queue, r)
  BY <1>2 DEF ReplanPuts, RetryPuts
<1>3. ASSUME NEW r \in Requests, Call(r)
      PROVE  queue' = queue
  BY <1>3 DEF Call, CallSucceeds, CallFailsUpstream, CallRateLimited, CallRefused, Answers
<1>4. CASE LoopDispatches \/ GetPops
  BY <1>4, BestInQueue DEF LoopDispatches, GetPops
<1>5. CASE DispatchPutsBack
  <2>1. Head(ready) \in Requests
    BY <1>5, HeadTailProperties DEF DispatchPutsBack, Starting, TypeOK, TaskTypes
  <2> QED
    BY <1>5, <2>1 DEF DispatchPutsBack
<1>6. CASE \/ LoopExits \/ LoopBlocks \/ LoopWaitsForRequest \/ LoopFindsNone
           \/ LoopResumes \/ GetTimesOut \/ LoopTakes
           \/ Start \/ StopBegin \/ LoopCancelled \/ StopFinish
           \/ DispatchDenied \/ DispatchCalls \/ DispatchDone
           \/ \E b \in Buckets : Refill(b)
           \/ \E x \in APIs : RecoveryElapses(x)
           \/ UNCHANGED vars
  BY <1>6 DEF LoopExits, LoopBlocks, LoopWaitsForRequest, LoopFindsNone, LoopResumes,
              GetTimesOut, LoopTakes, Start, StopBegin, LoopCancelled, StopFinish,
              DispatchDenied, DispatchCalls, DispatchDone, Refill, RecoveryElapses, vars
<1> QED
  BY <1>1, <1>2, <1>3, <1>4, <1>5, <1>6 DEF Next, Loop, Dispatch

\* What a step does to the breaker of an API: a read, an admission it allows,
\* an outcome, the passing of time, or nothing.
BreakerMoves(x) ==
  \/ breaker'[x] \in {breaker[x], Refresh(breaker[x]), Elapse(breaker[x]),
                      OnSuccess(breaker[x]), OnFailure(breaker[x])}
  \/ Allows(breaker[x]) /\ breaker'[x] = Allow(breaker[x])

LEMMA BreakerSteps ==
  ASSUME TypeOK, [Next]_vars, NEW x \in APIs
  PROVE  BreakerMoves(x)
<1> USE DEF callerVars, futureVars, queueVars, lifeVars, loopVars, taskVars, apiVars,
            systemVars, requestVars, offLoop
<1>1. breaker \in [APIs -> Breakers]
  BY DEF TypeOK, ApiTypes
<1>2. CASE breaker' = breaker
  BY <1>2 DEF BreakerMoves
<1>3. ASSUME NEW y \in APIs, NEW c, breaker' = [breaker EXCEPT ![y] = c],
             \/ c \in {Refresh(breaker[y]), Elapse(breaker[y]), OnSuccess(breaker[y]),
                       OnFailure(breaker[y])}
             \/ Allows(breaker[y]) /\ c = Allow(breaker[y])
      PROVE  BreakerMoves(x)
  <2>1. breaker'[x] = IF x = y THEN c ELSE breaker[x]
    BY <1>1, <1>3
  <2> QED
    BY <1>3, <2>1 DEF BreakerMoves
<1>4. ASSUME NEW r \in Requests, Call(r)
      PROVE  BreakerMoves(x)
  <2>1. \/ breaker' = breaker
        \/ breaker' = [breaker EXCEPT ![Api[r]] = OnSuccess(breaker[Api[r]])]
        \/ breaker' = [breaker EXCEPT ![Api[r]] = OnFailure(breaker[Api[r]])]
    BY <1>4 DEF Call, CallSucceeds, CallFailsUpstream, CallRateLimited, CallRefused
  <2>2. Api[r] \in APIs
    BY AggregatorAssumption
  <2> QED
    BY <1>2, <1>3, <2>1, <2>2
<1>5. CASE Dispatch
  <2>1. Head(ready) \in Requests
    BY <1>5, HeadTailProperties
       DEF Dispatch, DispatchDenied, DispatchPutsBack, DispatchCalls, Starting, TypeOK,
           TaskTypes
  <2> DEFINE y == Api[Head(ready)]
  <2>2. y \in APIs
    BY <2>1, AggregatorAssumption
  <2>3. \/ breaker' = [breaker EXCEPT ![y] = Refresh(breaker[y])]
        \/ Allows(breaker[y]) /\ breaker' = [breaker EXCEPT ![y] = Allow(breaker[y])]
    BY <1>5 DEF Dispatch, DispatchDenied, DispatchPutsBack, DispatchCalls
  <2> HIDE DEF y
  <2> QED
    BY <1>3, <2>2, <2>3
<1>6. CASE LoopTakes
  <2>1. Api[hand] \in APIs
    BY <1>6, AggregatorAssumption DEF LoopTakes, TypeOK, LoopTypes
  <2>2. breaker' = [breaker EXCEPT ![Api[hand]] = Refresh(breaker[Api[hand]])]
    BY <1>6 DEF LoopTakes
  <2> QED
    BY <1>3, <2>1, <2>2
<1>7. CASE LoopFindsNone \/ LoopDispatches
  BY <1>7 DEF LoopFindsNone, LoopDispatches, RefreshAll, BreakerMoves
<1>8. ASSUME NEW y \in APIs, RecoveryElapses(y)
      PROVE  BreakerMoves(x)
  <2>1. breaker' = [breaker EXCEPT ![y] = Elapse(breaker[y])]
    BY <1>8 DEF RecoveryElapses
  <2> QED
    BY <1>3, <2>1
<1>9. ASSUME NEW r \in Requests,
             Submit(r) \/ CancelOwner(r) \/ CleanupDedup(r) \/ ReplanPuts(r) \/ RetryPuts(r)
      PROVE  breaker' = breaker
  BY <1>9 DEF Submit, SubmitRejected, SubmitShared, SubmitAccepted, SubmitQueueFull,
              CancelOwner, CleanupDedup, ReplanPuts, RetryPuts
<1>10. CASE \/ LoopExits \/ LoopBlocks \/ LoopWaitsForRequest \/ LoopResumes \/ GetPops
            \/ GetTimesOut \/ Start \/ StopBegin \/ LoopCancelled \/ StopFinish
            \/ DispatchDone \/ \E b \in Buckets : Refill(b)
            \/ UNCHANGED vars
  BY <1>2, <1>10
     DEF LoopExits, LoopBlocks, LoopWaitsForRequest, LoopResumes, GetPops, GetTimesOut,
         Start, StopBegin, LoopCancelled, StopFinish, DispatchDone, Refill, vars
<1> QED
  BY <1>2, <1>4, <1>5, <1>6, <1>7, <1>8, <1>9, <1>10 DEF Next, Loop

\* The queue never holds more than queue_max_size, whatever the system itself
\* puts back on top of what callers submitted, and a breaker never counts more
\* probes than it may admit, whatever was selected before the circuit opened
\* and whoever reports (queue.py:77-79, scheduler.py:177-190, breaker.py:71-99).
THEOREM LimitsKept == Spec => []WithinLimits
<1>1. Init => WithinLimits
  <2> SUFFICES ASSUME Init PROVE WithinLimits
    OBVIOUS
  <2>1. queue = <<>> /\ QueueMaxSize \in Nat /\ HalfOpenMaxProbes \in Nat
    BY AggregatorAssumption, BreakerAssumption DEF Init
  <2>2. \A x \in APIs : breaker[x].probes = 0
    BY DEF Init, ResetToClosed
  <2> QED
    BY <2>1, <2>2 DEF WithinLimits
<1>2. TypeOK /\ WithinLimits /\ [Next]_vars => WithinLimits'
  <2> SUFFICES ASSUME TypeOK, WithinLimits, [Next]_vars PROVE WithinLimits'
    OBVIOUS
  <2>1. Len(queue') <= QueueMaxSize
    <3>1. queue \in Seq(Requests) /\ Len(queue) <= QueueMaxSize
      BY DEF TypeOK, QueueTypes, WithinLimits
    <3> QED
      BY <3>1, QueueSteps, QueueLengths
  <2>2. ASSUME NEW x \in APIs PROVE SlotsInLimit(breaker'[x])
    <3>1. breaker[x] \in Breakers /\ SlotsInLimit(breaker[x])
      <4>1. breaker[x] \in Breakers
        BY DEF TypeOK, ApiTypes
      <4> QED
        BY <4>1, Zenon DEF WithinLimits, SlotsInLimit
    <3>2. BreakerMoves(x)
      BY BreakerSteps
    <3> QED
      BY <3>1, <3>2, SlotsKept, Zenon DEF BreakerMoves
  <2> QED
    BY <2>1, <2>2 DEF WithinLimits, SlotsInLimit
<1> QED
  BY <1>1, <1>2, TypeCorrect, PTL DEF Spec

-----------------------------------------------------------------------------
(* Tokens.                                                                 *)

\* No bucket is ever fuller than it can be.
TokenInv == \A b \in Buckets : tokens[b] <= Capacity[b]

\* A step fills one bucket by a token, or a dispatch takes one from two of
\* them, or no token moves.
LEMMA TokenSteps ==
  ASSUME TypeOK, TokenInv, [Next]_vars
  PROVE  TokenInv' /\ (Counts!Next \/ UNCHANGED tokens)
<1> USE DEF callerVars, futureVars, queueVars, lifeVars, loopVars, taskVars, apiVars,
            systemVars, requestVars, offLoop
<1>1. /\ tokens \in [Buckets -> Nat] /\ Capacity \in [Buckets -> Nat \ {0}]
      /\ Counts!Buckets = Buckets /\ Global \in Buckets /\ APIs \subseteq Buckets
  BY AggregatorAssumption DEF TypeOK, ApiTypes, Counts!Buckets, Buckets
<1>2. ASSUME NEW c \in Buckets, Refill(c)
      PROVE  TokenInv' /\ Counts!Next
  <2>1. tokens' = [tokens EXCEPT ![c] = @ + 1] /\ tokens[c] < Capacity[c]
    BY <1>2 DEF Refill
  <2>2. ASSUME NEW b \in Buckets
        PROVE  tokens'[b] \in Nat /\ tokens[b] <= tokens'[b] /\ tokens'[b] <= Capacity[b]
    <3>1. tokens'[b] = IF b = c THEN tokens[b] + 1 ELSE tokens[b]
      BY <1>1, <2>1
    <3>2. tokens[b] \in Nat /\ Capacity[b] \in Nat /\ tokens[b] <= Capacity[b]
      BY <1>1 DEF TokenInv
    <3> QED
      BY <2>1, <3>1, <3>2
  <2>3. tokens' \in [Buckets -> Nat]
    BY <1>1, <2>1, <2>2
  <2> QED
    BY <1>1, <2>2, <2>3 DEF TokenInv, Counts!Next, Counts!Fill
<1>3. CASE DispatchCalls
  <2>1. Head(ready) \in Requests
    BY <1>3, HeadTailProperties DEF DispatchCalls, Starting, TypeOK, TaskTypes
  <2> DEFINE y == Api[Head(ready)]
  <2>2. y \in APIs
    BY <2>1, AggregatorAssumption
  <2>3. /\ \A b \in {y, Global} : tokens[b] > 0
        /\ tokens' = [b \in Buckets |-> IF b \in {y, Global} THEN tokens[b] - 1 ELSE tokens[b]]
    BY <1>3 DEF DispatchCalls, HasTokens
  <2> HIDE DEF y
  <2>4. tokens[y] >= 1 /\ tokens[Global] >= 1
    BY <1>1, <2>2, <2>3
  <2>5. Counts!Take(y, 1)
    BY <1>1, <2>3, <2>4 DEF Counts!Take
  <2>6. 1 \in 1 .. Capacity[Global]
    BY <1>1
  <2>7. ASSUME NEW b \in Buckets PROVE tokens'[b] <= Capacity[b]
    <3>1. tokens'[b] = IF b \in {y, Global} THEN tokens[b] - 1 ELSE tokens[b]
      BY <2>3
    <3>2. tokens[b] \in Nat /\ Capacity[b] \in Nat /\ tokens[b] <= Capacity[b]
      BY <1>1 DEF TokenInv
    <3> QED
      BY <3>1, <3>2
  <2> QED
    BY <2>2, <2>5, <2>6, <2>7 DEF TokenInv, Counts!Next
<1>4. CASE tokens' = tokens
  BY <1>4 DEF TokenInv
<1>5. ASSUME NEW r \in Requests,
             \/ Submit(r) \/ CancelOwner(r) \/ CleanupDedup(r)
             \/ ReplanPuts(r) \/ Call(r) \/ RetryPuts(r)
      PROVE  tokens' = tokens
  BY <1>5 DEF Submit, SubmitRejected, SubmitShared, SubmitAccepted, SubmitQueueFull,
              CancelOwner, CleanupDedup, ReplanPuts, RetryPuts, Call, CallSucceeds,
              CallFailsUpstream, CallRateLimited, CallRefused, Answers
<1>6. ASSUME Loop
      PROVE  tokens' = tokens
  BY <1>6 DEF Loop, LoopExits, LoopBlocks, LoopWaitsForRequest, LoopFindsNone,
              LoopDispatches, LoopResumes, GetPops, GetTimesOut, LoopTakes
<1>7. ASSUME \/ Start \/ StopBegin \/ LoopCancelled \/ StopFinish
             \/ DispatchDenied \/ DispatchPutsBack \/ DispatchDone
             \/ \E x \in APIs : RecoveryElapses(x)
             \/ UNCHANGED vars
      PROVE  tokens' = tokens
  BY <1>7 DEF Start, StopBegin, LoopCancelled, StopFinish, DispatchDenied,
              DispatchPutsBack, DispatchDone, RecoveryElapses, vars
<1> QED
  BY <1>2, <1>3, <1>4, <1>5, <1>6, <1>7 DEF Next, Dispatch

\* A token is spent only where the API's bucket and the global one both have
\* it, for any number of dispatches selected on what the buckets held before:
\* the aggregator uses the two-level limit as RateControl provides it
\* (scheduler.py:161-191, shared_pool.py:45-56).
THEOREM TokensAreCounts == Spec => ImplementsCounts
<1>1. Init => Counts!Init /\ TokenInv
  <2> SUFFICES ASSUME Init PROVE Counts!Init /\ TokenInv
    OBVIOUS
  <2>1. tokens = Capacity /\ \A b \in Buckets : Capacity[b] \in Nat
    BY AggregatorAssumption DEF Init
  <2> QED
    BY <2>1 DEF Counts!Init, TokenInv
<1>2. TypeOK /\ TokenInv /\ [Next]_vars => TokenInv' /\ [Counts!Next]_(Counts!vars)
  BY TokenSteps DEF Counts!vars
<1> QED
  BY <1>1, <1>2, TypeCorrect, PTL DEF Spec, ImplementsCounts, Counts!Spec

-----------------------------------------------------------------------------
(* The futures of the orchestrator and its dedup map, for every order of   *)
(* submissions, answers, cancellations, stops and done callbacks.          *)

\* The inductive invariant: Coalesced and DedupDrains alone are not, since a
\* step that registers r must know that r has no future and no callback yet,
\* and a callback must know that the entry it removes is under its own key.
FutureInv ==
  /\ Coalesced
  /\ DedupDrains
  /\ \A r \in Requests : r \notin submitted => fut[r] = "none"
  /\ \A r \in cleanups : fut[r] \in Resolved
  /\ \A k \in Keys : dedup[k] # NoRequest => Key[dedup[k]] = k

-----------------------------------------------------------------------------
(* The five things a step can do to the futures.                           *)

Untouched == UNCHANGED futureVars /\ submitted \subseteq submitted'

Registers(r) == ~InFlight(Key[r]) /\ RegisterFuture(r) /\ Submits(r)

Settles(rs, o) == Settle(rs, o) /\ UNCHANGED submitted

\* _maybe_retry leaves the futures alone or settles one with an error.
LEMMA RetryOrFailOnFutures ==
  ASSUME NEW r \in Requests, RetryOrFail(r), UNCHANGED submitted
  PROVE  Untouched \/ \E rs \in SUBSET Requests, o \in Resolved : Settles(rs, o)
<1>1. "error" \in Resolved /\ {r} \in SUBSET Requests
  BY DEF Resolved, FutureState
<1>2. UNCHANGED futureVars \/ Settle({r}, "error")
  BY DEF RetryOrFail
<1> QED
  BY <1>1, <1>2 DEF Untouched, Settles

\* Every step of the system is one of them (nothing else writes _pending,
\* _dedup or a future).
LEMMA FutureSteps ==
  ASSUME TypeOK, [Next]_vars
  PROVE  \/ Untouched
         \/ \E r \in Requests : Registers(r) \/ CancelOwner(r) \/ CleanupDedup(r)
         \/ \E rs \in SUBSET Requests, o \in Resolved : Settles(rs, o)
<1> DEFINE Touches ==
       \/ Untouched
       \/ \E r \in Requests : Registers(r) \/ CancelOwner(r) \/ CleanupDedup(r)
       \/ \E rs \in SUBSET Requests, o \in Resolved : Settles(rs, o)
<1>0. {"stopped", "error", "response"} \subseteq Resolved
  BY DEF Resolved, FutureState
<1>1. ASSUME NEW r \in Requests, Submit(r) \/ CancelOwner(r) \/ CleanupDedup(r)
      PROVE  Touches
  BY <1>1 DEF Submit, SubmitRejected, SubmitShared, SubmitAccepted, SubmitQueueFull,
     Accepts, Submits, Registers, Untouched, futureVars
<1>2. ASSUME NEW r \in Requests, ReplanPuts(r) \/ RetryPuts(r)
      PROVE  Touches
  <2>1. CASE Settle({r}, "error") /\ UNCHANGED submitted
    BY <2>1, <1>0 DEF Settles
  <2>2. CASE UNCHANGED futureVars /\ UNCHANGED submitted
    BY <2>2 DEF Untouched
  <2> QED
    BY <1>2, <2>1, <2>2 DEF ReplanPuts, RetryPuts, callerVars
<1>3. ASSUME NEW r \in Requests, Call(r)
      PROVE  Touches
  <2>1. UNCHANGED submitted
    BY <1>3 DEF Call, CallSucceeds, CallFailsUpstream, CallRateLimited, CallRefused,
       Answers, callerVars
  <2>2. CASE RetryOrFail(r)
    BY <2>1, <2>2, RetryOrFailOnFutures
  <2>3. CASE Settle({r}, "response") \/ Settle({r}, "error")
    BY <2>1, <2>3, <1>0 DEF Settles
  <2> QED
    BY <1>3, <2>2, <2>3
       DEF Call, CallSucceeds, CallFailsUpstream, CallRateLimited, CallRefused
<1>4. CASE StopFinish
  <2>1. Settle(Requests, "stopped") /\ UNCHANGED submitted
    BY <1>4 DEF StopFinish, callerVars
  <2> QED
    BY <2>1, <1>0 DEF Settles
<1>5. CASE Start \/ StopBegin \/ LoopCancelled \/ Loop
  <2>1. UNCHANGED <<submitted, futureVars>>
    BY <1>5 DEF Start, StopBegin, LoopCancelled, Loop, LoopExits, LoopBlocks,
       LoopWaitsForRequest, LoopFindsNone, LoopDispatches, LoopResumes, GetPops,
       GetTimesOut, LoopTakes, offLoop, requestVars, callerVars
  <2> QED
    BY <2>1 DEF Untouched
<1>6. CASE Dispatch \/ DispatchDone
  <2>1. UNCHANGED submitted
    BY <1>6 DEF Dispatch, DispatchDenied, DispatchPutsBack, DispatchCalls,
       DispatchDone, requestVars, callerVars
  <2>2. CASE DispatchDenied
    <3>1. Head(ready) \in Requests /\ RetryOrFail(Head(ready))
      BY <2>2, HeadTailProperties DEF DispatchDenied, Starting, TypeOK, TaskTypes
    <3> QED
      BY <2>1, <3>1, RetryOrFailOnFutures
  <2>3. CASE DispatchPutsBack \/ DispatchCalls \/ DispatchDone
    <3>1. UNCHANGED futureVars
      BY <2>3 DEF DispatchPutsBack, DispatchCalls, DispatchDone, requestVars
    <3> QED
      BY <2>1, <3>1 DEF Untouched
  <2> QED
    BY <1>6, <2>2, <2>3 DEF Dispatch
<1>7. CASE \/ \E b \in Buckets : Refill(b)
           \/ \E x \in APIs : RecoveryElapses(x)
  <2>1. UNCHANGED <<submitted, futureVars>>
    BY <1>7 DEF Refill, RecoveryElapses, requestVars, callerVars
  <2> QED
    BY <2>1 DEF Untouched
<1>8. CASE UNCHANGED vars
  BY <1>8 DEF vars, callerVars, Untouched
<1> QED
  BY <1>1, <1>2, <1>3, <1>4, <1>5, <1>6, <1>7, <1>8 DEF Next
-----------------------------------------------------------------------------
(* Each of them keeps the invariant.                                       *)

\* A submission registers a future only if no unresolved one has its key.
LEMMA RegistersKeeps ==
  ASSUME TypeOK, FutureInv, NEW r \in Requests, Registers(r)
  PROVE  FutureInv'
<1> USE AggregatorAssumption DEF TypeOK, CallerTypes, FutureTypes, FutureState, Resolved
<1>1. /\ r \notin submitted /\ submitted' = submitted \cup {r}
      /\ fut' = [fut EXCEPT ![r] = "pending"]
      /\ dedup' = [dedup EXCEPT ![Key[r]] = r]
      /\ cleanups' = cleanups
  BY DEF Registers, Submits, RegisterFuture
<1>2. fut[r] = "none" /\ r \notin cleanups
  BY <1>1 DEF FutureInv
<1>3. Coalesced'
  <2> SUFFICES ASSUME NEW s \in Requests, fut'[s] = "pending"
               PROVE  dedup'[Key[s]] = s
    BY DEF Coalesced
  <2>1. CASE s = r
    BY <1>1, <2>1
  <2>2. CASE s # r
    <3>1. fut[s] = "pending" /\ dedup[Key[s]] = s
      BY <1>1, <2>2 DEF FutureInv, Coalesced
    <3>2. Key[s] # Key[r]
      BY <3>1 DEF Registers, InFlight
    <3> QED
      BY <1>1, <3>1, <3>2
  <2> QED
    BY <2>1, <2>2
<1>4. DedupDrains'
  BY <1>1, <1>2 DEF FutureInv, DedupDrains
<1>5. \A s \in Requests : s \notin submitted' => fut'[s] = "none"
  BY <1>1 DEF FutureInv
<1>6. \A s \in cleanups' : fut'[s] \in Resolved
  BY <1>1, <1>2 DEF FutureInv
<1>7. \A k \in Keys : dedup'[k] # NoRequest => Key[dedup'[k]] = k
  BY <1>1 DEF FutureInv
<1> QED
  BY <1>3, <1>4, <1>5, <1>6, <1>7 DEF FutureInv

\* Settling futures schedules a callback for every entry it finishes.
LEMMA SettlesKeeps ==
  ASSUME TypeOK, FutureInv, NEW rs \in SUBSET Requests, NEW o \in Resolved, Settles(rs, o)
  PROVE  FutureInv'
<1> USE DEF TypeOK, CallerTypes, FutureTypes, FutureState, Resolved
<1>1. /\ submitted' = submitted /\ dedup' = dedup
      /\ fut' = [r \in Requests |-> IF r \in Unresolved(rs) THEN o ELSE fut[r]]
      /\ cleanups' = cleanups \cup Unresolved(rs)
  BY DEF Settles, Settle
<1>2. \A r \in Unresolved(rs) : r \in Requests /\ fut[r] = "pending"
  BY DEF Unresolved
<1>3. Coalesced'
  BY <1>1 DEF FutureInv, Coalesced
<1>4. DedupDrains'
  <2> SUFFICES ASSUME NEW k \in Keys, dedup[k] # NoRequest, fut'[dedup[k]] \in Resolved
               PROVE  dedup[k] \in cleanups'
    BY <1>1 DEF DedupDrains
  <2>1. dedup[k] \in Requests
    OBVIOUS
  <2> QED
    BY <1>1, <2>1 DEF FutureInv, DedupDrains
<1>5. \A r \in Requests : r \notin submitted' => fut'[r] = "none"
  BY <1>1, <1>2 DEF FutureInv
<1>6. \A r \in cleanups' : fut'[r] \in Resolved
  BY <1>1, <1>2 DEF FutureInv
<1> QED
  BY <1>1, <1>3, <1>4, <1>5, <1>6 DEF FutureInv

\* A cancelled future schedules its callback like a settled one.
LEMMA CancelOwnerKeeps ==
  ASSUME TypeOK, FutureInv, NEW r \in Requests, CancelOwner(r)
  PROVE  FutureInv'
<1> USE DEF TypeOK, CallerTypes, FutureTypes, FutureState, Resolved
<1>1. /\ submitted' = submitted /\ dedup' = dedup /\ fut[r] = "pending"
      /\ fut' = [fut EXCEPT ![r] = "cancelled"]
      /\ cleanups' = cleanups \cup {r}
  BY DEF CancelOwner, callerVars
<1>2. Coalesced'
  BY <1>1 DEF FutureInv, Coalesced
<1>3. DedupDrains'
  BY <1>1 DEF FutureInv, DedupDrains
<1>4. \A s \in Requests : s \notin submitted' => fut'[s] = "none"
  BY <1>1 DEF FutureInv
<1>5. \A s \in cleanups' : fut'[s] \in Resolved
  BY <1>1 DEF FutureInv
<1> QED
  BY <1>1, <1>2, <1>3, <1>4, <1>5 DEF FutureInv

\* The callback removes no entry but that of its own finished future.
LEMMA CleanupDedupKeeps ==
  ASSUME TypeOK, FutureInv, NEW r \in Requests, CleanupDedup(r)
  PROVE  FutureInv'
<1> USE AggregatorAssumption DEF TypeOK, CallerTypes, FutureTypes, FutureState, Resolved
<1>1. /\ submitted' = submitted /\ fut' = fut /\ r \in cleanups
      /\ cleanups' = cleanups \ {r}
      /\ dedup' = IF dedup[Key[r]] # r THEN dedup
                  ELSE [dedup EXCEPT ![Key[r]] = NoRequest]
  BY DEF CleanupDedup, DedupWithout, callerVars
<1>2. fut[r] \in Resolved
  BY <1>1 DEF FutureInv
<1>3. \A k \in Keys : dedup'[k] \in {dedup[k], NoRequest} /\ dedup'[k] # r
  BY <1>1 DEF FutureInv
<1>4. Coalesced'
  BY <1>1, <1>2 DEF FutureInv, Coalesced
<1>5. DedupDrains'
  BY <1>1, <1>3 DEF FutureInv, DedupDrains
<1>6. \A k \in Keys : dedup'[k] # NoRequest => Key[dedup'[k]] = k
  BY <1>3 DEF FutureInv
<1> QED
  BY <1>1, <1>4, <1>5, <1>6 DEF FutureInv

\* Every step keeps the invariant.
LEMMA FutureInvInductive == TypeOK /\ FutureInv /\ [Next]_vars => FutureInv'
<1> SUFFICES ASSUME TypeOK, FutureInv, [Next]_vars PROVE FutureInv'
  OBVIOUS
<1>1. CASE Untouched
  BY <1>1 DEF Untouched, futureVars, FutureInv, Coalesced, DedupDrains
<1> QED
  BY <1>1, FutureSteps, RegistersKeeps, SettlesKeeps, CancelOwnerKeeps, CleanupDedupKeeps

\* The invariant holds in every state.
LEMMA FutureInvariance == Spec => []FutureInv
<1>1. Init => FutureInv
  BY AggregatorAssumption DEF Init, FutureInv, Coalesced, DedupDrains, Resolved
<1> QED
  BY <1>1, FutureInvInductive, TypeCorrect, PTL DEF Spec

-----------------------------------------------------------------------------
(* Theorems.                                                               *)

\* Deduplication (orchestrator.py:115-132): whatever the order of submissions
\* and done callbacks, two unresolved futures never share a key and _dedup
\* names the one there is.
THEOREM AlwaysCoalesced == Spec => []Coalesced
BY FutureInvariance, PTL DEF FutureInv

\* _dedup does not keep a key for ever: the callback that removes an entry
\* whose future is done is still due, however the future was resolved.
THEOREM DedupAlwaysDrains == Spec => []DedupDrains
BY FutureInvariance, PTL DEF FutureInv

\* A future that has an outcome keeps it through late answers, retries,
\* cancellation and stop() (the `not fut.done()' tests of scheduler.py:267-275
\* and orchestrator.py, and no request registers a future twice).
THEOREM FuturesAreFinal == Spec => FuturesFinal
<1>1. TypeOK /\ FutureInv /\ [Next]_vars =>
        [\A r \in Requests : fut[r] \in Resolved => fut'[r] = fut[r]]_vars
  <2> SUFFICES ASSUME TypeOK, FutureInv, [Next]_vars,
                      NEW r \in Requests, fut[r] \in Resolved
               PROVE  fut'[r] = fut[r]
    BY DEF FutureInv
  <2> USE DEF TypeOK, FutureTypes, FutureState, Resolved
  <2>1. CASE Untouched
    BY <2>1 DEF Untouched, futureVars
  <2>2. ASSUME NEW s \in Requests, Registers(s) \/ CancelOwner(s) \/ CleanupDedup(s)
        PROVE  fut'[r] = fut[r]
    BY <2>2 DEF Registers, Submits, RegisterFuture, CancelOwner, CleanupDedup, FutureInv
  <2>3. ASSUME NEW rs \in SUBSET Requests, NEW o \in Resolved, Settles(rs, o)
        PROVE  fut'[r] = fut[r]
    BY <2>3 DEF Settles, Settle, Unresolved
  <2> QED
    BY <2>1, <2>2, <2>3, FutureSteps
<1> QED
  BY <1>1, TypeCorrect, FutureInvariance, PTL DEF Spec, FuturesFinal
=============================================================================
