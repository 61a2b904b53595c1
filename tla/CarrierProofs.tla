---------------------------- MODULE CarrierProofs ----------------------------
(***************************************************************************)
(* Theorems about where a request is: it is in one place, it is attempted  *)
(* as often as the retry policy says, it is not lost while the queue has   *)
(* room, and so the aggregator keeps its promise.  Permits, and stop().    *)
(***************************************************************************)
EXTENDS AggregatorProofs, FiniteSetTheorems

-----------------------------------------------------------------------------
(* Sequences without duplicates.                                           *)

Distinct(s) == \A i, j \in 1 .. Len(s) : s[i] = s[j] => i = j

\* Appending what is not there keeps them so.
LEMMA AppendDistinct ==
  ASSUME NEW S, NEW s \in Seq(S), NEW x \in S
  PROVE  /\ ToSet(Append(s, x)) = ToSet(s) \cup {x}
         /\ Distinct(s) /\ x \notin ToSet(s) => Distinct(Append(s, x))
<1> DEFINE t == Append(s, x)
<1>1. /\ Len(s) \in Nat /\ Len(t) = Len(s) + 1
      /\ \A i \in 1 .. Len(s) : t[i] = s[i]
      /\ t[Len(s) + 1] = x
      /\ DOMAIN s = 1 .. Len(s) /\ DOMAIN t = 1 .. Len(t)
  BY AppendProperties, LenProperties
<1> HIDE DEF t
<1>2. ToSet(t) = ToSet(s) \cup {x}
  BY <1>1 DEF ToSet
<1>3. ASSUME Distinct(s), x \notin ToSet(s)
      PROVE  Distinct(t)
  BY <1>1, <1>3 DEF Distinct, ToSet
<1> QED
  BY <1>2, <1>3 DEF t

\* Taking one out takes it out for good.
LEMMA RemoveDistinct ==
  ASSUME NEW S, NEW s \in Seq(S), Distinct(s), NEW i \in 1 .. Len(s)
  PROVE  /\ Distinct(RemoveAt(s, i))
         /\ ToSet(RemoveAt(s, i)) = ToSet(s) \ {s[i]}
<1> DEFINE t == RemoveAt(s, i)
           n == Len(s)
<1>1. n \in Nat /\ DOMAIN s = 1 .. n /\ \A j \in 1 .. n : s[j] \in S
  BY LenProperties, ElementOfSeq
<1>i. i \in Nat /\ 1 <= i /\ i <= n
  BY <1>1
<1>2. /\ SubSeq(s, 1, i - 1) \in Seq(S) /\ Len(SubSeq(s, 1, i - 1)) = i - 1
      /\ \A j \in 1 .. (i - 1) : SubSeq(s, 1, i - 1)[j] = s[j]
  <2>1. /\ SubSeq(s, 1, i - 1) \in Seq(S)
        /\ Len(SubSeq(s, 1, i - 1)) = IF 1 <= i - 1 THEN (i - 1) - 1 + 1 ELSE 0
        /\ \A j \in 1 .. ((i - 1) - 1 + 1) : SubSeq(s, 1, i - 1)[j] = s[1 + j - 1]
    BY <1>1, SubSeqProperties
  <2> QED
    BY <1>1, <2>1
<1>3. /\ SubSeq(s, i + 1, n) \in Seq(S) /\ Len(SubSeq(s, i + 1, n)) = n - i
      /\ \A j \in 1 .. (n - i) : SubSeq(s, i + 1, n)[j] = s[i + j]
  <2> DEFINE u == SubSeq(s, i + 1, n)
  <2>1. /\ u \in Seq(S)
        /\ Len(u) = IF i + 1 <= n THEN n - (i + 1) + 1 ELSE 0
        /\ \A j \in 1 .. (n - (i + 1) + 1) : u[j] = s[(i + 1) + j - 1]
    BY <1>1, SubSeqProperties
  <2> HIDE DEF u
  <2>2. Len(u) = n - i
    <3>1. Len(u) = IF i + 1 <= n THEN n - (i + 1) + 1 ELSE 0
      BY <2>1
    <3>2. n \in Nat
      BY <1>1
    <3> HIDE DEF n
    <3> QED
      BY <1>i, <3>1, <3>2
  <2>3. ASSUME NEW j \in 1 .. (n - i)
        PROVE  u[j] = s[i + j]
    <3>1. j \in 1 .. (n - (i + 1) + 1) /\ (i + 1) + j - 1 = i + j
      BY <1>1
    <3> QED
      BY <2>1, <3>1
  <2> QED
    BY <2>1, <2>2, <2>3 DEF u
<1>4. /\ t \in Seq(S) /\ Len(t) = n - 1
      /\ \A j \in 1 .. (n - 1) : t[j] = IF j < i THEN s[j] ELSE s[j + 1]
  <2>1. /\ t \in Seq(S)
        /\ Len(t) = (i - 1) + (n - i)
        /\ \A j \in 1 .. ((i - 1) + (n - i)) :
             t[j] = IF j <= i - 1 THEN SubSeq(s, 1, i - 1)[j]
                                  ELSE SubSeq(s, i + 1, n)[j - (i - 1)]
    BY <1>2, <1>3, ConcatProperties, SMTT(30) DEF RemoveAt
  <2>2. Len(t) = n - 1
    BY <1>1, <2>1
  <2>3. ASSUME NEW j \in 1 .. (n - 1)
        PROVE  t[j] = IF j < i THEN s[j] ELSE s[j + 1]
    <3>1. CASE j < i
      BY <1>1, <1>2, <2>1, <3>1
    <3>2. CASE ~(j < i)
      <4>1. j - (i - 1) \in 1 .. (n - i) /\ i + (j - (i - 1)) = j + 1
        BY <1>1, <3>2
      <4>2. t[j] = SubSeq(s, i + 1, n)[j - (i - 1)]
        BY <1>1, <2>1, <3>2
      <4> QED
        BY <1>3, <3>2, <4>1, <4>2
    <3> QED
      BY <3>1, <3>2
  <2> QED
    BY <2>1, <2>2, <2>3
<1>5. DOMAIN t = 1 .. (n - 1)
  BY <1>4, LenProperties
<1> HIDE DEF t
<1>6. Distinct(t)
  BY <1>1, <1>4 DEF Distinct
<1>7. ASSUME NEW x, x \in ToSet(t)
      PROVE  x \in ToSet(s) \ {s[i]}
  <2>1. PICK j \in 1 .. (n - 1) : x = t[j]
    BY <1>5, <1>7 DEF ToSet
  <2>2. PICK k \in 1 .. n : x = s[k] /\ k # i
    <3>1. CASE j < i
      BY <1>1, <1>i, <1>4, <2>1, <3>1
    <3>2. CASE ~(j < i)
      <4>1. j + 1 \in 1 .. n /\ j + 1 # i
        BY <1>1, <1>i, <3>2
      <4> QED
        BY <1>4, <2>1, <3>2, <4>1
    <3> QED
      BY <3>1, <3>2
  <2>3. x \in ToSet(s)
    BY <1>1, <2>2 DEF ToSet
  <2>4. s[k] # s[i]
    BY <2>2 DEF Distinct
  <2> QED
    BY <2>2, <2>3, <2>4
<1>8. ASSUME NEW x, x \in ToSet(s) \ {s[i]}
      PROVE  x \in ToSet(t)
  <2>1. PICK j \in 1 .. n : x = s[j] /\ j # i
    BY <1>1, <1>8 DEF ToSet
  <2>2. CASE j < i
    BY <1>1, <1>4, <1>5, <2>1, <2>2 DEF ToSet
  <2>3. CASE j > i
    <3>1. j - 1 \in 1 .. (n - 1) /\ t[j - 1] = s[j]
      BY <1>1, <1>4, <2>3
    <3> QED
      BY <1>5, <2>1, <3>1 DEF ToSet
  <2> QED
    BY <1>1, <2>1, <2>2, <2>3
<1> QED
  BY <1>6, <1>7, <1>8 DEF t

\* So does taking the head off.
LEMMA TailDistinct ==
  ASSUME NEW S, NEW s \in Seq(S), Distinct(s), s # <<>>
  PROVE  /\ Head(s) \in S /\ Head(s) \in ToSet(s)
         /\ Distinct(Tail(s))
         /\ ToSet(Tail(s)) = ToSet(s) \ {Head(s)}
<1>1. /\ Head(s) \in S /\ Tail(s) \in Seq(S) /\ Len(Tail(s)) = Len(s) - 1
      /\ \A i \in 1 .. Len(Tail(s)) : Tail(s)[i] = s[i + 1]
  BY HeadTailProperties
<1>2. /\ Len(s) \in Nat /\ Len(s) > 0 /\ Head(s) = s[1]
      /\ DOMAIN s = 1 .. Len(s) /\ DOMAIN Tail(s) = 1 .. (Len(s) - 1)
  BY <1>1, LenProperties, EmptySeq
<1>3. Head(s) \in ToSet(s)
  BY <1>2 DEF ToSet
<1>4. Distinct(Tail(s))
  BY <1>1, <1>2 DEF Distinct
<1>5. ASSUME NEW x, x \in ToSet(Tail(s))
      PROVE  x \in ToSet(s) \ {Head(s)}
  BY <1>1, <1>2, <1>5 DEF ToSet, Distinct
<1>6. ASSUME NEW x, x \in ToSet(s) \ {Head(s)}
      PROVE  x \in ToSet(Tail(s))
  <2>1. PICK j \in 1 .. Len(s) : x = s[j] /\ j # 1
    BY <1>2, <1>6 DEF ToSet
  <2>2. j - 1 \in 1 .. Len(Tail(s)) /\ Tail(s)[j - 1] = s[j]
    BY <1>1, <1>2, <2>1
  <2> QED
    BY <1>1, <1>2, <2>1, <2>2 DEF ToSet
<1> QED
  BY <1>1, <1>3, <1>4, <1>5, <1>6

\* A sequence without duplicates is no longer than the set it is drawn from.
LEMMA DistinctLength ==
  ASSUME NEW S, IsFiniteSet(S), NEW s \in Seq(S), Distinct(s)
  PROVE  Len(s) <= Cardinality(S)
<1>1. Len(s) \in Nat /\ s \in [1 .. Len(s) -> S]
  BY LenProperties, ElementOfSeq
<1>2. IsFiniteSet(1 .. Len(s)) /\ Cardinality(1 .. Len(s)) = Len(s)
  BY <1>1, FS_Interval
<1>3. Cardinality(S) \in Nat
  BY FS_CardinalityType
<1>4. ASSUME Cardinality(S) < Len(s)
      PROVE  FALSE
  <2>1. \E x, y \in 1 .. Len(s) : x # y /\ s[x] = s[y]
    BY <1>1, <1>2, <1>4, FS_PigeonHole
  <2> QED
    BY <2>1 DEF Distinct
<1> QED
  BY <1>1, <1>3, <1>4

-----------------------------------------------------------------------------
(* Places.                                                                 *)

Places == {"queue", "hand", "ready", "replanning", "calling", "retrying"}

Holds(p, r) ==
  \/ p = "queue" /\ r \in ToSet(queue)
  \/ p = "hand" /\ r = hand
  \/ p = "ready" /\ r \in ToSet(ready)
  \/ p = "replanning" /\ r \in replanning
  \/ p = "calling" /\ r \in calling
  \/ p = "retrying" /\ r \in retrying

\* SingleCarrier, place by place, and that it is about submitted requests only:
\* else a submission could bring in a request that is here already.
CarrierInv ==
  /\ Distinct(queue) /\ Distinct(ready)
  /\ \A r \in Requests : \A p, q \in Places : Holds(p, r) /\ Holds(q, r) => p = q
  /\ \A r \in Requests : \A p \in Places : Holds(p, r) => r \in submitted

\* What becomes of requests in a step: at most one of them moves, to one place
\* or out of the system, and the counts follow it.
Apart(r) == \A s \in Requests : s # r => \A p \in Places : Holds(p, s)' <=> Holds(p, s)

Comes(r, q) == \A p \in Places : Holds(p, r)' <=> p = q

Squeezed == QueueFull /\ \E r \in Requests : r \notin ToSet(queue)

Stays ==
  /\ \A r \in Requests : \A p \in Places : Holds(p, r)' <=> Holds(p, r)
  /\ UNCHANGED <<calls, retries>> /\ submitted \subseteq submitted'
  /\ pending' \subseteq pending \/ Squeezed

Enters(r) ==
  /\ Apart(r) /\ Comes(r, "queue")
  /\ r \notin submitted /\ submitted' = submitted \cup {r}
  /\ UNCHANGED <<calls, retries>>
  /\ pending' = pending \cup {r}

Leaves(r) ==
  /\ Apart(r) /\ \A p \in Places : ~Holds(p, r)'
  /\ UNCHANGED <<calls, retries, submitted>>
  /\ pending' \subseteq pending \ {r} \/ Squeezed

Goes(r, q) ==
  /\ Apart(r) /\ Comes(r, q) /\ \E p \in Places : Holds(p, r)
  /\ UNCHANGED <<submitted, pending>>
  /\ \/ q \in {"queue", "hand", "ready", "replanning"} /\ r \notin calling
        /\ UNCHANGED <<calls, retries>>
     \/ q = "calling" /\ r \notin calling
        /\ calls' = [calls EXCEPT ![r] = @ + 1] /\ retries' = retries
     \/ q = "retrying" /\ MayRetry(r)
        /\ retries' = [retries EXCEPT ![r] = @ + 1] /\ calls' = calls

Moves ==
  /\ Distinct(queue)' /\ Distinct(ready)'
  /\ \/ Stays
     \/ \E r \in Requests : Enters(r) \/ Leaves(r) \/ \E q \in Places : Goes(r, q)

\* A step that leaves every place alone, and all else this is about.
LEMMA NobodyMoves ==
  ASSUME CarrierInv, UNCHANGED <<queue, hand, ready, replanning, calling, retrying>>,
         UNCHANGED <<calls, retries>>, submitted \subseteq submitted', pending' \subseteq pending
  PROVE  Moves
BY DEF Moves, Stays, Holds, CarrierInv

\* Submitting brings in a request that was nowhere, or nothing.
LEMMA CallerMoves ==
  ASSUME TypeOK, CarrierInv, NEW r \in Requests,
         Submit(r) \/ CancelOwner(r) \/ CleanupDedup(r)
  PROVE  Moves
<1> USE DEF systemVars, loopVars, taskVars, apiVars, queueVars, futureVars, callerVars
<1>1. CASE SubmitRejected(r) \/ SubmitShared(r) \/ CancelOwner(r) \/ CleanupDedup(r)
  BY <1>1, NobodyMoves
     DEF SubmitRejected, SubmitShared, Accepts, Submits, CancelOwner, CleanupDedup
<1>2. CASE SubmitAccepted(r)
  <2>1. /\ queue' = Append(queue, r) /\ r \notin submitted
        /\ submitted' = submitted \cup {r} /\ pending' = pending \cup {r}
        /\ UNCHANGED <<hand, ready, replanning, calling, retrying, calls, retries>>
    BY <1>2 DEF SubmitAccepted, Accepts, Submits, RegisterFuture
  <2>2. \A p \in Places : ~Holds(p, r)
    BY <2>1 DEF CarrierInv
  <2>3. ToSet(queue)' = ToSet(queue) \cup {r} /\ Distinct(queue)'
    BY <2>1, <2>2, AppendDistinct DEF TypeOK, QueueTypes, CarrierInv, Holds, Places
  <2>4. Apart(r) /\ Comes(r, "queue")
    BY <2>1, <2>2, <2>3 DEF Apart, Comes, Holds, Places
  <2> QED
    BY <2>1, <2>3, <2>4 DEF Moves, Enters, CarrierInv
<1>3. CASE SubmitQueueFull(r)
  <2>1. /\ QueueFull /\ r \notin submitted /\ submitted' = submitted \cup {r}
        /\ UNCHANGED <<queue, hand, ready, replanning, calling, retrying, calls, retries>>
    BY <1>3 DEF SubmitQueueFull, Accepts, Submits
  <2>2. Squeezed
    BY <2>1 DEF Squeezed, CarrierInv, Holds, Places
  <2> QED
    BY <2>1, <2>2 DEF Moves, Stays, Holds, CarrierInv
<1> QED
  BY <1>1, <1>2, <1>3 DEF Submit

\* The loop hands a request on from the queue to a task.
LEMMA LoopMoves ==
  ASSUME TypeOK, CarrierInv, Loop
  PROVE  Moves
<1> USE DEF offLoop, taskVars, apiVars, lifeVars, requestVars, queueVars, futureVars,
        callerVars
<1>0. queue \in Seq(Requests) /\ ready \in Seq(Requests) /\ NoRequest \notin Requests
  BY AggregatorAssumption DEF TypeOK, QueueTypes, TaskTypes
<1>1. CASE \/ LoopExits \/ LoopBlocks \/ LoopWaitsForRequest \/ LoopFindsNone
           \/ LoopResumes \/ GetTimesOut
  BY <1>1, NobodyMoves
     DEF LoopExits, LoopBlocks, LoopWaitsForRequest, LoopFindsNone, LoopResumes, GetTimesOut
<1>2. CASE LoopDispatches
  <2>1. PICK i \in DOMAIN queue : queue' = Without(i) /\ ready' = Append(ready, queue[i])
    BY <1>2, BestInQueue DEF LoopDispatches
  <2>2. UNCHANGED <<hand, replanning, calling, retrying, calls, retries, submitted, pending>>
    BY <1>2 DEF LoopDispatches
  <2>0. i \in 1 .. Len(queue) /\ queue[i] \in Requests /\ queue[i] \in ToSet(queue)
    BY <1>0, ElementOfSeq, LenProperties DEF ToSet
  <2>3. PICK r \in Requests : r = queue[i] /\ Holds("queue", r)
    BY <2>0 DEF Holds
  <2>4. \A p \in Places : Holds(p, r) => p = "queue"
    BY <2>3 DEF CarrierInv, Places
  <2>5. Distinct(queue)' /\ ToSet(queue)' = ToSet(queue) \ {r}
    BY <1>0, <2>0, <2>1, <2>3, RemoveDistinct DEF Without, CarrierInv
  <2>6. Distinct(ready)' /\ ToSet(ready)' = ToSet(ready) \cup {r}
    BY <1>0, <2>1, <2>3, <2>4, AppendDistinct DEF CarrierInv, Holds, Places
  <2>7. Apart(r) /\ Comes(r, "ready") /\ r \notin calling
    <3>1. /\ r \notin calling /\ r # hand
          /\ r \notin ToSet(ready) /\ r \notin replanning /\ r \notin retrying
      BY <1>0, <2>2, <2>3, <2>4, <2>5, <2>6 DEF Holds, Places
    <3>2. Apart(r)
      BY <1>0, <2>2, <2>3, <2>4, <2>5, <2>6 DEF Apart, Holds, Places
    <3>3. Comes(r, "ready")
      BY <2>2, <2>5, <2>6, <3>1 DEF Comes, Holds, Places
    <3> QED
      BY <3>1, <3>2, <3>3
  <2>8. Goes(r, "ready")
    BY <2>2, <2>3, <2>7 DEF Goes, Places
  <2> QED
    BY <2>3, <2>5, <2>6, <2>8 DEF Moves, Places
<1>3. CASE GetPops
  <2>1. PICK i \in DOMAIN queue : queue' = Without(i) /\ hand' = queue[i]
    BY <1>3, BestInQueue DEF GetPops
  <2>2. UNCHANGED <<ready, replanning, calling, retrying, calls, retries, submitted, pending>>
        /\ hand = NoRequest
    BY <1>3 DEF GetPops
  <2>0. i \in 1 .. Len(queue) /\ queue[i] \in Requests /\ queue[i] \in ToSet(queue)
    BY <1>0, ElementOfSeq, LenProperties DEF ToSet
  <2>3. PICK r \in Requests : r = queue[i] /\ Holds("queue", r)
    BY <2>0 DEF Holds
  <2>4. \A p \in Places : Holds(p, r) => p = "queue"
    BY <2>3 DEF CarrierInv, Places
  <2>5. Distinct(queue)' /\ ToSet(queue)' = ToSet(queue) \ {r}
    BY <1>0, <2>0, <2>1, <2>3, RemoveDistinct DEF Without, CarrierInv
  <2>6. hand' = r
    BY <2>1, <2>3
  <2>7. Apart(r) /\ Comes(r, "hand") /\ r \notin calling
    <3>1. /\ r \notin calling /\ r \notin ToSet(ready)
          /\ r \notin replanning /\ r \notin retrying
      BY <1>0, <2>2, <2>3, <2>4, <2>5, <2>6 DEF Holds, Places
    <3>2. Apart(r)
      BY <1>0, <2>2, <2>3, <2>4, <2>5, <2>6 DEF Apart, Holds, Places
    <3>3. Comes(r, "hand")
      BY <1>0, <2>2, <2>5, <2>6, <3>1 DEF Comes, Holds, Places
    <3> QED
      BY <3>1, <3>2, <3>3
  <2>8. Goes(r, "hand")
    BY <2>2, <2>3, <2>7 DEF Goes, Places
  <2> QED
    BY <2>2, <2>3, <2>5, <2>8 DEF Moves, Places, CarrierInv
<1>4. CASE LoopTakes
  <2>1. PICK r \in Requests : r = hand
    BY <1>4 DEF LoopTakes, TypeOK, LoopTypes
  <2>2. /\ hand' = NoRequest
        /\ UNCHANGED <<queue, calling, retrying, calls, retries, submitted, pending>>
    BY <1>4 DEF LoopTakes
  <2>3. Holds("hand", r) /\ \A p \in Places : Holds(p, r) => p = "hand"
    BY <2>1, <2>2 DEF CarrierInv, Places, Holds
  <2>4. CASE ready' = Append(ready, r) /\ replanning' = replanning
    <3>1. Distinct(ready)' /\ ToSet(ready)' = ToSet(ready) \cup {r}
      BY <1>0, <2>1, <2>2, <2>3, <2>4, AppendDistinct DEF CarrierInv, Holds, Places
    <3>2. Apart(r) /\ Comes(r, "ready") /\ r \notin calling
      <4>1. /\ r \notin calling /\ r \notin ToSet(queue)
            /\ r \notin ToSet(ready) /\ r \notin replanning /\ r \notin retrying
        BY <1>0, <2>1, <2>2, <2>3, <2>4, <3>1 DEF Holds, Places
      <4>2. Apart(r)
        BY <1>0, <2>1, <2>2, <2>3, <2>4, <3>1 DEF Apart, Holds, Places
      <4>3. Comes(r, "ready")
        BY <1>0, <2>1, <2>2, <2>4, <3>1, <4>1 DEF Comes, Holds, Places
      <4> QED
        BY <4>1, <4>2, <4>3
    <3>3. Goes(r, "ready")
      BY <2>1, <2>2, <2>3, <3>2 DEF Goes, Places
    <3> QED
      BY <2>1, <2>2, <3>1, <3>3 DEF Moves, Places, CarrierInv
  <2>5. CASE ready' = ready /\ replanning' = replanning \cup {r}
    <3>1. Apart(r) /\ Comes(r, "replanning") /\ r \notin calling
      <4>1. /\ r \notin calling /\ r \notin ToSet(queue)
            /\ r \notin ToSet(ready) /\ r \notin replanning /\ r \notin retrying
        BY <1>0, <2>1, <2>2, <2>3, <2>5 DEF Holds, Places
      <4>2. Apart(r)
        BY <1>0, <2>1, <2>2, <2>3, <2>5 DEF Apart, Holds, Places
      <4>3. Comes(r, "replanning")
        BY <1>0, <2>1, <2>2, <2>5, <4>1 DEF Comes, Holds, Places
      <4> QED
        BY <4>1, <4>2, <4>3
    <3>2. Goes(r, "replanning")
      BY <2>1, <2>2, <2>3, <3>1 DEF Goes, Places
    <3> QED
      BY <2>1, <2>2, <2>5, <3>2 DEF Moves, Places, CarrierInv
  <2> QED
    BY <1>4, <2>1, <2>4, <2>5 DEF LoopTakes
<1> QED
  BY <1>1, <1>2, <1>3, <1>4 DEF Loop

\* A retry or a final failure, from a task that had the request.
LEMMA RetryOrFailMoves ==
  ASSUME TypeOK, NEW r \in Requests, RetryOrFail(r), r \notin retrying,
         \E p \in Places : Holds(p, r), Distinct(queue)', Distinct(ready)',
         UNCHANGED <<hand, replanning, submitted, calls>>, ToSet(queue)' = ToSet(queue),
         r # hand, r \notin replanning, r \notin ToSet(queue),
         ToSet(ready)' = ToSet(ready) \ {r}, calling' = calling \ {r}
  PROVE  Moves
<1>1. CASE MayRetry(r)
  <2>1. /\ retries' = [retries EXCEPT ![r] = @ + 1] /\ retrying' = retrying \cup {r}
        /\ pending' = pending
    BY <1>1 DEF RetryOrFail, futureVars
  <2>2. Apart(r)
    BY <2>1 DEF Apart, Holds
  <2>3. Comes(r, "retrying")
    BY <2>1 DEF Comes, Holds, Places
  <2> QED
    BY <1>1, <2>1, <2>2, <2>3 DEF Moves, Goes, Places
<1>2. CASE ~MayRetry(r)
  <2>1. retries' = retries /\ retrying' = retrying /\ pending' = pending \ {r}
    BY <1>2 DEF RetryOrFail, Settle
  <2>2. Apart(r)
    BY <2>1 DEF Apart, Holds
  <2>3. \A p \in Places : ~Holds(p, r)'
    BY <2>1 DEF Holds, Places
  <2> QED
    BY <2>1, <2>2, <2>3 DEF Moves, Leaves
<1> QED
  BY <1>1, <1>2

\* A dispatch takes the head of the ready tasks: to the adapter, back to the
\* queue, into a retry, or nowhere.
LEMMA DispatchMoves ==
  ASSUME TypeOK, CarrierInv, Dispatch
  PROVE  Moves
<1> USE DEF requestVars, queueVars, futureVars, callerVars
<1>1. ready \in Seq(Requests) /\ ready # <<>> /\ ready' = Tail(ready)
  BY DEF Dispatch, DispatchDenied, DispatchPutsBack, DispatchCalls, Starting, TypeOK, TaskTypes
<1>2. PICK r \in Requests : r = Head(ready)
  BY <1>1, TailDistinct DEF CarrierInv
<1>3. Holds("ready", r) /\ Distinct(ready)' /\ ToSet(ready)' = ToSet(ready) \ {r}
  BY <1>1, <1>2, TailDistinct DEF CarrierInv, Holds
<1>4. /\ r # hand /\ r \notin ToSet(queue) /\ r \notin replanning
      /\ r \notin calling /\ r \notin retrying
  BY <1>3 DEF CarrierInv, Holds, Places
<1>5. CASE DispatchDenied
  <2>1. /\ RetryOrFail(r)
        /\ UNCHANGED <<hand, calling, replanning, submitted, calls, queue>>
    BY <1>2, <1>5 DEF DispatchDenied, loopVars
  <2>2. \E p \in Places : Holds(p, r)
    BY <1>3 DEF Places
  <2> QED
    BY <1>3, <1>4, <2>1, <2>2, RetryOrFailMoves DEF CarrierInv
<1>6. CASE DispatchPutsBack
  <2>1. /\ queue' = TryPut(r)
        /\ UNCHANGED <<hand, calling, replanning, retrying, submitted, calls, retries, pending>>
    BY <1>2, <1>6 DEF DispatchPutsBack, loopVars
  <2>2. CASE QueueFull
    <3>1. queue' = queue /\ Squeezed
      BY <1>4, <2>1, <2>2 DEF TryPut, Squeezed
    <3>2. Apart(r)
      BY <1>3, <2>1, <3>1 DEF Apart, Holds
    <3>3. \A p \in Places : ~Holds(p, r)'
      BY <1>3, <1>4, <2>1, <3>1 DEF Holds
    <3> QED
      BY <1>3, <2>1, <3>1, <3>2, <3>3 DEF Moves, Leaves, CarrierInv
  <2>3. CASE ~QueueFull
    <3>1. Distinct(queue)' /\ ToSet(queue)' = ToSet(queue) \cup {r}
      BY <1>4, <2>1, <2>3, AppendDistinct DEF TryPut, CarrierInv, TypeOK, QueueTypes
    <3>2. Apart(r)
      BY <1>3, <2>1, <3>1 DEF Apart, Holds
    <3>3. Comes(r, "queue")
      BY <1>3, <1>4, <2>1, <3>1 DEF Comes, Holds, Places
    <3> QED
      BY <1>3, <1>4, <2>1, <3>1, <3>2, <3>3 DEF Moves, Goes, Places
  <2> QED
    BY <2>2, <2>3
<1>7. CASE DispatchCalls
  <2>1. /\ calls' = [calls EXCEPT ![r] = @ + 1] /\ calling' = calling \cup {r}
        /\ UNCHANGED <<hand, replanning, retrying, submitted, queue, retries, pending>>
    BY <1>2, <1>7 DEF DispatchCalls, loopVars
  <2>2. Apart(r)
    BY <1>3, <2>1 DEF Apart, Holds
  <2>3. Comes(r, "calling")
    BY <1>3, <1>4, <2>1 DEF Comes, Holds, Places
  <2> QED
    BY <1>3, <1>4, <2>1, <2>2, <2>3 DEF Moves, Goes, Places, CarrierInv
<1> QED
  BY <1>5, <1>6, <1>7 DEF Dispatch

\* An answer sends the request into a retry or out of the system.
LEMMA CallMoves ==
  ASSUME TypeOK, CarrierInv, NEW r \in Requests, Call(r)
  PROVE  Moves
<1>1. /\ r \in calling /\ calling' = calling \ {r}
      /\ UNCHANGED <<hand, ready, replanning, submitted, calls, queue>>
  BY DEF Call, CallSucceeds, CallFailsUpstream, CallRateLimited, CallRefused, Answers,
     loopVars, callerVars
<1>2. /\ Holds("calling", r) /\ r # hand /\ r \notin ToSet(queue) /\ r \notin ToSet(ready)
      /\ r \notin replanning /\ r \notin retrying
  BY <1>1 DEF CarrierInv, Holds, Places
<1>3. CASE RetryOrFail(r)
  <2>1. \E p \in Places : Holds(p, r)
    BY <1>2 DEF Places
  <2>2. ToSet(ready)' = ToSet(ready) \ {r} /\ ToSet(queue)' = ToSet(queue)
        /\ Distinct(queue)' /\ Distinct(ready)'
    BY <1>1, <1>2 DEF CarrierInv
  <2> QED
    BY <1>1, <1>2, <1>3, <2>1, <2>2, RetryOrFailMoves
<1>4. CASE pending' = pending \ {r} /\ UNCHANGED <<retries, retrying>>
  <2>1. Apart(r)
    BY <1>1, <1>4 DEF Apart, Holds
  <2>2. \A p \in Places : ~Holds(p, r)'
    BY <1>1, <1>2, <1>4 DEF Holds
  <2> QED
    BY <1>1, <1>4, <2>1, <2>2 DEF Moves, Leaves, CarrierInv
<1> QED
  BY <1>3, <1>4
     DEF Call, CallSucceeds, CallFailsUpstream, CallRateLimited, CallRefused, Settle

\* A task of its own puts the request back, or finds the queue full.
LEMMA PutMoves ==
  ASSUME TypeOK, CarrierInv, NEW r \in Requests, ReplanPuts(r) \/ RetryPuts(r)
  PROVE  Moves
<1>1. /\ r \in replanning \cup retrying
      /\ replanning' = replanning \ {r} /\ retrying' = retrying \ {r}
      /\ UNCHANGED <<hand, ready, calling, submitted, calls, retries>>
  BY DEF ReplanPuts, RetryPuts, CarrierInv, Holds, Places, loopVars, apiVars, callerVars
<1>2. PICK p \in {"replanning", "retrying"} : Holds(p, r)
  BY <1>1 DEF Holds
<1>3. /\ r # hand /\ r \notin ToSet(queue) /\ r \notin ToSet(ready) /\ r \notin calling
  BY <1>1 DEF CarrierInv, Holds, Places
<1>4. Distinct(ready)' /\ ToSet(ready)' = ToSet(ready)
  BY <1>1 DEF CarrierInv
<1>5. CASE QueueFull
  <2>1. /\ queue' = queue
        /\ pending' \subseteq pending \ {r} \/ Squeezed
    BY <1>3, <1>5 DEF ReplanPuts, RetryPuts, TryPut, Settle, Squeezed
  <2>2. Apart(r)
    BY <1>1, <2>1 DEF Apart, Holds
  <2>3. \A x \in Places : ~Holds(x, r)'
    BY <1>1, <1>3, <2>1 DEF Holds
  <2> QED
    BY <1>1, <1>4, <2>1, <2>2, <2>3 DEF Moves, Leaves, CarrierInv
<1>6. CASE ~QueueFull
  <2>1. queue' = Append(queue, r) /\ pending' = pending
    BY <1>6 DEF ReplanPuts, RetryPuts, TryPut, futureVars
  <2>2. Distinct(queue)' /\ ToSet(queue)' = ToSet(queue) \cup {r}
    BY <1>3, <2>1, AppendDistinct DEF CarrierInv, TypeOK, QueueTypes
  <2>3. Apart(r)
    BY <1>1, <1>4, <2>2 DEF Apart, Holds
  <2>4. Comes(r, "queue")
    BY <1>1, <1>3, <1>4, <2>2 DEF Comes, Holds, Places
  <2> QED
    BY <1>1, <1>2, <1>3, <1>4, <2>1, <2>2, <2>3, <2>4 DEF Moves, Goes, Places
<1> QED
  BY <1>5, <1>6

\* Every step of the system moves one request or none.
LEMMA EveryMove ==
  ASSUME TypeOK, CarrierInv, [Next]_vars
  PROVE  Moves
<1>1. CASE \/ Start \/ StopBegin \/ LoopCancelled \/ StopFinish \/ DispatchDone
           \/ \E b \in Buckets : Refill(b)
           \/ \E x \in APIs : RecoveryElapses(x)
           \/ UNCHANGED vars
  BY <1>1, NobodyMoves
     DEF Start, StopBegin, LoopCancelled, StopFinish, DispatchDone, Refill,
         RecoveryElapses, Settle, vars, offLoop, lifeVars, loopVars, taskVars, apiVars,
         requestVars, queueVars, futureVars, callerVars
<1> QED
  BY <1>1, CallerMoves, LoopMoves, DispatchMoves, CallMoves, PutMoves DEF Next

-----------------------------------------------------------------------------
(* One place.                                                              *)

\* Moving keeps every request in one place at most.
LEMMA CarrierInductive == TypeOK /\ CarrierInv /\ [Next]_vars => CarrierInv'
<1> SUFFICES ASSUME CarrierInv, Moves PROVE CarrierInv'
  BY EveryMove
<1>1. CASE Stays
  BY <1>1 DEF Moves, Stays, CarrierInv
<1>2. ASSUME NEW r \in Requests, Enters(r) \/ Leaves(r) \/ \E q \in Places : Goes(r, q)
      PROVE  CarrierInv'
  <2>1. /\ Apart(r) /\ submitted \subseteq submitted'
        /\ \A p, q \in Places : Holds(p, r)' /\ Holds(q, r)' => p = q
        /\ \A p \in Places : Holds(p, r)' => r \in submitted'
    BY <1>2 DEF Enters, Leaves, Goes, Comes, CarrierInv
  <2>2. ASSUME NEW s \in Requests
        PROVE  /\ \A p, q \in Places : Holds(p, s)' /\ Holds(q, s)' => p = q
               /\ \A p \in Places : Holds(p, s)' => s \in submitted'
    BY <2>1 DEF Apart, CarrierInv
  <2> QED
    BY <2>2 DEF Moves, CarrierInv
<1> QED
  BY <1>1, <1>2 DEF Moves

\* The invariant says what SingleCarrier says.
LEMMA CarrierSingle == TypeOK /\ CarrierInv => SingleCarrier
<1> SUFFICES ASSUME TypeOK, CarrierInv PROVE SingleCarrier
  OBVIOUS
<1>1. IsInjective(queue) /\ IsInjective(ready)
  BY LenProperties DEF CarrierInv, Distinct, IsInjective, TypeOK, QueueTypes, TaskTypes
<1>2. ToSet(queue) \subseteq Requests /\ ToSet(ready) \subseteq Requests
  BY ElementOfSeq, LenProperties DEF ToSet, TypeOK, QueueTypes, TaskTypes
<1>3. ASSUME NEW p \in Places, NEW q \in Places, p # q, NEW r \in Requests
      PROVE  ~(Holds(p, r) /\ Holds(q, r))
  BY <1>3 DEF CarrierInv
<1>4. ASSUME NEW r \in Requests
      PROVE  /\ r \in ToSet(queue) => r # hand /\ r \notin ToSet(ready)
             /\ r \in ToSet(ready) => r # hand
             /\ r \in ToSet(queue) \/ r \in ToSet(ready) \/ r = hand
                  => r \notin replanning /\ r \notin calling /\ r \notin retrying
             /\ r \in replanning => r \notin calling /\ r \notin retrying
             /\ r \in calling => r \notin retrying
  BY <1>3 DEF Holds, Places
<1>5. hand \notin Requests => hand = NoRequest /\ NoRequest \notin Requests
  BY AggregatorAssumption DEF TypeOK, LoopTypes
<1>6. /\ replanning \subseteq Requests /\ calling \subseteq Requests
      /\ retrying \subseteq Requests
  BY DEF TypeOK, TaskTypes
<1> QED
  BY <1>1, <1>2, <1>4, <1>5, <1>6 DEF SingleCarrier

\* The invariant holds in every state.
LEMMA CarrierInvariance == Spec => []CarrierInv
<1>1. Init => CarrierInv
  BY AggregatorAssumption, EmptySeq DEF Init, CarrierInv, Distinct, Holds, Places, ToSet
<1> QED
  BY <1>1, CarrierInductive, TypeCorrect, PTL DEF Spec

\* A request is in one place at most, whatever hands it on and whenever: it
\* is never dispatched twice (peek_pending, pop_specific, put, reenqueue).
THEOREM OneCarrier == Spec => []SingleCarrier
BY CarrierInvariance, CarrierSingle, TypeCorrect, PTL

-----------------------------------------------------------------------------
(* Attempts.                                                               *)

\* A request that waits for a dispatch has made one call per retry at most.
CallInv ==
  \A r \in Requests :
    /\ retries[r] <= Limit(r)
    /\ calls[r] <= retries[r] + 1
    /\ r \notin submitted => calls[r] = 0
    /\ (\E p \in Places : Holds(p, r)) /\ r \notin calling => calls[r] <= retries[r]

\* A retry limit is a number.
LEMMA LimitType == \A r \in Requests : Limit(r) \in Nat
BY AggregatorAssumption DEF Limit, RetryLimit

\* A call is made from the ready tasks, a retry is granted before the next.
LEMMA CallInvInductive == TypeOK /\ CarrierInv /\ CallInv /\ [Next]_vars => CallInv'
<1> SUFFICES ASSUME TypeOK, CarrierInv, CallInv, Moves PROVE CallInv'
  BY EveryMove
<1>0. calls \in [Requests -> Nat] /\ retries \in [Requests -> Nat]
  BY DEF TypeOK, ApiTypes, QueueTypes
<1>1. CASE Stays
  <2>1. \A r \in Requests : r \in calling' <=> r \in calling
    BY <1>1 DEF Stays, Holds, Places
  <2> QED
    BY <1>1, <2>1 DEF Stays, CallInv, Limit
<1>2. ASSUME NEW r \in Requests, Enters(r) \/ Leaves(r) \/ \E q \in Places : Goes(r, q)
      PROVE  CallInv'
  <2>1. Apart(r) /\ submitted \subseteq submitted'
    BY <1>2 DEF Enters, Leaves, Goes
  <2>2. ASSUME NEW s \in Requests, s # r
        PROVE  /\ (\E p \in Places : Holds(p, s))' <=> \E p \in Places : Holds(p, s)
               /\ s \in calling' <=> s \in calling
               /\ calls'[s] = calls[s] /\ retries'[s] = retries[s]
               /\ s \in submitted' <=> s \in submitted
    <3>1. (\E p \in Places : Holds(p, s))' <=> \E p \in Places : Holds(p, s)
      BY <2>1, <2>2 DEF Apart
    <3>2. s \in calling' <=> s \in calling
      BY <2>1, <2>2 DEF Apart, Holds, Places
    <3>3. /\ calls'[s] = calls[s] /\ retries'[s] = retries[s]
          /\ s \in submitted' <=> s \in submitted
      BY <1>0, <1>2, <2>2 DEF Enters, Leaves, Goes
    <3> QED
      BY <3>1, <3>2, <3>3
  <2>3. /\ retries'[r] <= Limit(r)
        /\ calls'[r] <= retries'[r] + 1
        /\ r \notin submitted' => calls'[r] = 0
        /\ (\E p \in Places : Holds(p, r))' /\ r \notin calling' => calls'[r] <= retries'[r]
    <3>1. CASE Enters(r)
      BY <1>0, <3>1 DEF Enters, CallInv
    <3>2. CASE Leaves(r)
      BY <3>2 DEF Leaves, CallInv
    <3>3. ASSUME NEW q \in Places, Goes(r, q)
          PROVE  <2>3!1 /\ <2>3!2 /\ <2>3!3 /\ <2>3!4
      <4>1. r \in submitted /\ r \in submitted'
        BY <3>3 DEF Goes, CarrierInv
      <4>2. r \in calling' <=> q = "calling"
        BY <3>3 DEF Goes, Comes, Holds, Places
      <4>3. CASE q \in {"queue", "hand", "ready", "replanning"}
        BY <3>3, <4>1, <4>3 DEF Goes, CallInv
      <4>4. CASE q = "calling"
        <5>1. /\ calls' = [calls EXCEPT ![r] = @ + 1] /\ retries' = retries
              /\ calls[r] <= retries[r]
          BY <3>3, <4>4 DEF Goes, CallInv
        <5> QED
          BY <1>0, <4>1, <4>2, <4>4, <5>1 DEF CallInv
      <4>5. CASE q = "retrying"
        <5>1. /\ retries' = [retries EXCEPT ![r] = @ + 1] /\ calls' = calls
              /\ retries[r] < Limit(r)
          BY <3>3, <4>5 DEF Goes, MayRetry
        <5> QED
          BY <1>0, <4>1, <5>1, LimitType DEF CallInv
      <4> QED
        BY <4>3, <4>4, <4>5 DEF Places
    <3> QED
      BY <1>2, <3>1, <3>2, <3>3
  <2>4. ASSUME NEW s \in Requests
        PROVE  /\ retries'[s] <= Limit(s)
               /\ calls'[s] <= retries'[s] + 1
               /\ s \notin submitted' => calls'[s] = 0
               /\ (\E p \in Places : Holds(p, s))' /\ s \notin calling'
                    => calls'[s] <= retries'[s]
    BY <2>2, <2>3 DEF CallInv
  <2> QED
    BY <2>4 DEF CallInv, Limit
<1> QED
  BY <1>1, <1>2 DEF Moves

\* The invariant holds in every state.
LEMMA CallInvariance == Spec => []CallInv
<1>1. Init => CallInv
  BY LimitType DEF Init, CallInv
<1> QED
  BY <1>1, CallInvInductive, CarrierInvariance, TypeCorrect, PTL DEF Spec

\* One call, and one more for each retry the policy grants (policy.py:64-67):
\* a put-back, a replan, a denial or a stop never buys a call.
THEOREM CallsWithinBudget == Spec => []CallBudget
<1>1. CallInv => CallBudget
  BY DEF CallInv, CallBudget
<1> QED
  BY <1>1, CallInvariance, PTL

-----------------------------------------------------------------------------
(* Nothing is lost.                                                        *)

KnownInv == \A r \in Requests : fut[r] = "pending" => r \in pending

HeldInv == \A r \in Requests : r \in pending => \E p \in Places : Holds(p, r)

\* An unresolved future is known to _pending, whatever the queue's size.
LEMMA KnownInductive == TypeOK /\ FutureInv /\ KnownInv /\ [Next]_vars => KnownInv'
<1> SUFFICES ASSUME TypeOK, FutureInv, KnownInv, [Next]_vars PROVE KnownInv'
  OBVIOUS
<1> USE DEF TypeOK, FutureTypes, FutureState, Resolved, KnownInv
<1>1. CASE Untouched
  BY <1>1 DEF Untouched, futureVars
<1>2. ASSUME NEW r \in Requests, Registers(r) \/ CancelOwner(r) \/ CleanupDedup(r)
      PROVE  KnownInv'
  BY <1>2 DEF Registers, RegisterFuture, CancelOwner, CleanupDedup
<1>3. ASSUME NEW rs \in SUBSET Requests, NEW o \in Resolved, Settles(rs, o)
      PROVE  KnownInv'
  BY <1>3 DEF Settles, Settle, Unresolved
<1> QED
  BY <1>1, <1>2, <1>3, FutureSteps

LEMMA KnownInvariance == Spec => []KnownInv
<1>1. Init => KnownInv
  BY DEF Init, KnownInv
<1> QED
  BY <1>1, KnownInductive, FutureInvariance, TypeCorrect, PTL DEF Spec

\* A queue with room for every request has room for one that is not in it.
LEMMA NeverSqueezed ==
  ASSUME TypeOK, CarrierInv, IsFiniteSet(Requests), Cardinality(Requests) <= QueueMaxSize
  PROVE  ~Squeezed
<1> SUFFICES ASSUME NEW r \in Requests, r \notin ToSet(queue), QueueFull
             PROVE  FALSE
  BY DEF Squeezed
<1>1. queue \in Seq(Requests) /\ Distinct(Append(queue, r))
      /\ Append(queue, r) \in Seq(Requests) /\ Len(Append(queue, r)) = Len(queue) + 1
  BY AppendDistinct, AppendProperties DEF TypeOK, QueueTypes, CarrierInv
<1>2. Len(queue) + 1 <= Cardinality(Requests)
  BY <1>1, DistinctLength
<1> QED
  BY <1>1, <1>2, LenProperties, FS_CardinalityType, AggregatorAssumption DEF QueueFull

\* A request that _pending knows leaves its place for another one.
LEMMA HeldInductive ==
  ASSUME IsFiniteSet(Requests), Cardinality(Requests) <= QueueMaxSize
  PROVE  TypeOK /\ CarrierInv /\ HeldInv /\ [Next]_vars => HeldInv'
<1> SUFFICES ASSUME TypeOK, CarrierInv, HeldInv, Moves, ~Squeezed PROVE HeldInv'
  BY EveryMove, NeverSqueezed
<1>1. CASE Stays
  BY <1>1 DEF Stays, HeldInv
<1>2. ASSUME NEW r \in Requests, Enters(r) \/ Leaves(r) \/ \E q \in Places : Goes(r, q)
      PROVE  HeldInv'
  <2>1. Apart(r) /\ pending' \subseteq pending \cup {r}
    BY <1>2 DEF Enters, Leaves, Goes
  <2>2. r \in pending' => \E p \in Places : Holds(p, r)'
    BY <1>2 DEF Enters, Leaves, Goes, Comes, Places
  <2>3. ASSUME NEW s \in Requests, s # r, s \in pending'
        PROVE  \E p \in Places : Holds(p, s)'
    BY <2>1, <2>3 DEF Apart, HeldInv
  <2> QED
    BY <2>2, <2>3 DEF HeldInv
<1> QED
  BY <1>1, <1>2 DEF Moves

\* With room in the queue for every request, a request whose future is
\* unresolved is held where a task will act on it, and _pending does not leak:
\* no put-back, replan or retry meets a full queue and drops it.
THEOREM NothingIsLost ==
  ASSUME IsFiniteSet(Requests), Cardinality(Requests) <= QueueMaxSize
  PROVE  Spec => []NothingLost
<1>1. Init => HeldInv
  BY DEF Init, HeldInv
<1>2. KnownInv /\ HeldInv => NothingLost
  BY DEF KnownInv, HeldInv, NothingLost, Carried, Holds
<1>3. TypeOK /\ CarrierInv /\ HeldInv /\ [Next]_vars => HeldInv'
  BY HeldInductive
<1> QED
  BY <1>1, <1>2, <1>3, KnownInvariance, CarrierInvariance, TypeCorrect, PTL DEF Spec

-----------------------------------------------------------------------------
(* Stopping.                                                               *)

\* The scheduler that is down has no loop and no dispatch, and a request is
\* handed over by get() only while the loop waits for it.
StopInv ==
  /\ phase = "down" => DispatchesGathered
  /\ hand # NoRequest => loop = "get"

\* Every step keeps it.
LEMMA StopInductive == TypeOK /\ StopInv /\ [Next]_vars => StopInv'
<1> SUFFICES ASSUME TypeOK, StopInv, [Next]_vars PROVE StopInv'
  OBVIOUS
<1> USE DEF StopInv, DispatchesGathered, lifeVars, loopVars, taskVars, systemVars
<1>1. ASSUME NEW r \in Requests,
             \/ Submit(r) \/ CancelOwner(r) \/ CleanupDedup(r)
             \/ ReplanPuts(r) \/ Call(r) \/ RetryPuts(r)
      PROVE  StopInv'
  BY <1>1 DEF Submit, SubmitRejected, SubmitShared, SubmitAccepted, SubmitQueueFull,
     CancelOwner, CleanupDedup, ReplanPuts, RetryPuts, Call, CallSucceeds,
     CallFailsUpstream, CallRateLimited, CallRefused, Answers
<1>2. CASE Start \/ StopBegin \/ LoopCancelled \/ StopFinish
  BY <1>2 DEF Start, StopBegin, LoopCancelled, StopFinish, offLoop
<1>3. CASE Loop
  BY <1>3 DEF Loop, LoopExits, LoopBlocks, LoopWaitsForRequest, LoopFindsNone,
     LoopDispatches, LoopResumes, GetPops, GetTimesOut, LoopTakes, Selecting, offLoop
<1>4. CASE Dispatch \/ DispatchDone
  BY <1>4 DEF Dispatch, DispatchDenied, DispatchPutsBack, DispatchCalls, Starting,
     DispatchDone, TypeOK, LoopTypes, TaskTypes
<1>5. CASE \/ \E b \in Buckets : Refill(b)
           \/ \E x \in APIs : RecoveryElapses(x)
           \/ UNCHANGED vars
  BY <1>5 DEF Refill, RecoveryElapses, vars
<1> QED
  BY <1>1, <1>2, <1>3, <1>4, <1>5 DEF Next

LEMMA StopInvariance == Spec => []StopInv
<1>1. Init => StopInv
  BY DEF Init, StopInv, DispatchesGathered
<1> QED
  BY <1>1, StopInductive, TypeCorrect, PTL DEF Spec

\* stop() settles every future it finds and leaves no dispatch behind
\* (scheduler.py:82-101); until the next start() nothing is called.
THEOREM StopAlwaysSettles == Spec => StopSettles
<1> DEFINE Settled ==
       /\ phase = "stopping" /\ phase' = "down" =>
            \A r \in Requests : fut'[r] # "pending"
       /\ phase' = "down" => /\ ready' = <<>> /\ calling' = {} /\ finished' = 0
                             /\ hand' = NoRequest /\ calls' = calls
<1>1. TypeOK /\ FutureInv /\ KnownInv /\ StopInv /\ StopInv' /\ [Next]_vars => [Settled]_vars
  <2> SUFFICES ASSUME TypeOK, KnownInv, StopInv, StopInv', [Next]_vars, phase' = "down"
               PROVE  Settled
    OBVIOUS
  <2>1. /\ ready' = <<>> /\ calling' = {} /\ finished' = 0 /\ loop' = "off"
        /\ hand' = NoRequest
    BY DEF StopInv, DispatchesGathered
  <2>2. CASE StopFinish
    <3>1. \A r \in Requests : fut'[r] # "pending"
      BY <2>2 DEF StopFinish, Settle, Unresolved, KnownInv
    <3>2. calls' = calls
      BY <2>2 DEF StopFinish, apiVars
    <3> QED
      BY <2>1, <3>1, <3>2
  <2>3. CASE ~StopFinish
    <3>1. phase = "down"
      BY <2>3 DEF Next, Submit, SubmitRejected, SubmitShared, SubmitAccepted,
         SubmitQueueFull, CancelOwner, CleanupDedup, ReplanPuts, RetryPuts, Call,
         CallSucceeds, CallFailsUpstream, CallRateLimited, CallRefused, Answers, Start,
         StopBegin, LoopCancelled, Loop, LoopExits, LoopBlocks, LoopWaitsForRequest,
         LoopFindsNone, LoopDispatches, LoopResumes, GetPops, GetTimesOut, LoopTakes,
         Dispatch, DispatchDenied, DispatchPutsBack, DispatchCalls, DispatchDone, Refill,
         RecoveryElapses, offLoop, vars, systemVars, lifeVars
    <3>2. ~Dispatch
      BY <3>1 DEF StopInv, DispatchesGathered, Dispatch, DispatchDenied, DispatchPutsBack,
         DispatchCalls, Starting
    <3>3. calls' = calls
      BY <2>3, <3>2 DEF Next, Submit, SubmitRejected, SubmitShared, SubmitAccepted,
         SubmitQueueFull, CancelOwner, CleanupDedup, ReplanPuts, RetryPuts, Call,
         CallSucceeds, CallFailsUpstream, CallRateLimited, CallRefused, Answers, Start,
         StopBegin, LoopCancelled, Loop, LoopExits, LoopBlocks, LoopWaitsForRequest,
         LoopFindsNone, LoopDispatches, LoopResumes, GetPops, GetTimesOut, LoopTakes,
         DispatchDone, Refill, RecoveryElapses, offLoop, vars, systemVars, apiVars
    <3> QED
      BY <2>1, <3>1, <3>3
  <2> QED
    BY <2>2, <2>3
<1> QED
  BY <1>1, TypeCorrect, FutureInvariance, KnownInvariance, StopInvariance, PTL
     DEF Spec, StopSettles

-----------------------------------------------------------------------------
(* Worker permits.                                                         *)

InLoop == IF loop = "get" THEN 1 ELSE 0
InTasks == Len(ready) + Cardinality(calling) + finished
Permits == permits + InTasks + InLoop

\* While stop() waits for the loop, the permit that the loop may lose is not
\* lost yet, though `stops' has counted it.
PermitInv ==
  /\ IsFiniteSet(calling)
  /\ Permits <= WorkerCount
  /\ WorkerCount - stops + (IF phase = "stopping" /\ loop # "off" THEN 1 ELSE 0)
       <= Permits

\* The summands are numbers.
LEMMA PermitTypes ==
  ASSUME TypeOK, IsFiniteSet(calling)
  PROVE  /\ Len(ready) \in Nat /\ Cardinality(calling) \in Nat /\ finished \in Nat
         /\ permits \in Nat /\ stops \in Nat /\ WorkerCount \in Nat
         /\ InLoop \in Nat /\ InTasks \in Nat
BY LenProperties, FS_CardinalityType, AggregatorAssumption
   DEF TypeOK, TaskTypes, LoopTypes, InLoop, InTasks

\* A permit follows its dispatch from the ready tasks to the adapter, to the
\* done callback and back to the semaphore.
LEMMA DispatchPermits ==
  ASSUME TypeOK, CarrierInv, IsFiniteSet(calling),
         Dispatch \/ DispatchDone \/ \E r \in Requests : Call(r)
  PROVE  /\ IsFiniteSet(calling') /\ Permits' = Permits
         /\ UNCHANGED <<phase, stops, loop>>
<1> USE PermitTypes DEF InLoop, InTasks, Permits
<1>1. CASE Dispatch
  <2>1. /\ ready \in Seq(Requests) /\ ready # <<>> /\ ready' = Tail(ready)
        /\ UNCHANGED <<permits, loop, phase, stops>>
    BY <1>1 DEF Dispatch, DispatchDenied, DispatchPutsBack, DispatchCalls, Starting, TypeOK,
       TaskTypes, lifeVars, loopVars
  <2>2. Len(ready') = Len(ready) - 1 /\ Head(ready) \in ToSet(ready) /\ Head(ready) \in Requests
    BY <2>1, TailDistinct, HeadTailProperties DEF CarrierInv
  <2>3. CASE calling' = calling /\ finished' = finished + 1
    BY <2>1, <2>2, <2>3
  <2>4. CASE calling' = calling \cup {Head(ready)} /\ finished' = finished
    <3>1. Head(ready) \notin calling
      BY <2>2 DEF CarrierInv, Holds, Places
    <3>2. IsFiniteSet(calling') /\ Cardinality(calling') = Cardinality(calling) + 1
      BY <2>4, <3>1, FS_AddElement
    <3> QED
      BY <2>1, <2>2, <2>4, <3>2
  <2> QED
    BY <1>1, <2>3, <2>4 DEF Dispatch, DispatchDenied, DispatchPutsBack, DispatchCalls
<1>2. ASSUME NEW r \in Requests, Call(r)
      PROVE  /\ IsFiniteSet(calling') /\ Permits' = Permits
             /\ UNCHANGED <<phase, stops, loop>>
  <2>1. /\ r \in calling /\ calling' = calling \ {r} /\ finished' = finished + 1
        /\ UNCHANGED <<permits, loop, phase, stops, ready>>
    BY <1>2 DEF Call, CallSucceeds, CallFailsUpstream, CallRateLimited, CallRefused,
       Answers, lifeVars, loopVars
  <2>2. IsFiniteSet(calling') /\ Cardinality(calling') = Cardinality(calling) - 1
    BY <2>1, FS_RemoveElement
  <2> QED
    BY <2>1, <2>2
<1>3. CASE DispatchDone
  BY <1>3 DEF DispatchDone, Released, lifeVars
<1> QED
  BY <1>1, <1>2, <1>3

\* The loop takes a permit, and hands it to a dispatch or gives it back.
LEMMA LoopPermits ==
  ASSUME TypeOK, IsFiniteSet(calling), Loop
  PROVE  /\ Permits' = Permits
         /\ UNCHANGED <<phase, stops, calling>>
         /\ loop # "off"
<1> USE PermitTypes DEF InLoop, InTasks, Permits
<1>1. UNCHANGED <<phase, stops, calling, finished>> /\ loop # "off"
  BY DEF Loop, LoopExits, LoopBlocks, LoopWaitsForRequest, LoopFindsNone, LoopDispatches,
     LoopResumes, GetPops, GetTimesOut, LoopTakes, Selecting, offLoop, lifeVars, taskVars
<1>2. \A r \in Requests : Len(Append(ready, r)) = Len(ready) + 1
  BY AppendProperties DEF TypeOK, TaskTypes
<1>3. CASE LoopExits \/ LoopBlocks \/ LoopFindsNone \/ LoopResumes \/ GetPops
  BY <1>1, <1>3
     DEF LoopExits, LoopBlocks, LoopFindsNone, LoopResumes, GetPops, Selecting, offLoop,
         taskVars
<1>4. CASE LoopWaitsForRequest \/ GetTimesOut
  <2>1. ready' = ready
    BY <1>4 DEF LoopWaitsForRequest, GetTimesOut, offLoop, taskVars
  <2>2. CASE LoopWaitsForRequest
    <3>1. permits' = permits - 1 /\ loop' = "get" /\ loop = "run"
      BY <2>2 DEF LoopWaitsForRequest, Selecting
    <3> QED
      BY <1>1, <2>1, <3>1
  <2>3. CASE GetTimesOut
    <3>1. permits' = permits + 1 /\ loop' = "nap" /\ loop = "get"
      BY <2>3 DEF GetTimesOut, Released
    <3> QED
      BY <1>1, <2>1, <3>1
  <2> QED
    BY <1>4, <2>2, <2>3
<1>5. CASE LoopDispatches
  <2>1. PICK i \in DOMAIN queue : ready' = Append(ready, queue[i])
    BY <1>5, BestInQueue DEF LoopDispatches
  <2>2. Len(ready') = Len(ready) + 1
    BY <1>2, <2>1, QueueOperations DEF TypeOK, QueueTypes
  <2>3. permits' = permits - 1 /\ loop' = loop /\ loop = "run"
    BY <1>5 DEF LoopDispatches, Selecting
  <2> QED
    BY <1>1, <2>2, <2>3
<1>6. CASE LoopTakes
  <2>1. hand \in Requests /\ loop = "get"
    BY <1>6 DEF LoopTakes, TypeOK, LoopTypes
  <2>2. CASE ready' = Append(ready, hand) /\ loop' = "run" /\ permits' = permits
    BY <1>1, <1>2, <2>1, <2>2
  <2>3. CASE ready' = ready /\ loop' = "nap" /\ permits' = permits + 1
    BY <1>1, <2>1, <2>3
  <2> QED
    BY <1>6, <2>2, <2>3 DEF LoopTakes, Released
<1> QED
  BY <1>3, <1>4, <1>5, <1>6 DEF Loop

\* Every step keeps the invariant.
LEMMA PermitInductive ==
  TypeOK /\ CarrierInv /\ StopInv /\ PermitInv /\ [Next]_vars => PermitInv'
<1> SUFFICES ASSUME TypeOK, CarrierInv, StopInv, PermitInv, [Next]_vars PROVE PermitInv'
  OBVIOUS
<1> USE PermitTypes
<1>1. CASE Dispatch \/ DispatchDone \/ \E r \in Requests : Call(r)
  BY <1>1, DispatchPermits DEF PermitInv
<1>2. CASE Loop
  <2>1. /\ Permits' = Permits /\ UNCHANGED <<phase, stops, calling>> /\ loop # "off"
    BY <1>2, LoopPermits DEF PermitInv
  <2> QED
    BY <2>1 DEF PermitInv, Permits
<1>3. ASSUME UNCHANGED <<permits, ready, calling, finished, phase, stops, loop>>
      PROVE  PermitInv'
  BY <1>3 DEF PermitInv, Permits, InTasks, InLoop
<1>4. ASSUME NEW r \in Requests,
             Submit(r) \/ CancelOwner(r) \/ CleanupDedup(r) \/ ReplanPuts(r) \/ RetryPuts(r)
      PROVE  PermitInv'
  BY <1>3, <1>4 DEF Submit, SubmitRejected, SubmitShared, SubmitAccepted, SubmitQueueFull,
     CancelOwner, CleanupDedup, ReplanPuts, RetryPuts, systemVars, lifeVars, loopVars,
     taskVars
<1>5. CASE Start
  BY <1>5 DEF Start, StopInv, DispatchesGathered, PermitInv, Permits, InTasks, InLoop,
     taskVars
<1>6. CASE StopBegin
  BY <1>6, SMTT(30) DEF StopBegin, PermitInv, Permits, InTasks, InLoop, loopVars, taskVars
<1>7. CASE LoopCancelled
  BY <1>7 DEF LoopCancelled, PermitInv, Permits, InTasks, InLoop, offLoop, lifeVars,
     taskVars
<1>8. CASE StopFinish
  BY <1>8 DEF StopFinish, DispatchesGathered, PermitInv, Permits, InTasks, InLoop,
     loopVars, taskVars
<1>9. CASE \/ \E b \in Buckets : Refill(b)
           \/ \E x \in APIs : RecoveryElapses(x)
           \/ UNCHANGED vars
  BY <1>3, <1>9 DEF Refill, RecoveryElapses, vars, lifeVars, loopVars, taskVars
<1> QED
  BY <1>1, <1>2, <1>4, <1>5, <1>6, <1>7, <1>8, <1>9 DEF Next

\* Worker permits (scheduler.py:107-134): each is free, with the waiting loop,
\* or with a dispatch until its done callback ran; at most WorkerCount calls
\* are in flight, and each stop() loses one permit at most.
THEOREM PermitsAccounted == Spec => []PermitAccounting
<1>1. Init => PermitInv
  BY FS_EmptySet, AggregatorAssumption
     DEF Init, PermitInv, Permits, InTasks, InLoop
<1>2. TypeOK /\ PermitInv => PermitAccounting
  BY PermitTypes, SMTT(30) DEF PermitInv, Permits, InTasks, InLoop, PermitAccounting
<1> QED
  BY <1>1, <1>2, PermitInductive, StopInvariance, CarrierInvariance, TypeCorrect, PTL
     DEF Spec

-----------------------------------------------------------------------------
(* The promise.                                                            *)

\* Settling one request ends its call, if it has one, and no other.
LEMMA SettleOne ==
  ASSUME TypeOK, NEW r \in Requests, NEW o \in Resolved, Settle({r}, o)
  PROVE  fut' = fut \/ (fut[r] = "pending" /\ fut' = [fut EXCEPT ![r] = o])
<1>1. fut \in [Requests -> FutureState]
  BY DEF TypeOK, FutureTypes
<1>2. fut' = [s \in Requests |-> IF s \in Unresolved({r}) THEN o ELSE fut[s]]
  BY DEF Settle
<1>3. CASE r \in Unresolved({r})
  BY <1>1, <1>2, <1>3 DEF Unresolved
<1>4. CASE r \notin Unresolved({r})
  <2>1. Unresolved({r}) = {}
    BY <1>4 DEF Unresolved
  <2> QED
    BY <1>1, <1>2, <2>1
<1> QED
  BY <1>3, <1>4

\* So does a retry or a final failure.
LEMMA RetryOrFailOne ==
  ASSUME TypeOK, NEW r \in Requests, RetryOrFail(r)
  PROVE  fut' = fut \/ (fut[r] = "pending" /\ fut' = [fut EXCEPT ![r] = "error"])
<1>1. "error" \in Resolved
  BY DEF Resolved, FutureState
<1> QED
  BY <1>1, SettleOne DEF RetryOrFail, futureVars

promiseVars == <<submitted, awaits, fut, calling, calls>>

\* What a caller does is what the promise lets it do.
LEMMA CallerPromise ==
  ASSUME TypeOK, FutureInv, NEW r \in Requests,
         Submit(r) \/ CancelOwner(r) \/ CleanupDedup(r)
  PROVE  Promise!Next \/ UNCHANGED promiseVars
<1> USE DEF systemVars, taskVars, apiVars, futureVars, callerVars, promiseVars
<1>1. CASE SubmitRejected(r)
  <2>1. Promise!Refuse(r)
    BY <1>1 DEF SubmitRejected, Submits, Promise!Refuse, Promise!Asks
  <2> QED
    BY <2>1 DEF Promise!Next
<1>2. CASE SubmitShared(r)
  <2>1. PICK s \in Requests : s = dedup[Key[r]] /\ fut[s] = "pending"
    BY <1>2, AggregatorAssumption DEF SubmitShared, InFlight, TypeOK, FutureTypes
  <2>2. s \in Promise!Unresolved(Key[r])
    BY <1>2, <2>1, AggregatorAssumption DEF FutureInv, Promise!Unresolved
  <2>3. awaits' = [awaits EXCEPT ![r] = s] /\ UNCHANGED <<fut, calling, calls>>
        /\ r \notin submitted /\ submitted' = submitted \cup {r}
    BY <1>2, <2>1 DEF SubmitShared, Accepts, Submits
  <2>4. Promise!Join(r)
    BY <2>2, <2>3 DEF Promise!Join, Promise!Asks
  <2> QED
    BY <2>4 DEF Promise!Next
<1>3. CASE SubmitAccepted(r) \/ SubmitQueueFull(r)
  <2>1. /\ r \notin submitted /\ submitted' = submitted \cup {r}
        /\ fut' = [fut EXCEPT ![r] = "pending"] /\ UNCHANGED <<calling, calls>>
        /\ awaits' \in {awaits, [awaits EXCEPT ![r] = r]} /\ ~InFlight(Key[r])
    BY <1>3 DEF SubmitAccepted, SubmitQueueFull, Accepts, Submits, RegisterFuture
  <2>2. fut[r] = "none"
    BY <2>1 DEF FutureInv
  <2>3. Promise!Unresolved(Key[r]) = {}
    BY <2>1, AggregatorAssumption DEF FutureInv, Coalesced, InFlight, Promise!Unresolved
  <2>4. Promise!Open(r)
    BY <2>1, <2>2, <2>3 DEF Promise!Open, Promise!Asks
  <2> QED
    BY <2>4 DEF Promise!Next
<1>4. CASE CancelOwner(r)
  <2>1. Promise!GiveUp(r)
    BY <1>4 DEF CancelOwner, Promise!GiveUp, Promise!Ends
  <2> QED
    BY <2>1 DEF Promise!Next
<1>5. CASE CleanupDedup(r)
  BY <1>5 DEF CleanupDedup
<1> QED
  BY <1>1, <1>2, <1>3, <1>4, <1>5 DEF Submit

\* A call that may still be retried or answered fails, or nothing happens.
LEMMA FailPromise ==
  ASSUME NEW r \in Requests, UNCHANGED <<submitted, awaits, calling, calls>>,
         fut' = fut \/ (fut[r] = "pending" /\ fut' = [fut EXCEPT ![r] = "error"])
  PROVE  Promise!Next \/ UNCHANGED promiseVars
<1>1. CASE fut' = fut
  BY <1>1 DEF promiseVars
<1>2. CASE fut[r] = "pending" /\ fut' = [fut EXCEPT ![r] = "error"]
  <2>1. Promise!Fail(r)
    BY <1>2 DEF Promise!Fail, Promise!Ends
  <2> QED
    BY <2>1 DEF Promise!Next
<1> QED
  BY <1>1, <1>2

\* An attempt starts only if one is left.
LEMMA DispatchPromise ==
  ASSUME TypeOK, CarrierInv, CallInv, Dispatch
  PROVE  Promise!Next \/ UNCHANGED promiseVars
<1> USE DEF requestVars, queueVars, futureVars, callerVars, promiseVars
<1>1. ready \in Seq(Requests) /\ ready # <<>>
  BY DEF Dispatch, DispatchDenied, DispatchPutsBack, DispatchCalls, Starting, TypeOK, TaskTypes
<1>2. PICK r \in Requests : r = Head(ready) /\ Holds("ready", r)
  BY <1>1, TailDistinct DEF CarrierInv, Holds
<1>3. CASE DispatchDenied
  <2>1. RetryOrFail(r) /\ UNCHANGED <<submitted, awaits, calling, calls>>
    BY <1>2, <1>3 DEF DispatchDenied
  <2> QED
    BY <2>1, RetryOrFailOne, FailPromise
<1>4. CASE DispatchPutsBack
  BY <1>4 DEF DispatchPutsBack
<1>5. CASE DispatchCalls
  <2>1. r \notin calling /\ calls[r] <= retries[r] /\ retries[r] <= Limit(r)
    BY <1>2 DEF CarrierInv, CallInv, Holds, Places
  <2>2. calls[r] <= Limit(r)
    BY <2>1, LimitType DEF TypeOK, ApiTypes, QueueTypes
  <2>3. /\ calls' = [calls EXCEPT ![r] = @ + 1] /\ calling' = calling \cup {r}
        /\ UNCHANGED <<submitted, awaits, fut>>
    BY <1>2, <1>5 DEF DispatchCalls
  <2>4. Promise!Attempt(r)
    BY <2>1, <2>2, <2>3 DEF Promise!Attempt
  <2> QED
    BY <2>4 DEF Promise!Next
<1> QED
  BY <1>3, <1>4, <1>5 DEF Dispatch

\* An answer ends an attempt and the call it is for, or the attempt alone.
LEMMA CallPromise ==
  ASSUME TypeOK, NEW r \in Requests, Call(r)
  PROVE  Promise!Next \/ UNCHANGED promiseVars
<1>1. /\ r \in calling /\ calling' = calling \ {r}
      /\ UNCHANGED <<submitted, awaits, calls>>
  BY DEF Call, CallSucceeds, CallFailsUpstream, CallRateLimited, CallRefused, Answers,
     callerVars
<1>2. {"response", "error"} \subseteq Resolved
  BY DEF Resolved, FutureState
<1>3. PICK o \in {"response", "error"} :
        fut' = fut \/ (fut[r] = "pending" /\ fut' = [fut EXCEPT ![r] = o])
  BY <1>2, SettleOne, RetryOrFailOne
     DEF Call, CallSucceeds, CallFailsUpstream, CallRateLimited, CallRefused
<1>4. Promise!Return(r)
  BY <1>1, <1>3 DEF Promise!Return, Promise!Ends
<1> QED
  BY <1>4 DEF Promise!Next

\* Every step of the aggregator is one of the promise, or none.
LEMMA PromiseSteps ==
  ASSUME TypeOK, FutureInv, CarrierInv, CallInv, KnownInv, [Next]_vars
  PROVE  Promise!Next \/ UNCHANGED promiseVars
<1> USE DEF lifeVars, loopVars, taskVars, apiVars, requestVars, futureVars, callerVars
<1>1. ASSUME NEW r \in Requests, ReplanPuts(r) \/ RetryPuts(r)
      PROVE  Promise!Next \/ UNCHANGED promiseVars
  <2>1. "error" \in Resolved
    BY DEF Resolved, FutureState
  <2>2. UNCHANGED <<submitted, awaits, calling, calls>>
    BY <1>1 DEF ReplanPuts, RetryPuts
  <2>3. fut' = fut \/ Settle({r}, "error")
    BY <1>1 DEF ReplanPuts, RetryPuts
  <2>4. fut' = fut \/ (fut[r] = "pending" /\ fut' = [fut EXCEPT ![r] = "error"])
    BY <2>1, <2>3, SettleOne
  <2> QED
    BY <2>2, <2>4, FailPromise
<1>2. CASE StopFinish
  <2>1. /\ calling = {} /\ UNCHANGED <<submitted, awaits, calling, calls>>
        /\ Settle(Requests, "stopped")
    BY <1>2 DEF StopFinish, DispatchesGathered
  <2>2. \A r \in Requests : r \in Unresolved(Requests) <=> fut[r] = "pending"
    BY DEF Unresolved, KnownInv
  <2>3. Promise!Stop
    BY <2>1, <2>2 DEF Settle, Promise!Stop
  <2> QED
    BY <2>3 DEF Promise!Next
<1>3. CASE \/ Start \/ StopBegin \/ LoopCancelled \/ Loop \/ DispatchDone
           \/ \E b \in Buckets : Refill(b)
           \/ \E x \in APIs : RecoveryElapses(x)
           \/ UNCHANGED vars
  BY <1>3
     DEF Start, StopBegin, LoopCancelled, Loop, LoopExits, LoopBlocks,
         LoopWaitsForRequest, LoopFindsNone, LoopDispatches, LoopResumes, GetPops,
         GetTimesOut, LoopTakes, DispatchDone, Refill, RecoveryElapses, offLoop, vars,
         promiseVars
<1> QED
  BY <1>1, <1>2, <1>3, CallerPromise, DispatchPromise, CallPromise DEF Next

\* To its callers the aggregator is the promise: for every number of requests,
\* APIs and workers, each step of queue, loop, dispatches, retries, callbacks
\* and stop is one step of the promise or is invisible to them.
THEOREM PromiseKept == Spec => ImplementsPromise
<1>1. Init => Promise!Init
  BY DEF Init, Promise!Init
<1>2. TypeOK /\ FutureInv /\ CarrierInv /\ CallInv /\ KnownInv /\ [Next]_vars
        => [Promise!Next]_(Promise!vars)
  BY PromiseSteps DEF promiseVars, Promise!vars
<1> QED
  BY <1>1, <1>2, TypeCorrect, FutureInvariance, CarrierInvariance, CallInvariance,
     KnownInvariance, PTL DEF Spec, ImplementsPromise, Promise!Spec
=============================================================================
