------------------------- MODULE ResubmissionProofs -------------------------
(***************************************************************************)
(* Theorems about Resubmission: a Request object may be submitted any      *)
(* number of times, with any retry limit, and no caller is stranded.       *)
(***************************************************************************)
EXTENDS Resubmission, FiniteSetTheorems, TLAPS

\* The inductive invariant.  A submission must know that a future it displaces
\* from the slot is resolved, a callback that the future it belongs to is.
SlotInv ==
  /\ NeverStranded
  /\ \A c \in cleanups : fut[c] \notin {"none", "shared", "pending"}

\* Calls made and calls still to come are paid for by submissions and retries.
BudgetInv ==
  /\ calls + queued + sleeping <= Cardinality(Opened) + retries
  /\ retries <= Limit

-----------------------------------------------------------------------------
(* Types.                                                                  *)

\* A retry never improves a priority (policy.py:94-101).
LEMMA DemotedTypes == \A p \in Priority : Demoted(p) \in Priority /\ Demoted(p) >= p
BY DecayAssumption DEF Demoted, Decay, Priority, HIGH, MEDIUM, LOW

\* Settling answers at most the submission the slot names.
LEMMA SettleTypes ==
  ASSUME TypeOK, NEW o \in {"response", "error", "stopped"}, Settle(o)
  PROVE  /\ fut' \in [Callers -> Future] /\ cleanups' \subseteq Callers
         /\ named' \in Callers \cup {None}
         /\ shares' = shares /\ dedup' = dedup
BY DEF Settle, TypeOK, Future, Unresolved

\* An entry is retried, or ends with an error.
LEMMA RetryOrFailTypes ==
  ASSUME TypeOK, RetryOrFail
  PROVE  /\ fut' \in [Callers -> Future] /\ shares' \in [Callers -> Callers \cup {None}]
         /\ {named', dedup'} \subseteq Callers \cup {None} /\ cleanups' \subseteq Callers
         /\ {sleeping', retries'} \subseteq Nat
         /\ prio' \in Priority /\ prio' >= InitialPriority
<1>1. CASE MayRetry
  <2>1. /\ UNCHANGED futureVars /\ retries' = retries + 1
        /\ sleeping' = sleeping + 1 /\ prio' = Demoted(prio)
    BY <1>1 DEF RetryOrFail
  <2>2. prio' \in Priority /\ prio' >= InitialPriority
    BY <2>1, DemotedTypes, ResubmissionAssumption
       DEF TypeOK, Priority, HIGH, MEDIUM, LOW
  <2> QED
    BY <2>1, <2>2 DEF TypeOK, futureVars
<1>2. CASE ~MayRetry
  BY <1>2, SettleTypes DEF RetryOrFail, TypeOK
<1> QED
  BY <1>1, <1>2

\* Every step keeps the types.
LEMMA TypeInductive == TypeOK /\ [Next]_vars => TypeOK'
<1> SUFFICES ASSUME TypeOK, [Next]_vars PROVE TypeOK'
  OBVIOUS
<1>1. ASSUME NEW c \in Callers, Share(c) \/ Submit(c) \/ GiveUp(c) \/ CleanupDedup(c)
      PROVE  TypeOK'
  BY <1>1 DEF Share, Submit, TakesSlot, GiveUp, CleanupDedup, Unresolved, TypeOK, Future,
     entryVars, lifeVars
<1>2. CASE Denied
  BY <1>2, RetryOrFailTypes DEF Denied, TypeOK, lifeVars
<1>3. CASE Called
  BY <1>3 DEF Called, TypeOK, futureVars, lifeVars
<1>6. CASE Wakes
  BY <1>6 DEF Wakes, TypeOK, futureVars, lifeVars
<1>7. CASE Start \/ UNCHANGED vars
  BY <1>7 DEF Start, TypeOK, futureVars, entryVars, lifeVars, vars
<1>4. ASSUME NEW e, Ends(e)
      PROVE  TypeOK'
  <2>1. CASE RetryOrFail
    BY <1>4, <2>1, RetryOrFailTypes DEF Ends, Returns, TypeOK, lifeVars
  <2>2. CASE (Settle("response") \/ Settle("error")) /\ UNCHANGED <<sleeping, retries, prio>>
    BY <1>4, <2>2, SettleTypes DEF Ends, Returns, TypeOK, lifeVars
  <2> QED
    BY <1>4, <2>1, <2>2 DEF Ends
<1>5. CASE Stop
  <2>1. Settle("stopped") /\ up' \in BOOLEAN /\ stops' = stops + 1
        /\ UNCHANGED <<queued, calling, sleeping, retries, prio, calls>>
    BY <1>5 DEF Stop, entryVars
  <2> QED
    BY <2>1, SettleTypes DEF TypeOK
<1> QED
  BY <1>1, <1>2, <1>3, <1>4, <1>5, <1>6, <1>7 DEF Next, Answer

\* The counts stay natural numbers, and the priority of the object never gets
\* better than it was submitted with, whichever of its entries is retried.
THEOREM TypeCorrect == Spec => []TypeOK
<1>1. Init => TypeOK
  BY ResubmissionAssumption DEF Init, TypeOK, Future, Priority, HIGH, MEDIUM, LOW
<1> QED
  BY <1>1, TypeInductive, PTL DEF Spec

-----------------------------------------------------------------------------
(* No caller is stranded.                                                  *)

\* Settling leaves no unresolved future, so the entry that did may go.
LEMMA SettleResolves ==
  ASSUME TypeOK, SlotInv, NEW o \in {"response", "error", "stopped"}, Settle(o)
  PROVE  /\ \A c \in Callers : fut'[c] # "pending"
         /\ \A c \in cleanups' : fut'[c] \notin {"none", "shared", "pending"}
<1> USE DEF TypeOK, SlotInv, NeverStranded
<1>1. CASE Unresolved(named)
  BY <1>1 DEF Settle, Unresolved
<1>2. CASE ~Unresolved(named)
  BY <1>2, ResubmissionAssumption DEF Settle, Unresolved
<1> QED
  BY <1>1, <1>2

\* An entry that is retried stays; one that fails leaves nobody waiting.
LEMMA RetryOrFailKeeps ==
  ASSUME TypeOK, SlotInv, RetryOrFail
  PROVE  /\ \A c \in cleanups' : fut'[c] \notin {"none", "shared", "pending"}
         /\ \/ \A c \in Callers : fut'[c] # "pending"
            \/ UNCHANGED futureVars /\ sleeping' = sleeping + 1
<1>1. CASE MayRetry
  BY <1>1 DEF RetryOrFail, SlotInv, futureVars
<1>2. CASE ~MayRetry
  BY <1>2, SettleResolves DEF RetryOrFail
<1> QED
  BY <1>1, <1>2

\* Every step keeps the invariant.
LEMMA SlotInductive == TypeOK /\ SlotInv /\ [Next]_vars => SlotInv'
<1> SUFFICES ASSUME TypeOK, SlotInv, [Next]_vars PROVE SlotInv'
  OBVIOUS
<1>1. ASSUME NEW c \in Callers, Share(c)
      PROVE  SlotInv'
  BY <1>1 DEF Share, SlotInv, NeverStranded, TypeOK, entryVars
<1>2. ASSUME NEW c \in Callers, Submit(c)
      PROVE  SlotInv'
  <2>1. \A d \in Callers : fut[d] # "pending"
    BY <1>2, ResubmissionAssumption DEF Submit, Unresolved, SlotInv, NeverStranded, TypeOK
  <2>2. /\ fut' = [fut EXCEPT ![c] = "pending"] /\ fut[c] = "none"
        /\ named' = c /\ dedup' = c /\ cleanups' = cleanups
        /\ queued' + calling' + sleeping' > 0
    BY <1>2 DEF Submit, TakesSlot, TypeOK
  <2> QED
    BY <2>1, <2>2 DEF SlotInv, NeverStranded, TypeOK
<1>3. ASSUME NEW c \in Callers, GiveUp(c)
      PROVE  SlotInv'
  BY <1>3 DEF GiveUp, SlotInv, NeverStranded, TypeOK, entryVars
<1>4. ASSUME NEW c \in Callers, CleanupDedup(c)
      PROVE  SlotInv'
  BY <1>4 DEF CleanupDedup, SlotInv, NeverStranded, TypeOK, entryVars
<1>5. CASE Denied
  BY <1>5, RetryOrFailKeeps DEF Denied, SlotInv, NeverStranded, TypeOK, futureVars
<1>6. CASE Called \/ Wakes
  BY <1>6 DEF Called, Wakes, SlotInv, NeverStranded, TypeOK, futureVars
<1>7. ASSUME NEW e, Ends(e)
      PROVE  SlotInv'
  <2>1. CASE RetryOrFail
    BY <1>7, <2>1, RetryOrFailKeeps
       DEF Ends, Returns, SlotInv, NeverStranded, TypeOK, futureVars
  <2>2. CASE Settle("response") \/ Settle("error")
    BY <2>2, SettleResolves DEF SlotInv, NeverStranded
  <2> QED
    BY <1>7, <2>1, <2>2 DEF Ends
<1>8. CASE Stop
  BY <1>8, SettleResolves DEF Stop, SlotInv, NeverStranded
<1>9. CASE Start \/ UNCHANGED vars
  BY <1>9 DEF Start, vars, futureVars, entryVars, SlotInv, NeverStranded
<1> QED
  BY <1>1, <1>2, <1>3, <1>4, <1>5, <1>6, <1>7, <1>8, <1>9 DEF Next, Answer

\* Submitting an object again while an abandoned entry of it is queued, called
\* or asleep (orchestrator.py:124 overwrites _pending[request.id]) never
\* leaves a caller with a future that no entry will settle.
THEOREM NobodyStranded == Spec => []NeverStranded
<1>1. Init => SlotInv
  BY DEF Init, SlotInv, NeverStranded
<1>2. SlotInv => NeverStranded
  BY DEF SlotInv
<1> QED
  BY <1>1, <1>2, SlotInductive, TypeCorrect, PTL DEF Spec

-----------------------------------------------------------------------------
(* Calls to the upstream.                                                  *)

\* A submission that makes a future is opened once, and stays so.
LEMMA OpenedSteps ==
  ASSUME TypeOK, [Next]_vars
  PROVE  /\ IsFiniteSet(Opened) /\ Cardinality(Opened) \in Nat
         /\ \A c \in Callers : Submit(c) => Cardinality(Opened)' = Cardinality(Opened) + 1
         /\ Opened' = Opened \/ \E c \in Callers : Submit(c)
<1> USE DEF TypeOK, Opened
<1>0. IsFiniteSet(Opened) /\ Cardinality(Opened) \in Nat
  BY ResubmissionAssumption, FS_Subset, FS_CardinalityType
<1>1. ASSUME NEW c \in Callers, Submit(c)
      PROVE  Cardinality(Opened)' = Cardinality(Opened) + 1
  <2>1. Opened' = Opened \cup {c} /\ c \notin Opened
    BY <1>1 DEF Submit
  <2> QED
    BY <1>0, <2>1, FS_AddElement
<1>2. ASSUME NEW o \in {"response", "error", "stopped"}, Settle(o)
      PROVE  Opened' = Opened
  BY <1>2 DEF Settle, Unresolved
<1>3. ASSUME RetryOrFail PROVE Opened' = Opened
  BY <1>2, <1>3 DEF RetryOrFail, futureVars
<1>4. ASSUME NEW c \in Callers, Share(c) \/ GiveUp(c) \/ CleanupDedup(c)
      PROVE  Opened' = Opened
  BY <1>4 DEF Share, GiveUp, CleanupDedup
<1>5. ASSUME NEW e, Ends(e) PROVE Opened' = Opened
  BY <1>2, <1>3, <1>5 DEF Ends
<1>6. ASSUME Denied PROVE Opened' = Opened
  BY <1>3, <1>6 DEF Denied
<1>7. ASSUME Stop PROVE Opened' = Opened
  <2>1. Settle("stopped")
    BY <1>7 DEF Stop
  <2> QED
    BY <1>2, <2>1
<1>8. ASSUME Called \/ Wakes \/ Start \/ UNCHANGED vars PROVE Opened' = Opened
  BY <1>8 DEF Called, Wakes, Start, vars, futureVars
<1> HIDE DEF Opened
<1> QED
  BY <1>0, <1>1, <1>4, <1>5, <1>6, <1>7, <1>8 DEF Next, Answer

\* A retry is paid for before its call, and counted once.
LEMMA RetryOrFailPays ==
  ASSUME TypeOK, retries <= Limit, RetryOrFail
  PROVE  /\ sleeping' - retries' = sleeping - retries
         /\ retries' <= Limit
<1>1. Limit \in Nat
  BY ResubmissionAssumption DEF Limit, RetryLimit
<1> QED
  BY <1>1 DEF RetryOrFail, MayRetry, TypeOK

\* Every step keeps the budget.
LEMMA BudgetInductive == TypeOK /\ BudgetInv /\ [Next]_vars => BudgetInv'
<1> SUFFICES ASSUME TypeOK, BudgetInv, [Next]_vars PROVE BudgetInv'
  OBVIOUS
<1> DEFINE n == Cardinality(Opened)
<1>0. Limit \in Nat /\ n \in Nat /\ {calls, queued, sleeping, retries} \subseteq Nat
  BY ResubmissionAssumption, OpenedSteps DEF Limit, RetryLimit, TypeOK
<1>1. ASSUME NEW c \in Callers, Submit(c)
      PROVE  BudgetInv'
  <2>1. n' = n + 1
    BY <1>1, OpenedSteps
  <2> QED
    BY <1>0, <1>1, <2>1 DEF Submit, BudgetInv
<1>2. CASE \A c \in Callers : ~Submit(c)
  <2>1. Opened' = Opened
    BY <1>2, OpenedSteps
  <2>2. ASSUME calls' + queued' + sleeping' - retries' <= calls + queued + sleeping - retries,
               {calls', queued', sleeping', retries'} \subseteq Nat, retries' <= Limit
        PROVE  BudgetInv'
    BY <1>0, <2>1, <2>2 DEF BudgetInv
  <2>3. {calls', queued', sleeping', retries'} \subseteq Nat
    BY TypeInductive DEF TypeOK
  <2>4. CASE Denied
    BY <1>0, <2>2, <2>3, <2>4, RetryOrFailPays DEF Denied, BudgetInv, TypeOK
  <2>5. CASE Called \/ Wakes \/ Stop \/ Start \/ UNCHANGED vars
    BY <1>0, <2>2, <2>3, <2>5
       DEF Called, Wakes, Stop, Start, vars, entryVars, BudgetInv, TypeOK
  <2>6. ASSUME NEW e, Ends(e)
        PROVE  BudgetInv'
    BY <1>0, <2>2, <2>3, <2>6, RetryOrFailPays DEF Ends, Returns, BudgetInv, TypeOK
  <2>7. ASSUME NEW c \in Callers, Share(c) \/ GiveUp(c) \/ CleanupDedup(c)
        PROVE  BudgetInv'
    BY <1>0, <2>2, <2>3, <2>7 DEF Share, GiveUp, CleanupDedup, entryVars, BudgetInv, TypeOK
  <2> QED
    BY <1>2, <2>4, <2>5, <2>6, <2>7 DEF Next, Answer
<1> QED
  BY <1>1, <1>2

\* The upstream gets at most one call per submission of the object and one per
\* retry granted to it (policy.py:65-67 reads the retry_count they share).
THEOREM CallsWithinBudget == Spec => []UpstreamBudget
<1>1. Init => BudgetInv
  <2> SUFFICES ASSUME Init PROVE BudgetInv
    OBVIOUS
  <2>1. Opened = {} /\ Limit \in Nat
    BY ResubmissionAssumption DEF Init, Opened, Limit, RetryLimit
  <2> QED
    BY <2>1, FS_EmptySet DEF Init, BudgetInv
<1>2. TypeOK /\ BudgetInv => UpstreamBudget
  <2> SUFFICES ASSUME TypeOK, BudgetInv PROVE UpstreamBudget
    OBVIOUS
  <2>1. Cardinality(Opened) \in Nat
    BY ResubmissionAssumption, FS_Subset, FS_CardinalityType DEF Opened
  <2> QED
    BY <2>1 DEF BudgetInv, UpstreamBudget, TypeOK
<1> QED
  BY <1>1, <1>2, BudgetInductive, TypeCorrect, PTL DEF Spec
=============================================================================
