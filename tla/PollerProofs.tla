---------------------------- MODULE PollerProofs ----------------------------
(* Proofs about Poller, for every maxRetries, every lag of the answers and *)
(* every number of rejections.                                             *)
EXTENDS Poller, TLAPS

USE PollerAssumption

LEMMA InitEstablishesIInv == Init => IInv
  BY DEF Init, IInv, TypeOK, Outcomes, CallsAccounted, ArmedWhilePending,
         PendingMeansNulls, GivesUpOnlyWhenExhausted, CallsBounded

(* Each action preserves the inductive invariant. *)
LEMMA NextPreservesIInv == IInv /\ [Next]_vars => IInv'
<1> SUFFICES ASSUME IInv, [Next]_vars
             PROVE  IInv'
  OBVIOUS
<1> USE DEF IInv, TypeOK, Outcomes, CallsAccounted, ArmedWhilePending,
            PendingMeansNulls, GivesUpOnlyWhenExhausted, CallsBounded
<1>1. CASE GiveUp
  BY <1>1 DEF GiveUp, Resolved
<1>2. CASE StartTask
  BY <1>2 DEF StartTask
<1>3. CASE TaskNull
  BY <1>3 DEF TaskNull
<1>4. CASE TaskValue
  <2>a. outcome' \in Outcomes
    BY <1>4 DEF TaskValue, Resolved
  <2>b. armed' \in BOOLEAN
    BY <1>4 DEF TaskValue
  <2>1. TypeOK'
    BY <1>4, <2>a, <2>b DEF TaskValue
  <2>2. CallsAccounted' /\ CallsBounded'
    BY <1>4 DEF TaskValue
  <2>3. outcome' # "pending" /\ ~armed'
    BY <1>4 DEF TaskValue, Resolved
  <2>4. ArmedWhilePending' /\ PendingMeansNulls'
    BY <2>3
  <2>5. outcome' = "null" => outcome = "null" /\ nulls' = nulls
    BY <1>4 DEF TaskValue, Resolved
  <2>6. GivesUpOnlyWhenExhausted'
    BY <2>5
  <2>7. QED
    BY <2>1, <2>2, <2>4, <2>6
<1>5. CASE TaskReject
  BY <1>5 DEF TaskReject
<1>6. CASE UNCHANGED vars
  BY <1>6 DEF vars
<1>7. QED
  BY <1>1, <1>2, <1>3, <1>4, <1>5, <1>6 DEF Next

(* The inductive invariant, and with it type correctness, holds in every   *)
(* reachable state of retry().                                             *)
THEOREM PollerInvariant == Spec => []IInv
<1>1. Init => IInv
  BY InitEstablishesIInv
<1>2. IInv /\ [Next]_vars => IInv'
  BY NextPreservesIInv
<1>3. QED
  BY <1>1, <1>2, PTL DEF Spec

(* The promise resolves with null only after maxRetries null answers.      *)
THEOREM NullMeansExhausted == Spec => []GivesUpOnlyWhenExhausted
<1>1. IInv => GivesUpOnlyWhenExhausted
  BY DEF IInv
<1>2. QED
  BY <1>1, PollerInvariant, PTL

(* The number of calls of the task exceeds maxRetries by at most the calls *)
(* that overlap and the calls that reject.                                 *)
THEOREM CallsAreBounded == Spec => []CallsBounded
<1>1. IInv => CallsBounded
  BY DEF IInv
<1>2. QED
  BY <1>1, PollerInvariant, PTL

(* No call of the task is made once the promise is settled.                *)
THEOREM NoCallOnceSettled == Spec => QuietOnceSettled
<1>1. IInv /\ [Next]_vars => [outcome # "pending" => started' = started]_vars
  <2> SUFFICES ASSUME IInv, Next, outcome # "pending"
               PROVE  started' = started
    BY DEF vars
  <2>1. ~armed
    BY DEF IInv, ArmedWhilePending
  <2>2. QED
    BY <2>1 DEF Next, GiveUp, StartTask, TaskNull, TaskValue, TaskReject
<1>2. QED
  BY <1>1, PollerInvariant, PTL DEF Spec, QuietOnceSettled

(* The safety half of Settles: while the promise is pending something can  *)
(* go on, and at most 2 * (maxRetries + MaxLag - 1) + 1 steps are taken,   *)
(* and two for each call that rejects.  Calls that reject are not counted  *)
(* as attempts, so that without a limit on them there is none on steps.    *)
THEOREM PollingIsBounded == Spec => [](NeverStuck /\ StepsBounded) /\ StepsCost
<1>1. IInv => NeverStuck /\ StepsBounded
  BY DEF IInv, TypeOK, CallsAccounted, ArmedWhilePending, CallsBounded, NeverStuck,
         CanStep, StepsBounded, StepsLeft, MostCalls
<1>2. IInv /\ [Next]_vars => [StepsLeft' < StepsLeft]_vars
  <2> SUFFICES ASSUME IInv, Next PROVE StepsLeft' < StepsLeft
    OBVIOUS
  <2> USE DEF IInv, TypeOK, StepsLeft, MostCalls
  <2>1. CASE GiveUp
    BY <2>1 DEF GiveUp
  <2>2. CASE StartTask
    BY <2>2 DEF StartTask
  <2>3. CASE TaskNull \/ TaskReject
    BY <2>3 DEF TaskNull, TaskReject
  <2>4. CASE TaskValue
    BY <2>4 DEF TaskValue
  <2> QED  BY <2>1, <2>2, <2>3, <2>4 DEF Next
<1> QED  BY <1>1, <1>2, PollerInvariant, PTL DEF Spec, StepsCost
=============================================================================
