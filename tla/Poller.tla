------------------------------- MODULE Poller -------------------------------
(***************************************************************************)
(* retry(task, interval, maxRetries) of connect/src/protocols/poller.ts.   *)
(*                                                                         *)
(* setInterval fires an async callback.  A callback that finds the budget  *)
(* used up clears the interval and resolves the promise with null; any     *)
(* other callback calls the task and awaits it.  Nothing stops the next    *)
(* callback from firing while an earlier task is still awaited, and        *)
(* `retries` is incremented only after the task has answered, so calls     *)
(* overlap when the task is slower than the interval.                      *)
(***************************************************************************)
EXTENDS Naturals

CONSTANTS
    MaxRetries,   \* the maxRetries argument
    MaxLag,       \* an answer takes at most MaxLag intervals, hence at most
                  \* MaxLag calls are awaited at a time
    MaxRejects    \* bound: how many calls of the task may reject

ASSUME PollerAssumption ==
    /\ MaxRetries \in Nat
    /\ MaxLag \in Nat \ {0}
    /\ MaxRejects \in Nat

VARIABLES
    retries,   \* the closure's counter
    armed,     \* the interval has not been cleared
    outcome,   \* the promise: "pending", or resolved with "null" or "value"
    inflight,  \* calls of the task that are awaited
    started,   \* calls of the task made so far
    nulls,     \* calls that answered null
    rejected   \* calls that rejected

vars == <<retries, armed, outcome, inflight, started, nulls, rejected>>

Outcomes == {"pending", "null", "value"}

TypeOK ==
    /\ retries \in Nat
    /\ armed \in BOOLEAN
    /\ outcome \in Outcomes
    /\ inflight \in 0..MaxLag
    /\ started \in Nat
    /\ nulls \in Nat
    /\ rejected \in 0..MaxRejects

Init ==
    /\ retries = 0
    /\ armed = TRUE
    /\ outcome = "pending"
    /\ inflight = 0
    /\ started = 0
    /\ nulls = 0
    /\ rejected = 0

-----------------------------------------------------------------------------

(* resolve(r): a promise keeps the first value it is resolved with. *)
Resolved(r) == IF outcome = "pending" THEN r ELSE outcome

(* Mutant of GiveUp: the interval is cleared, the promise is forgotten.    *)
GiveUpSilently ==
    /\ armed
    /\ retries >= MaxRetries
    /\ armed' = FALSE
    /\ UNCHANGED <<retries, outcome, inflight, started, nulls, rejected>>

(* A callback fires with the budget used up. *)
GiveUp ==
    /\ armed
    /\ retries >= MaxRetries
    /\ armed' = FALSE
    /\ outcome' = Resolved("null")
    /\ UNCHANGED <<retries, inflight, started, nulls, rejected>>

(* Mutant of StartTask: the attempt is counted when the call is made.      *)
StartTaskCounted ==
    /\ armed
    /\ retries < MaxRetries
    /\ inflight < MaxLag
    /\ inflight' = inflight + 1
    /\ started' = started + 1
    /\ retries' = retries + 1
    /\ UNCHANGED <<armed, outcome, nulls, rejected>>

(* A callback fires and calls the task. *)
StartTask ==
    /\ armed
    /\ retries < MaxRetries
    /\ inflight < MaxLag
    /\ inflight' = inflight + 1
    /\ started' = started + 1
    /\ UNCHANGED <<retries, armed, outcome, nulls, rejected>>

(* Mutant of TaskNull: the attempt is not counted.                         *)
TaskNullUncounted ==
    /\ inflight > 0
    /\ inflight' = inflight - 1
    /\ nulls' = nulls + 1
    /\ UNCHANGED <<retries, armed, outcome, started, rejected>>

(* An awaited call answers null: only the counter moves. *)
TaskNull ==
    /\ inflight > 0
    /\ inflight' = inflight - 1
    /\ retries' = retries + 1
    /\ nulls' = nulls + 1
    /\ UNCHANGED <<armed, outcome, started, rejected>>

(* Mutant of TaskValue: the interval is not cleared.                       *)
TaskValueKeepsPolling ==
    /\ inflight > 0
    /\ inflight' = inflight - 1
    /\ outcome' = Resolved("value")
    /\ retries' = retries + 1
    /\ UNCHANGED <<armed, started, nulls, rejected>>

(* An awaited call answers, possibly after the promise was settled. *)
TaskValue ==
    /\ inflight > 0
    /\ inflight' = inflight - 1
    /\ armed' = FALSE
    /\ outcome' = Resolved("value")
    /\ retries' = retries + 1
    /\ UNCHANGED <<started, nulls, rejected>>

(* An awaited call rejects: the callback's promise rejects and nobody      *)
(* handles it; the counter, the interval and the outer promise are left    *)
(* as they are (the executor's `reject` is never used).                    *)
TaskReject ==
    /\ inflight > 0
    /\ rejected < MaxRejects
    /\ inflight' = inflight - 1
    /\ rejected' = rejected + 1
    /\ UNCHANGED <<retries, armed, outcome, started, nulls>>

Next == GiveUp \/ StartTask \/ TaskNull \/ TaskValue \/ TaskReject

Spec == Init /\ [][Next]_vars

(* The timer fires again as long as it is armed, and every call of the     *)
(* task settles: the tasks of the SDK are single HTTP requests.            *)
Fairness ==
    /\ WF_vars(GiveUp)
    /\ WF_vars(StartTask)
    /\ WF_vars(TaskNull \/ TaskValue \/ TaskReject)

FairSpec == Spec /\ Fairness

-----------------------------------------------------------------------------

(* The poller resolves with null only after the task itself has answered   *)
(* null maxRetries times: overlapping calls never make it give up early,   *)
(* and calls that rejected are not counted as attempts.                    *)
GivesUpOnlyWhenExhausted == outcome = "null" => nulls >= MaxRetries

(* How far overlap can push the number of calls beyond maxRetries: one     *)
(* extra call per call that may be awaited at a time, and one per call     *)
(* that rejected.  maxRetries alone is no bound on the calls.              *)
CallsBounded == started <= MaxRetries + (MaxLag - 1) + rejected

(* Once the promise is settled the task is never called again, whichever   *)
(* of the overlapping callbacks settled it.                                *)
QuietOnceSettled == [][outcome # "pending" => started' = started]_vars

(* The promise is settled in the end, although answers may come late, out  *)
(* of step with the timer, or (up to the bound) not at all.                *)
Settles == <>(outcome # "pending")

-----------------------------------------------------------------------------

(* The inductive invariant: every call is awaited, has been counted or has *)
(* rejected; the interval is armed exactly while the promise is pending;   *)
(* until it is settled every counted call answered null.                   *)
CallsAccounted == started = retries + inflight + rejected

ArmedWhilePending == armed <=> outcome = "pending"

PendingMeansNulls == outcome = "pending" => retries = nulls

IInv ==
    /\ TypeOK
    /\ CallsAccounted
    /\ ArmedWhilePending
    /\ PendingMeansNulls
    /\ GivesUpOnlyWhenExhausted
    /\ CallsBounded

(* What of Settles is safety.  A pending promise has an interval that      *)
(* fires or calls that answer.                                             *)
CanStep ==
    \/ armed /\ (retries >= MaxRetries \/ inflight < MaxLag)
    \/ inflight > 0

NeverStuck == outcome = "pending" => CanStep

(* Each step brings the poller nearer to its end: it calls the task, for   *)
(* which the calls are limited, settles such a call, or clears the         *)
(* interval.                                                               *)
MostCalls == MaxRetries + (MaxLag - 1) + MaxRejects

StepsLeft == 2 * (MostCalls - started) + inflight + (IF armed THEN 1 ELSE 0)

StepsBounded == StepsLeft \in 0..(2 * MostCalls + 1)

StepsCost == [][StepsLeft' < StepsLeft]_vars
=============================================================================
