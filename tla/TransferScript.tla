--------------------------- MODULE TransferScript --------------------------
(***************************************************************************)
(* A TokenTransfer in the hands of a user who follows the README and the   *)
(* examples: the calls are made one after the other, the automatic script  *)
(* ends in the loop of waitLog, and whatever became of the process the     *)
(* user runs finishTransfer on the transaction until the funds arrive.     *)
(***************************************************************************)
EXTENDS TokenTransfer

CONSTANT MaxFaults    \* bound: rejected promises and crashes, together

ASSUME ScriptAssumption == MaxFaults \in Nat

VARIABLES
    named,   \* is it the user's signer on the destination that a VAA names?
    todo,    \* the calls the script has not finished, the current one first
    faults   \* how many faults happened

scriptVars == <<vars, named, todo, faults>>

(* initiateTransfer and, by transfer.automatic, the steps after it.        *)
Script(auto) ==
    IF auto THEN <<"initiate", "wait">> ELSE <<"initiate", "fetch", "complete">>

ScriptInit ==
    /\ Init
    /\ named \in BOOLEAN
    /\ todo = Script(automatic)
    /\ faults = 0

(* The script makes its next call; waitLog asks for the state.             *)
MakeCall(c) ==
    /\ todo # <<>>
    /\ \/ Head(todo) = "initiate" /\ BeginInitiate(c)
       \/ Head(todo) = "fetch" /\ BeginFetch(c)
       \/ Head(todo) = "complete" /\ BeginComplete(c)
       \/ Head(todo) = "wait" /\ BeginStatus(c)

(* Mutant of Continues: waitLog waits for Finalized.                       *)
ContinuesToFinalized(c) ==
    IF pc'[c] # "idle"
    THEN todo' = todo
    ELSE IF result'[c] = "threw"
    THEN todo' = <<>>
    ELSE IF Head(todo) = "wait" /\ state' < Finalized
    THEN todo' = todo
    ELSE todo' = Tail(todo)

(* Mutant of Continues: waitLog stops one state too early.                 *)
ContinuesFromAttested(c) ==
    IF pc'[c] # "idle"
    THEN todo' = todo
    ELSE IF result'[c] = "threw"
    THEN todo' = <<>>
    ELSE IF Head(todo) = "wait" /\ state' < Initiated
    THEN todo' = todo
    ELSE todo' = Tail(todo)

(* What the script does after a step of its call: it stays in the call,    *)
(* gives up when it threw, repeats the wait or turns to the next call.     *)
Continues(c) ==
    IF pc'[c] # "idle"
    THEN todo' = todo
    ELSE IF result'[c] = "threw"
    THEN todo' = <<>>
    ELSE IF Head(todo) = "wait" /\ state' < Completed
    THEN todo' = todo
    ELSE todo' = Tail(todo)

(* The user has one signer on the destination chain, which a bridge that   *)
(* asks for a certain one accepts always or never.                         *)
AsSigned(c) ==
    (pc[c] = "redeem" /\ redeemer = "one") =>
        IF named THEN Redeem(c) \/ RedeemReverts(c) ELSE RedeemRefused(c)

Advance(c) ==
    /\ MakeCall(c) \/ Resumes(c)
    /\ AsSigned(c)
    /\ Continues(c)
    /\ UNCHANGED <<named, faults>>

Fault(c) ==
    /\ faults < MaxFaults
    /\ faults' = faults + 1
    /\ \/ Rejects(c) /\ todo' = <<>>
       \/ \E m \in Messages : ~automatic /\ Recover(m) /\ todo' = <<"complete">>
    /\ UNCHANGED named

(* finishTransfer, when no script runs and the funds have not arrived.     *)
Finish(m) ==
    /\ todo = <<>>
    /\ ~automatic
    /\ m \notin redeemed
    /\ Recover(m)
    /\ todo' = <<"complete">>
    /\ UNCHANGED <<named, faults>>

(* The user runs the script again on an object whose initiateTransfer      *)
(* failed and whose state is still Created.                                *)
StartOver ==
    /\ todo = <<>>
    /\ state = Created
    /\ attempts \in 1..(MaxAttempts - 1)
    /\ todo' = Script(automatic)
    /\ UNCHANGED <<vars, named, faults>>

Outside(m) ==
    /\ GuardiansSign(m) \/ RelayerDelivers(m)
    /\ UNCHANGED <<named, todo, faults>>

ScriptNext ==
    \/ \E c \in Calls : Advance(c) \/ Fault(c)
    \/ \E m \in Messages : Finish(m) \/ Outside(m)
    \/ StartOver

(* Promises settle, the guardians sign, the relayer relays, the status     *)
(* service does not lag for ever and the user does not lose patience.      *)
ScriptSpec ==
    /\ ScriptInit
    /\ [][ScriptNext]_scriptVars
    /\ \A c \in Calls :
          /\ WF_scriptVars(Advance(c))
          /\ SF_scriptVars(StatusCompleted(c) /\ Continues(c) /\ UNCHANGED <<named, faults>>)
    /\ \A m \in 1..MaxAttempts :
          /\ WF_scriptVars(m \in Messages /\ Outside(m))
          /\ WF_scriptVars(m \in Messages /\ Finish(m))

-----------------------------------------------------------------------------
(* A call made in the order of the examples never fails a check of the     *)
(* state or of the vaas: the calls before it have left them as it needs.   *)
CallsAreValid ==
    (todo # <<>> /\ \A c \in Calls : pc[c] = "idle") =>
        CASE Head(todo) = "initiate" -> state = Created
          [] Head(todo) = "fetch" -> state \in {Initiated, Attested} /\ vaas # <<>>
          [] Head(todo) = "complete" ->
                /\ state >= Attested
                /\ vaas # <<>>
                /\ \A i \in Entries : vaas[i].vaa # NoVaa
          [] Head(todo) = "wait" -> vaas # <<>> /\ state # Completed

(* A script that ran to its end and was never started over has moved the   *)
(* funds: every message of the source chain is redeemed.  (Started over    *)
(* after a lost answer it sends twice and redeems the second only.)        *)
ReturnMeansDelivered ==
    (todo = <<>> /\ attempts = 1 /\ \A c \in Calls : result[c] = "returned") =>
        Messages \subseteq redeemed

(* The invariant behind them.                                              *)

(* What may be left of a script.                                           *)
Rest(auto) ==
    IF auto
    THEN {<<"initiate", "wait">>, <<"wait">>, <<>>}
    ELSE {<<"initiate", "fetch", "complete">>, <<"fetch", "complete">>,
          <<"complete">>, <<>>}

(* Where a call of the script can be suspended.                            *)
Within(call) ==
    CASE call = "initiate" -> Initiating
      [] call = "fetch" -> {"fetch"}
      [] call = "wait" -> {"status"}
      [] call = "complete" -> {"redeem", "redeeming"}

ScriptInv ==
    /\ OneCallInv
    /\ todo \in Rest(automatic)
    /\ \A c \in Calls : pc[c] # "idle" => todo # <<>> /\ pc[c] \in Within(Head(todo))
    /\ CallsAreValid
    /\ todo # <<>> /\ Head(todo) # "initiate" => vaas # <<>>
    /\ todo = <<>> /\ (\A c \in Calls : result[c] = "returned")
          => vaas # <<>> /\ vaas[1].id \in redeemed

(* The bridge of the destination takes the VAAs from the user's signer.    *)
Accepted == redeemer = "any" \/ named

(* However a script ends, and whatever fails or crashes on the way, what   *)
(* was sent arrives: the id of the transaction is enough to finish, for a  *)
(* user whose signer redeem does not refuse.                               *)
FundsArrive == \A m \in 1..MaxAttempts : m \in Messages /\ Accepted ~> m \in redeemed

(* No script waits for ever; and a user who is not refused has nothing     *)
(* left to run in the end.                                                 *)
ScriptEnds ==
    /\ []<>(todo = <<>>)
    /\ Accepted => <>[](todo = <<>>)
=============================================================================
