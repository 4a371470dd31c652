------------------------ MODULE TransferScriptProofs ------------------------
(***************************************************************************)
(* The calls of the README's script are always in order, and a script that *)
(* ran to its end has moved the funds: for any number of attempts and      *)
(* faults.                                                                 *)
(***************************************************************************)
EXTENDS TransferScript, TokenTransferProofs

USE DEF Created, Initiated, Attested, Completed, NoVaa, Approval

(* What is left of a script: its first call and what follows it.           *)
LEMMA Heads ==
  ASSUME todo \in Rest(automatic), todo # <<>>, automatic \in BOOLEAN
  PROVE  \/ /\ Head(todo) = "initiate"
            /\ Tail(todo) = IF automatic THEN <<"wait">> ELSE <<"fetch", "complete">>
         \/ Head(todo) = "fetch" /\ ~automatic /\ Tail(todo) = <<"complete">>
         \/ Head(todo) = "complete" /\ ~automatic /\ Tail(todo) = <<>>
         \/ Head(todo) = "wait" /\ automatic /\ Tail(todo) = <<>>
<1>1. CASE todo = <<"initiate", "wait">>
  BY <1>1 DEF Rest
<1>2. CASE todo = <<"wait">>
  BY <1>2 DEF Rest
<1>3. CASE todo = <<"initiate", "fetch", "complete">>
  BY <1>3 DEF Rest
<1>4. CASE todo = <<"fetch", "complete">>
  BY <1>4 DEF Rest
<1>5. CASE todo = <<"complete">>
  BY <1>5 DEF Rest
<1> QED  BY <1>1, <1>2, <1>3, <1>4, <1>5 DEF Rest

LEMMA HeadsOfRests ==
  /\ <<"wait">> # <<>> /\ Head(<<"wait">>) = "wait"
  /\ <<"complete">> # <<>> /\ Head(<<"complete">>) = "complete"
  /\ <<"fetch", "complete">> # <<>> /\ Head(<<"fetch", "complete">>) = "fetch"
  /\ \A auto \in BOOLEAN : Script(auto) # <<>> /\ Head(Script(auto)) = "initiate"
  BY DEF Script

-----------------------------------------------------------------------------
(* The four ways a step of the script's call can end.                      *)

(* It is suspended within the call.                                        *)
LEMMA AwaitingKeeps ==
  ASSUME OneAtATime, ScriptInv, OneCallInv', automatic' = automatic,
         NEW c \in Calls, pc'[c] # "idle", todo # <<>>, todo' = todo,
         pc'[c] \in Within(Head(todo)), vaas # <<>> => vaas' # <<>>
  PROVE  ScriptInv'
<1>1. (\A d \in Calls : pc[d] # "idle" => todo # <<>> /\ pc[d] \in Within(Head(todo)))'
  <2>1. ASSUME NEW d \in Calls
        PROVE  pc'[d] # "idle" => todo' # <<>> /\ pc'[d] \in Within(Head(todo'))
    <3>1. d = c
      BY DEF OneAtATime
    <3> QED  BY <3>1
  <2> QED  BY <2>1 DEF Within, Initiating
<1>2. CallsAreValid'
  BY DEF CallsAreValid
<1>3. (todo # <<>> /\ Head(todo) # "initiate" => vaas # <<>>)'
  BY DEF ScriptInv
<1> QED  BY <1>1, <1>2, <1>3 DEF ScriptInv, Rest

(* It rejects, and the script with it.                                     *)
LEMMA ThrowingKeeps ==
  ASSUME OneAtATime, OneCallInv', NEW c \in Calls,
         pc'[c] = "idle", result'[c] = "threw", todo' = <<>>
  PROVE  ScriptInv'
<1>1. \A d \in Calls : pc'[d] = "idle"
  BY DEF OneAtATime
<1>2. CallsAreValid'
  BY DEF CallsAreValid
<1>3. (todo \in Rest(automatic))'
  BY DEF Rest
<1>4. ~(\A d \in Calls : result'[d] = "returned")
  OBVIOUS
<1> QED  BY <1>1, <1>2, <1>3, <1>4 DEF ScriptInv

(* waitLog asks again.                                                     *)
LEMMA WaitingKeeps ==
  ASSUME OneAtATime, ScriptInv, OneCallInv', automatic' = automatic,
         NEW c \in Calls, pc'[c] = "idle", todo # <<>>, todo' = todo,
         Head(todo) = "wait", vaas' = vaas, state' # Completed
  PROVE  ScriptInv'
<1>1. \A d \in Calls : pc'[d] = "idle"
  BY DEF OneAtATime
<1>2. vaas # <<>>
  BY DEF ScriptInv
<1>3. CallsAreValid'
  BY <1>2 DEF CallsAreValid
<1>4. (todo \in Rest(automatic))'
  BY DEF ScriptInv, Rest
<1> QED  BY <1>1, <1>2, <1>3, <1>4 DEF ScriptInv

(* It resolves, and the script turns to the next call.                     *)
LEMMA ReturningKeeps ==
  ASSUME OneAtATime, ScriptInv, OneCallInv', automatic' = automatic,
         NEW c \in Calls, pc'[c] = "idle", todo # <<>>, todo' = Tail(todo),
         Head(todo) = "initiate" => state' = Initiated /\ vaas' # <<>>,
         Head(todo) = "fetch" => state' = Attested,
         Head(todo) \in {"complete", "wait"} => vaas' # <<>> /\ vaas'[1].id \in redeemed'
  PROVE  ScriptInv'
<1>1. \A d \in Calls : pc'[d] = "idle"
  BY DEF OneAtATime
<1>2. automatic \in BOOLEAN /\ todo \in Rest(automatic)
  BY DEF ScriptInv, OneCallInv, IInv, TypeOK
<1>3. state' = Attested => /\ vaas' # <<>>
                           /\ \A i \in 1..Len(vaas') : vaas'[i].vaa # NoVaa
  BY DEF OneCallInv, AttestedHasAll, Entries
<1>4. CASE Head(todo) = "initiate" /\ automatic
  <2>1. todo' = <<"wait">>
    BY <1>2, <1>4, Heads
  <2>2. todo' # <<>> /\ Head(todo') = "wait"
    BY <2>1, HeadsOfRests
  <2>3. CallsAreValid'
    BY <1>4, <2>2 DEF CallsAreValid
  <2>4. (todo \in Rest(automatic))'
    BY <1>4, <2>1 DEF Rest
  <2> QED  BY <1>1, <1>4, <2>2, <2>3, <2>4 DEF ScriptInv
<1>5. CASE Head(todo) = "initiate" /\ ~automatic
  <2>1. todo' = <<"fetch", "complete">>
    BY <1>2, <1>5, Heads
  <2>2. todo' # <<>> /\ Head(todo') = "fetch"
    BY <2>1, HeadsOfRests
  <2>3. CallsAreValid'
    BY <1>5, <2>2 DEF CallsAreValid
  <2>4. (todo \in Rest(automatic))'
    BY <1>5, <2>1 DEF Rest
  <2> QED  BY <1>1, <1>5, <2>2, <2>3, <2>4 DEF ScriptInv
<1>6. CASE Head(todo) = "fetch"
  <2>1. todo' = <<"complete">> /\ ~automatic
    BY <1>2, <1>6, Heads
  <2>2. todo' # <<>> /\ Head(todo') = "complete"
    BY <2>1, HeadsOfRests
  <2>3. CallsAreValid'
    <3>1. state' >= Attested /\ vaas' # <<>>
      BY <1>3, <1>6
    <3>2. (\A i \in Entries : vaas[i].vaa # NoVaa)'
      BY <1>3, <1>6 DEF Entries
    <3> QED  BY <2>2, <3>1, <3>2 DEF CallsAreValid
  <2>4. (todo \in Rest(automatic))'
    BY <2>1 DEF Rest
  <2> QED  BY <1>1, <1>3, <1>6, <2>2, <2>3, <2>4 DEF ScriptInv
<1>7. CASE Head(todo) \in {"complete", "wait"}
  <2>1. todo' = <<>>
    BY <1>2, <1>7, Heads
  <2>2. CallsAreValid' /\ (todo \in Rest(automatic))'
    BY <2>1 DEF CallsAreValid, Rest
  <2> QED  BY <1>1, <1>7, <2>1, <2>2 DEF ScriptInv
<1> QED  BY <1>2, <1>4, <1>5, <1>6, <1>7, Heads

-----------------------------------------------------------------------------
(* Every step of the script's call ends in one of them.                    *)

(* Where the call is suspended tells which call it is.                     *)
LEMMA SuspendedIn ==
  ASSUME ScriptInv, NEW c \in Calls, pc[c] # "idle"
  PROVE  /\ todo # <<>> /\ automatic \in BOOLEAN
         /\ pc[c] \in Initiating => Head(todo) = "initiate"
         /\ pc[c] = "fetch" => Head(todo) = "fetch" /\ ~automatic
         /\ pc[c] = "status" => Head(todo) = "wait" /\ automatic
         /\ pc[c] \in {"redeem", "redeeming"} => Head(todo) = "complete" /\ ~automatic
<1>1. todo \in Rest(automatic) /\ automatic \in BOOLEAN
  BY DEF ScriptInv, OneCallInv, IInv, TypeOK
<1>2. todo # <<>> /\ pc[c] \in Within(Head(todo))
  BY DEF ScriptInv
<1> QED  BY <1>1, <1>2, Heads DEF Within, Initiating

LEMMA CallTypes ==
  ASSUME ScriptInv, NEW c \in Calls
  PROVE  /\ pc \in [Calls -> PCs] /\ result \in [Calls -> {"none", "returned", "threw"}]
         /\ vaas \in Seq(Entry) /\ Len(vaas) \in Nat /\ idx[c] \in Nat
         /\ OneCallInv /\ IInv /\ CallAt(c) /\ OneCallAt(c)
  BY OneCallTypes DEF ScriptInv, OneCallInv, IInv, TypeOK

LEMMA EndsMeans ==
  ASSUME pc \in [Calls -> PCs], result \in [Calls -> {"none", "returned", "threw"}],
         NEW c \in Calls, NEW how, Ends(c, how)
  PROVE  pc'[c] = "idle" /\ result'[c] = how
  BY DEF Ends

LEMMA AwaitMeans ==
  ASSUME pc \in [Calls -> PCs], NEW c \in Calls, NEW where, Await(c, where)
  PROVE  pc'[c] = where
  BY DEF Await

(* initiateTransfer goes on.                                               *)
LEMMA InitiatingGoesOn ==
  ASSUME OneAtATime, ScriptInv, OneCallInv', NEW c \in Calls, Continues(c),
         pc[c] \in Initiating, Initiate(c)
  PROVE  ScriptInv'
<1>1. todo # <<>> /\ Head(todo) = "initiate"
  BY SuspendedIn DEF Initiating
<1>2. automatic' = automatic
  BY DEF Initiate, Prepared, Approve, Transfer, TransferReverts, Confirm, Parse,
         ParseFindsNone, fixed
<1>3. CASE \/ Prepared(c)
           \/ Approve(c)
           \/ Transfer(c)
           \/ Confirm(c)
  <2>1. pc'[c] \in Initiating /\ pc'[c] # "idle" /\ vaas' = vaas
    BY <1>3, CallTypes, AwaitMeans
    DEF Prepared, Approve, Transfer, Confirm, objVars, Initiating
  <2>2. todo' = todo
    BY <2>1 DEF Continues
  <2> QED  BY <1>1, <1>2, <2>1, <2>2, AwaitingKeeps DEF Within
<1>4. CASE TransferReverts(c) \/ ParseFindsNone(c)
  <2>1. pc'[c] = "idle" /\ result'[c] = "threw"
    BY <1>4, CallTypes, EndsMeans DEF TransferReverts, ParseFindsNone
  <2> QED  BY <2>1, ThrowingKeeps DEF Continues
<1>5. CASE Parse(c)
  <2>1. pc[c] = "parse" /\ state' = state /\ vaas' # <<>>
    BY <1>5, CallTypes DEF Parse
  <2>2. state' = Initiated
    BY <2>1, CallTypes DEF OneCallAt
  <2>3. CASE Await(c, "parse")
    <3>1. pc'[c] = "parse"
      BY <2>3, CallTypes, AwaitMeans
    <3>2. todo' = todo
      BY <3>1 DEF Continues
    <3> QED  BY <1>1, <1>2, <2>1, <3>1, <3>2, AwaitingKeeps DEF Within, Initiating
  <2>4. CASE Ends(c, "returned")
    <3>1. pc'[c] = "idle" /\ result'[c] = "returned"
      BY <2>4, CallTypes, EndsMeans
    <3>2. todo' = Tail(todo)
      BY <1>1, <3>1 DEF Continues
    <3> QED  BY <1>1, <1>2, <2>1, <2>2, <3>1, <3>2, ReturningKeeps
  <2> QED  BY <1>5, <2>3, <2>4 DEF Parse
<1> QED  BY <1>3, <1>4, <1>5 DEF Initiate

(* fetchAttestation goes on: it returns only with all VAAs.                *)
LEMMA FetchingGoesOn ==
  ASSUME OneAtATime, ScriptInv, OneCallInv', NEW c \in Calls, Continues(c),
         todo # <<>>, Head(todo) = "fetch", automatic' = automatic, vaas' # <<>>,
         NEW list, NEW from, NEW to, FetchLoop(c, list, from, to)
  PROVE  ScriptInv'
<1>1. CASE Await(c, "fetch")
  <2>1. pc'[c] = "fetch"
    BY <1>1, CallTypes, AwaitMeans
  <2>2. todo' = todo
    BY <2>1 DEF Continues
  <2> QED  BY <2>1, <2>2, AwaitingKeeps DEF Within
<1>2. CASE state' = Attested /\ Ends(c, "returned")
  <2>1. pc'[c] = "idle" /\ result'[c] = "returned"
    BY <1>2, CallTypes, EndsMeans
  <2>2. todo' = Tail(todo)
    BY <2>1 DEF Continues
  <2> QED  BY <1>2, <2>1, <2>2, ReturningKeeps
<1> QED  BY <1>1, <1>2 DEF FetchLoop

(* getTransferState answers.                                               *)
LEMMA StatusGoesOn ==
  ASSUME OneAtATime, ScriptInv, OneCallInv', NEW c \in Calls, Continues(c), Status(c)
  PROVE  ScriptInv'
<1>1. pc[c] = "status" /\ automatic' = automatic /\ vaas' = vaas
  BY DEF Status, StatusCompleted, StatusPending, fixed, objVars
<1>2. todo # <<>> /\ Head(todo) = "wait"
  BY <1>1, SuspendedIn
<1>3. pc'[c] = "idle" /\ result'[c] \in {"returned", "threw"}
  BY CallTypes, EndsMeans DEF Status, StatusCompleted, StatusPending
<1>4. CASE result'[c] = "threw"
  BY <1>3, <1>4, ThrowingKeeps DEF Continues
<1>5. state' \in {Created, Initiated, Attested, Completed}
  BY DEF OneCallInv, IInv, TypeOK
<1>6. CASE result'[c] # "threw" /\ state' # Completed
  <2>1. todo' = todo
    BY <1>2, <1>3, <1>5, <1>6 DEF Continues
  <2> QED  BY <1>1, <1>2, <1>3, <1>6, <2>1, WaitingKeeps
<1>7. CASE result'[c] # "threw" /\ state' = Completed
  <2>1. todo' = Tail(todo)
    BY <1>2, <1>3, <1>7 DEF Continues
  <2>2. vaas' # <<>> /\ vaas'[1].id \in redeemed'
    BY <1>7 DEF OneCallInv, IInv
  <2> QED  BY <1>1, <1>2, <1>3, <2>1, <2>2, ReturningKeeps
<1> QED  BY <1>4, <1>6, <1>7

(* completeTransfer goes on to the next entry, or is done.                 *)
LEMMA RedeemLoopGoesOn ==
  ASSUME OneAtATime, ScriptInv, OneCallInv', NEW c \in Calls, Continues(c),
         todo # <<>>, Head(todo) = "complete",
         UNCHANGED <<automatic, vaas, redeemed>>, vaas # <<>>,
         NEW next, RedeemLoop(c, next),
         next > Len(vaas) => vaas[1].id \in redeemed
  PROVE  ScriptInv'
<1>1. CASE Await(c, "redeem")
  <2>1. pc'[c] = "redeem"
    BY <1>1, CallTypes, AwaitMeans
  <2>2. todo' = todo
    BY <2>1 DEF Continues
  <2> QED  BY <2>1, <2>2, AwaitingKeeps DEF Within
<1>2. CASE Ends(c, "threw")
  <2>1. pc'[c] = "idle" /\ result'[c] = "threw"
    BY <1>2, CallTypes, EndsMeans
  <2> QED  BY <2>1, ThrowingKeeps DEF Continues
<1>3. CASE next > Len(vaas) /\ Ends(c, "returned")
  <2>1. pc'[c] = "idle" /\ result'[c] = "returned"
    BY <1>3, CallTypes, EndsMeans
  <2>2. todo' = Tail(todo)
    BY <2>1 DEF Continues
  <2> QED  BY <1>3, <2>1, <2>2, ReturningKeeps
<1> QED  BY <1>1, <1>2, <1>3 DEF RedeemLoop

LEMMA CompletingGoesOn ==
  ASSUME OneAtATime, ScriptInv, OneCallInv', NEW c \in Calls, Continues(c),
         pc[c] \in {"redeem", "redeeming"}, Complete(c)
  PROVE  ScriptInv'
<1>1. todo # <<>> /\ Head(todo) = "complete" /\ ~automatic
  BY SuspendedIn
<1>2. vaas # <<>> /\ vaas \in Seq(Entry) /\ Len(vaas) \in Nat /\ Len(vaas) >= 1
  BY <1>1, CallTypes DEF ScriptInv
<1>3. CASE Redeem(c)
  <2>1. pc'[c] = "redeeming" /\ vaas' = vaas /\ automatic' = automatic
    BY <1>3, CallTypes, AwaitMeans DEF Redeem, objVars, fixed
  <2>2. todo' = todo
    BY <2>1 DEF Continues
  <2> QED  BY <1>1, <2>1, <2>2, AwaitingKeeps DEF Within
<1>4. CASE RedeemRefused(c) \/ RedeemReverts(c)
  <2>1. pc'[c] = "idle" /\ result'[c] = "threw"
    BY <1>4, CallTypes, EndsMeans DEF RedeemRefused, RedeemReverts
  <2> QED  BY <2>1, ThrowingKeeps DEF Continues
<1>5. CASE Redeemed(c)
  <2>1. /\ pc[c] = "redeeming" /\ RedeemLoop(c, idx[c] + 1)
        /\ UNCHANGED <<automatic, vaas, redeemed>>
    BY <1>5 DEF Redeemed, fixed, objVars, chainVars
  <2>2. idx[c] \in 1..Len(vaas) /\ vaas[1].id \in redeemed
    <3>1. /\ idx[c] \in 1..Len(vaas) /\ vaas[idx[c]].id \in redeemed
          /\ \A i \in 1..(idx[c] - 1) : vaas[i].id \in redeemed
      BY <1>1, <2>1, CallTypes DEF CallAt, Entries
    <3>2. CASE idx[c] = 1
      BY <3>1, <3>2
    <3>3. CASE idx[c] # 1
      <4>1. 1 \in 1..(idx[c] - 1)
        BY <3>1, <3>3, <1>2
      <4> QED  BY <3>1, <4>1
    <3> QED  BY <3>1, <3>2, <3>3
  <2> QED  BY <1>1, <1>2, <2>1, <2>2, RedeemLoopGoesOn
<1>6. ~RedeemNothing(c)
  BY <1>1 DEF RedeemNothing
<1> QED  BY <1>3, <1>4, <1>5, <1>6 DEF Complete

(* The script's next call is in order, so that it gets to its first await. *)
LEMMA MakeCallKeeps ==
  ASSUME OneAtATime, ScriptInv, OneCallInv', NEW c \in Calls, MakeCall(c), Continues(c)
  PROVE  ScriptInv'
<1>1. todo # <<>>
  BY DEF MakeCall
<1>2. CASE Head(todo) = "initiate" /\ BeginInitiate(c)
  <2>1. pc'[c] = "prepare" /\ vaas' = vaas /\ automatic' = automatic
    BY <1>2, CallTypes, AwaitMeans DEF BeginInitiate, objVars, fixed
  <2>2. todo' = todo
    BY <2>1 DEF Continues
  <2> QED  BY <1>1, <1>2, <2>1, <2>2, AwaitingKeeps DEF Within, Initiating
<1>3. CASE Head(todo) = "fetch" /\ BeginFetch(c)
  <2>1. automatic' = automatic /\ vaas' # <<>> /\ FetchLoop(c, vaas, 1, Len(vaas))
    BY <1>3 DEF BeginFetch, fixed
  <2> QED  BY <1>1, <1>3, <2>1, FetchingGoesOn
<1>4. CASE Head(todo) = "complete" /\ BeginComplete(c)
  <2>1. /\ vaas # <<>> /\ RedeemLoop(c, 1)
        /\ UNCHANGED <<automatic, vaas, redeemed>>
    BY <1>4 DEF BeginComplete, fixed, objVars, chainVars
  <2>2. ~(1 > Len(vaas))
    BY <2>1, CallTypes
  <2> QED  BY <1>1, <1>4, <2>1, <2>2, RedeemLoopGoesOn
<1>5. CASE Head(todo) = "wait" /\ BeginStatus(c)
  <2>1. pc'[c] = "status" /\ vaas' = vaas /\ automatic' = automatic
    BY <1>5, CallTypes, AwaitMeans DEF BeginStatus, objVars, fixed
  <2>2. todo' = todo
    BY <2>1 DEF Continues
  <2> QED  BY <1>1, <1>5, <2>1, <2>2, AwaitingKeeps DEF Within
<1> QED  BY <1>2, <1>3, <1>4, <1>5 DEF MakeCall

LEMMA ResumesKeeps ==
  ASSUME OneAtATime, ScriptInv, OneCallInv', NEW c \in Calls, Resumes(c), Continues(c)
  PROVE  ScriptInv'
<1>1. CASE Initiate(c)
  <2>1. pc[c] \in Initiating
    BY <1>1 DEF Initiate, Prepared, Approve, Transfer, TransferReverts, Confirm, Parse,
                ParseFindsNone, Initiating
  <2> QED  BY <1>1, <2>1, InitiatingGoesOn
<1>2. CASE FetchArrives(c)
  <2>1. /\ pc[c] = "fetch" /\ automatic' = automatic
        /\ FetchLoop(c, vaas', idx[c] + 1, limit[c])
        /\ vaas' = [vaas EXCEPT ![idx[c]].vaa = vaas[idx[c]].id]
    BY <1>2 DEF FetchArrives, fixed
  <2>2. todo # <<>> /\ Head(todo) = "fetch" /\ vaas # <<>>
    BY <2>1, SuspendedIn DEF ScriptInv
  <2>3. Len(vaas') = Len(vaas) /\ Len(vaas) >= 1
    BY <2>1, <2>2, CallTypes
  <2>4. vaas' # <<>>
    BY <2>3
  <2> QED  BY <2>1, <2>2, <2>4, FetchingGoesOn
<1>3. CASE FetchGivesUp(c)
  <2>1. pc'[c] = "idle" /\ result'[c] = "threw"
    BY <1>3, CallTypes, EndsMeans DEF FetchGivesUp
  <2> QED  BY <2>1, ThrowingKeeps DEF Continues
<1>4. CASE Complete(c)
  <2>1. pc[c] \in {"redeem", "redeeming"}
    BY <1>4 DEF Complete, Redeem, RedeemRefused, RedeemReverts, Redeemed, RedeemNothing
  <2> QED  BY <1>4, <2>1, CompletingGoesOn
<1> QED  BY <1>1, <1>2, <1>3, <1>4, StatusGoesOn DEF Resumes, Fetch

(* finishTransfer, of a script that stopped or of a process that died.     *)
LEMMA RecoveringKeeps ==
  ASSUME OneCallInv', NEW m \in Messages, Recover(m), ~automatic, todo' = <<"complete">>
  PROVE  ScriptInv'
<1>1. /\ state' = Attested /\ vaas' = <<[id |-> m, vaa |-> m]>>
      /\ pc' = [c \in Calls |-> "idle"] /\ automatic' = automatic
  BY DEF Recover, fixed
<1>2. state' = Attested => /\ vaas' # <<>>
                           /\ \A i \in 1..Len(vaas') : vaas'[i].vaa # NoVaa
  BY DEF OneCallInv, AttestedHasAll, Entries
<1>3. todo' # <<>> /\ Head(todo') = "complete"
  BY HeadsOfRests
<1>4. CallsAreValid'
  BY <1>1, <1>2, <1>3 DEF CallsAreValid, Entries
<1>5. (todo \in Rest(automatic))'
  BY <1>1 DEF Rest
<1>6. \A c \in Calls : pc'[c] = "idle"
  BY <1>1
<1> QED  BY <1>1, <1>2, <1>3, <1>4, <1>5, <1>6 DEF ScriptInv

(* Whatever the script and its user do, the object makes one of its steps. *)
LEMMA ScriptSteps == ASSUME [ScriptNext]_scriptVars PROVE [Next]_vars
  BY DEF ScriptNext, Advance, MakeCall, Fault, Finish, StartOver, Outside, scriptVars,
         Next, Begin, World

LEMMA ScriptNextKeeps ==
  ASSUME OneAtATime, ScriptInv, [ScriptNext]_scriptVars PROVE ScriptInv'
<1>1. OneCallInv'
  BY ScriptSteps, NextKeepsOne DEF ScriptInv
<1>2. ASSUME NEW c \in Calls, Advance(c) PROVE ScriptInv'
  BY <1>1, <1>2, MakeCallKeeps, ResumesKeeps DEF Advance
<1>3. ASSUME NEW c \in Calls, Fault(c) PROVE ScriptInv'
  <2>1. CASE Rejects(c) /\ todo' = <<>>
    <3>1. pc'[c] = "idle" /\ result'[c] = "threw"
      BY <2>1, CallTypes, EndsMeans DEF Rejects
    <3> QED  BY <1>1, <2>1, <3>1, ThrowingKeeps
  <2>2. CASE \E m \in Messages : ~automatic /\ Recover(m) /\ todo' = <<"complete">>
    BY <1>1, <2>2, RecoveringKeeps
  <2> QED  BY <1>3, <2>1, <2>2 DEF Fault
<1>4. ASSUME NEW m \in Messages, Finish(m) PROVE ScriptInv'
  BY <1>1, <1>4, RecoveringKeeps DEF Finish
<1>5. ASSUME NEW m \in Messages, Outside(m) PROVE ScriptInv'
  <2>1. /\ UNCHANGED <<todo, automatic, state, vaas, pc, result>>
        /\ redeemed \subseteq redeemed'
    BY <1>5 DEF Outside, GuardiansSign, RelayerDelivers, fixed, objVars, callVars
  <2>2. CallsAreValid'
    BY <2>1 DEF ScriptInv, CallsAreValid, Entries
  <2>3. (\A c \in Calls : pc[c] # "idle" => todo # <<>> /\ pc[c] \in Within(Head(todo)))'
    BY <2>1 DEF ScriptInv, Within, Initiating
  <2>4. (todo # <<>> /\ Head(todo) # "initiate" => vaas # <<>>)'
    BY <2>1 DEF ScriptInv
  <2>5. (todo = <<>> /\ (\A c \in Calls : result[c] = "returned")
            => vaas # <<>> /\ vaas[1].id \in redeemed)'
    BY <2>1 DEF ScriptInv
  <2>6. (todo \in Rest(automatic))'
    BY <2>1 DEF ScriptInv, Rest
  <2> QED  BY <1>1, <2>2, <2>3, <2>4, <2>5, <2>6 DEF ScriptInv
<1>6. CASE StartOver
  <2>1. /\ UNCHANGED <<automatic, state, pc>> /\ state = Created
        /\ todo = <<>> /\ todo' = Script(automatic)
    BY <1>6 DEF StartOver, vars, fixed, objVars, callVars
  <2>2. automatic \in BOOLEAN /\ \A c \in Calls : pc'[c] = "idle"
    BY <2>1 DEF ScriptInv, OneCallInv, IInv, TypeOK
  <2>3. todo' # <<>> /\ Head(todo') = "initiate" /\ (todo \in Rest(automatic))'
    BY <2>1, <2>2, HeadsOfRests DEF Rest, Script
  <2>4. CallsAreValid'
    BY <2>1, <2>3 DEF CallsAreValid
  <2> QED  BY <1>1, <2>2, <2>3, <2>4 DEF ScriptInv
<1>7. CASE UNCHANGED scriptVars
  <2>1. UNCHANGED <<todo, automatic, state, vaas, pc, result, redeemed>>
    BY <1>7 DEF scriptVars, vars, fixed, objVars, callVars, chainVars
  <2>2. CallsAreValid'
    BY <2>1 DEF ScriptInv, CallsAreValid, Entries
  <2>3. (\A c \in Calls : pc[c] # "idle" => todo # <<>> /\ pc[c] \in Within(Head(todo)))'
    BY <2>1 DEF ScriptInv, Within, Initiating
  <2>4. /\ (todo # <<>> /\ Head(todo) # "initiate" => vaas # <<>>)'
        /\ (todo \in Rest(automatic))'
        /\ (todo = <<>> /\ (\A c \in Calls : result[c] = "returned")
              => vaas # <<>> /\ vaas[1].id \in redeemed)'
    BY <2>1 DEF ScriptInv, Rest
  <2> QED  BY <1>1, <2>2, <2>3, <2>4 DEF ScriptInv
<1> QED  BY <1>2, <1>3, <1>4, <1>5, <1>6, <1>7 DEF ScriptNext

(* The invariant of the script, the invariant of the object included.      *)
THEOREM ScriptInvariant == OneAtATime => (ScriptSpec => []ScriptInv)
<1> SUFFICES ASSUME OneAtATime PROVE ScriptSpec => []ScriptInv
  OBVIOUS
<1>1. ScriptInit => ScriptInv
  <2> SUFFICES ASSUME ScriptInit PROVE ScriptInv
    OBVIOUS
  <2>1. IInv /\ Init /\ todo = Script(automatic)
    BY TransferAssumption, InitInvariant DEF ScriptInit
  <2>2. OneCallInv
    BY <2>1 DEF Init, OneCallInv, OneCallAt, AttestedHasAll, TxidsCoverVaas, Entries
  <2>3. automatic \in BOOLEAN /\ state = Created /\ \A c \in Calls : pc[c] = "idle"
    BY <2>1 DEF IInv, TypeOK, Init
  <2>4. todo # <<>> /\ Head(todo) = "initiate" /\ todo \in Rest(automatic)
    BY <2>1, <2>3, HeadsOfRests DEF Rest, Script
  <2> QED  BY <2>2, <2>3, <2>4 DEF ScriptInv, CallsAreValid
<1>2. ScriptInv /\ [ScriptNext]_scriptVars => ScriptInv'
  BY ScriptNextKeeps
<1> QED  BY <1>1, <1>2, PTL DEF ScriptSpec

(* No call made in the order of the README fails a check of the object.    *)
THEOREM CallsStayValid == OneAtATime => (ScriptSpec => []CallsAreValid)
<1> SUFFICES ASSUME OneAtATime PROVE ScriptSpec => []CallsAreValid
  OBVIOUS
<1>1. ScriptInv => CallsAreValid
  BY DEF ScriptInv
<1>2. ScriptSpec => []ScriptInv
  BY ScriptInvariant
<1> QED  BY <1>1, <1>2, PTL

(* A script that ran to its end at the first attempt has moved the funds.  *)
THEOREM ReturnedHasDelivered == OneAtATime => (ScriptSpec => []ReturnMeansDelivered)
<1> SUFFICES ASSUME OneAtATime PROVE ScriptSpec => []ReturnMeansDelivered
  OBVIOUS
<1>1. ASSUME ScriptInv PROVE ReturnMeansDelivered
  <2> SUFFICES ASSUME todo = <<>>, attempts = 1,
                      \A c \in Calls : result[c] = "returned"
               PROVE  Messages \subseteq redeemed
    BY DEF ReturnMeansDelivered
  <2>1. vaas # <<>> /\ vaas[1].id \in redeemed
    BY <1>1 DEF ScriptInv
  <2>2. /\ emitted \in Nat /\ emitted <= 1 /\ vaas \in Seq(Entry) /\ EntriesEmitted
    BY <1>1 DEF ScriptInv, OneCallInv, IInv, TypeOK
  <2>3. 1 \in 1..Len(vaas)
    BY <2>1, <2>2
  <2>4. vaas[1].id \in 1..emitted
    BY <2>2, <2>3 DEF EntriesEmitted, Entries, Messages
  <2>5. vaas[1].id = 1 /\ Messages \subseteq {1}
    BY <2>2, <2>4 DEF Messages
  <2> QED  BY <2>1, <2>5
<1>2. ScriptSpec => []ScriptInv
  BY ScriptInvariant
<1> QED  BY <1>1, <1>2, PTL

(* The script is a use of the object, and so implements WormholeTransfer:  *)
(* finishTransfer and starting over included, the funds are never sent     *)
(* after Created, and only what is held is submitted.                      *)
THEOREM ScriptUsesTheObject == ScriptSpec => Spec
<1>1. ScriptInit => Init
  BY DEF ScriptInit
<1>2. [ScriptNext]_scriptVars => [Next]_vars
  BY ScriptSteps
<1> QED  BY <1>1, <1>2, PTL DEF ScriptSpec, Spec

THEOREM ScriptImplementsLifecycle == OneAtATime => (ScriptSpec => ImplementsLifecycle)
<1> SUFFICES ASSUME OneAtATime PROVE ScriptSpec => ImplementsLifecycle
  OBVIOUS
<1>1. Spec => ImplementsLifecycle
  BY TransferImplementsLifecycle
<1> QED  BY <1>1, ScriptUsesTheObject
=============================================================================
