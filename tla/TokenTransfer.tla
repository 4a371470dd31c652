--------------------------- MODULE TokenTransfer ---------------------------
(***************************************************************************)
(* One TokenTransfer object between two EVM chains, the calls its user has *)
(* in flight on it, and the world it talks to.                             *)
(*                                                                         *)
(* A call is an async method: it runs without interruption from one await  *)
(* to the next, so an action is the code between two awaits and pc says at *)
(* which await a call is suspended.  Calls of the same object interleave   *)
(* at the awaits.                                                          *)
(*                                                                         *)
(* A message is numbered by the order in which the source bridge emitted   *)
(* it; a VAA is the number of the message it is about, NoVaa is undefined. *)
(* A transaction hash is the number of the message that the transaction    *)
(* emitted, Approval for the ERC-20 approve, which emits none.             *)
(***************************************************************************)
EXTENDS Integers, Sequences

CONSTANTS
    Calls,        \* slots for calls in flight on the object
    MaxAttempts,  \* bound: how often initiateTransfer passes its first check
    Modes,        \* which values of transfer.automatic are explored
    Tokens,       \* which kinds of token are explored
    Redeemers,    \* who may redeem: which cases are explored
    Allowances,   \* what the bridge may spend at first, in transfers
    Faults        \* may an awaited promise reject, or the process crash?

ASSUME TransferAssumption ==
    /\ MaxAttempts \in Nat
    /\ Modes \subseteq BOOLEAN
    /\ Tokens \subseteq {"native", "erc20"}
    /\ Redeemers \subseteq {"any", "one"}
    /\ Allowances \subseteq Nat
    /\ Faults \in BOOLEAN

(* TransferState *)
Created   == 1
Initiated == 2
Attested  == 3
Completed == 4
Finalized == 5

NoVaa == 0
Approval == 0

VARIABLES
    automatic,  \* transfer.automatic
    token,      \* transfer.token: the gas token or an ERC-20
    redeemer,   \* who may redeem: any signer, or only the one the VAA names
    state,      \* TokenTransfer.state
    txids,      \* TokenTransfer.txids, <<>> is undefined
    vaas,       \* TokenTransfer.vaas, <<>> is undefined
    pc,         \* where each call is suspended
    hashes,     \* its txHashes
    idx,        \* its position in the loop it is in
    limit,      \* how many keys the for..in of fetchAttestation enumerates
    result,     \* how the last call of the slot ended
    attempts,   \* how often initiateTransfer passed its first check
    allowance,  \* on the source chain: how many transfers may still be spent
    emitted,    \* on the source chain: messages 1..emitted exist
    signed,     \* by the guardians: messages that have a VAA
    redeemed    \* on the destination chain: messages already redeemed

objVars   == <<state, txids, vaas>>
loopVars  == <<hashes, idx, limit>>
callVars  == <<pc, loopVars, result>>
chainVars == <<allowance, emitted, signed, redeemed>>
fixed     == <<automatic, token, redeemer>>
vars      == <<fixed, objVars, callVars, attempts, chainVars>>

Initiating == {"prepare", "approve", "transfer", "confirm", "parse"}

PCs == Initiating \union {"idle", "fetch", "status", "redeem", "redeeming"}

Messages == 1..emitted

(* An entry of vaas.                                                       *)
Entry == [id : Nat, vaa : Nat]

TypeOK ==
    /\ automatic \in BOOLEAN
    /\ token \in {"native", "erc20"}
    /\ redeemer \in {"any", "one"}
    /\ state \in {Created, Initiated, Attested, Completed}
    /\ txids \in Seq(Nat)
    /\ vaas \in Seq(Entry)
    /\ pc \in [Calls -> PCs]
    /\ hashes \in [Calls -> Seq(Nat)]
    /\ idx \in [Calls -> Nat]
    /\ limit \in [Calls -> Nat]
    /\ result \in [Calls -> {"none", "returned", "threw"}]
    /\ attempts \in 0..MaxAttempts
    /\ allowance \in Nat
    /\ emitted \in Nat
    /\ signed \subseteq Messages
    /\ redeemed \subseteq Nat

(* TokenTransfer.from(wh, details).  The manual bridge of the destination  *)
(* takes a TransferWithPayload of a token that is not its chain's from the *)
(* signer that the VAA names only.                                         *)
Init ==
    /\ automatic \in Modes
    /\ token \in Tokens
    /\ redeemer \in (IF automatic THEN {"any"} ELSE Redeemers)
    /\ state = Created
    /\ txids = <<>>
    /\ vaas = <<>>
    /\ pc = [c \in Calls |-> "idle"]
    /\ hashes = [c \in Calls |-> <<>>]
    /\ idx = [c \in Calls |-> 1]
    /\ limit = [c \in Calls |-> 0]
    /\ result = [c \in Calls |-> "none"]
    /\ attempts = 0
    /\ allowance \in Allowances
    /\ emitted = 0
    /\ signed = {}
    /\ redeemed = {}

(* Call c ends; its locals are gone.                                       *)
Ends(c, how) ==
    /\ pc' = [pc EXCEPT ![c] = "idle"]
    /\ hashes' = [hashes EXCEPT ![c] = <<>>]
    /\ idx' = [idx EXCEPT ![c] = 1]
    /\ limit' = [limit EXCEPT ![c] = 0]
    /\ result' = [result EXCEPT ![c] = how]

(* Call c runs on to its next await.                                       *)
Await(c, where) ==
    /\ pc' = [pc EXCEPT ![c] = where]
    /\ UNCHANGED result

-----------------------------------------------------------------------------
(* initiateTransfer                                                        *)

(* The first check, up to the call of the bridge.  A call that fails the   *)
(* check throws and changes nothing.                                       *)
BeginInitiate(c) ==
    /\ pc[c] = "idle"
    /\ state = Created
    /\ attempts < MaxAttempts
    /\ attempts' = attempts + 1
    /\ Await(c, "prepare")
    /\ UNCHANGED <<fixed, objVars, loopVars, chainVars>>

(* The bridge's generator yields its first transaction.  Only the manual   *)
(* bridge looks at the allowance and approves what is missing.             *)
Prepared(c) ==
    /\ pc[c] = "prepare"
    /\ Await(c, IF ~automatic /\ token = "erc20" /\ allowance < 1
                THEN "approve" ELSE "transfer")
    /\ UNCHANGED <<fixed, objVars, loopVars, attempts, chainVars>>

(* sendWait returns the hash of the approve transaction, which sets the    *)
(* allowance to the amount; the generator goes on to the transfer.         *)
Approve(c) ==
    /\ pc[c] = "approve"
    /\ allowance' = 1
    /\ hashes' = [hashes EXCEPT ![c] = Append(@, Approval)]
    /\ Await(c, "transfer")
    /\ UNCHANGED <<fixed, objVars, idx, limit, attempts, emitted, signed, redeemed>>

CanSpend == token = "native" \/ allowance > 0

(* The source chain executes the transfer and its core bridge emits the    *)
(* next message.                                                           *)
Transfer(c) ==
    /\ pc[c] = "transfer"
    /\ CanSpend
    /\ emitted' = emitted + 1
    /\ allowance' = IF token = "erc20" THEN allowance - 1 ELSE allowance
    /\ hashes' = [hashes EXCEPT ![c] = Append(@, emitted + 1)]
    /\ Await(c, "confirm")
    /\ UNCHANGED <<fixed, objVars, idx, limit, attempts, signed, redeemed>>

(* It reverts: wait() rejects.                                             *)
TransferReverts(c) ==
    /\ pc[c] = "transfer"
    /\ ~CanSpend
    /\ Ends(c, "threw")
    /\ UNCHANGED <<fixed, objVars, attempts, chainVars>>

(* Mutant of Confirm: the state waits until the messages are parsed.       *)
ConfirmTxidsOnly(c) ==
    /\ pc[c] = "confirm"
    /\ txids' = hashes[c]
    /\ Await(c, "parse")
    /\ UNCHANGED <<fixed, state, vaas, loopVars, attempts, chainVars>>

(* Mutant of Confirm: the txids are not kept.                              *)
ConfirmForgetsTxids(c) ==
    /\ pc[c] = "confirm"
    /\ state' = Initiated
    /\ Await(c, "parse")
    /\ UNCHANGED <<fixed, txids, vaas, loopVars, attempts, chainVars>>

(* sendWait returns and the generator is done: txids and state are set,    *)
(* whatever they were, and the first hash is handed to parseTransaction.   *)
Confirm(c) ==
    /\ pc[c] = "confirm"
    /\ txids' = hashes[c]
    /\ state' = Initiated
    /\ Await(c, "parse")
    /\ UNCHANGED <<fixed, vaas, loopVars, attempts, chainVars>>

(* Mutant of Parse: the newest message of the bridge is taken instead of   *)
(* the one of the transaction.                                             *)
ParseLatest(c) ==
    /\ pc[c] = "parse"
    /\ hashes[c][idx[c]] # Approval
    /\ vaas' = Append(vaas, [id |-> emitted, vaa |-> NoVaa])
    /\ IF idx[c] = Len(hashes[c])
       THEN Ends(c, "returned")
       ELSE /\ idx' = [idx EXCEPT ![c] = @ + 1]
            /\ Await(c, "parse")
            /\ UNCHANGED <<hashes, limit>>
    /\ UNCHANGED <<fixed, state, txids, attempts, chainVars>>

(* parseTransaction returns the one message of the transaction, whose id   *)
(* is pushed.                                                              *)
Parse(c) ==
    /\ pc[c] = "parse"
    /\ hashes[c][idx[c]] # Approval
    /\ vaas' = Append(vaas, [id |-> hashes[c][idx[c]], vaa |-> NoVaa])
    /\ IF idx[c] = Len(hashes[c])
       THEN Ends(c, "returned")
       ELSE /\ idx' = [idx EXCEPT ![c] = @ + 1]
            /\ Await(c, "parse")
            /\ UNCHANGED <<hashes, limit>>
    /\ UNCHANGED <<fixed, state, txids, attempts, chainVars>>

(* The transaction emitted no message: "Expected a single VAA, got 0".     *)
ParseFindsNone(c) ==
    /\ pc[c] = "parse"
    /\ hashes[c][idx[c]] = Approval
    /\ Ends(c, "threw")
    /\ UNCHANGED <<fixed, objVars, attempts, chainVars>>

-----------------------------------------------------------------------------
(* fetchAttestation                                                        *)

(* Mutant of NextMissing: the scan starts one too late.                    *)
NextMissingSkips(list, from, to, i) ==
    /\ i <= to => list[i].vaa = NoVaa
    /\ \A j \in (from + 1)..(i - 1) : list[j].vaa # NoVaa

(* i is the first key of the for..in, `from` or later, that has no VAA     *)
(* yet; it is to + 1 when there is none.                                   *)
NextMissing(list, from, to, i) ==
    /\ i <= to => list[i].vaa = NoVaa
    /\ \A j \in from..(i - 1) : list[j].vaa # NoVaa

(* The loop goes on from key `from` of the vaas, now `list`: it stops at   *)
(* the next missing VAA, or sets the state and returns.                    *)
FetchLoop(c, list, from, to) ==
    \E next \in from..(to + 1) :
        /\ NextMissing(list, from, to, next)
        /\ IF next > to
           THEN /\ state' = Attested
                /\ Ends(c, "returned")
           ELSE /\ idx' = [idx EXCEPT ![c] = next]
                /\ limit' = [limit EXCEPT ![c] = to]
                /\ Await(c, "fetch")
                /\ UNCHANGED <<state, hashes>>

(* Mutant of BeginFetch: the loop is entered without vaas.                 *)
BeginFetchNoVaas(c) ==
    /\ pc[c] = "idle"
    /\ state \in Initiated..Attested
    /\ FetchLoop(c, vaas, 1, Len(vaas))
    /\ UNCHANGED <<fixed, txids, vaas, attempts, chainVars>>

(* Mutant of BeginFetch: the check has no upper end.                       *)
BeginFetchAnyState(c) ==
    /\ pc[c] = "idle"
    /\ state >= Initiated
    /\ vaas # <<>>
    /\ FetchLoop(c, vaas, 1, Len(vaas))
    /\ UNCHANGED <<fixed, txids, vaas, attempts, chainVars>>

(* The first checks, up to the first getTransferVaa.                       *)
BeginFetch(c) ==
    /\ pc[c] = "idle"
    /\ state \in Initiated..Attested
    /\ vaas # <<>>
    /\ FetchLoop(c, vaas, 1, Len(vaas))
    /\ UNCHANGED <<fixed, txids, vaas, attempts, chainVars>>

(* Mutant of FetchArrives: the VAA is stored with the first id.            *)
FetchArrivesAtFirst(c) ==
    /\ pc[c] = "fetch"
    /\ vaas[idx[c]].id \in signed
    /\ vaas' = [vaas EXCEPT ![1].vaa = vaas[idx[c]].id]
    /\ FetchLoop(c, vaas', idx[c] + 1, limit[c])
    /\ UNCHANGED <<fixed, txids, attempts, chainVars>>

(* getTransferVaa returns the VAA the guardians have signed by then.       *)
FetchArrives(c) ==
    /\ pc[c] = "fetch"
    /\ vaas[idx[c]].id \in signed
    /\ vaas' = [vaas EXCEPT ![idx[c]].vaa = vaas[idx[c]].id]
    /\ FetchLoop(c, vaas', idx[c] + 1, limit[c])
    /\ UNCHANGED <<fixed, txids, attempts, chainVars>>

(* getTransferVaa throws: there was no VAA within its retries.             *)
FetchGivesUp(c) ==
    /\ pc[c] = "fetch"
    /\ Ends(c, "threw")
    /\ UNCHANGED <<fixed, objVars, attempts, chainVars>>

-----------------------------------------------------------------------------
(* getTransferState, of an automatic transfer that has a message id; in    *)
(* every other case it returns the state at once.                          *)

BeginStatus(c) ==
    /\ pc[c] = "idle"
    /\ automatic
    /\ vaas # <<>>
    /\ Await(c, "status")
    /\ UNCHANGED <<fixed, objVars, loopVars, attempts, chainVars>>

(* The status service has seen the redemption of the first message.        *)
StatusCompleted(c) ==
    /\ pc[c] = "status"
    /\ vaas[1].id \in redeemed
    /\ state' = Completed
    /\ Ends(c, "returned")
    /\ UNCHANGED <<fixed, txids, vaas, attempts, chainVars>>

(* It has not, or not yet.                                                 *)
StatusPending(c) ==
    /\ pc[c] = "status"
    /\ Ends(c, "returned")
    /\ UNCHANGED <<fixed, objVars, attempts, chainVars>>

-----------------------------------------------------------------------------
(* completeTransfer                                                        *)

(* Mutant of RedeemLoop: a missing VAA is passed over.                     *)
RedeemLoopSkips(c, next) ==
    LET held == {i \in next..Len(vaas) : vaas[i].vaa # NoVaa}
    IN  IF held = {}
        THEN Ends(c, "returned")
        ELSE /\ idx' = [idx EXCEPT ![c] = CHOOSE i \in held : \A j \in held : i <= j]
             /\ Await(c, "redeem")
             /\ UNCHANGED <<hashes, limit>>

(* Mutant of RedeemLoop: no look at whether there is a VAA.                *)
RedeemLoopUnchecked(c, next) ==
    IF next > Len(vaas)
    THEN Ends(c, "returned")
    ELSE /\ idx' = [idx EXCEPT ![c] = next]
         /\ Await(c, "redeem")
         /\ UNCHANGED <<hashes, limit>>

(* The head of `for (cachedVaa of vaas)`: past the end the call returns,   *)
(* at an entry without VAA it throws, else it asks the bridge to redeem.   *)
RedeemLoop(c, next) ==
    IF next > Len(vaas)
    THEN Ends(c, "returned")
    ELSE IF vaas[next].vaa = NoVaa
    THEN Ends(c, "threw")
    ELSE /\ idx' = [idx EXCEPT ![c] = next]
         /\ Await(c, "redeem")
         /\ UNCHANGED <<hashes, limit>>

(* The first checks and the head of the loop.                              *)
BeginComplete(c) ==
    /\ pc[c] = "idle"
    /\ state >= Attested
    /\ vaas # <<>>
    /\ RedeemLoop(c, 1)
    /\ UNCHANGED <<fixed, objVars, attempts, chainVars>>

(* The generator throws before its first await: completeTransfer was given *)
(* another signer than the one this VAA names.                             *)
RedeemRefused(c) ==
    /\ pc[c] = "redeem"
    /\ ~automatic
    /\ redeemer = "one"
    /\ Ends(c, "threw")
    /\ UNCHANGED <<fixed, objVars, attempts, chainVars>>

(* The redeem transaction is executed on the destination chain.            *)
Redeem(c) ==
    /\ pc[c] = "redeem"
    /\ ~automatic
    /\ vaas[idx[c]].vaa \notin redeemed
    /\ redeemed' = redeemed \union {vaas[idx[c]].vaa}
    /\ Await(c, "redeeming")
    /\ UNCHANGED <<fixed, objVars, loopVars, attempts, allowance, emitted, signed>>

(* It reverts: the VAA was redeemed before, and wait() rejects.            *)
RedeemReverts(c) ==
    /\ pc[c] = "redeem"
    /\ ~automatic
    /\ vaas[idx[c]].vaa \in redeemed
    /\ Ends(c, "threw")
    /\ UNCHANGED <<fixed, objVars, attempts, chainVars>>

(* sendWait returns and the loop goes on.  The state is left as it is.     *)
Redeemed(c) ==
    /\ pc[c] = "redeeming"
    /\ RedeemLoop(c, idx[c] + 1)
    /\ UNCHANGED <<fixed, objVars, attempts, chainVars>>

(* The automatic bridge's generator returns its transaction instead of     *)
(* yielding it, so `for await` sees none and the loop goes on.             *)
RedeemNothing(c) ==
    /\ pc[c] = "redeem"
    /\ automatic
    /\ RedeemLoop(c, idx[c] + 1)
    /\ UNCHANGED <<fixed, objVars, attempts, chainVars>>

-----------------------------------------------------------------------------
(* The world.                                                              *)

(* What a call awaits rejects: an RPC, a wallet or a service failed.       *)
Rejects(c) ==
    /\ Faults
    /\ pc[c] # "idle"
    /\ Ends(c, "threw")
    /\ UNCHANGED <<fixed, objVars, attempts, chainVars>>

GuardiansSign(m) ==
    /\ m \in Messages \ signed
    /\ signed' = signed \union {m}
    /\ UNCHANGED <<fixed, objVars, callVars, attempts, allowance, emitted, redeemed>>

(* The relayer redeems the VAA of an automatic transfer.                   *)
RelayerDelivers(m) ==
    /\ automatic
    /\ m \in signed \ redeemed
    /\ redeemed' = redeemed \union {m}
    /\ UNCHANGED <<fixed, objVars, callVars, attempts, allowance, emitted, signed>>

(* Mutant of Recover: the state of the new object is not Attested.         *)
RecoverInitiated(m) ==
    /\ Faults
    /\ m \in signed
    /\ state' = Initiated
    /\ txids' \in {<<>>, <<m>>}
    /\ vaas' = <<[id |-> m, vaa |-> m]>>
    /\ pc' = [c \in Calls |-> "idle"]
    /\ hashes' = [c \in Calls |-> <<>>]
    /\ idx' = [c \in Calls |-> 1]
    /\ limit' = [c \in Calls |-> 0]
    /\ result' = [c \in Calls |-> "none"]
    /\ UNCHANGED <<fixed, attempts, chainVars>>

(* The process dies with its calls, and the new one makes the object from  *)
(* a message id or from the id of the transfer's transaction; the latter   *)
(* sets txids.  Without a VAA `from` throws and there is no object.        *)
Recover(m) ==
    /\ Faults
    /\ m \in signed
    /\ state' = Attested
    /\ txids' \in {<<>>, <<m>>}
    /\ vaas' = <<[id |-> m, vaa |-> m]>>
    /\ pc' = [c \in Calls |-> "idle"]
    /\ hashes' = [c \in Calls |-> <<>>]
    /\ idx' = [c \in Calls |-> 1]
    /\ limit' = [c \in Calls |-> 0]
    /\ result' = [c \in Calls |-> "none"]
    /\ UNCHANGED <<fixed, attempts, chainVars>>

-----------------------------------------------------------------------------
Begin(c) ==
    \/ BeginInitiate(c)
    \/ BeginFetch(c)
    \/ BeginStatus(c)
    \/ BeginComplete(c)

Initiate(c) ==
    \/ Prepared(c)
    \/ Approve(c)
    \/ Transfer(c)
    \/ TransferReverts(c)
    \/ Confirm(c)
    \/ Parse(c)
    \/ ParseFindsNone(c)

Fetch(c) == FetchArrives(c) \/ FetchGivesUp(c)

Status(c) == StatusCompleted(c) \/ StatusPending(c)

Complete(c) ==
    \/ RedeemRefused(c)
    \/ Redeem(c)
    \/ RedeemReverts(c)
    \/ Redeemed(c)
    \/ RedeemNothing(c)

(* What an awaited promise that settles makes a call do.                   *)
Resumes(c) == Initiate(c) \/ Fetch(c) \/ Status(c) \/ Complete(c)

World ==
    \E m \in Messages :
        \/ GuardiansSign(m)
        \/ RelayerDelivers(m)
        \/ Recover(m)

Next ==
    \/ \E c \in Calls : Begin(c) \/ Resumes(c) \/ Rejects(c)
    \/ World

Spec == Init /\ [][Next]_vars

-----------------------------------------------------------------------------
(* Properties that hold however many calls are in flight.                  *)

Entries == 1..Len(vaas)

(* No two entries of vaas are about the same message, although concurrent  *)
(* calls of initiateTransfer push to the same array.                       *)
VaasDistinct ==
    \A i, j \in Entries : vaas[i].id = vaas[j].id => i = j

(* Whatever reaches the destination chain was signed by the guardians:     *)
(* completeTransfer never submits an entry whose VAA has not arrived.      *)
RedeemsSigned == redeemed \subseteq signed

(* When completeTransfer of a manual transfer returns, every message that  *)
(* is in vaas at that moment, one pushed during the call included, has     *)
(* been redeemed.                                                          *)
CompleteReturnsAll ==
    [][\A c \in Calls :
          (pc[c] = "redeeming" /\ result'[c] = "returned" /\ pc'[c] = "idle")
              => \A i \in Entries : vaas[i].id \in redeemed]_vars

(* When fetchAttestation returns, each entry whose key it enumerated when  *)
(* it began has its VAA, although the array may have grown meanwhile and   *)
(* other calls of fetchAttestation store in the same entries.              *)
FetchReturnsAll ==
    [][\A c \in Calls :
          (pc[c] = "fetch" /\ result'[c] = "returned" /\ pc'[c] = "idle")
              => \A i \in 1..limit[c] : vaas'[i].vaa # NoVaa]_vars

(* The state that a call suspended there has still to assign.              *)
WillAssign(where) ==
    CASE where \in {"prepare", "approve", "transfer", "confirm"} -> Initiated
      [] where = "fetch" -> Attested
      [] where = "status" -> Completed
      [] where \in {"idle", "parse", "redeem", "redeeming"} -> Finalized

(* The object has reached state s, and no call is left in flight that      *)
(* began before and will assign an earlier one.                            *)
Settled(s) == state >= s /\ \A c \in Calls : WillAssign(pc[c]) >= s

(* From then on it does not go back, whatever is called and however the    *)
(* calls overlap; only a crash makes a new object.                         *)
NeverSetBack ==
    [][\A s \in {Initiated, Attested, Completed} :
          Settled(s) => Settled(s)' \/ \E m \in Messages : Recover(m)]_vars

(* The inductive invariant behind them.                                    *)

(* What is stored with an id is its VAA, which the guardians have signed.  *)
VaaMatchesId ==
    \A i \in Entries :
        vaas[i].vaa # NoVaa => vaas[i].vaa = vaas[i].id /\ vaas[i].vaa \in signed

(* Which messages the hashes of a call name: each was emitted, and no two  *)
(* hashes, of one call or of two, name the same message.                   *)
HashesOwned ==
    /\ \A c \in Calls : \A k \in 1..Len(hashes[c]) : hashes[c][k] <= emitted
    /\ \A c, d \in Calls : \A k \in 1..Len(hashes[c]), l \in 1..Len(hashes[d]) :
          hashes[c][k] = hashes[d][l] /\ hashes[c][k] # Approval
              => c = d /\ k = l

(* A hash that is still to be parsed is not in vaas.                       *)
UnparsedIsNew ==
    \A c \in Calls : \A k \in idx[c]..Len(hashes[c]) :
        hashes[c][k] # Approval => \A i \in Entries : vaas[i].id # hashes[c][k]

EntriesEmitted == \A i \in Entries : vaas[i].id \in Messages

(* What holds of a call where it is suspended.                             *)
CallAt(c) ==
    /\ pc[c] \in (PCs \ {"fetch", "redeem", "redeeming", "parse"}) => idx[c] = 1
    /\ pc[c] \in (PCs \ {"transfer", "confirm", "parse"}) => hashes[c] = <<>>
    /\ pc[c] \in {"confirm", "parse"} => idx[c] \in 1..Len(hashes[c])
    /\ pc[c] = "fetch" => idx[c] \in 1..limit[c] /\ limit[c] <= Len(vaas)
    /\ pc[c] = "fetch" => \A i \in 1..(idx[c] - 1) : vaas[i].vaa # NoVaa
    /\ pc[c] = "status" => vaas # <<>>
    /\ pc[c] \in {"redeem", "redeeming"} =>
          /\ idx[c] \in Entries
          /\ vaas[idx[c]].vaa # NoVaa
    /\ pc[c] \in {"redeem", "redeeming"} /\ ~automatic =>
          \A i \in 1..(idx[c] - 1) : vaas[i].id \in redeemed
    /\ pc[c] = "redeeming" =>
          /\ ~automatic
          /\ vaas[idx[c]].id \in redeemed

IInv ==
    /\ TypeOK
    /\ HashesOwned
    /\ UnparsedIsNew
    /\ EntriesEmitted
    /\ VaasDistinct
    /\ VaaMatchesId
    /\ RedeemsSigned
    /\ state = Completed => vaas # <<>> /\ vaas[1].id \in redeemed
    /\ \A c \in Calls : CallAt(c)

(* No attempt sends twice, whatever calls overlap, fail or are given up by *)
(* a crash, and nothing is pushed to vaas that was not sent.               *)
SentOncePerAttempt == Len(vaas) <= emitted /\ emitted <= attempts

(* What of every call's end is safety.  How many answers a call awaits at  *)
(* most; completeTransfer has two for each entry that is left.             *)
AnswersLeft(c) ==
    CASE pc[c] = "prepare" -> 6
      [] pc[c] = "approve" -> 5
      [] pc[c] = "transfer" -> Len(hashes[c]) + 3
      [] pc[c] = "confirm" -> Len(hashes[c]) + 1
      [] pc[c] = "parse" -> Len(hashes[c]) - idx[c] + 1
      [] pc[c] = "fetch" -> limit[c] - idx[c] + 1
      [] pc[c] = "status" -> 1
      [] pc[c] = "redeem" -> 2 * (Len(vaas) - idx[c]) + 2
      [] pc[c] = "redeeming" -> 2 * (Len(vaas) - idx[c]) + 1
      [] pc[c] = "idle" -> 0

(* It is bounded by what there is to send and to redeem.                   *)
AnswersBounded ==
    \A c \in Calls :
        AnswersLeft(c) \in 0..(IF pc[c] \in Initiating THEN 6 ELSE 2 * Len(vaas))

CanResume(c) ==
    /\ pc[c] # "idle"
    /\ pc[c] = "parse" => idx[c] \in DOMAIN hashes[c]
    /\ pc[c] \in {"fetch", "redeem", "redeeming"} => idx[c] \in Entries
    /\ pc[c] = "status" => vaas # <<>>

(* No call is ever in a place where no answer would take it on: what it    *)
(* reads of the shared array then is there.                                *)
NoCallIsStuck == \A c \in Calls : pc[c] # "idle" => CanResume(c)

(* An answer takes a call nearer to its end.  Nothing else takes it back,  *)
(* except that a message another call pushes makes completeTransfer, which *)
(* walks over the array, submit one entry more.                            *)
CallsAdvance ==
    [][\A c \in Calls : pc[c] # "idle" =>
          /\ \/ AnswersLeft(c)' <= AnswersLeft(c)
             \/ /\ pc[c] \in {"redeem", "redeeming"}
                /\ Len(vaas') = Len(vaas) + 1
                /\ AnswersLeft(c)' = AnswersLeft(c) + 2
          /\ Resumes(c) => AnswersLeft(c)' < AnswersLeft(c)]_vars

-----------------------------------------------------------------------------
(* Properties of an object on which one call is in flight at a time.       *)

(* Attested means what the comment on TransferState says: there is an      *)
(* entry, and every entry has its VAA.                                     *)
AttestedHasAll ==
    state = Attested => /\ vaas # <<>>
                        /\ \A i \in Entries : vaas[i].vaa # NoVaa

(* Every message in vaas was emitted by one of the transactions in txids,  *)
(* unless the object was made from a message id.                           *)
TxidsCoverVaas ==
    state = Initiated \/ txids # <<>> =>
        \A i \in Entries : \E k \in 1..Len(txids) : txids[k] = vaas[i].id

OneAtATime == \A c, d \in Calls : c = d

(* The invariant behind them: what the object looks like where the call is *)
(* suspended, and that every message was paid for by an attempt.           *)
OneCallAt(c) ==
    /\ pc[c] \in {"prepare", "approve", "transfer", "confirm"} => state = Created
    /\ pc[c] \in {"prepare", "approve", "transfer"} => emitted < attempts
    /\ pc[c] = "confirm" => emitted > 0
    /\ pc[c] = "parse" => state = Initiated /\ txids = hashes[c]
    /\ pc[c] = "fetch" =>
          /\ state = Initiated
          /\ limit[c] = Len(vaas)
          /\ \A j \in 1..(idx[c] - 1) : vaas[j].vaa # NoVaa
    /\ pc[c] = "status" => automatic
    /\ pc[c] \in {"redeem", "redeeming"} => state >= Attested

OneCallInv ==
    /\ IInv
    /\ AttestedHasAll
    /\ TxidsCoverVaas
    /\ state = Created => vaas = <<>> /\ txids = <<>>
    /\ emitted <= attempts
    /\ \A c \in Calls : OneCallAt(c)

(* The object with one call at a time is a WormholeTransfer.               *)
Lifecycle == INSTANCE WormholeTransfer WITH
    Message <- 1..MaxAttempts,
    sent <- Messages,
    held <- {vaas[i].vaa : i \in Entries} \ {NoVaa},
    delivered <- redeemed

(* What a caller may rely on: the object implements WormholeTransfer.  In   *)
(* particular a transfer is never attested without an attestation, nothing *)
(* is submitted that is not held, and nothing is sent after Created.       *)
ImplementsLifecycle == Lifecycle!Spec

-----------------------------------------------------------------------------
(* A statement of the repository that the code does not keep.              *)

(* "returns a transaction hash": once its transactions are mined,          *)
(* initiateTransfer returns their hashes.                                  *)
InitiateReturnsHashes ==
    [][\A c \in Calls :
          (pc[c] = "parse" /\ pc'[c] = "idle") => result'[c] = "returned"]_vars

(* The calls it is true of are those that needed no approval: the hash of  *)
(* an approval is the first, and the first that is parsed.                 *)
Approved(c) == hashes[c] # <<>> /\ hashes[c][1] = Approval

ApprovalFirst ==
    \A c \in Calls :
        /\ pc[c] = "transfer" => hashes[c] \in {<<>>, <<Approval>>}
        /\ \A k \in 2..Len(hashes[c]) : hashes[c][k] # Approval
        /\ pc[c] = "parse" /\ Approved(c) => idx[c] = 1

=============================================================================
