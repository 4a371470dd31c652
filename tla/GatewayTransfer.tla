-------------------------- MODULE GatewayTransfer ---------------------------
(***************************************************************************)
(* One GatewayTransfer object, the calls in flight on it, and the three    *)
(* chains it crosses: the source chain, wormchain, and the destination.    *)
(*                                                                         *)
(*   "in"       EVM to Cosmos: a token bridge message, whose VAA somebody  *)
(*              redeems on wormchain, which forwards it over IBC           *)
(*   "out"      Cosmos to EVM: an IBC packet into wormchain, which emits a *)
(*              message, whose VAA the object redeems on the EVM chain     *)
(*   "through"  Cosmos to Cosmos: two IBC packets and no VAA               *)
(*                                                                         *)
(* An action is the code between two awaits.  A transfer is numbered by    *)
(* the transaction that sends it; its message, its VAA, its packets and    *)
(* its transaction hash all go by that number.  Approval is the hash of an *)
(* ERC-20 approve, None is undefined.  vaas has at most one entry, because *)
(* every assignment of the code assigns an array of one.                   *)
(***************************************************************************)
EXTENDS Integers, Sequences, FiniteSets

CONSTANTS
    Calls,        \* slots for calls in flight on the object
    Routes,       \* the routes explored
    Allowances,   \* what the token bridge may spend at first, in transfers
    MaxAttempts,  \* bound: how often initiateTransfer passes its check
    MaxFaults     \* bound: rejections, failed transactions and crashes

ASSUME GatewayAssumption ==
    /\ Routes \subseteq {"in", "out", "through"}
    /\ Allowances \subseteq Nat
    /\ MaxAttempts \in Nat
    /\ MaxFaults \in Nat

(* TransferState *)
Created   == 1
Initiated == 2
Attested  == 3

None == 0
Approval == 0

VARIABLES
    route,      \* from the platforms of transfer.from and transfer.to
    plain,      \* route "in": transfer has neither a fee nor a payload;
                \* "out": its VAA has no payload, or a token of its destination
    state,      \* GatewayTransfer.state
    txs,        \* its transactions
    vaa,        \* vaas[0]
    ibc,        \* its ibcTransfers
    pc,         \* where each call is suspended
    ids,        \* its array of hashes
    msg,        \* the transfer it works on
    result,     \* how the last call of the slot ended
    attempts,   \* how often initiateTransfer passed its check
    faults,     \* how many faults have happened
    overlapped, \* history: has a call begun while another was in flight?
    allowance,  \* EVM source chain: how many transfers may still be spent
    sent,       \* source chain: the transactions 1..sent are included
    failed,     \* those that failed
    arrived,    \* wormchain: VAA redeemed, or packet received
    signed,     \* guardians: the VAA exists
    redeemed    \* EVM destination: VAAs redeemed

objVars   == <<state, txs, vaa, ibc>>
callVars  == <<pc, ids, msg, result>>
histVars  == <<attempts, faults, overlapped>>
chainVars == <<allowance, sent, failed, arrived, signed, redeemed>>
vars      == <<route, plain, objVars, callVars, histVars, chainVars>>

PCs == {"idle", "prepare", "approve", "send", "confirm", "bridge", "parse",
        "legs", "packet", "vaa", "poll", "lookup", "take", "redeem", "redeeming"}

Fetching == {"bridge", "parse", "legs", "packet", "vaa", "poll", "lookup"}

Messages == 1..sent

fromGateway == route # "in"
toGateway   == route # "out"
HasVaa      == route # "through"

TypeOK ==
    /\ route \in {"in", "out", "through"}
    /\ plain \in BOOLEAN
    /\ state \in {Created, Initiated, Attested}
    /\ txs \in Seq(Nat)
    /\ vaa \in Nat
    /\ ibc \in Seq(Nat)
    /\ pc \in [Calls -> PCs]
    /\ ids \in [Calls -> Seq(Nat)]
    /\ msg \in [Calls -> Nat]
    /\ result \in [Calls -> {"none", "returned", "threw"}]
    /\ attempts \in 0..MaxAttempts
    /\ faults \in 0..MaxFaults
    /\ overlapped \in BOOLEAN
    /\ allowance \in Nat
    /\ sent \in Nat
    /\ failed \subseteq Messages
    /\ arrived \subseteq Messages \ failed
    /\ signed \subseteq Messages \ failed
    /\ redeemed \subseteq signed

(* GatewayTransfer.from(wh, details), the constructor.                     *)
Init ==
    /\ route \in Routes
    /\ plain \in IF HasVaa THEN BOOLEAN ELSE {TRUE}
    /\ state = Created
    /\ txs = <<>>
    /\ vaa = None
    /\ ibc = <<>>
    /\ pc = [c \in Calls |-> "idle"]
    /\ ids = [c \in Calls |-> <<>>]
    /\ msg = [c \in Calls |-> None]
    /\ result = [c \in Calls |-> "none"]
    /\ attempts = 0
    /\ faults = 0
    /\ overlapped = FALSE
    /\ allowance \in IF fromGateway THEN {0} ELSE Allowances
    /\ sent = 0
    /\ failed = {}
    /\ arrived = {}
    /\ signed = {}
    /\ redeemed = {}

Alone == \A c \in Calls : pc[c] = "idle"

(* A call may begin in an idle slot.                                       *)
Begins(c) ==
    /\ pc[c] = "idle"
    /\ overlapped' = (overlapped \/ ~Alone)

(* Call c ends; its locals are gone.                                       *)
Ends(c, how) ==
    /\ pc' = [pc EXCEPT ![c] = "idle"]
    /\ ids' = [ids EXCEPT ![c] = <<>>]
    /\ msg' = [msg EXCEPT ![c] = None]
    /\ result' = [result EXCEPT ![c] = how]

(* Call c, now working on transfer m, runs on to its next await.           *)
AwaitWith(c, where, m) ==
    /\ pc' = [pc EXCEPT ![c] = where]
    /\ msg' = [msg EXCEPT ![c] = m]
    /\ UNCHANGED <<ids, result>>

Await(c, where) == AwaitWith(c, where, msg[c])

Fault == faults < MaxFaults /\ faults' = faults + 1

-----------------------------------------------------------------------------
(* initiateTransfer, with _transfer and the generator of the EVM token     *)
(* bridge, or _transferIbc and that of the IBC bridge, which yields one    *)
(* transaction.  A call that fails a first check throws and changes        *)
(* nothing, here and below.                                                *)

(* Mutant of BeginInitiate: the state is not checked.                      *)
BeginInitiateAnyState(c) ==
    /\ Begins(c)
    /\ attempts < MaxAttempts
    /\ attempts' = attempts + 1
    /\ Await(c, IF fromGateway THEN "send" ELSE "prepare")
    /\ UNCHANGED <<route, plain, objVars, faults, chainVars>>

BeginInitiate(c) ==
    /\ Begins(c)
    /\ state = Created
    /\ attempts < MaxAttempts
    /\ attempts' = attempts + 1
    /\ Await(c, IF fromGateway THEN "send" ELSE "prepare")
    /\ UNCHANGED <<route, plain, objVars, faults, chainVars>>

(* The token bridge has read the allowance and yields a transaction.  For  *)
(* the native token no allowance is asked for, as if there was enough.     *)
Prepared(c) ==
    /\ pc[c] = "prepare"
    /\ Await(c, IF allowance < 1 THEN "approve" ELSE "send")
    /\ UNCHANGED <<route, plain, objVars, histVars, chainVars>>

Approve(c) ==
    /\ pc[c] = "approve"
    /\ allowance' = 1
    /\ ids' = [ids EXCEPT ![c] = Append(@, Approval)]
    /\ pc' = [pc EXCEPT ![c] = "send"]
    /\ UNCHANGED <<route, plain, objVars, msg, result, histVars, sent, failed,
                   arrived, signed, redeemed>>

(* The transfer is included in a block of the source chain.                *)
Included(c) ==
    /\ sent' = sent + 1
    /\ ids' = [ids EXCEPT ![c] = Append(@, sent + 1)]
    /\ pc' = [pc EXCEPT ![c] = "confirm"]
    /\ UNCHANGED <<route, plain, objVars, msg, result, attempts, overlapped,
                   arrived, signed, redeemed>>

Send(c) ==
    /\ pc[c] = "send"
    /\ fromGateway \/ allowance > 0
    /\ Included(c)
    /\ allowance' = IF fromGateway THEN allowance ELSE allowance - 1
    /\ UNCHANGED <<faults, failed>>

(* EVM: the transaction reverts, and sendWait throws.                      *)
SendReverts(c) ==
    /\ pc[c] = "send"
    /\ ~fromGateway
    /\ allowance = 0
    /\ Ends(c, "threw")
    /\ UNCHANGED <<route, plain, objVars, histVars, chainVars>>

(* Cosmos: broadcastTx answers with the hash of a transaction that failed, *)
(* and sendWait does not look at its code.                                 *)
SendFails(c) ==
    /\ pc[c] = "send"
    /\ fromGateway
    /\ Fault
    /\ Included(c)
    /\ failed' = failed \union {sent + 1}
    /\ UNCHANGED allowance

(* The generator is done: transactions and state are set, whatever they    *)
(* were.                                                                   *)
Confirm(c) ==
    /\ pc[c] = "confirm"
    /\ txs' = ids[c]
    /\ state' = Initiated
    /\ Ends(c, "returned")
    /\ UNCHANGED <<route, plain, vaa, ibc, histVars, chainVars>>

-----------------------------------------------------------------------------
(* fetchAttestation                                                        *)

(* Mutant of BeginFetch: ibcTransfers is not emptied.                      *)
BeginFetchKeeping(c) ==
    /\ Begins(c)
    /\ state \in Initiated..Attested
    /\ Await(c, "bridge")
    /\ UNCHANGED <<route, plain, objVars, attempts, faults, chainVars>>

BeginFetch(c) ==
    /\ Begins(c)
    /\ state \in Initiated..Attested
    /\ ibc' = <<>>
    /\ Await(c, "bridge")
    /\ UNCHANGED <<route, plain, state, txs, vaa, attempts, faults, chainVars>>

(* The IBC bridges are there, and this.transactions is read: all of them   *)
(* for a transfer from Cosmos, the first for another.                      *)
ReadTransactions(c) ==
    /\ pc[c] = "bridge"
    /\ IF fromGateway
       THEN /\ pc' = [pc EXCEPT ![c] = "legs"]
            /\ ids' = [ids EXCEPT ![c] = txs]
            /\ UNCHANGED <<msg, result>>
       ELSE AwaitWith(c, "parse", txs[1])
    /\ UNCHANGED <<route, plain, objVars, histVars, chainVars>>

(* parseMessageFromTx finds the message, and getTransferVaa is called.     *)
Parse(c) ==
    /\ pc[c] = "parse"
    /\ msg[c] \in Messages
    /\ Await(c, "vaa")
    /\ UNCHANGED <<route, plain, objVars, histVars, chainVars>>

(* There is no message in an approve: the call throws.                     *)
ParseNothing(c) ==
    /\ pc[c] = "parse"
    /\ msg[c] = Approval
    /\ Ends(c, "threw")
    /\ UNCHANGED <<route, plain, objVars, histVars, chainVars>>

(* All the transactions, or the hash read from one, are looked up:         *)
(* lookupTransferFromTx throws for one that failed.                        *)
LegsAnswer(c) ==
    /\ ibc' = ids[c]
    /\ IF Len(ids[c]) # 1
       THEN Ends(c, "threw") /\ UNCHANGED state
       ELSE IF toGateway
            THEN Ends(c, "returned") /\ state' = Attested
            ELSE AwaitWith(c, "packet", ids[c][1]) /\ UNCHANGED state
    /\ UNCHANGED <<route, plain, txs, vaa, histVars, chainVars>>

(* Mutant of LegsFound: the code of the transaction is not looked at.      *)
LegsUnchecked(c) ==
    /\ pc[c] = "legs"
    /\ LegsAnswer(c)

LegsFound(c) ==
    /\ pc[c] = "legs"
    /\ \A i \in DOMAIN ids[c] : ids[c][i] \notin failed
    /\ LegsAnswer(c)

LegsFailed(c) ==
    /\ pc[c] = "legs"
    /\ \E i \in DOMAIN ids[c] : ids[c][i] \in failed
    /\ Ends(c, "threw")
    /\ UNCHANGED <<route, plain, objVars, histVars, chainVars>>

(* lookupMessageFromIbcMsgId asks wormchain once for the packet.           *)
PacketFound(c) ==
    /\ pc[c] = "packet"
    /\ msg[c] \in arrived
    /\ Await(c, "vaa")
    /\ UNCHANGED <<route, plain, objVars, histVars, chainVars>>

PacketMissing(c) ==
    /\ pc[c] = "packet"
    /\ msg[c] \notin arrived
    /\ Ends(c, "threw")
    /\ UNCHANGED <<route, plain, objVars, histVars, chainVars>>

(* Mutant of VaaArrives: some VAA of the emitter is taken.                 *)
VaaArrivesAny(c) ==
    /\ pc[c] = "vaa"
    /\ \E m \in signed :
          /\ vaa' = m
          /\ IF fromGateway
             THEN Ends(c, "returned") /\ state' = Attested
             ELSE AwaitWith(c, "poll", m) /\ UNCHANGED state
    /\ UNCHANGED <<route, plain, txs, ibc, histVars, chainVars>>

(* getTransferVaa obtains the VAA.  A transfer out of Cosmos is attested;  *)
(* the legs returned are the ones in ibcTransfers by now.                  *)
VaaArrives(c) ==
    /\ pc[c] = "vaa"
    /\ msg[c] \in signed
    /\ vaa' = msg[c]
    /\ IF fromGateway
       THEN Ends(c, "returned") /\ state' = Attested
       ELSE Await(c, "poll") /\ UNCHANGED state
    /\ UNCHANGED <<route, plain, txs, ibc, histVars, chainVars>>

(* "No VAA available after 5 retries".                                     *)
VaaMissing(c) ==
    /\ pc[c] = "vaa"
    /\ Ends(c, "threw")
    /\ UNCHANGED <<route, plain, objVars, histVars, chainVars>>

(* The first answer of isVaaRedeemed ends the polling, whatever it is.     *)
PollTrue(c) ==
    /\ pc[c] = "poll"
    /\ msg[c] \in arrived
    /\ Await(c, "lookup")
    /\ UNCHANGED <<route, plain, objVars, histVars, chainVars>>

PollFalse(c) ==
    /\ pc[c] = "poll"
    /\ msg[c] \notin arrived
    /\ Ends(c, "threw")
    /\ UNCHANGED <<route, plain, objVars, histVars, chainVars>>

(* Mutant of LookupFinds: the transfer found replaces nothing, and the     *)
(* state is left as it is.                                                 *)
LookupForgets(c) ==
    /\ pc[c] = "lookup"
    /\ arrived # {}
    /\ Ends(c, "returned")
    /\ UNCHANGED <<route, plain, objVars, histVars, chainVars>>

(* fetchIbcXfer finds a forwarding transaction by the gateway message,     *)
(* which all attempts of the object have in common.                        *)
LookupFinds(c) ==
    /\ pc[c] = "lookup"
    /\ \E x \in arrived : ibc' = Append(ibc, x)
    /\ state' = Attested
    /\ Ends(c, "returned")
    /\ UNCHANGED <<route, plain, txs, vaa, histVars, chainVars>>

(* "Wormchain transfer not found after retries exhausted".                 *)
LookupGivesUp(c) ==
    /\ pc[c] = "lookup"
    /\ Ends(c, "threw")
    /\ UNCHANGED <<route, plain, objVars, histVars, chainVars>>

-----------------------------------------------------------------------------
(* completeTransfer.  For a transfer to Cosmos it always throws.           *)

BeginComplete(c) ==
    /\ Begins(c)
    /\ state >= Attested
    /\ ~toGateway
    /\ vaa # None
    /\ Await(c, "take")
    /\ UNCHANGED <<route, plain, objVars, attempts, faults, chainVars>>

(* The token bridge is there, and the loop over vaas begins.               *)
TakeVaa(c) ==
    /\ pc[c] = "take"
    /\ AwaitWith(c, "redeem", vaa)
    /\ UNCHANGED <<route, plain, objVars, histVars, chainVars>>

(* "VAA.from does not match sender": redeem is given the recipient, and    *)
(* the VAA has a contract of the gateway as its sender.                    *)
RedeemRefused(c) ==
    /\ pc[c] = "redeem"
    /\ ~plain
    /\ Ends(c, "threw")
    /\ UNCHANGED <<route, plain, objVars, histVars, chainVars>>

Redeem(c) ==
    /\ pc[c] = "redeem"
    /\ plain
    /\ msg[c] \notin redeemed
    /\ redeemed' = redeemed \union {msg[c]}
    /\ Await(c, "redeeming")
    /\ UNCHANGED <<route, plain, objVars, histVars, allowance, sent, failed,
                   arrived, signed>>

RedeemReverts(c) ==
    /\ pc[c] = "redeem"
    /\ msg[c] \in redeemed
    /\ Ends(c, "threw")
    /\ UNCHANGED <<route, plain, objVars, histVars, chainVars>>

(* sendWait returns.  The state is left as it is.                          *)
Redeemed(c) ==
    /\ pc[c] = "redeeming"
    /\ Ends(c, "returned")
    /\ UNCHANGED <<route, plain, objVars, histVars, chainVars>>

-----------------------------------------------------------------------------
(* The world.                                                              *)

(* What a call awaits rejects.  A rejection while the wormchain transfer   *)
(* is looked up is caught by fetchIbcXfer.                                 *)
Rejects(c) ==
    /\ pc[c] \notin {"idle", "lookup"}
    /\ Fault
    /\ Ends(c, "threw")
    /\ UNCHANGED <<route, plain, objVars, attempts, overlapped, chainVars>>

(* Somebody redeems the VAA on wormchain, or IBC relays the packet to it.  *)
Arrive(m) ==
    /\ m \in Messages \ (failed \union arrived)
    /\ fromGateway \/ m \in signed
    /\ arrived' = arrived \union {m}
    /\ UNCHANGED <<route, plain, objVars, callVars, histVars, allowance, sent,
                   failed, signed, redeemed>>

(* The guardians sign what the source chain or wormchain emits.            *)
Sign(m) ==
    /\ m \in Messages \ (failed \union signed)
    /\ route = "out" => m \in arrived
    /\ route # "through"
    /\ signed' = signed \union {m}
    /\ UNCHANGED <<route, plain, objVars, callVars, histVars, allowance, sent,
                   failed, arrived, redeemed>>

(* The process dies with its calls, and the new one makes the object from  *)
(* the id of transaction m: `from` fetches the attestation, and when that  *)
(* throws there is no object.  _fromMsgId rebuilds the gateway message of  *)
(* a transfer into Cosmos without its fee and with its payload encoded     *)
(* once more, so that the lookup by message finds a plain one only.        *)
Recover(m) ==
    /\ Fault
    /\ m \notin failed
    /\ HasVaa => m \in arrived \cap signed
    /\ vaa' = IF HasVaa THEN m ELSE None
    /\ IF fromGateway THEN ibc' = <<m>>
                      ELSE plain /\ \E x \in arrived : ibc' = <<x>>
    /\ state' = Attested
    /\ txs' = <<m>>
    /\ pc' = [c \in Calls |-> "idle"]
    /\ ids' = [c \in Calls |-> <<>>]
    /\ msg' = [c \in Calls |-> None]
    /\ result' = [c \in Calls |-> "none"]
    /\ UNCHANGED <<route, plain, attempts, overlapped, chainVars>>

-----------------------------------------------------------------------------
Begin(c) == BeginInitiate(c) \/ BeginFetch(c) \/ BeginComplete(c)

Initiate(c) ==
    \/ Prepared(c)
    \/ Approve(c)
    \/ Send(c)
    \/ SendReverts(c)
    \/ Confirm(c)

Fetch(c) ==
    \/ ReadTransactions(c)
    \/ Parse(c)
    \/ ParseNothing(c)
    \/ LegsFound(c)
    \/ LegsFailed(c)
    \/ PacketFound(c)
    \/ PacketMissing(c)
    \/ VaaArrives(c)
    \/ VaaMissing(c)
    \/ PollTrue(c)
    \/ PollFalse(c)
    \/ LookupFinds(c)
    \/ LookupGivesUp(c)

Complete(c) ==
    \/ TakeVaa(c)
    \/ RedeemRefused(c)
    \/ Redeem(c)
    \/ RedeemReverts(c)
    \/ Redeemed(c)

(* What an awaited promise that settles makes a call do.                   *)
Resumes(c) == Initiate(c) \/ Fetch(c) \/ Complete(c)

Next ==
    \/ \E c \in Calls : Begin(c) \/ Resumes(c) \/ SendFails(c) \/ Rejects(c)
    \/ \E m \in Messages : Arrive(m) \/ Sign(m) \/ Recover(m)

Spec == Init /\ [][Next]_vars

(* The user calls again when nothing is in flight.                         *)
UserFetches   == Alone /\ \E c \in Calls : BeginFetch(c)
UserCompletes == Alone /\ \E c \in Calls : BeginComplete(c)

(* Every awaited promise settles; a service that is asked again and again  *)
(* answers in time at last; what was sent arrives and is signed; the user  *)
(* keeps calling.                                                          *)
FairSpec ==
    /\ Spec
    /\ \A c \in Calls :
          /\ WF_vars(Resumes(c))
          /\ SF_vars(VaaArrives(c))
          /\ SF_vars(LookupFinds(c))
    /\ \A m \in 1..MaxAttempts : WF_vars(Arrive(m)) /\ WF_vars(Sign(m))
    /\ WF_vars(UserFetches)
    /\ SF_vars(UserCompletes)

-----------------------------------------------------------------------------
(* Properties that hold however many calls are in flight.                  *)

(* What failed on the source chain is never attested.  sendWait returns    *)
(* the hash of a failed Cosmos transaction like any other, and the object  *)
(* counts as initiated; only the lookups of fetchAttestation see it.       *)
NothingFailedIsAttested ==
    /\ vaa \notin failed
    /\ \A i \in DOMAIN ibc : ibc[i] \notin failed

(* No attempt sends twice, whatever calls overlap, fail or are given up by *)
(* a crash.                                                                *)
SentOncePerAttempt == sent <= attempts

(* The inductive invariant behind it: what holds of a call where it is     *)
(* suspended, and of the object.                                           *)
CallAt(c) ==
    /\ \A i \in DOMAIN ids[c] : ids[c][i] \in IF fromGateway THEN Messages ELSE 0..sent
    /\ pc[c] = "idle" => ids[c] = <<>>
    /\ pc[c] = "confirm" => ids[c] # <<>>
    /\ pc[c] = "legs" => fromGateway
    /\ pc[c] \in {"packet", "take", "redeem", "redeeming"} => route = "out"
    /\ pc[c] \in {"prepare", "approve", "parse", "poll", "lookup"} => route = "in"
    /\ pc[c] = "vaa" => HasVaa
    /\ pc[c] \in {"poll", "lookup", "redeem", "redeeming"} => msg[c] \in signed
    /\ pc[c] = "parse" => msg[c] \in 0..sent
    /\ pc[c] = "take" => vaa # None
    /\ pc[c] \in Fetching => txs # <<>>

IInv ==
    /\ TypeOK
    /\ \A i \in DOMAIN txs : txs[i] \in IF fromGateway THEN Messages ELSE 0..sent
    /\ state >= Initiated => txs # <<>>
    /\ vaa # None => vaa \in signed
    /\ ~HasVaa => vaa = None
    /\ \A i \in DOMAIN ibc : ibc[i] \in Messages \ failed
    /\ \A c \in Calls : CallAt(c)

(* What of every call's end is safety.  How many answers a call that is    *)
(* suspended at `where` awaits at most, and when it goes on with the next. *)
AnswersLeft(where) ==
    CASE where = "bridge" -> 6
      [] where = "legs" -> 5
      [] where \in {"prepare", "parse", "packet"} -> 4
      [] where \in {"approve", "vaa", "take"} -> 3
      [] where \in {"send", "poll", "redeem"} -> 2
      [] where \in {"confirm", "lookup", "redeeming"} -> 1
      [] where = "idle" -> 0

CanResume(c) ==
    /\ pc[c] # "idle"
    /\ pc[c] = "bridge" => fromGateway \/ txs # <<>>
    /\ pc[c] = "parse" => msg[c] \in Messages \union {Approval}

(* No call is ever in a place where no answer would take it on.            *)
NoCallIsStuck == \A c \in Calls : pc[c] # "idle" => CanResume(c)

(* An answer takes a call nearer to its end, and nothing else, whatever    *)
(* other calls, the chains and a crash do, takes it back.                  *)
CallsAdvance ==
    [][\A c \in Calls : pc[c] # "idle" =>
          /\ AnswersLeft(pc'[c]) <= AnswersLeft(pc[c])
          /\ Resumes(c) \/ SendFails(c) => AnswersLeft(pc'[c]) < AnswersLeft(pc[c])]_vars

-----------------------------------------------------------------------------
(* Properties of an object whose user makes one call at a time.            *)

(* The VAA that completeTransfer redeems is that of the object's own first *)
(* transaction, also when earlier attempts sent transfers it forgot.       *)
OwnVaa == ~overlapped /\ vaa # None => vaa = txs[1]

(* A fetchAttestation that returns hands out exactly one leg over IBC: the *)
(* packet of the object's own transaction or, for a transfer into Cosmos,  *)
(* one that wormchain forwarded for the same message.                      *)
ReturnsOneLeg ==
    [][\A c \in Calls :
          (/\ ~overlapped
           /\ pc[c] \in {"legs", "vaa", "lookup"}
           /\ pc'[c] = "idle" /\ result'[c] = "returned") =>
              /\ Len(ibc') = 1
              /\ IF fromGateway THEN ibc'[1] = txs[1] ELSE ibc'[1] \in arrived]_vars

(* The invariant of an object used by one call at a time.                  *)
AloneAt(c) ==
    /\ pc[c] # "idle" => \A d \in Calls : pc[d] # "idle" => d = c
    /\ pc[c] \in {"prepare", "approve", "send", "confirm"} => state = Created
    /\ pc[c] \in {"prepare", "approve", "send"} =>
          sent < attempts /\ (fromGateway => ids[c] = <<>>)
    /\ pc[c] = "confirm" => sent > 0 /\ (fromGateway => Len(ids[c]) = 1)
    /\ pc[c] \in Fetching => state >= Initiated
    /\ pc[c] \in {"bridge", "parse", "legs", "poll", "lookup"} => ibc = <<>>
    /\ pc[c] = "legs" => ids[c] = txs
    /\ pc[c] = "packet" => ibc = txs
    /\ pc[c] = "vaa" => ibc = IF fromGateway THEN txs ELSE <<>>
    /\ pc[c] \in {"parse", "packet", "vaa", "poll", "lookup"} => msg[c] = txs[1]
    /\ pc[c] \in {"poll", "lookup"} => vaa = msg[c]
    /\ pc[c] \in {"take", "redeem", "redeeming"} => state = Attested
    /\ pc[c] \in {"redeem", "redeeming"} => msg[c] = vaa

AloneInv ==
    /\ IInv
    /\ ~overlapped =>
          /\ OwnVaa
          /\ sent <= attempts
          /\ state = Created => txs = <<>> /\ vaa = None
          /\ fromGateway /\ txs # <<>> => Len(txs) = 1
          /\ \A c \in Calls : AloneAt(c)

(* The object as a WormholeTransfer.  A transfer through the gateway has   *)
(* no attestation in its sense and stays in its initial state; one into    *)
(* Cosmos is redeemed on wormchain by others, as an automatic one is.      *)
Lifecycle == INSTANCE WormholeTransfer WITH
    Message <- 1..MaxAttempts,
    automatic <- ~fromGateway,
    state <- IF HasVaa THEN state ELSE Created,
    sent <- IF HasVaa THEN Messages ELSE {},
    signed <- signed,
    held <- {vaa} \ {None},
    delivered <- IF fromGateway THEN redeemed ELSE arrived

(* As long as its user makes one call at a time the object implements      *)
(* WormholeTransfer, as TokenTransfer and CctpTransfer do.                 *)
ImplementsWhileAlone ==
    /\ Lifecycle!Init
    /\ [][overlapped' \/ [Lifecycle!Next]_(Lifecycle!vars)]_vars

(* A transfer whose first transaction is a transfer that did not fail gets *)
(* to its end if its user keeps calling: it is attested and, leaving       *)
(* Cosmos, redeemed unless redeem refuses it, in spite of polls that give  *)
(* up and of crashes.  When an approve came first it never is, as the      *)
(* first transaction is parsed.                                            *)
ReachesItsEnd ==
    (~overlapped /\ state = Initiated /\ txs[1] \in Messages \ failed) ~>
        \/ overlapped
        \/ state = Attested /\ (toGateway \/ ~plain \/ redeemed # {})

=============================================================================
