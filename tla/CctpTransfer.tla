---------------------------- MODULE CctpTransfer ----------------------------
(***************************************************************************)
(* One CCTPTransfer object between two EVM chains, the calls its user has  *)
(* in flight on it, and the world it talks to.                             *)
(*                                                                         *)
(* An action is the code between two awaits.  A message, and the hash of   *)
(* the transaction that burned for it, is the number of the burn; the hash *)
(* of an ERC-20 approve is Approval; an attestation is the number of the   *)
(* message it is about, None is undefined.                                 *)
(*                                                                         *)
(* circleAttestations and vaas have at most one entry, because every       *)
(* assignment of the code assigns an array of one.                         *)
(***************************************************************************)
EXTENDS Integers, Sequences

CONSTANTS
    Calls,        \* slots for calls in flight on the object
    MaxAttempts,  \* bound: how often initiateTransfer passes its first check
    Modes,        \* which values of transfer.automatic are explored
    Allowances,   \* what the bridge may spend at first, in transfers
    Faults        \* may an awaited promise reject, or the process crash?

ASSUME CctpAssumption ==
    /\ MaxAttempts \in Nat
    /\ Modes \subseteq BOOLEAN
    /\ Allowances \subseteq Nat
    /\ Faults \in BOOLEAN

(* TransferState *)
Created   == 1
Initiated == 2
Attested  == 3
Completed == 4

None == 0
Approval == 0

VARIABLES
    automatic,  \* transfer.automatic
    state,      \* CCTPTransfer.state
    txids,      \* CCTPTransfer.txids, <<>> is undefined
    circle,     \* circleAttestations[0], with id None when undefined
    vaa,        \* vaas[0].vaa, None when undefined
    pc,         \* where each call is suspended
    hashes,     \* its txHashes
    ca,         \* the entry of circleAttestations it works on
    result,     \* how the last call of the slot ended
    attempts,   \* how often initiateTransfer passed its first check
    allowance,  \* on the source chain: how many transfers may still be spent
    burned,     \* on the source chain: messages 1..burned exist
    attested,   \* by Circle or the guardians: messages with an attestation
    minted      \* on the destination chain: messages already received

objVars   == <<state, txids, circle, vaa>>
callVars  == <<pc, hashes, ca, result>>
chainVars == <<allowance, burned, attested, minted>>
vars      == <<automatic, objVars, callVars, attempts, chainVars>>

PCs == {"idle", "prepare", "approve", "burn", "confirm", "parse", "poll",
        "mint", "minting"}

Messages == 1..burned

Entry == [id : Nat, attestation : Nat]

NoEntry == [id |-> None, attestation |-> None]

TypeOK ==
    /\ automatic \in BOOLEAN
    /\ state \in {Created, Initiated, Attested}
    /\ txids \in Seq(Nat)
    /\ circle \in Entry
    /\ vaa \in Nat
    /\ pc \in [Calls -> PCs]
    /\ hashes \in [Calls -> Seq(Nat)]
    /\ ca \in [Calls -> Entry]
    /\ result \in [Calls -> {"none", "returned", "threw"}]
    /\ attempts \in 0..MaxAttempts
    /\ allowance \in Nat
    /\ burned \in Nat
    /\ attested \subseteq Messages
    /\ minted \subseteq Nat

(* CCTPTransfer.from(wh, details).                                         *)
Init ==
    /\ automatic \in Modes
    /\ state = Created
    /\ txids = <<>>
    /\ circle = NoEntry
    /\ vaa = None
    /\ pc = [c \in Calls |-> "idle"]
    /\ hashes = [c \in Calls |-> <<>>]
    /\ ca = [c \in Calls |-> NoEntry]
    /\ result = [c \in Calls |-> "none"]
    /\ attempts = 0
    /\ allowance \in Allowances
    /\ burned = 0
    /\ attested = {}
    /\ minted = {}

(* Call c ends; its locals are gone.                                       *)
Ends(c, how) ==
    /\ pc' = [pc EXCEPT ![c] = "idle"]
    /\ hashes' = [hashes EXCEPT ![c] = <<>>]
    /\ ca' = [ca EXCEPT ![c] = NoEntry]
    /\ result' = [result EXCEPT ![c] = how]

(* Call c, about to work on an entry, runs on to its next await.           *)
AwaitWith(c, where, entry) ==
    /\ pc' = [pc EXCEPT ![c] = where]
    /\ ca' = [ca EXCEPT ![c] = entry]
    /\ UNCHANGED <<hashes, result>>

Await(c, where) == AwaitWith(c, where, ca[c])

-----------------------------------------------------------------------------
(* initiateTransfer, with the generators of the two EVM bridges.  A call   *)
(* that fails a first check throws and changes nothing, here and below.    *)

BeginInitiate(c) ==
    /\ pc[c] = "idle"
    /\ state = Created
    /\ attempts < MaxAttempts
    /\ attempts' = attempts + 1
    /\ Await(c, "prepare")
    /\ UNCHANGED <<automatic, objVars, chainVars>>

(* The bridge has read the allowance and yields its first transaction.     *)
Prepared(c) ==
    /\ pc[c] = "prepare"
    /\ Await(c, IF allowance < 1 THEN "approve" ELSE "burn")
    /\ UNCHANGED <<automatic, objVars, attempts, chainVars>>

Approve(c) ==
    /\ pc[c] = "approve"
    /\ allowance' = 1
    /\ hashes' = [hashes EXCEPT ![c] = Append(@, Approval)]
    /\ pc' = [pc EXCEPT ![c] = "burn"]
    /\ UNCHANGED <<automatic, objVars, ca, result, attempts, burned, attested, minted>>

(* The source chain burns the tokens and the message is sent.              *)
Burn(c) ==
    /\ pc[c] = "burn"
    /\ allowance > 0
    /\ allowance' = allowance - 1
    /\ burned' = burned + 1
    /\ hashes' = [hashes EXCEPT ![c] = Append(@, burned + 1)]
    /\ pc' = [pc EXCEPT ![c] = "confirm"]
    /\ UNCHANGED <<automatic, objVars, ca, result, attempts, attested, minted>>

BurnReverts(c) ==
    /\ pc[c] = "burn"
    /\ allowance = 0
    /\ Ends(c, "threw")
    /\ UNCHANGED <<automatic, objVars, attempts, chainVars>>

(* sendWait returns and the generator is done: txids and state are set,    *)
(* whatever they were.                                                     *)
Confirm(c) ==
    /\ pc[c] = "confirm"
    /\ txids' = hashes[c]
    /\ state' = Initiated
    /\ Ends(c, "returned")
    /\ UNCHANGED <<automatic, circle, vaa, attempts, chainVars>>

-----------------------------------------------------------------------------
(* fetchAttestation                                                        *)

(* fetchWormholeAttestation: only `from` fills vaas, with its VAA, so that *)
(* the loop never has one to ask for.                                      *)
FetchWormhole(c) ==
    /\ pc[c] = "idle"
    /\ state \in Initiated..Attested
    /\ automatic
    /\ vaa # None
    /\ state' = Attested
    /\ Ends(c, "returned")
    /\ UNCHANGED <<automatic, txids, circle, vaa, attempts, chainVars>>

(* The loop over circleAttestations, now `entry`.                          *)
CircleLoop(c, entry) ==
    IF entry.attestation # None
    THEN state' = Attested /\ Ends(c, "returned")
    ELSE AwaitWith(c, "poll", entry) /\ UNCHANGED state

(* Mutant of FetchCircle: the first transaction is parsed, not the last.   *)
FetchCircleFirst(c) ==
    /\ pc[c] = "idle"
    /\ state \in Initiated..Attested
    /\ ~automatic
    /\ IF circle.id = None
       THEN /\ txids # <<>>
            /\ AwaitWith(c, "parse", [NoEntry EXCEPT !.id = txids[1]])
            /\ UNCHANGED state
       ELSE CircleLoop(c, circle)
    /\ UNCHANGED <<automatic, txids, circle, vaa, attempts, chainVars>>

(* fetchCircleAttestation: without an entry the last of the transactions   *)
(* is parsed for its message.                                              *)
FetchCircle(c) ==
    /\ pc[c] = "idle"
    /\ state \in Initiated..Attested
    /\ ~automatic
    /\ IF circle.id = None
       THEN /\ txids # <<>>
            /\ AwaitWith(c, "parse", [NoEntry EXCEPT !.id = txids[Len(txids)]])
            /\ UNCHANGED state
       ELSE CircleLoop(c, circle)
    /\ UNCHANGED <<automatic, txids, circle, vaa, attempts, chainVars>>

(* parseTransactionDetails finds the message in the receipt; the array is  *)
(* replaced, whatever another call has put there meanwhile.                *)
Parse(c) ==
    /\ pc[c] = "parse"
    /\ ca[c].id \in Messages
    /\ circle' = ca[c]
    /\ CircleLoop(c, ca[c])
    /\ UNCHANGED <<automatic, txids, vaa, attempts, chainVars>>

(* Mutant of AttestationArrives: the newest attestation is taken.          *)
AttestationArrivesLatest(c) ==
    /\ pc[c] = "poll"
    /\ attested # {}
    /\ circle' = [circle EXCEPT !.attestation =
                     CHOOSE m \in attested : \A n \in attested : n <= m]
    /\ state' = Attested
    /\ Ends(c, "returned")
    /\ UNCHANGED <<automatic, txids, vaa, attempts, chainVars>>

(* Mutant of AttestationArrives: an answer of the service is taken for the *)
(* attestation though it is still pending.                                 *)
AttestationArrivesPending(c) ==
    /\ pc[c] = "poll"
    /\ circle' = [circle EXCEPT !.attestation = ca[c].id]
    /\ state' = Attested
    /\ Ends(c, "returned")
    /\ UNCHANGED <<automatic, txids, vaa, attempts, chainVars>>

(* The poll for the entry's message ends with an attestation, which is     *)
(* stored in what is the first entry by now.                               *)
AttestationArrives(c) ==
    /\ pc[c] = "poll"
    /\ ca[c].id \in attested
    /\ circle' = [circle EXCEPT !.attestation = ca[c].id]
    /\ state' = Attested
    /\ Ends(c, "returned")
    /\ UNCHANGED <<automatic, txids, vaa, attempts, chainVars>>

(* Mutant of PollGivesUp: the poll has no limit.                           *)
PollForever(c) ==
    /\ pc[c] = "poll"
    /\ Await(c, "poll")
    /\ UNCHANGED <<automatic, objVars, attempts, chainVars>>

(* "No attestation available after retries exhausted".                     *)
PollGivesUp(c) ==
    /\ pc[c] = "poll"
    /\ Ends(c, "threw")
    /\ UNCHANGED <<automatic, objVars, attempts, chainVars>>

-----------------------------------------------------------------------------
(* completeTransfer.  For an automatic transfer it always throws.          *)

(* Mutant of BeginComplete: no look at whether the entry has its           *)
(* attestation, so that undefined may be submitted.                        *)
BeginCompleteUnchecked(c) ==
    /\ pc[c] = "idle"
    /\ state >= Attested
    /\ ~automatic
    /\ circle.id # None
    /\ AwaitWith(c, "mint", circle)
    /\ UNCHANGED <<automatic, objVars, attempts, chainVars>>

BeginComplete(c) ==
    /\ pc[c] = "idle"
    /\ state >= Attested
    /\ ~automatic
    /\ circle.attestation # None
    /\ AwaitWith(c, "mint", circle)
    /\ UNCHANGED <<automatic, objVars, attempts, chainVars>>

Receivable(entry) == entry.attestation = entry.id /\ entry.id \notin minted

(* Mutant of Mint: the transaction is buffered and never flushed.          *)
MintUnsent(c) ==
    /\ pc[c] = "mint"
    /\ Receivable(ca[c])
    /\ Await(c, "minting")
    /\ UNCHANGED <<automatic, objVars, attempts, chainVars>>

(* The destination chain executes receiveMessage and mints the tokens.     *)
Mint(c) ==
    /\ pc[c] = "mint"
    /\ Receivable(ca[c])
    /\ minted' = minted \union {ca[c].id}
    /\ Await(c, "minting")
    /\ UNCHANGED <<automatic, objVars, attempts, allowance, burned, attested>>

(* It reverts: the attestation is of another message, or the message was   *)
(* received before.                                                        *)
MintReverts(c) ==
    /\ pc[c] = "mint"
    /\ ~Receivable(ca[c])
    /\ Ends(c, "threw")
    /\ UNCHANGED <<automatic, objVars, attempts, chainVars>>

(* sendWait returns.  The state is left as it is.                          *)
Minted(c) ==
    /\ pc[c] = "minting"
    /\ Ends(c, "returned")
    /\ UNCHANGED <<automatic, objVars, attempts, chainVars>>

-----------------------------------------------------------------------------
(* The world.                                                              *)

(* What a call awaits rejects: an RPC, a wallet or a service failed.       *)
Rejects(c) ==
    /\ Faults
    /\ pc[c] # "idle"
    /\ Ends(c, "threw")
    /\ UNCHANGED <<automatic, objVars, attempts, chainVars>>

Attest(m) ==
    /\ m \in Messages \ attested
    /\ attested' = attested \union {m}
    /\ UNCHANGED <<automatic, objVars, callVars, attempts, allowance, burned, minted>>

RelayerDelivers(m) ==
    /\ automatic
    /\ m \in attested \ minted
    /\ minted' = minted \union {m}
    /\ UNCHANGED <<automatic, objVars, callVars, attempts, allowance, burned, attested>>

(* Mutant of Recover: fetchAttestation is not called by `from`.            *)
RecoverUnfetched(m) ==
    /\ Faults
    /\ m \in attested
    /\ state' = Attested
    /\ txids' = <<m>>
    /\ circle' = [id |-> m, attestation |-> None]
    /\ vaa' = None
    /\ pc' = [c \in Calls |-> "idle"]
    /\ hashes' = [c \in Calls |-> <<>>]
    /\ ca' = [c \in Calls |-> NoEntry]
    /\ result' = [c \in Calls |-> "none"]
    /\ UNCHANGED <<automatic, attempts, chainVars>>

(* The process dies with its calls, and the new one makes the object from  *)
(* the id of the burn transaction or, if the transfer is automatic, from   *)
(* the id of its Wormhole message.  `from` fetches the attestation; when   *)
(* it does not come, it throws and there is no object.                     *)
Recover(m) ==
    /\ Faults
    /\ m \in attested
    /\ state' = Attested
    /\ IF automatic
       THEN txids' \in {<<>>, <<m>>} /\ circle' = NoEntry /\ vaa' = m
       ELSE txids' = <<m>> /\ circle' = [id |-> m, attestation |-> m] /\ vaa' = None
    /\ pc' = [c \in Calls |-> "idle"]
    /\ hashes' = [c \in Calls |-> <<>>]
    /\ ca' = [c \in Calls |-> NoEntry]
    /\ result' = [c \in Calls |-> "none"]
    /\ UNCHANGED <<automatic, attempts, chainVars>>

-----------------------------------------------------------------------------
Begin(c) ==
    \/ BeginInitiate(c)
    \/ FetchWormhole(c)
    \/ FetchCircle(c)
    \/ BeginComplete(c)

Initiate(c) ==
    \/ Prepared(c)
    \/ Approve(c)
    \/ Burn(c)
    \/ BurnReverts(c)
    \/ Confirm(c)

Fetch(c) == Parse(c) \/ AttestationArrives(c) \/ PollGivesUp(c)

Complete(c) == Mint(c) \/ MintReverts(c) \/ Minted(c)

(* What an awaited promise that settles makes a call do.                   *)
Resumes(c) == Initiate(c) \/ Fetch(c) \/ Complete(c)

Outside == \E m \in Messages : Attest(m) \/ RelayerDelivers(m)

Next ==
    \/ \E c \in Calls : Begin(c) \/ Resumes(c) \/ Rejects(c)
    \/ Outside
    \/ \E m \in Messages : Recover(m)

Spec == Init /\ [][Next]_vars

(* Every promise the object awaits settles.                                *)
FairSpec == Spec /\ \A c \in Calls : WF_vars(Resumes(c))

-----------------------------------------------------------------------------
(* Properties that hold however many calls are in flight.                  *)

(* The transaction that fetchAttestation looks for a message in is always  *)
(* one that burned, never the approve that came before it: the lookup      *)
(* takes the last of txids.                                                *)
ParsesABurn == \A c \in Calls : pc[c] = "parse" => ca[c].id \in Messages

(* What completeTransfer submits has come from the attestation service.    *)
(* The state does not promise that: a slow fetchAttestation replaces the   *)
(* entry by one without attestation on an object that is Attested already. *)
SubmitsAttested == \A c \in Calls : pc[c] = "mint" => ca[c].attestation \in attested

(* No attempt burns twice, whatever calls overlap, fail or are given up by *)
(* a crash.                                                                *)
BurnsOncePerAttempt == burned <= attempts

(* Every call ends.                                                        *)
CallEnds == \A c \in Calls : pc[c] # "idle" ~> pc[c] = "idle"

(* What of CallEnds is safety.  How many answers a call that is suspended  *)
(* at `where` awaits at most, and when it goes on with the next.           *)
AnswersLeft(where) ==
    CASE where = "prepare" -> 4
      [] where = "approve" -> 3
      [] where \in {"burn", "parse", "mint"} -> 2
      [] where \in {"confirm", "poll", "minting"} -> 1
      [] where = "idle" -> 0

CanResume(c) == pc[c] # "idle" /\ (pc[c] = "parse" => ca[c].id \in Messages)

(* No call is ever in a place where no answer would take it on.            *)
NoCallIsStuck == \A c \in Calls : pc[c] # "idle" => CanResume(c)

(* An answer takes a call nearer to its end, and nothing else, whatever    *)
(* other calls, the chains and a crash do, takes it back.                  *)
CallsAdvance ==
    [][\A c \in Calls : pc[c] # "idle" =>
          /\ AnswersLeft(pc'[c]) <= AnswersLeft(pc[c])
          /\ Resumes(c) => AnswersLeft(pc'[c]) < AnswersLeft(pc[c])]_vars

(* The inductive invariant behind them.                                    *)

(* Nothing reaches the destination chain that was not attested.            *)
MintsAttested == minted \subseteq attested

(* What holds of a call where it is suspended.                             *)
CallAt(c) ==
    /\ pc[c] = "confirm" =>
          /\ hashes[c] # <<>>
          /\ hashes[c][Len(hashes[c])] \in Messages
    /\ pc[c] \in {"parse", "poll"} => ca[c].id \in Messages /\ ca[c].attestation = None
    /\ pc[c] \in {"mint", "minting"} => ca[c].attestation \in attested
    /\ pc[c] = "minting" => ca[c].attestation = ca[c].id

IInv ==
    /\ TypeOK
    /\ txids # <<>> => txids[Len(txids)] \in Messages
    /\ circle.id # None => circle.id \in Messages
    /\ circle.attestation # None => circle.attestation \in attested
    /\ vaa # None => vaa \in attested
    /\ MintsAttested
    /\ \A c \in Calls : CallAt(c)

-----------------------------------------------------------------------------
(* Properties of an object on which one call is in flight at a time.       *)

(* Attested means that the attestation is there.                           *)
AttestedHasAttestation ==
    state = Attested =>
        IF automatic THEN vaa # None ELSE circle.attestation # None

(* The attestation that is stored is that of the message it is stored      *)
(* with, also when earlier attempts have burned for messages the object    *)
(* does not know.                                                          *)
AttestationMatchesId ==
    circle.attestation # None => circle.attestation = circle.id

OneAtATime == \A c, d \in Calls : c = d

(* The invariant of one call: what the object looks like where the call is *)
(* suspended, and that every message was paid for by an attempt.           *)
OneCallAt(c) ==
    /\ pc[c] \in {"prepare", "approve", "burn", "confirm"} => state = Created
    /\ pc[c] \in {"parse", "poll"} => state = Initiated /\ ~automatic
    /\ pc[c] = "parse" => circle = NoEntry
    /\ pc[c] \in {"poll", "mint", "minting"} => circle = ca[c]
    /\ pc[c] \in {"mint", "minting"} => state = Attested /\ ~automatic
    /\ pc[c] = "minting" => circle.id \in minted
    /\ pc[c] \in {"prepare", "approve", "burn"} => burned < attempts

OneCallInv ==
    /\ IInv
    /\ AttestedHasAttestation
    /\ AttestationMatchesId
    /\ circle.attestation # None \/ vaa # None => state = Attested
    /\ burned <= attempts
    /\ \A c \in Calls : OneCallAt(c)

(* When completeTransfer returns, the message of the transfer has been     *)
(* received on the destination chain.                                      *)
CompleteReturnsMinted ==
    [][\A c \in Calls :
          (pc[c] = "minting" /\ result'[c] = "returned") => circle.id \in minted]_vars

(* The object with one call at a time is a WormholeTransfer.               *)
Lifecycle == INSTANCE WormholeTransfer WITH
    Message <- 1..MaxAttempts,
    sent <- Messages,
    signed <- attested,
    held <- {circle.attestation, vaa} \ {None},
    delivered <- minted

(* What a caller may rely on: the object implements WormholeTransfer, as   *)
(* TokenTransfer does.                                                     *)
ImplementsLifecycle == Lifecycle!Spec

=============================================================================
