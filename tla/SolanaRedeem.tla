---------------------------- MODULE SolanaRedeem ----------------------------
(***************************************************************************)
(* completeTransfer of a transfer into Solana: the transactions that the   *)
(* redeem of the Solana token bridge yields, the loop that flushes them,   *)
(* the sendWait of Solana, and the chain.                                  *)
(*                                                                         *)
(* The transactions of a call are numbered in the order of the generator:  *)
(*                                                                         *)
(*   0          create the token account of the recipient, if it is not    *)
(*              there                                                      *)
(*   1..Last    verify a batch of at most seven guardian signatures        *)
(*   Last + 1   post the VAA, given a quorum of verified signatures        *)
(*   Last + 2   redeem the transfer                                        *)
(*                                                                         *)
(* An action is the code between two awaits.  The programs on the chain    *)
(* are external, and know what a call has verified by its signature set, a *)
(* key pair of its own.                                                    *)
(***************************************************************************)
EXTENDS Integers, Sequences, FiniteSets

CONSTANTS
    Calls,      \* slots for calls to completeTransfer
    Digits,     \* hexadecimal digits of half a signature (64)
    Vaas,       \* the VAAs explored
    MaxFaults   \* bound: rejections, timeouts, losses, delays and expiries

(* Half a signature, the number r or s, digit by digit.  One half stands   *)
(* for the signature.                                                      *)
Scalars == [1..Digits -> 0..15]

ASSUME SolanaAssumption ==
    /\ Calls \subseteq Nat /\ 0 \notin Calls
    /\ Digits \in Nat /\ Digits > 0 /\ Digits % 2 = 0
    /\ \A v \in Vaas : /\ v.native \in BOOLEAN
                       /\ v.guardians \in Nat
                       /\ v.signatures \in Seq(Scalars) \ {<<>>}
    /\ MaxFaults \in Nat

VARIABLES
    vaa,        \* is its token Solana's own, the size of its guardian set,
                \* and its signatures
    at,         \* where each call is suspended
    to,         \* the transaction a call is about to broadcast
    upto,       \* the last transaction of its buffer
    expired,    \* its blockhash is too old
    result,     \* how the last call of the slot ended
    faults,     \* how many faults have happened
    overlapped, \* history: has a call begun while another was in flight?
    pool,       \* transactions broadcast and not settled
    landed,     \* transactions of the calls in a block, failed ones included
    account,    \* the token account of the recipient exists
    posted,     \* the VAA is posted
    redeemed,   \* the transfer is redeemed
    rotated,    \* there is a new guardian set
    wrapped     \* there is a mint of the wrapped token

callVars  == <<at, to, upto, expired, result>>
histVars  == <<faults, overlapped>>
chainVars == <<pool, landed, account, posted, redeemed, rotated, wrapped>>
vars      == <<vaa, callVars, histVars, chainVars>>

Ats == {"idle", "blockhash", "wrapped", "account", "config", "send", "confirm"}

BatchSize == 7

(* The signatures go out in batches; Last is the number of the last.       *)
Signatures == DOMAIN vaa.signatures
Last       == (Len(vaa.signatures) + BatchSize - 1) \div BatchSize
Batch(n)   == {j \in Signatures : (n - 1) * BatchSize < j /\ j <= n * BatchSize}

Ata    == 0
Post   == Last + 1
Redeem == Last + 2

(* A transaction of a call, or of the forgotten call 0.                    *)
Tx(c, n) == [call |-> c, n |-> n]
Txs      == [call : Calls \union {0}, n : 0..Redeem]

TypeOK ==
    /\ vaa \in Vaas
    /\ at \in [Calls -> Ats]
    /\ to \in [Calls -> 0..Redeem]
    /\ upto \in [Calls -> 0..Redeem]
    /\ expired \in [Calls -> BOOLEAN]
    /\ result \in [Calls -> {"none", "returned", "threw"}]
    /\ faults \in 0..MaxFaults
    /\ overlapped \in BOOLEAN
    /\ pool \subseteq Txs
    /\ landed \subseteq Txs
    /\ account \in BOOLEAN
    /\ posted \in BOOLEAN
    /\ redeemed \in BOOLEAN
    /\ rotated \in BOOLEAN
    /\ wrapped \in BOOLEAN

Init ==
    /\ vaa \in Vaas
    /\ at = [c \in Calls |-> "idle"]
    /\ to = [c \in Calls |-> Ata]
    /\ upto = [c \in Calls |-> Ata]
    /\ expired = [c \in Calls |-> FALSE]
    /\ result = [c \in Calls |-> "none"]
    /\ faults = 0
    /\ overlapped = FALSE
    /\ pool = {}
    /\ landed = {}
    /\ wrapped \in (IF vaa.native THEN {FALSE} ELSE BOOLEAN)
    /\ account \in (IF wrapped \/ vaa.native THEN BOOLEAN ELSE {FALSE})
    /\ posted = FALSE
    /\ redeemed = FALSE
    /\ rotated = FALSE

-----------------------------------------------------------------------------
(* Signatures.                                                             *)

(* How many leading zeros a scalar has.                                    *)
Zeros(r) ==
    CHOOSE z \in 0..Digits :
        /\ \A i \in 1..z : r[i] = 0
        /\ z < Digits => r[z + 1] # 0

(* The bytes that Signature.toUint8Array makes of r: toString(16) leaves   *)
(* out leading zeros, Buffer.from drops a digit without a partner, and the *)
(* bytes are put at the start.                                             *)
Wire(r) ==
    LET written == Digits - Zeros(r)
        kept    == 2 * (written \div 2)
    IN  [i \in 1..Digits |-> IF i <= kept THEN r[Zeros(r) + i] ELSE 0]

(* The guardians of batch n are recovered if its signatures arrive as they *)
(* were signed.                                                            *)
Recovers(n) == \A j \in Batch(n) : Wire(vaa.signatures[j]) = vaa.signatures[j]

-----------------------------------------------------------------------------
(* The chain.                                                              *)

(* What the signature set of a call holds: a verification that is in a     *)
(* block succeeded, as its outcome does not depend on the state.           *)
Verified(c) == UNION {Batch(n) : n \in {k \in 1..Last : Tx(c, k) \in landed}}

Quorum == (vaa.guardians * 2) \div 3 + 1

(* Whether transaction n of call c succeeds in the state of the chain.     *)
Succeeds(c, n) ==
    /\ n = Ata => ~account
    /\ n \in 1..Last => Recovers(n)
    /\ n = Post => Cardinality(Verified(c)) >= Quorum
    /\ n = Redeem => posted /\ account /\ ~redeemed

Fault == faults < MaxFaults /\ faults' = faults + 1

(* A transaction gets into a block, whether it succeeds there or not.      *)
(* Those of a call come in order, unless there is a fault.                 *)
Lands(t) ==
    /\ t \in pool
    /\ \/ /\ \A u \in pool : u.call = t.call => u.n >= t.n
          /\ UNCHANGED faults
       \/ Fault
    /\ pool' = pool \ {t}
    /\ landed' = landed \union {t}
    /\ account' = (account \/ t.n = Ata)
    /\ posted' = (posted \/ (t.n = Post /\ Succeeds(t.call, Post)))
    /\ redeemed' = (redeemed \/ (t.n = Redeem /\ Succeeds(t.call, Redeem)))
    /\ UNCHANGED <<vaa, callVars, overlapped, rotated, wrapped>>

(* A transaction is lost.                                                  *)
Lost(t) ==
    /\ t \in pool
    /\ Fault
    /\ pool' = pool \ {t}
    /\ UNCHANGED <<vaa, callVars, overlapped, landed, account, posted, redeemed, rotated, wrapped>>

(* The guardians are replaced; the old set goes on to be accepted for now. *)
Rotate ==
    /\ ~rotated
    /\ rotated' = TRUE
    /\ UNCHANGED <<vaa, callVars, histVars, pool, landed, account, posted, redeemed, wrapped>>

(* Somebody attests the token, and the bridge makes the mint.              *)
Wrap ==
    /\ ~vaa.native
    /\ ~wrapped
    /\ wrapped' = TRUE
    /\ UNCHANGED <<vaa, callVars, histVars, pool, landed, account, posted, redeemed, rotated>>

-----------------------------------------------------------------------------
(* The call.                                                               *)

Alone == \A c \in Calls : at[c] = "idle"

(* Call c ends; its locals are gone.                                       *)
Ends(c, how) ==
    /\ at' = [at EXCEPT ![c] = "idle"]
    /\ to' = [to EXCEPT ![c] = Ata]
    /\ upto' = [upto EXCEPT ![c] = Ata]
    /\ expired' = [expired EXCEPT ![c] = FALSE]
    /\ result' = [result EXCEPT ![c] = how]

Await(c, where) ==
    /\ at' = [at EXCEPT ![c] = where]
    /\ UNCHANGED <<to, upto, expired, result>>

(* completeTransfer begins.  The call that had the slot before is          *)
(* forgotten, with a signature set that nobody reads any more.             *)
Begin(c) ==
    /\ at[c] = "idle"
    /\ overlapped' = (overlapped \/ ~Alone)
    /\ at' = [at EXCEPT ![c] = "blockhash"]
    /\ result' = [result EXCEPT ![c] = "none"]
    /\ pool' = {t \in pool : t.call # c} \union
               {Tx(0, n) : n \in {k \in {Ata, Post, Redeem} : Tx(c, k) \in pool}}
    /\ landed' = {t \in landed : t.call # c /\ t.call # 0}
    /\ UNCHANGED <<vaa, to, upto, expired, faults, account, posted, redeemed, rotated, wrapped>>

(* The one blockhash that all transactions of the call will carry; then    *)
(* getWrappedAsset looks for the mint of the wrapped token.                *)
GetBlockhash(c) ==
    /\ at[c] = "blockhash"
    /\ ~vaa.native
    /\ Await(c, "wrapped")
    /\ UNCHANGED <<vaa, histVars, chainVars>>

(* "tokenChain == CHAIN_ID_SOLANA does not have wrapped mint key"          *)
RefuseNative(c) ==
    /\ at[c] = "blockhash"
    /\ vaa.native
    /\ Ends(c, "threw")
    /\ UNCHANGED <<vaa, histVars, chainVars>>

(* getWrappedMeta finds the mint.                                          *)
WrappedFound(c) ==
    /\ at[c] = "wrapped"
    /\ wrapped
    /\ Await(c, "account")
    /\ UNCHANGED <<vaa, histVars, chainVars>>

(* ErrNotWrapped                                                           *)
NotWrapped(c) ==
    /\ at[c] = "wrapped"
    /\ ~wrapped
    /\ Ends(c, "threw")
    /\ UNCHANGED <<vaa, histVars, chainVars>>

(* Mutant of FlushEnd: no transaction ends a flush before the post.        *)
FlushEndLate(n) == IF n \in 1..Last THEN Post ELSE n

(* The loop buffers up to the first transaction that is not marked as      *)
(* parallelizable; verifications are, except the last.                     *)
FlushEnd(n) == IF n \in 1..Last THEN Last ELSE n

(* The buffer is signed and sendWait entered.                              *)
Flush(c, n) ==
    /\ at' = [at EXCEPT ![c] = "send"]
    /\ to' = [to EXCEPT ![c] = n]
    /\ upto' = [upto EXCEPT ![c] = FlushEnd(n)]
    /\ UNCHANGED <<expired, result>>

(* Mutant of ReadAccount: the account is created without a look.           *)
ReadAccountBlind(c) ==
    /\ at[c] = "account"
    /\ Flush(c, Ata)
    /\ UNCHANGED <<vaa, histVars, chainVars>>

(* getAccountInfo of the token account.                                    *)
ReadAccount(c) ==
    /\ at[c] = "account"
    /\ IF account THEN Await(c, "config") ELSE Flush(c, Ata)
    /\ UNCHANGED <<vaa, histVars, chainVars>>

(* createVerifySignaturesInstructions reads the guardian set.              *)
ReadConfig(c) ==
    /\ at[c] = "config"
    /\ ~rotated
    /\ Flush(c, 1)
    /\ UNCHANGED <<vaa, histVars, chainVars>>

(* "guardianSetIndex != config.guardianSetIndex"                           *)
RefuseGuardians(c) ==
    /\ at[c] = "config"
    /\ rotated
    /\ Ends(c, "threw")
    /\ UNCHANGED <<vaa, histVars, chainVars>>

(* Mutant of Broadcast: the simulation before the broadcast is skipped.    *)
BroadcastBlind(c) ==
    /\ at[c] = "send"
    /\ ~expired[c]
    /\ pool' = pool \union {Tx(c, to[c])}
    /\ at' = [at EXCEPT ![c] = IF to[c] = upto[c] THEN "confirm" ELSE "send"]
    /\ to' = [to EXCEPT ![c] = IF @ = upto[c] THEN @ ELSE @ + 1]
    /\ UNCHANGED <<vaa, upto, expired, result, histVars, landed, account, posted, redeemed,
                   rotated, wrapped>>

(* sendRawTransaction: the node simulates the transaction and passes it on *)
(* if it succeeds.                                                         *)
Broadcast(c) ==
    /\ at[c] = "send"
    /\ ~expired[c]
    /\ Succeeds(c, to[c])
    /\ pool' = pool \union {Tx(c, to[c])}
    /\ at' = [at EXCEPT ![c] = IF to[c] = upto[c] THEN "confirm" ELSE "send"]
    /\ to' = [to EXCEPT ![c] = IF @ = upto[c] THEN @ ELSE @ + 1]
    /\ UNCHANGED <<vaa, upto, expired, result, histVars, landed, account, posted, redeemed,
                   rotated, wrapped>>

BroadcastRefused(c) ==
    /\ at[c] = "send"
    /\ expired[c] \/ ~Succeeds(c, to[c])
    /\ Ends(c, "threw")
    /\ UNCHANGED <<vaa, histVars, chainVars>>

(* confirmTransaction of the last hash resolves when the transaction is in *)
(* a block, also if it failed there.  The generator goes on.               *)
Confirm(c) ==
    /\ at[c] = "confirm"
    /\ Tx(c, upto[c]) \in landed
    /\ IF upto[c] = Redeem THEN Ends(c, "returned")
       ELSE IF upto[c] = Ata THEN Await(c, "config")
       ELSE Flush(c, upto[c] + 1)
    /\ UNCHANGED <<vaa, histVars, chainVars>>

(* confirmTransaction gives up on a transaction that was lost.             *)
ConfirmTimesOut(c) ==
    /\ at[c] = "confirm"
    /\ Tx(c, upto[c]) \notin landed \union pool
    /\ Ends(c, "threw")
    /\ UNCHANGED <<vaa, histVars, chainVars>>

(* What a call awaits rejects; the confirmation, though the transaction is *)
(* still on its way.                                                       *)
Rejects(c) ==
    /\ at[c] # "idle"
    /\ Fault
    /\ Ends(c, "threw")
    /\ UNCHANGED <<vaa, overlapped, chainVars>>

(* The blockhash of a call becomes too old: what is not in a block by now  *)
(* never will be.                                                          *)
Expires(c) ==
    /\ at[c] \notin {"idle", "blockhash"}
    /\ ~expired[c]
    /\ Fault
    /\ expired' = [expired EXCEPT ![c] = TRUE]
    /\ pool' = {t \in pool : t.call # c}
    /\ UNCHANGED <<vaa, at, to, upto, result, overlapped, landed, account, posted, redeemed,
                   rotated, wrapped>>

-----------------------------------------------------------------------------
Resumes(c) ==
    \/ GetBlockhash(c)
    \/ RefuseNative(c)
    \/ WrappedFound(c)
    \/ NotWrapped(c)
    \/ ReadAccount(c)
    \/ ReadConfig(c)
    \/ RefuseGuardians(c)
    \/ Broadcast(c)
    \/ BroadcastRefused(c)
    \/ Confirm(c)
    \/ ConfirmTimesOut(c)

Next ==
    \/ \E c \in Calls : Begin(c) \/ Resumes(c) \/ Rejects(c) \/ Expires(c)
    \/ \E t \in pool : Lands(t) \/ Lost(t)
    \/ Rotate
    \/ Wrap

Spec == Init /\ [][Next]_vars

UserRetries == Alone /\ ~redeemed /\ \E c \in Calls : Begin(c)

(* Every awaited promise settles, what is in the pool lands in the end,    *)
(* and the user calls again until the transfer is redeemed.                *)
FairSpec ==
    /\ Spec
    /\ \A c \in Calls : WF_vars(Resumes(c))
    /\ WF_vars(\E t \in pool : Lands(t))
    /\ WF_vars(UserRetries)

-----------------------------------------------------------------------------
(* A completeTransfer that returns has redeemed the transfer, or another   *)
(* call has, though sendWait looks at no outcome: the simulation before    *)
(* the broadcast has seen what the redemption needs, and all of it stays.  *)
ReturnMeansRedeemed == \A c \in Calls : result[c] = "returned" => redeemed

(* The inductive invariant behind it.                                      *)
RedeemSafe ==
    /\ \A t \in pool \union landed : t.n = Redeem => posted /\ account
    /\ \A t \in landed : t.n = Redeem => redeemed

IInv ==
    /\ TypeOK
    /\ vaa.native => ~wrapped
    /\ \A c \in Calls : to[c] <= upto[c]
    /\ RedeemSafe
    /\ ReturnMeansRedeemed

Intact == \A n \in 1..Last : Recovers(n)

(* What must not be for a call to go through.                              *)
Quiet ==
    /\ faults = 0
    /\ ~overlapped
    /\ ~rotated
    /\ ~redeemed
    /\ Intact
    /\ Len(vaa.signatures) >= Quorum

(* A call throws only for a reason outside of it: a fault, another call,   *)
(* new guardians, a VAA that cannot be posted, or a token without a mint.  *)
ThrowsForAReason ==
    [][\A c \in Calls :
          (at[c] # "idle" /\ at'[c] = "idle" /\ result'[c] = "threw")
              => ~Quiet \/ faults' > 0 \/ ~wrapped]_vars

(* The inductive invariant behind it: as long as there is no such reason,  *)
(* the one call there has been goes through its transactions in order.     *)
(* Calls that found no mint have sent nothing.                             *)
Sent(c, n) == Tx(c, n) \in pool \union landed

AsPlanned(c) ==
    /\ at[c] \in {"blockhash", "wrapped", "account"} => \A n \in 0..Redeem : ~Sent(c, n)
    /\ at[c] = "config" => account /\ \A n \in 1..Redeem : ~Sent(c, n)
    /\ at[c] = "send" => \A n \in to[c]..Redeem : ~Sent(c, n)
    /\ at[c] = "confirm" => to[c] = upto[c] /\ Sent(c, upto[c])
    /\ at[c] \in {"send", "confirm"} =>
          /\ upto[c] \in {Ata, Last, Post, Redeem}
          /\ \A n \in (upto[c] + 1)..Redeem : ~Sent(c, n)
          /\ upto[c] = Ata => (at[c] = "send" => ~account)
          /\ upto[c] # Ata => account /\ to[c] # Ata
          /\ \A n \in 1..Last : n < to[c] => Sent(c, n)
          /\ upto[c] > Last => to[c] = upto[c] /\ \A n \in 1..Last : Tx(c, n) \in landed
          /\ upto[c] = Redeem => posted

(* There is one call, and all transactions are its own.                    *)
QuietCalls ==
    /\ \A c \in Calls : ~expired[c]
    /\ \A c, d \in Calls : at[c] # "idle" /\ at[d] # "idle" => c = d
    /\ \A t \in pool \union landed : t.call # 0 /\ at[t.call] # "idle"

(* They land in order, and each has succeeded.                             *)
QuietChain ==
    /\ \A t \in landed, u \in pool : t.call = u.call => t.n < u.n
    /\ \A t \in landed : /\ t.n = Ata => account
                         /\ t.n = Post => posted

QuietInv ==
    Quiet => /\ QuietCalls
             /\ QuietChain
             /\ \A c \in Calls : at[c] # "idle" => AsPlanned(c)

(* Whatever else happens: a call that is past a batch has seen it recover, *)
(* and what redeems comes from one that is past all of them.               *)
SeenByCall(c) ==
    /\ at[c] # "idle" => result[c] = "none"
    /\ at[c] \in {"send", "confirm"} =>
          /\ upto[c] \in {Ata, Last, Post, Redeem}
          /\ \A n \in 1..Last : n < to[c] => Recovers(n)
          /\ at[c] = "confirm" =>
                to[c] = upto[c] /\ (to[c] = Last => Recovers(Last))

SeenWhole ==
    /\ \A c \in Calls : SeenByCall(c)
    /\ \A t \in pool \union landed : t.n = Redeem => Intact
    /\ redeemed => Intact

(* A transfer whose signatures arrive as they were signed, of a token of   *)
(* another chain that has been attested, is redeemed at last, if its user  *)
(* keeps calling and the guardians stay: whatever was lost or late, an     *)
(* attempt begins anew with a signature set of its own, and finds the      *)
(* account or the posted VAA that earlier ones left.                       *)
RedeemedAtLast ==
    Intact /\ Len(vaa.signatures) >= Quorum /\ wrapped ~> redeemed \/ rotated

(* What of it is safety.  How many answers a call awaits at most: two for  *)
(* a transaction, less where a flush takes several, and those of the reads *)
(* that come first.                                                        *)
Onward(n) == 2 * (Redeem - n) + (IF n = Ata THEN 2 ELSE 1)

AnswersLeft(c) ==
    CASE at[c] = "idle" -> 0
      [] at[c] = "confirm" -> Onward(to[c])
      [] at[c] = "send" -> Onward(to[c]) + 1
      [] at[c] = "config" -> 2 * Redeem + 1
      [] at[c] = "account" -> 2 * Redeem + 4
      [] at[c] = "wrapped" -> 2 * Redeem + 5
      [] at[c] = "blockhash" -> 2 * Redeem + 6

(* The answers are bounded by the number of transactions.                  *)
AnswersBounded == \A c \in Calls : AnswersLeft(c) \in 0..(2 * Last + 10)

(* An answer takes a call on to its next transaction or its end, and       *)
(* nothing else, whatever the chain and other calls do, takes it back: no  *)
(* transaction of a call is broadcast twice.                               *)
CallsAdvance ==
    [][\A c \in Calls : at[c] # "idle" =>
          /\ AnswersLeft(c)' <= AnswersLeft(c)
          /\ Resumes(c) => AnswersLeft(c)' < AnswersLeft(c)]_vars

-----------------------------------------------------------------------------
(* A statement of the repository that the code does not keep.              *)

(* "These signatures are passed through to the Secp256k1 program to verify *)
(* that the guardian public keys can be recovered": no verification of a   *)
(* guardian-signed VAA is refused while its blockhash is good.             *)
VerificationPasses(c) ==
    (/\ at[c] = "send" /\ to[c] \in 1..Last
     /\ ~expired[c] /\ faults' = faults) => result'[c] # "threw"

VerificationsPass == [][\A c \in Calls : VerificationPasses(c)]_vars
=============================================================================
