------------------------- MODULE SolanaRedeemProofs -------------------------
(***************************************************************************)
(* What holds of SolanaRedeem for any calls, VAAs and faults, and of its   *)
(* batches and scalars for any number of signatures and digits.            *)
(***************************************************************************)
EXTENDS SolanaRedeem, TLAPS, WellFoundedInduction, FiniteSetTheorems

USE DEF Ata, Post, Redeem, BatchSize

(* The batches: every signature is in exactly one.                         *)
LEMMA LastIsNat ==
  ASSUME SolanaAssumption, vaa \in Vaas
  PROVE  /\ Len(vaa.signatures) \in Nat /\ Len(vaa.signatures) > 0
         /\ Signatures = 1..Len(vaa.signatures)
         /\ Last \in Nat /\ Last > 0
         /\ 7 * (Last - 1) < Len(vaa.signatures) /\ Len(vaa.signatures) <= 7 * Last
<1>1. vaa.signatures \in Seq(Scalars) /\ vaa.signatures # <<>>
  BY DEF SolanaAssumption
<1>2. Len(vaa.signatures) \in Nat /\ Len(vaa.signatures) > 0
      /\ Signatures = 1..Len(vaa.signatures)
  BY <1>1 DEF Signatures
<1>3. ASSUME NEW n \in Nat, n > 0
      PROVE  /\ (n + 7 - 1) \div 7 \in Nat /\ (n + 7 - 1) \div 7 > 0
             /\ 7 * ((n + 7 - 1) \div 7 - 1) < n /\ n <= 7 * ((n + 7 - 1) \div 7)
  <2>1. PICK q \in Int : q = (n + 6) \div 7
    OBVIOUS
  <2>2. 7 * q <= n + 6 /\ n + 6 < 7 * q + 7
    BY <2>1
  <2>3. (n + 7 - 1) \div 7 = q
    BY <2>1
  <2> QED  BY <1>3, <2>2, <2>3
<1>4. Last = (Len(vaa.signatures) + 7 - 1) \div 7
  BY DEF Last
<1> QED  BY ONLY <1>2, <1>3, <1>4

(* Every guardian signature is verified, by one transaction.               *)
THEOREM BatchesPartition ==
  ASSUME SolanaAssumption, vaa \in Vaas
  PROVE  /\ \A j \in Signatures : \E n \in 1..Last :
               j \in Batch(n) /\ \A m \in 1..Last : j \in Batch(m) => m = n
         /\ \A n \in 1..Last : Batch(n) \subseteq Signatures /\ Batch(n) # {}
<1>1. /\ Len(vaa.signatures) \in Nat /\ Signatures = 1..Len(vaa.signatures)
      /\ Last \in Nat
      /\ 7 * (Last - 1) < Len(vaa.signatures) /\ Len(vaa.signatures) <= 7 * Last
  BY LastIsNat
<1>2. ASSUME NEW j \in Signatures
      PROVE  \E n \in 1..Last : j \in Batch(n) /\ \A m \in 1..Last : j \in Batch(m) => m = n
  <2> DEFINE n == (j + 6) \div 7
  <2>1. j \in Nat /\ j >= 1 /\ j <= Len(vaa.signatures)
    BY <1>1
  <2>2. n \in 1..Last
    BY ONLY <1>1, <2>1 DEF n
  <2>3. j \in Batch(n)
    BY <2>1 DEF Batch
  <2>4. ASSUME NEW m \in 1..Last, j \in Batch(m) PROVE m = n
    BY <1>1, <2>1, <2>4 DEF Batch
  <2> QED  BY <2>2, <2>3, <2>4
<1>3. ASSUME NEW n \in 1..Last PROVE Batch(n) # {}
  <2> DEFINE j == (n - 1) * 7 + 1
  <2>1. j \in Nat /\ j >= 1 /\ j <= Len(vaa.signatures)
    BY ONLY <1>1 DEF j
  <2>2. j \in Batch(n)
    BY <1>1, <2>1 DEF Batch
  <2> QED  BY <2>2
<1> QED  BY <1>2, <1>3 DEF Batch

(* "There are at most three pairs of instructions created."                *)
THEOREM AtMostThreePairs ==
  ASSUME SolanaAssumption, vaa \in Vaas, Len(vaa.signatures) <= 19
  PROVE  Last <= 3
  BY LastIsNat

-----------------------------------------------------------------------------
(* The scalars.                                                            *)

(* A scalar that is not zero has a first digit that is not zero.           *)
LEMMA ZerosOfScalar ==
  ASSUME SolanaAssumption, NEW r \in Scalars, NEW i \in 1..Digits, r[i] # 0
  PROVE  /\ Zeros(r) \in 0..(Digits - 1)
         /\ \A k \in 1..Zeros(r) : r[k] = 0
         /\ r[Zeros(r) + 1] # 0
<1>1. Digits \in Nat
  BY DEF SolanaAssumption
<1> DEFINE T == {k \in 1..Digits : r[k] # 0}
<1>2. T \subseteq Nat /\ T # {}
  BY <1>1
<1>3. PICK x \in T : \A y \in T : ~(<<y, x>> \in OpToRel(<, Nat))
  BY <1>2, NatLessThanWellFounded, WFMin
<1>4. x \in 1..Digits /\ r[x] # 0 /\ \A y \in 1..Digits : r[y] # 0 => y >= x
  <2>1. \A y \in T : ~(y < x)
    BY <1>2, <1>3 DEF OpToRel
  <2> QED  BY <1>1, <2>1
<1>5. \A k \in 1..(x - 1) : r[k] = 0
  BY <1>1, <1>4
<1>6. \E z \in 0..Digits : (\A k \in 1..z : r[k] = 0) /\ (z < Digits => r[z + 1] # 0)
  <2>1. x - 1 \in 0..Digits /\ r[(x - 1) + 1] # 0
    BY <1>1, <1>4
  <2> QED  BY ONLY <1>5, <2>1
<1>7. /\ Zeros(r) \in 0..Digits
      /\ \A k \in 1..Zeros(r) : r[k] = 0
      /\ Zeros(r) < Digits => r[Zeros(r) + 1] # 0
  BY <1>6 DEF Zeros
<1>8. Zeros(r) # Digits
  BY <1>7
<1> QED  BY <1>1, <1>7, <1>8

(* A scalar whose first digit is not zero arrives as it is.                *)
THEOREM WholeScalarsArrive ==
  ASSUME SolanaAssumption, NEW r \in Scalars, r[1] # 0
  PROVE  Wire(r) = r
<1>1. Digits \in Nat /\ Digits > 0 /\ Digits % 2 = 0
  BY DEF SolanaAssumption
<1>2. Zeros(r) = 0
  BY <1>1, ZerosOfScalar
<1>3. 2 * ((Digits - 0) \div 2) = Digits
  BY <1>1
<1>4. Wire(r) = [i \in 1..Digits |-> r[i]]
  BY <1>1, <1>2, <1>3 DEF Wire
<1> QED  BY <1>4 DEF Scalars

(* Any other scalar, except zero, arrives changed.                         *)
THEOREM ShortScalarsDoNot ==
  ASSUME SolanaAssumption, NEW r \in Scalars, r[1] = 0, NEW i \in 1..Digits, r[i] # 0
  PROVE  Wire(r) # r
<1>1. Digits \in Nat /\ Digits > 0
  BY DEF SolanaAssumption
<1>2. /\ Zeros(r) \in 0..(Digits - 1)
      /\ \A k \in 1..Zeros(r) : r[k] = 0
      /\ r[Zeros(r) + 1] # 0
  BY ZerosOfScalar
<1>3. Zeros(r) > 0
  BY <1>2
<1> DEFINE kept == 2 * ((Digits - Zeros(r)) \div 2)
<1>4. Wire(r) = [k \in 1..Digits |-> IF k <= kept THEN r[Zeros(r) + k] ELSE 0]
  BY DEF Wire
<1>5. CASE kept >= 1
  <2>1. Wire(r)[1] = r[Zeros(r) + 1]
    BY <1>1, <1>4, <1>5
  <2> QED  BY <1>2, <2>1
<1>6. CASE kept < 1
  <2>1. Wire(r)[Zeros(r) + 1] = 0
    BY <1>1, <1>2, <1>3, <1>4, <1>6
  <2> QED  BY <1>2, <2>1
<1>7. kept \in Int
  BY <1>1, <1>2
<1> QED  BY <1>5, <1>6, <1>7

-----------------------------------------------------------------------------
(* The inductive invariant.                                                *)

CallTypes ==
    /\ at \in [Calls -> Ats]
    /\ to \in [Calls -> 0..Redeem]
    /\ upto \in [Calls -> 0..Redeem]
    /\ expired \in [Calls -> BOOLEAN]
    /\ result \in [Calls -> {"none", "returned", "threw"}]

ChainTypes ==
    /\ pool \subseteq Txs
    /\ landed \subseteq Txs
    /\ account \in BOOLEAN
    /\ posted \in BOOLEAN
    /\ redeemed \in BOOLEAN
    /\ rotated \in BOOLEAN
    /\ wrapped \in BOOLEAN
    /\ vaa.native => ~wrapped

Ordered == \A c \in Calls : to[c] <= upto[c]

LEMMA Parts ==
  IInv <=> /\ vaa \in Vaas
           /\ CallTypes
           /\ faults \in 0..MaxFaults
           /\ overlapped \in BOOLEAN
           /\ ChainTypes
           /\ Ordered
           /\ RedeemSafe
           /\ ReturnMeansRedeemed
  BY DEF IInv, TypeOK, CallTypes, ChainTypes, Ordered

LEMMA InitInvariant == ASSUME SolanaAssumption, Init PROVE IInv
<1>1. Last \in Nat
  BY LastIsNat DEF Init
<1>2. CallTypes /\ Ordered /\ ReturnMeansRedeemed
  BY <1>1 DEF Init, CallTypes, Ats, Ordered, ReturnMeansRedeemed
<1>3. ChainTypes /\ RedeemSafe
  BY DEF Init, ChainTypes, RedeemSafe
<1>4. faults \in 0..MaxFaults
  BY DEF Init, SolanaAssumption
<1>5. overlapped \in BOOLEAN /\ vaa \in Vaas
  BY DEF Init
<1> QED  BY <1>2, <1>3, <1>4, <1>5, Parts

(* The end of a call.                                                      *)
LEMMA Ended ==
  ASSUME CallTypes, Ordered, Last \in Nat, NEW c \in Calls, NEW how \in {"returned", "threw"},
         Ends(c, how), vaa' = vaa, ReturnMeansRedeemed, redeemed' = redeemed,
         how = "returned" => redeemed
  PROVE  CallTypes' /\ Ordered' /\ ReturnMeansRedeemed'
<1>1. Last' = Last
  BY DEF Last
<1>2. CallTypes'
  BY <1>1 DEF CallTypes, Ends, Ats
<1>3. Ordered'
  BY DEF CallTypes, Ordered, Ends
<1>4. ReturnMeansRedeemed'
  BY DEF CallTypes, ReturnMeansRedeemed, Ends
<1> QED  BY <1>2, <1>3, <1>4

(* A call goes on to another await, perhaps with a buffer.                 *)
LEMMA Continued ==
  ASSUME CallTypes, Ordered, Last \in Nat, NEW c \in Calls, NEW where \in Ats,
         NEW n \in 0..Redeem,
         Await(c, where) \/ Flush(c, n), vaa' = vaa, ReturnMeansRedeemed, redeemed' = redeemed
  PROVE  CallTypes' /\ Ordered' /\ ReturnMeansRedeemed'
<1>1. Last' = Last
  BY DEF Last
<1>2. CASE Await(c, where)
  BY <1>1, <1>2 DEF CallTypes, Await, Ordered, ReturnMeansRedeemed
<1>3. CASE Flush(c, n)
  <2>1. FlushEnd(n) \in 0..Redeem /\ n <= FlushEnd(n)
    BY DEF FlushEnd
  <2>2. CallTypes'
    BY <1>1, <1>3, <2>1 DEF CallTypes, Flush, Ats
  <2>3. Ordered'
    BY <1>3, <2>1 DEF CallTypes, Ordered, Flush
  <2>4. ReturnMeansRedeemed'
    BY <1>3 DEF ReturnMeansRedeemed, Flush
  <2> QED  BY <2>2, <2>3, <2>4
<1> QED  BY <1>2, <1>3

LEMMA StepInvariant == ASSUME SolanaAssumption, IInv, [Next]_vars PROVE IInv'
<1>1. /\ vaa \in Vaas /\ CallTypes /\ faults \in 0..MaxFaults /\ overlapped \in BOOLEAN
      /\ ChainTypes /\ Ordered /\ RedeemSafe /\ ReturnMeansRedeemed
      /\ MaxFaults \in Nat /\ 0 \notin Calls
  BY Parts DEF SolanaAssumption
<1>2. Last \in Nat
  BY <1>1, LastIsNat
<1>3. ASSUME vaa' = vaa PROVE Last' = Last
  BY <1>3 DEF Last
<1>4. ASSUME vaa' = vaa, UNCHANGED chainVars PROVE ChainTypes' /\ RedeemSafe'
  BY <1>1, <1>3, <1>4 DEF ChainTypes, Txs, RedeemSafe, chainVars
<1>5. ASSUME NEW c \in Calls,
             \/ GetBlockhash(c)
             \/ RefuseNative(c)
             \/ WrappedFound(c)
             \/ NotWrapped(c)
             \/ ReadAccount(c)
             \/ ReadConfig(c)
             \/ RefuseGuardians(c)
             \/ BroadcastRefused(c)
             \/ Confirm(c)
             \/ ConfirmTimesOut(c)
             \/ Rejects(c)
      PROVE  IInv'
  <2>1. vaa' = vaa /\ UNCHANGED <<overlapped, chainVars>> /\ faults' \in 0..MaxFaults
    BY <1>1, <1>5 DEF GetBlockhash, RefuseNative, WrappedFound, NotWrapped, ReadAccount,
       ReadConfig, RefuseGuardians, BroadcastRefused, Confirm, ConfirmTimesOut, Rejects, Fault,
       histVars
  <2>2. redeemed' = redeemed
    BY <2>1 DEF chainVars
  <2>3. CASE Ends(c, "threw")
    BY <1>1, <1>2, <1>4, <2>1, <2>2, <2>3, Ended, Parts
       DEF IInv, TypeOK, CallTypes, ChainTypes, Ordered
  <2>4. CASE Confirm(c) /\ Ends(c, "returned")
    <3>1. upto[c] = Redeem
      BY <1>1, <2>4 DEF Confirm, Ends, Await, Flush, CallTypes, Ats
    <3>2. redeemed
      BY <1>1, <2>4, <3>1 DEF Confirm, RedeemSafe, Tx
    <3> QED  BY <1>1, <1>2, <1>4, <2>1, <2>2, <2>4, <3>2, Ended
                DEF IInv, TypeOK, CallTypes, ChainTypes, Ordered
  <2>5. CASE \E where \in Ats, n \in 0..Redeem : Await(c, where) \/ Flush(c, n)
    BY <1>1, <1>2, <1>4, <2>1, <2>2, <2>5, Continued
       DEF IInv, TypeOK, CallTypes, ChainTypes, Ordered
  <2>6. upto[c] = Redeem \/ upto[c] + 1 \in 0..Redeem
    <3>1. upto[c] \in 0..Redeem
      BY <1>1 DEF CallTypes
    <3> QED  BY <1>2, <3>1
  <2>7. 0 \in 0..Redeem /\ 1 \in 0..Redeem
      /\ "wrapped" \in Ats /\ "account" \in Ats /\ "config" \in Ats
    BY <1>2 DEF Ats
  <2> QED  BY <1>5, <2>3, <2>4, <2>5, <2>6, <2>7
           DEF GetBlockhash, RefuseNative, WrappedFound, NotWrapped, ReadAccount, ReadConfig,
               RefuseGuardians, BroadcastRefused, Confirm, ConfirmTimesOut, Rejects
<1>6. ASSUME NEW c \in Calls, Begin(c) PROVE IInv'
  <2>1. /\ vaa' = vaa /\ UNCHANGED <<to, upto, expired, faults, account, posted, redeemed>>
        /\ UNCHANGED <<rotated, wrapped>>
        /\ at' = [at EXCEPT ![c] = "blockhash"] /\ result' = [result EXCEPT ![c] = "none"]
    BY <1>6 DEF Begin
  <2>2. overlapped' \in BOOLEAN
    BY <1>6 DEF Begin
  <2>3. CallTypes' /\ Ordered' /\ ReturnMeansRedeemed'
    BY <1>1, <1>3, <2>1 DEF CallTypes, Ats, Ordered, ReturnMeansRedeemed
  <2>4. /\ pool' = {t \in pool : t.call # c} \union
                   {Tx(0, n) : n \in {k \in {Ata, Post, Redeem} : Tx(c, k) \in pool}}
        /\ landed' = {t \in landed : t.call # c /\ t.call # 0}
    BY <1>6 DEF Begin
  <2>5. landed' \subseteq landed
        /\ \A t \in pool' : t \in pool \/ \E k \in {Ata, Post, Redeem} :
                                             t = Tx(0, k) /\ Tx(c, k) \in pool
    BY <2>4
  <2>6. ChainTypes'
    <3>1. \A k \in {Ata, Post, Redeem} : Tx(0, k) \in Txs
      BY <1>2 DEF Tx, Txs
    <3> QED  BY <1>1, <1>3, <2>1, <2>5, <3>1 DEF ChainTypes, Txs
  <2>7. RedeemSafe'
    BY <1>1, <1>3, <2>1, <2>5 DEF RedeemSafe, Tx
  <2> QED  BY <1>1, <2>1, <2>2, <2>3, <2>6, <2>7
           DEF IInv, TypeOK, CallTypes, ChainTypes, Ordered
<1>7. ASSUME NEW c \in Calls, Broadcast(c) PROVE IInv'
  <2>1. /\ at[c] = "send" /\ Succeeds(c, to[c])
        /\ pool' = pool \union {Tx(c, to[c])}
        /\ at' = [at EXCEPT ![c] = IF to[c] = upto[c] THEN "confirm" ELSE "send"]
        /\ to' = [to EXCEPT ![c] = IF to[c] = upto[c] THEN to[c] ELSE to[c] + 1]
        /\ UNCHANGED <<vaa, upto, expired, result, histVars, landed, account, posted, redeemed,
                       rotated, wrapped>>
    BY <1>7 DEF Broadcast
  <2>2. /\ to[c] \in 0..Redeem /\ upto[c] \in 0..Redeem /\ to[c] <= upto[c]
        /\ Tx(c, to[c]) \in Txs
    BY <1>1 DEF CallTypes, Ordered, Tx, Txs
  <2>3. CallTypes' /\ Ordered'
    BY <1>1, <1>2, <1>3, <2>1, <2>2 DEF CallTypes, Ats, Ordered
  <2>4. ChainTypes'
    BY <1>1, <1>3, <2>1, <2>2 DEF ChainTypes, Txs
  <2>5. to[c] = Redeem => posted /\ account
    BY <2>1 DEF Succeeds
  <2>6. RedeemSafe'
    BY <1>1, <1>3, <2>1, <2>5 DEF RedeemSafe, Tx
  <2>7. ReturnMeansRedeemed'
    BY <1>1, <2>1 DEF ReturnMeansRedeemed
  <2> QED  BY <1>1, <2>1, <2>3, <2>4, <2>6, <2>7
           DEF IInv, TypeOK, CallTypes, ChainTypes, Ordered, histVars
<1>8. ASSUME NEW c \in Calls, Expires(c) PROVE IInv'
  <2>1. /\ UNCHANGED <<vaa, at, to, upto, result, overlapped, landed, account, posted, redeemed,
                       rotated, wrapped>>
        /\ expired' = [expired EXCEPT ![c] = TRUE] /\ pool' \subseteq pool
        /\ faults' \in 0..MaxFaults
    BY <1>1, <1>8 DEF Expires, Fault
  <2>2. CallTypes' /\ Ordered' /\ ReturnMeansRedeemed'
    BY <1>1, <1>3, <2>1 DEF CallTypes, Ordered, ReturnMeansRedeemed
  <2>3. ChainTypes' /\ RedeemSafe'
    BY <1>1, <1>3, <2>1 DEF ChainTypes, Txs, RedeemSafe
  <2> QED  BY <1>1, <2>1, <2>2, <2>3 DEF IInv, TypeOK, CallTypes, ChainTypes, Ordered
<1>9. ASSUME NEW t \in pool, Lands(t) PROVE IInv'
  <2>1. /\ UNCHANGED <<vaa, callVars, overlapped, rotated, wrapped>> /\ faults' \in 0..MaxFaults
        /\ pool' \subseteq pool /\ landed' = landed \union {t}
        /\ account' = (account \/ t.n = Ata)
        /\ posted' = (posted \/ (t.n = Post /\ Succeeds(t.call, Post)))
        /\ redeemed' = (redeemed \/ (t.n = Redeem /\ Succeeds(t.call, Redeem)))
    BY <1>1, <1>9 DEF Lands, Fault
  <2>2. CallTypes' /\ Ordered'
    BY <1>1, <1>3, <2>1 DEF CallTypes, Ordered, callVars
  <2>3. account' \in BOOLEAN /\ posted' \in BOOLEAN /\ redeemed' \in BOOLEAN
    BY <2>1
  <2>4. /\ account => account'
        /\ posted => posted'
        /\ redeemed => redeemed'
    BY <2>1, Zenon
  <2>5. t.n = Redeem => posted /\ account /\ redeemed'
    <3> SUFFICES ASSUME t.n = Redeem PROVE posted /\ account /\ redeemed'
      OBVIOUS
    <3>1. posted /\ account
      BY <1>1 DEF RedeemSafe
    <3>2. ~redeemed => Succeeds(t.call, Redeem)
      BY <1>2, <3>1 DEF Succeeds
    <3> QED  BY <2>1, <3>1, <3>2, Zenon
  <2>6. ChainTypes'
    BY <1>1, <1>3, <2>1, <2>3 DEF ChainTypes, Txs
  <2>7. RedeemSafe'
    BY <1>1, <1>3, <2>1, <2>4, <2>5 DEF RedeemSafe
  <2>8. ReturnMeansRedeemed'
    BY <1>1, <2>1, <2>4 DEF ReturnMeansRedeemed, callVars
  <2> QED  BY <1>1, <2>1, <2>2, <2>6, <2>7, <2>8
           DEF IInv, TypeOK, CallTypes, ChainTypes, Ordered
<1>10. ASSUME NEW t \in pool, Lost(t) PROVE IInv'
  <2>1. /\ UNCHANGED <<vaa, callVars, overlapped, landed, account, posted, redeemed>>
        /\ UNCHANGED <<rotated, wrapped>>
        /\ pool' \subseteq pool /\ faults' \in 0..MaxFaults
    BY <1>1, <1>10 DEF Lost, Fault
  <2>2. CallTypes' /\ Ordered' /\ ReturnMeansRedeemed'
    BY <1>1, <1>3, <2>1 DEF CallTypes, Ordered, ReturnMeansRedeemed, callVars
  <2>3. ChainTypes' /\ RedeemSafe'
    BY <1>1, <1>3, <2>1 DEF ChainTypes, Txs, RedeemSafe
  <2> QED  BY <1>1, <2>1, <2>2, <2>3 DEF IInv, TypeOK, CallTypes, ChainTypes, Ordered
<1>11. CASE Rotate \/ Wrap \/ UNCHANGED vars
  <2>1. /\ UNCHANGED <<vaa, callVars, histVars, pool, landed, account, posted, redeemed>>
        /\ rotated' \in BOOLEAN /\ wrapped' \in BOOLEAN /\ (vaa.native => ~wrapped')
    <3>1. CASE Rotate
      BY <1>1, <3>1 DEF Rotate, ChainTypes
    <3>2. CASE Wrap
      BY <1>1, <3>2 DEF Wrap, ChainTypes
    <3>3. CASE UNCHANGED vars
      BY <1>1, <3>3 DEF vars, chainVars, ChainTypes
    <3> QED  BY <1>11, <3>1, <3>2, <3>3
  <2>2. CallTypes' /\ Ordered' /\ ReturnMeansRedeemed'
    BY <1>1, <1>3, <2>1 DEF CallTypes, Ordered, ReturnMeansRedeemed, callVars
  <2>3. ChainTypes' /\ RedeemSafe'
    BY <1>1, <1>3, <2>1 DEF ChainTypes, Txs, RedeemSafe
  <2> QED  BY <1>1, <2>1, <2>2, <2>3 DEF IInv, TypeOK, CallTypes, ChainTypes, Ordered, histVars
<1> QED  BY <1>5, <1>6, <1>7, <1>8, <1>9, <1>10, <1>11 DEF Next, Resumes

(* The inductive invariant, for any calls, VAAs and number of faults.      *)
THEOREM SolanaInvariant == Spec => []IInv
<1>1. SolanaAssumption /\ Init => IInv
  BY InitInvariant
<1>2. SolanaAssumption /\ IInv /\ [Next]_vars => IInv'
  BY StepInvariant
<1> QED  BY <1>1, <1>2, SolanaAssumption, PTL DEF Spec

(* A completeTransfer into Solana that returns means that the transfer is  *)
(* redeemed.                                                               *)
THEOREM ReturnedIsRedeemed == Spec => []ReturnMeansRedeemed
<1>1. IInv => ReturnMeansRedeemed
  BY DEF IInv
<1> QED  BY <1>1, SolanaInvariant, PTL

-----------------------------------------------------------------------------
(* Why a call throws.                                                      *)

LEMMA QuietTypes ==
  ASSUME SolanaAssumption, IInv
  PROVE  /\ Last \in Nat /\ Last > 0 /\ faults \in Nat /\ 0 \notin Calls
         /\ vaa \in Vaas /\ CallTypes /\ ChainTypes
         /\ \A c \in Calls : /\ to[c] \in 0..Redeem /\ upto[c] \in 0..Redeem
                             /\ to[c] <= upto[c]
  BY Parts, LastIsNat DEF SolanaAssumption, CallTypes, Ordered

LEMMA SameVaa ==
  ASSUME vaa' = vaa
  PROVE  /\ Last' = Last /\ Intact' = Intact /\ Quorum' = Quorum
         /\ Len(vaa.signatures)' = Len(vaa.signatures)
<1>1. Last' = Last /\ Quorum' = Quorum /\ Len(vaa.signatures)' = Len(vaa.signatures)
  BY DEF Last, Quorum
<1>2. \A n : Recovers(n)' = Recovers(n)
  BY DEF Recovers, Batch, Signatures
<1> QED  BY <1>1, <1>2 DEF Intact

(* A step after which nothing has gone wrong finds that nothing had.       *)
LEMMA QuietBefore ==
  ASSUME SolanaAssumption, IInv, [Next]_vars, Quiet'
  PROVE  Quiet /\ ~Fault /\ UNCHANGED <<vaa, faults, overlapped, rotated, redeemed>>
<1>1. faults' = 0 /\ ~overlapped' /\ ~rotated' /\ ~redeemed'
  BY DEF Quiet
<1>2. ~Fault
  BY <1>1, QuietTypes DEF Fault
<1>3. /\ overlapped \in BOOLEAN /\ overlapped' \in BOOLEAN
      /\ rotated \in BOOLEAN /\ rotated' \in BOOLEAN
      /\ redeemed \in BOOLEAN /\ redeemed' \in BOOLEAN
  BY StepInvariant, Parts DEF ChainTypes, IInv, TypeOK
<1>4. UNCHANGED <<vaa, faults>> /\ ~overlapped /\ ~rotated /\ ~redeemed
  <2>1. CASE \E c \in Calls : Resumes(c)
    BY <1>1, <2>1 DEF Resumes, GetBlockhash, RefuseNative, WrappedFound, NotWrapped,
       ReadAccount, ReadConfig, RefuseGuardians, Broadcast, BroadcastRefused, Confirm,
       ConfirmTimesOut, histVars, chainVars
  <2>2. CASE \E c \in Calls : Begin(c)
    <3>1. PICK c \in Calls : Begin(c)
      BY <2>2
    <3>2. /\ UNCHANGED <<vaa, faults, rotated, redeemed>>
          /\ overlapped' = (overlapped \/ ~Alone)
      BY <3>1 DEF Begin
    <3>3. ~overlapped
      BY <1>1, <3>2, Zenon
    <3> QED  BY <1>1, <3>2, <3>3
  <2>3. CASE \E c \in Calls : Rejects(c) \/ Expires(c)
    BY <1>2, <2>3 DEF Rejects, Expires
  <2>4. CASE \E t \in pool : Lands(t)
    <3>1. PICK t \in pool : Lands(t)
      BY <2>4
    <3>2. /\ UNCHANGED <<vaa, overlapped, rotated>>
          /\ redeemed' = (redeemed \/ (t.n = Redeem /\ Succeeds(t.call, Redeem)))
          /\ UNCHANGED faults \/ Fault
      BY <3>1 DEF Lands
    <3>3. ~redeemed
      BY <1>1, <3>2, Zenon
    <3> QED  BY <1>1, <1>2, <3>2, <3>3
  <2>5. CASE \E t \in pool : Lost(t)
    BY <1>2, <2>5 DEF Lost
  <2>6. CASE Rotate \/ Wrap \/ UNCHANGED vars
    BY <1>1, <2>6 DEF Rotate, Wrap, vars, histVars, chainVars
  <2> QED  BY <2>1, <2>2, <2>3, <2>4, <2>5, <2>6 DEF Next
<1>5. Quiet
  BY <1>1, <1>4, SameVaa DEF Quiet
<1> QED  BY <1>1, <1>2, <1>3, <1>4, <1>5

(* When every batch has been verified, every signature has.                *)
LEMMA AllVerified ==
  ASSUME SolanaAssumption, vaa \in Vaas, NEW c,
         \A n \in 1..Last : Tx(c, n) \in landed
  PROVE  Cardinality(Verified(c)) = Len(vaa.signatures)
<1>1. Verified(c) = Signatures
  BY BatchesPartition DEF Verified
<1>2. Signatures = 1..Len(vaa.signatures) /\ Len(vaa.signatures) \in Nat
      /\ Len(vaa.signatures) > 0
  BY LastIsNat
<1>3. Cardinality(1..Len(vaa.signatures)) = Len(vaa.signatures)
  BY <1>2, FS_Interval
<1> QED  BY <1>1, <1>2, <1>3

(* What the call broadcasts succeeds in the simulation.                    *)
LEMMA PlannedSucceeds ==
  ASSUME SolanaAssumption, IInv, Quiet, NEW c \in Calls, at[c] = "send", AsPlanned(c)
  PROVE  Succeeds(c, to[c])
<1>1. /\ Last \in Nat /\ Last > 0 /\ vaa \in Vaas /\ Quorum \in Int
      /\ to[c] \in 0..Redeem /\ upto[c] \in 0..Redeem /\ to[c] <= upto[c]
  <2>1. vaa.guardians \in Nat
    BY QuietTypes DEF SolanaAssumption
  <2>2. (vaa.guardians * 2) \div 3 + 1 \in Int
    BY <2>1
  <2> QED  BY <2>2, QuietTypes DEF Quorum
<1>2. to[c] = Ata => ~account
  BY <1>1 DEF AsPlanned
<1>3. to[c] \in 1..Last => Recovers(to[c])
  BY DEF Quiet, Intact
<1>4. to[c] = Post => Cardinality(Verified(c)) >= Quorum
  <2> SUFFICES ASSUME to[c] = Post PROVE Cardinality(Verified(c)) >= Quorum
    OBVIOUS
  <2>1. upto[c] > Last
    BY <1>1
  <2>2. Cardinality(Verified(c)) = Len(vaa.signatures)
    BY <1>1, <2>1, AllVerified DEF AsPlanned
  <2> QED  BY <2>2 DEF Quiet
<1>5. to[c] = Redeem => posted /\ account /\ ~redeemed
  <2> SUFFICES ASSUME to[c] = Redeem PROVE posted /\ account /\ ~redeemed
    OBVIOUS
  <2>1. upto[c] = Redeem /\ upto[c] # Ata
    BY <1>1
  <2> QED  BY <2>1 DEF AsPlanned, Quiet
<1> QED  BY <1>2, <1>3, <1>4, <1>5 DEF Succeeds

(* The call goes on without a word to the chain.                           *)
LEMMA QuietGoesOn ==
  ASSUME SolanaAssumption, IInv, QuietCalls, QuietChain, NEW c \in Calls, at[c] # "idle",
         NEW w, w # "idle", at' = [at EXCEPT ![c] = w],
         UNCHANGED <<vaa, result, expired, chainVars>>, AsPlanned(c)'
  PROVE  /\ QuietCalls' /\ QuietChain'
         /\ \A d \in Calls : at'[d] # "idle" => AsPlanned(d)'
<1>1. at \in [Calls -> Ats]
  BY QuietTypes DEF CallTypes
<1>2. \A d \in Calls : at'[d] # "idle" <=> d = c
  BY <1>1 DEF QuietCalls
<1>3. QuietCalls'
  <2>1. \A t \in pool \union landed : t.call \in Calls
    BY QuietTypes DEF ChainTypes, Txs, QuietCalls
  <2> QED  BY <1>1, <1>2, <2>1 DEF QuietCalls, chainVars
<1>4. QuietChain'
  BY SameVaa DEF QuietChain, chainVars
<1> QED  BY <1>2, <1>3, <1>4

LEMMA QuietResumes ==
  ASSUME SolanaAssumption, IInv, Quiet, QuietInv, NEW c \in Calls,
         Resumes(c), ~Broadcast(c), ~RefuseNative(c), ~NotWrapped(c), Quiet'
  PROVE  QuietInv'
<1>1. /\ Last \in Nat /\ Last > 0 /\ CallTypes /\ ChainTypes
      /\ to[c] \in 0..Redeem /\ upto[c] \in 0..Redeem /\ to[c] <= upto[c]
  BY QuietTypes
<1>2. /\ at[c] # "idle" /\ UNCHANGED <<vaa, histVars, chainVars>>
      /\ Last' = Last /\ account' = account /\ posted' = posted
      /\ \A n : Sent(c, n)' = Sent(c, n)
      /\ \A n : (Tx(c, n) \in landed)' = (Tx(c, n) \in landed)
  <2>1. at[c] # "idle" /\ UNCHANGED <<vaa, histVars, chainVars>>
    BY DEF Resumes, GetBlockhash, RefuseNative, WrappedFound, NotWrapped, ReadAccount,
       ReadConfig, RefuseGuardians, BroadcastRefused, Confirm, ConfirmTimesOut
  <2> QED  BY <2>1, SameVaa DEF chainVars, Sent, Tx
<1>3. QuietCalls /\ QuietChain /\ AsPlanned(c)
  BY <1>2 DEF QuietInv
<1>4. SUFFICES \E w \in Ats \ {"idle"} : /\ at' = [at EXCEPT ![c] = w]
                                         /\ UNCHANGED <<result, expired>>
                                         /\ AsPlanned(c)'
  BY <1>2, <1>3, QuietGoesOn DEF QuietInv
<1>5. CASE GetBlockhash(c) \/ WrappedFound(c)
  <2>1. PICK w \in {"wrapped", "account"} :
           /\ at[c] \in {"blockhash", "wrapped"} /\ at' = [at EXCEPT ![c] = w]
           /\ UNCHANGED <<to, upto, result, expired>>
    BY <1>5 DEF GetBlockhash, WrappedFound, Await
  <2>2. at'[c] \in {"wrapped", "account"}
    BY <1>1, <2>1 DEF CallTypes
  <2>3. AsPlanned(c)'
    BY <1>2, <1>3, <2>1, <2>2 DEF AsPlanned
  <2> QED  BY <2>1, <2>3 DEF Ats
<1>6. CASE ReadAccount(c) /\ account
  <2>1. at[c] = "account" /\ at' = [at EXCEPT ![c] = "config"]
        /\ UNCHANGED <<to, upto, result, expired>>
    BY <1>6 DEF ReadAccount, Await
  <2>2. at'[c] = "config"
    BY <1>1, <2>1 DEF CallTypes
  <2>3. AsPlanned(c)'
    BY <1>1, <1>2, <1>3, <1>6, <2>1, <2>2 DEF AsPlanned
  <2> QED  BY <2>1, <2>3 DEF Ats
<1>7. CASE ReadAccount(c) /\ ~account
  <2>1. /\ at[c] = "account" /\ at' = [at EXCEPT ![c] = "send"]
        /\ to' = [to EXCEPT ![c] = Ata] /\ upto' = [upto EXCEPT ![c] = FlushEnd(Ata)]
        /\ UNCHANGED <<result, expired>>
    BY <1>7 DEF ReadAccount, Flush
  <2>2. at'[c] = "send" /\ to'[c] = Ata /\ upto'[c] = Ata
    BY <1>1, <2>1 DEF CallTypes, FlushEnd
  <2>3. AsPlanned(c)'
    BY <1>1, <1>2, <1>3, <1>7, <2>1, <2>2 DEF AsPlanned
  <2> QED  BY <2>1, <2>3 DEF Ats
<1>8. CASE ReadConfig(c)
  <2>1. /\ at[c] = "config" /\ at' = [at EXCEPT ![c] = "send"]
        /\ to' = [to EXCEPT ![c] = 1] /\ upto' = [upto EXCEPT ![c] = FlushEnd(1)]
        /\ UNCHANGED <<result, expired>>
    BY <1>8 DEF ReadConfig, Flush
  <2>2. at'[c] = "send" /\ to'[c] = 1 /\ upto'[c] = Last
    BY <1>1, <2>1 DEF CallTypes, FlushEnd
  <2>3. AsPlanned(c)'
    BY <1>1, <1>2, <1>3, <2>1, <2>2 DEF AsPlanned
  <2> QED  BY <2>1, <2>3 DEF Ats
<1>9. ~RefuseGuardians(c)
  BY DEF RefuseGuardians, Quiet
<1>10. ~BroadcastRefused(c)
  BY <1>3, PlannedSucceeds DEF BroadcastRefused, QuietCalls
<1>11. ~ConfirmTimesOut(c)
  BY <1>3 DEF ConfirmTimesOut, AsPlanned, Sent
<1>12. CASE Confirm(c)
  <2>1. at[c] = "confirm" /\ Tx(c, upto[c]) \in landed
    BY <1>12 DEF Confirm
  <2>2. /\ upto[c] \in {Ata, Last, Post, Redeem}
        /\ \A n \in (upto[c] + 1)..Redeem : ~Sent(c, n)
        /\ to[c] = upto[c]
        /\ upto[c] # Ata => account
        /\ \A n \in 1..Last : n < to[c] => Sent(c, n)
        /\ upto[c] > Last => \A n \in 1..Last : Tx(c, n) \in landed
    BY <1>3, <2>1 DEF AsPlanned
  <2>3. upto[c] # Redeem
    BY <1>1, <2>1 DEF IInv, RedeemSafe, Quiet, Tx
  <2>4. CASE upto[c] = Ata
    <3>1. at' = [at EXCEPT ![c] = "config"] /\ UNCHANGED <<to, upto, result, expired>>
      BY <1>1, <1>12, <2>4 DEF Confirm, Await
    <3>2. at'[c] = "config"
      BY <1>1, <3>1 DEF CallTypes
    <3>3. account
      <4>1. Tx(c, upto[c]).n = upto[c]
        BY DEF Tx
      <4> QED  BY <1>3, <2>1, <2>4, <4>1, Zenon DEF QuietChain
    <3>4. AsPlanned(c)'
      BY <1>1, <1>2, <2>2, <2>4, <3>2, <3>3 DEF AsPlanned
    <3> QED  BY <3>1, <3>4 DEF Ats
  <2>5. CASE upto[c] \in {Last, Post}
    <3>1. /\ at' = [at EXCEPT ![c] = "send"]
          /\ to' = [to EXCEPT ![c] = upto[c] + 1]
          /\ upto' = [upto EXCEPT ![c] = FlushEnd(upto[c] + 1)]
          /\ UNCHANGED <<result, expired>>
      BY <1>1, <1>12, <2>3, <2>5 DEF Confirm, Flush
    <3>2. at'[c] = "send" /\ to'[c] = upto[c] + 1 /\ upto'[c] = upto[c] + 1
      BY <1>1, <2>5, <3>1 DEF CallTypes, FlushEnd
    <3>3. account
      BY <1>1, <2>2, <2>5
    <3>4. \A n \in 1..Last : Tx(c, n) \in landed
      <4>1. CASE upto[c] = Post
        BY <1>1, <2>2, <4>1
      <4>2. ASSUME upto[c] = Last, NEW n \in 1..Last PROVE Tx(c, n) \in landed
        <5>1. Sent(c, n)
          BY <1>1, <2>1, <2>2, <4>2 DEF Sent
        <5>2. Tx(c, n) \notin pool
          BY <1>1, <1>3, <2>1, <4>2 DEF QuietChain, Tx
        <5> QED  BY <5>1, <5>2 DEF Sent
      <4> QED  BY <2>5, <4>1, <4>2
    <3>5. upto[c] = Post => posted
      <4>1. Tx(c, upto[c]).n = upto[c]
        BY DEF Tx
      <4> QED  BY <1>3, <2>1, <4>1, Zenon DEF QuietChain
    <3>6. \A n \in 1..Last : Sent(c, n)
      BY <3>4 DEF Sent
    <3>7. upto[c] \in Nat /\ upto[c] >= Last /\ upto[c] + 1 \in {Post, Redeem}
      BY <1>1, <2>5
    <3>8. \A n \in (upto[c] + 2)..Redeem : ~Sent(c, n)
      BY <1>1, <2>2, <3>7
    <3>9. AsPlanned(c)'
      BY <1>1, <1>2, <2>2, <3>2, <3>3, <3>4, <3>5, <3>6, <3>7, <3>8 DEF AsPlanned
    <3> QED  BY <3>1, <3>9 DEF Ats
  <2> QED  BY <2>2, <2>3, <2>4, <2>5
<1> QED  BY <1>5, <1>6, <1>7, <1>8, <1>9, <1>10, <1>11, <1>12 DEF Resumes

(* A call that finds no mint ends without a trace.                         *)
LEMMA QuietEnds ==
  ASSUME SolanaAssumption, IInv, Quiet, QuietInv, NEW c \in Calls,
         RefuseNative(c) \/ NotWrapped(c)
  PROVE  QuietInv'
<1>1. CallTypes /\ ChainTypes /\ Last \in Nat
  BY QuietTypes
<1>2. /\ at[c] \in {"blockhash", "wrapped"}
      /\ at' = [at EXCEPT ![c] = "idle"] /\ expired' = [expired EXCEPT ![c] = FALSE]
      /\ UNCHANGED <<vaa, pool, landed, account, posted>>
  BY DEF RefuseNative, NotWrapped, Ends, chainVars
<1>3. QuietCalls /\ AsPlanned(c)
  BY <1>2 DEF QuietInv
<1>4. pool = {} /\ landed = {}
  <2>1. \A n \in 0..Redeem : ~Sent(c, n)
    BY <1>2, <1>3 DEF AsPlanned
  <2>2. ASSUME NEW t \in pool \union landed PROVE FALSE
    <3>1. t.call = c /\ t.n \in 0..Redeem /\ t = Tx(t.call, t.n)
      BY <1>1, <1>2, <1>3, <2>2 DEF ChainTypes, Txs, QuietCalls, Tx
    <3> QED  BY <2>1, <2>2, <3>1 DEF Sent
  <2> QED  BY <2>2
<1>5. \A d \in Calls : at'[d] = "idle" /\ ~expired'[d]
  BY <1>1, <1>2, <1>3 DEF CallTypes, QuietCalls
<1> QED  BY <1>2, <1>4, <1>5 DEF QuietInv, QuietCalls, QuietChain

LEMMA QuietBroadcasts ==
  ASSUME SolanaAssumption, IInv, Quiet, QuietInv, NEW c \in Calls, Broadcast(c), Quiet'
  PROVE  QuietInv'
<1>1. /\ Last \in Nat /\ Last > 0 /\ CallTypes /\ ChainTypes
      /\ to[c] \in 0..Redeem /\ upto[c] \in 0..Redeem /\ to[c] <= upto[c]
  BY QuietTypes
<1>2. /\ at[c] = "send"
      /\ pool' = pool \union {Tx(c, to[c])}
      /\ at' = [at EXCEPT ![c] = IF to[c] = upto[c] THEN "confirm" ELSE "send"]
      /\ to' = [to EXCEPT ![c] = IF to[c] = upto[c] THEN to[c] ELSE to[c] + 1]
      /\ UNCHANGED <<vaa, upto, expired, result, landed, account, posted>>
  BY DEF Broadcast
<1>3. QuietCalls /\ QuietChain /\ AsPlanned(c) /\ Last' = Last
  BY <1>2, SameVaa DEF QuietInv
<1>4. \A n : Sent(c, n)' <=> Sent(c, n) \/ n = to[c]
  BY <1>2 DEF Sent, Tx
<1>5. /\ at'[c] = IF to[c] = upto[c] THEN "confirm" ELSE "send"
      /\ to'[c] = IF to[c] = upto[c] THEN to[c] ELSE to[c] + 1
      /\ upto'[c] = upto[c]
      /\ \A d \in Calls : at'[d] # "idle" <=> d = c
  BY <1>1, <1>2, <1>3 DEF CallTypes, QuietCalls
<1>6. /\ \A n \in to[c]..Redeem : ~Sent(c, n)
      /\ upto[c] \in {Ata, Last, Post, Redeem}
      /\ \A n \in (upto[c] + 1)..Redeem : ~Sent(c, n)
      /\ upto[c] # Ata => account /\ to[c] # Ata
      /\ \A n \in 1..Last : n < to[c] => Sent(c, n)
      /\ upto[c] > Last => to[c] = upto[c] /\ \A n \in 1..Last : Tx(c, n) \in landed
      /\ upto[c] = Redeem => posted
  BY <1>2, <1>3 DEF AsPlanned
<1>7. (\A n \in 1..Last : Tx(c, n) \in landed) => (\A n \in 1..Last : Tx(c, n) \in landed)'
  BY <1>2, <1>3 DEF Tx
<1>8. AsPlanned(c)'
  <2>1. CASE to[c] = upto[c]
    BY <1>1, <1>2, <1>3, <1>4, <1>5, <1>6, <1>7, <2>1 DEF AsPlanned
  <2>2. CASE to[c] # upto[c]
    <3>1. to[c] + 1 <= upto[c] /\ to'[c] = to[c] + 1 /\ at'[c] = "send"
      BY <1>1, <1>5, <2>2
    <3>2. \A n \in (to[c] + 1)..Redeem : ~Sent(c, n)'
      BY <1>1, <1>4, <1>6
    <3>3. \A n \in (upto[c] + 1)..Redeem : ~Sent(c, n)'
      BY <1>1, <3>1, <3>2
    <3>4. upto[c] # Ata
      BY <1>1, <3>1
    <3>5. \A n \in 1..Last : n < to[c] + 1 => Sent(c, n)'
      BY <1>1, <1>4, <1>6
    <3>6. ~(upto[c] > Last)
      BY <1>6, <2>2
    <3> QED  BY <1>1, <1>2, <1>3, <1>5, <1>6, <3>1, <3>2, <3>3, <3>4, <3>5, <3>6 DEF AsPlanned
  <2> QED  BY <2>1, <2>2
<1>9. QuietCalls'
  <2>1. \A t \in pool' \union landed' : t.call \in Calls /\ (t.call = c \/ at[t.call] # "idle")
    BY <1>1, <1>2, <1>3 DEF ChainTypes, Txs, QuietCalls, Tx
  <2>2. 0 \notin Calls
    BY QuietTypes
  <2> QED  BY <1>1, <1>2, <1>3, <1>5, <2>1, <2>2 DEF QuietCalls, CallTypes
<1>10. QuietChain'
  <2>1. ASSUME NEW t \in landed, t.call = c PROVE t.n < to[c]
    <3>1. t.n \in 0..Redeem /\ t = Tx(c, t.n)
      BY <1>1, <2>1 DEF ChainTypes, Txs, Tx
    <3>2. Sent(c, t.n)
      BY <3>1 DEF Sent
    <3> QED  BY <1>1, <1>6, <3>1, <3>2
  <2> QED  BY <1>1, <1>2, <1>3, <2>1 DEF QuietChain, Tx
<1> QED  BY <1>5, <1>8, <1>9, <1>10 DEF QuietInv

LEMMA QuietBegins ==
  ASSUME SolanaAssumption, IInv, Quiet, QuietInv, NEW c \in Calls, Begin(c), Quiet'
  PROVE  QuietInv'
<1>1. CallTypes /\ ChainTypes /\ Last \in Nat
  BY QuietTypes
<1>2. Alone
  BY DEF Begin, Quiet
<1>3. pool = {} /\ landed = {} /\ QuietCalls
  <2>1. QuietCalls
    BY DEF QuietInv
  <2>2. ASSUME NEW t \in pool \union landed PROVE FALSE
    <3>1. t.call # 0 /\ at[t.call] # "idle"
      BY <2>1, <2>2 DEF QuietCalls
    <3>2. t.call \in Calls
      BY <1>1, <2>2, <3>1 DEF ChainTypes, Txs
    <3> QED  BY ONLY <1>2, <3>1, <3>2 DEF Alone
  <2> QED  BY ONLY <2>1, <2>2
<1>4. /\ pool' = {} /\ landed' = {} /\ at' = [at EXCEPT ![c] = "blockhash"]
      /\ result' = [result EXCEPT ![c] = "none"] /\ expired' = expired
  BY <1>3 DEF Begin
<1>5. \A d \in Calls : at'[d] = IF d = c THEN "blockhash" ELSE "idle"
  BY <1>1, <1>2, <1>4 DEF CallTypes, Alone
<1>6. QuietCalls' /\ QuietChain'
  BY <1>1, <1>3, <1>4, <1>5 DEF QuietCalls, QuietChain, CallTypes
<1>7. AsPlanned(c)'
  BY <1>4, <1>5 DEF AsPlanned, Sent
<1> QED  BY <1>5, <1>6, <1>7 DEF QuietInv

LEMMA QuietLands ==
  ASSUME SolanaAssumption, IInv, Quiet, QuietInv, NEW t \in pool, Lands(t), ~Fault, Quiet'
  PROVE  QuietInv'
<1>1. CallTypes /\ ChainTypes /\ Last \in Nat /\ Last > 0 /\ vaa \in Vaas
  BY QuietTypes
<1>2. QuietCalls /\ QuietChain
  BY DEF QuietInv
<1> DEFINE c == t.call
<1>3. c \in Calls /\ at[c] # "idle" /\ t.n \in 0..Redeem /\ t = Tx(c, t.n)
  BY <1>1, <1>2 DEF ChainTypes, Txs, QuietCalls, Tx
<1>4. AsPlanned(c) /\ Sent(c, t.n)
  BY <1>3 DEF QuietInv, Sent
<1>5. /\ \A u \in pool : u.call = c => u.n >= t.n
      /\ pool' = pool \ {t} /\ landed' = landed \union {t}
      /\ UNCHANGED <<vaa, callVars>>
      /\ account' = (account \/ t.n = Ata)
      /\ posted' = (posted \/ (t.n = Post /\ Succeeds(c, Post)))
  BY DEF Lands
<1>6. UNCHANGED <<at, to, upto, expired, result>> /\ Last' = Last
  BY <1>5, SameVaa DEF callVars
<1>7. /\ account => account'
      /\ t.n = Ata => account'
      /\ account' => account \/ t.n = Ata
      /\ posted => posted'
  BY <1>5, Zenon
<1>8. t.n = Post => posted'
  <2> SUFFICES ASSUME t.n = Post PROVE posted'
    OBVIOUS
  <2>1. upto[c] > Last /\ at[c] \in {"send", "confirm"}
    <3>1. upto[c] \in 0..Redeem /\ to[c] \in 0..Redeem /\ at[c] \in Ats
      BY <1>1, <1>3 DEF CallTypes
    <3>2. Post \in 0..Redeem /\ Post \in 1..Redeem
      BY <1>1
    <3>3. at[c] \in {"send", "confirm"}
      BY <1>3, <1>4, <3>1, <3>2 DEF AsPlanned, Ats
    <3>4. ~(Post \in (upto[c] + 1)..Redeem)
      BY <1>4, <3>3 DEF AsPlanned
    <3> QED  BY <1>1, <3>1, <3>3, <3>4
  <2>2. \A n \in 1..Last : Tx(c, n) \in landed
    BY <1>4, <2>1 DEF AsPlanned
  <2>3. Cardinality(Verified(c)) >= Quorum
    <3>1. Cardinality(Verified(c)) = Len(vaa.signatures)
      BY <1>1, <2>2, AllVerified
    <3> QED  BY <3>1 DEF Quiet
  <2>4. Succeeds(c, Post)
    BY <1>1, <2>3 DEF Succeeds
  <2> QED  BY <1>5, <2>4
<1>9. \A d, n : Sent(d, n)' = Sent(d, n)
  BY <1>5 DEF Sent, Tx
<1>10. QuietCalls'
  BY <1>2, <1>5, <1>6 DEF QuietCalls
<1>11. QuietChain'
  <2>1. ASSUME NEW u \in pool', u.call = c PROVE t.n < u.n
    <3>1. u \in pool /\ u # t /\ u.n >= t.n
      BY <1>5, <2>1
    <3>2. u.n \in 0..Redeem /\ u = Tx(c, u.n)
      BY <1>1, <2>1, <3>1 DEF ChainTypes, Txs, Tx
    <3>3. u.n # t.n
      BY <1>3, <3>1, <3>2
    <3> QED  BY <1>1, <1>3, <3>1, <3>2, <3>3
  <2>2. \A s \in landed', u \in pool' : s.call = u.call => s.n < u.n
    BY <1>2, <1>5, <2>1 DEF QuietChain
  <2>3. \A s \in landed' : (s.n = Ata => account') /\ (s.n = Post => posted')
    <3>1. \A s \in landed : (s.n = Ata => account) /\ (s.n = Post => posted)
      BY <1>2, Zenon DEF QuietChain
    <3>2. \A s \in landed' : s \in landed \/ s = t
      BY <1>5
    <3> QED  BY <1>7, <1>8, <3>1, <3>2, Zenon
  <2> QED  BY <1>6, <2>2, <2>3 DEF QuietChain
<1>12. ASSUME NEW d \in Calls, at[d] # "idle" PROVE AsPlanned(d)'
  <2>1. d = c
    BY <1>2, <1>3, <1>12 DEF QuietCalls
  <2>2. at[c] = "send" /\ upto[c] = Ata => t.n # Ata
    <3>1. to[c] \in 0..Redeem /\ upto[c] \in 0..Redeem /\ to[c] <= upto[c]
      BY <1>3, QuietTypes
    <3> QED  BY <1>1, <1>4, <3>1 DEF AsPlanned
  <2>3. (\A n \in 1..Last : Tx(c, n) \in landed) => (\A n \in 1..Last : Tx(c, n) \in landed')
    BY <1>5
  <2> HIDE DEF c
  <2>4. AsPlanned(c)'
    BY <1>4, <1>6, <1>7, <1>9, <2>2, <2>3 DEF AsPlanned, Tx
  <2> QED  BY <2>1, <2>4
<1> QED  BY <1>6, <1>10, <1>11, <1>12 DEF QuietInv

LEMMA QuietKeeps ==
  ASSUME SolanaAssumption, IInv, QuietInv, [Next]_vars PROVE QuietInv'
<1> SUFFICES ASSUME Quiet' PROVE QuietInv'
  BY DEF QuietInv
<1>1. Quiet /\ ~Fault /\ UNCHANGED <<vaa, faults, overlapped, rotated, redeemed>>
  BY QuietBefore
<1>2. CASE \E c \in Calls : Begin(c)
  BY <1>1, <1>2, QuietBegins
<1>3. CASE \E c \in Calls : Resumes(c)
  BY <1>1, <1>3, QuietResumes, QuietEnds, QuietBroadcasts
<1>4. CASE \E t \in pool : Lands(t)
  BY <1>1, <1>4, QuietLands
<1>5. ~Rotate
  BY <1>1 DEF Rotate
<1>9. CASE Wrap
  <2>1. /\ UNCHANGED <<at, to, upto, expired, result, pool, landed, account, posted>>
        /\ Last' = Last
    BY <1>1, <1>9, SameVaa DEF Wrap, callVars
  <2>2. QuietCalls' /\ QuietChain'
    BY <1>1, <2>1 DEF QuietInv, QuietCalls, QuietChain
  <2>3. \A c \in Calls : AsPlanned(c)' = AsPlanned(c)
    BY <2>1 DEF AsPlanned, Sent, Tx
  <2> QED  BY <1>1, <2>1, <2>2, <2>3 DEF QuietInv
<1>6. \A c \in Calls : ~Rejects(c) /\ ~Expires(c)
  BY <1>1 DEF Rejects, Expires
<1>7. \A t \in pool : ~Lost(t)
  BY <1>1 DEF Lost
<1>8. CASE UNCHANGED vars
  <2>1. UNCHANGED <<at, to, upto, expired, result, pool, landed, account, posted>> /\ Last' = Last
    BY <1>8, SameVaa DEF vars, callVars, chainVars
  <2>2. QuietCalls' /\ QuietChain'
    BY <1>1, <2>1 DEF QuietInv, QuietCalls, QuietChain
  <2>3. \A c \in Calls : AsPlanned(c)' = AsPlanned(c)
    BY <2>1 DEF AsPlanned, Sent, Tx
  <2> QED  BY <1>1, <2>1, <2>2, <2>3 DEF QuietInv
<1> QED  BY <1>2, <1>3, <1>4, <1>5, <1>6, <1>7, <1>8, <1>9 DEF Next

(* A completeTransfer into Solana throws only for a reason outside of it,  *)
(* or for want of a mint of the wrapped token.                             *)
THEOREM ThrowsOnlyForAReason == Spec => ThrowsForAReason
<1>1. SolanaAssumption /\ Init => IInv /\ QuietInv
  BY InitInvariant DEF Init, QuietInv, QuietCalls, QuietChain
<1>2. SolanaAssumption /\ IInv /\ QuietInv /\ [Next]_vars => IInv' /\ QuietInv'
  BY StepInvariant, QuietKeeps
<1>3. ASSUME SolanaAssumption, IInv, QuietInv, [Next]_vars, NEW c \in Calls,
             at[c] # "idle", at'[c] = "idle", result'[c] = "threw",
             Quiet, ~(faults' > 0)
      PROVE  ~wrapped
  <2>1. CallTypes /\ AsPlanned(c) /\ (vaa.native => ~wrapped)
    BY <1>3, QuietTypes DEF QuietInv, IInv
  <2>2. ~Fault
    BY <1>3 DEF Quiet, Fault
  <2>3. ASSUME NEW d \in Calls, Begin(d) PROVE FALSE
    BY <1>3, <2>1, <2>3 DEF Begin, CallTypes
  <2>4. ASSUME NEW d \in Calls, d # c, Resumes(d) PROVE FALSE
    BY <1>3, <2>1, <2>4 DEF Resumes, GetBlockhash, RefuseNative, WrappedFound, NotWrapped,
       ReadAccount, ReadConfig, RefuseGuardians, Broadcast, BroadcastRefused, Confirm,
       ConfirmTimesOut, Ends, Await, Flush, CallTypes
  <2>5. ASSUME Resumes(c) PROVE ~wrapped
    <3>1. ~RefuseGuardians(c)
      BY <1>3 DEF RefuseGuardians, Quiet
    <3>2. ~BroadcastRefused(c)
      BY <1>3, <2>1, PlannedSucceeds DEF BroadcastRefused, QuietInv, QuietCalls
    <3>3. ~ConfirmTimesOut(c)
      BY <2>1 DEF ConfirmTimesOut, AsPlanned, Sent
    <3>4. RefuseNative(c) \/ NotWrapped(c)
      BY <1>3, <2>1, <2>5, <3>1, <3>2, <3>3 DEF Resumes, GetBlockhash, WrappedFound,
         ReadAccount, ReadConfig, Broadcast, Confirm, Ends, Await, Flush, CallTypes
    <3> QED  BY <2>1, <3>4 DEF RefuseNative, NotWrapped
  <2>6. \A d \in Calls : ~Rejects(d) /\ ~Expires(d)
    BY <2>2 DEF Rejects, Expires
  <2>7. ASSUME NEW t \in pool, Lands(t) \/ Lost(t) PROVE FALSE
    BY <1>3, <2>7 DEF Lands, Lost, callVars
  <2>8. CASE Rotate \/ Wrap \/ UNCHANGED vars
    BY <1>3, <2>8 DEF Rotate, Wrap, vars, callVars
  <2> QED  BY <1>3, <2>3, <2>4, <2>5, <2>6, <2>7, <2>8 DEF Next
<1>4. SolanaAssumption /\ IInv /\ QuietInv /\ [Next]_vars
        => [\A c \in Calls : (at[c] # "idle" /\ at'[c] = "idle" /\ result'[c] = "threw")
                                => ~Quiet \/ faults' > 0 \/ ~wrapped]_vars
  BY <1>3
<1> QED  BY <1>1, <1>2, <1>4, SolanaAssumption, PTL DEF Spec, ThrowsForAReason

-----------------------------------------------------------------------------
(* Which VAAs can be redeemed.                                             *)

(* Zero itself, which is no scalar of a signature, arrives as it is.       *)
LEMMA ZeroArrives ==
  ASSUME SolanaAssumption, NEW r \in Scalars, \A i \in 1..Digits : r[i] = 0
  PROVE  Wire(r) = r
<1>1. Digits \in Nat /\ Digits > 0
  BY DEF SolanaAssumption
<1>2. \E z \in 0..Digits : (\A k \in 1..z : r[k] = 0) /\ (z < Digits => r[z + 1] # 0)
  BY <1>1
<1>3. Zeros(r) \in 0..Digits /\ (Zeros(r) < Digits => r[Zeros(r) + 1] # 0)
  BY <1>2 DEF Zeros
<1>4. Zeros(r) = Digits
  BY <1>1, <1>3
<1>5. Wire(r) = [k \in 1..Digits |-> 0]
  BY <1>1, <1>4 DEF Wire
<1> QED  BY <1>5 DEF Scalars

(* A VAA arrives as it was signed exactly if none of its signatures has a  *)
(* scalar that begins with a zero.                                         *)
THEOREM IntactIsNoneShort ==
  ASSUME SolanaAssumption, vaa \in Vaas
  PROVE  Intact <=> \A j \in Signatures : \/ vaa.signatures[j][1] # 0
                                          \/ \A i \in 1..Digits : vaa.signatures[j][i] = 0
<1>1. Intact <=> \A j \in Signatures : Wire(vaa.signatures[j]) = vaa.signatures[j]
  BY BatchesPartition DEF Intact, Recovers
<1>2. ASSUME NEW j \in Signatures
      PROVE  Wire(vaa.signatures[j]) = vaa.signatures[j] <=>
                \/ vaa.signatures[j][1] # 0
                \/ \A i \in 1..Digits : vaa.signatures[j][i] = 0
  <2>1. vaa.signatures[j] \in Scalars
    BY DEF SolanaAssumption, Signatures
  <2> QED  BY <2>1, WholeScalarsArrive, ShortScalarsDoNot, ZeroArrives
<1> QED  BY <1>1, <1>2

LEMMA SameBatches ==
  ASSUME vaa' = vaa
  PROVE  /\ Last' = Last /\ Intact' = Intact
         /\ \A n : Recovers(n)' = Recovers(n)
<1>1. \A n : Recovers(n)' = Recovers(n)
  BY DEF Recovers, Batch, Signatures
<1> QED  BY <1>1, SameVaa

(* A step that a call takes leaves the others where they are.              *)
LEMMA SeenByOthers ==
  ASSUME SolanaAssumption, vaa' = vaa, NEW c \in Calls, SeenByCall(c)',
         \A d \in Calls : SeenByCall(d),
         \A d \in Calls \ {c} : /\ at'[d] = at[d] /\ to'[d] = to[d]
                                /\ upto'[d] = upto[d] /\ result'[d] = result[d]
  PROVE  \A d \in Calls : SeenByCall(d)'
<1>1. ASSUME NEW d \in Calls \ {c} PROVE SeenByCall(d)'
  BY <1>1, SameBatches DEF SeenByCall
<1> QED  BY <1>1

(* A call turns to the transactions from n on.                             *)
LEMMA SeenByFlush ==
  ASSUME SolanaAssumption, IInv, vaa' = vaa, NEW c \in Calls, NEW n \in {Ata, 1, Post, Redeem},
         at[c] # "idle", Flush(c, n), \A d \in Calls : SeenByCall(d),
         n > Last => Intact
  PROVE  \A d \in Calls : SeenByCall(d)'
<1>1. CallTypes /\ Last \in Nat /\ Last > 0
  BY QuietTypes
<1>2. /\ at' = [at EXCEPT ![c] = "send"]
      /\ to' = [to EXCEPT ![c] = n]
      /\ upto' = [upto EXCEPT ![c] = FlushEnd(n)]
      /\ result' = result
  BY DEF Flush
<1>3. at'[c] = "send" /\ to'[c] = n /\ upto'[c] = FlushEnd(n) /\ result'[c] = "none"
  BY <1>1, <1>2 DEF CallTypes, SeenByCall
<1>4. FlushEnd(n) \in {Ata, Last, Post, Redeem}
  BY <1>1 DEF FlushEnd
<1>5. \A k \in 1..Last : k < n => Recovers(k)
  BY <1>1 DEF Intact
<1>6. SeenByCall(c)'
  BY <1>3, <1>4, <1>5, SameBatches DEF SeenByCall
<1> QED  BY <1>1, <1>2, <1>6, SeenByOthers DEF CallTypes

LEMMA SeenByResumes ==
  ASSUME SolanaAssumption, IInv, SeenWhole, NEW c \in Calls, Resumes(c), ~Broadcast(c)
  PROVE  \A d \in Calls : SeenByCall(d)'
<1>1. CallTypes /\ Last \in Nat /\ Last > 0 /\ vaa' = vaa
  BY QuietTypes DEF Resumes, GetBlockhash, RefuseNative, WrappedFound, NotWrapped, ReadAccount,
     ReadConfig, RefuseGuardians, BroadcastRefused, Confirm, ConfirmTimesOut
<1>2. at[c] # "idle" /\ SeenByCall(c) /\ \A d \in Calls : SeenByCall(d)
  BY DEF Resumes, GetBlockhash, RefuseNative, WrappedFound, NotWrapped, ReadAccount, ReadConfig,
     RefuseGuardians, Broadcast, BroadcastRefused, Confirm, ConfirmTimesOut, SeenWhole
<1>3. CASE \E how \in {"returned", "threw"} : Ends(c, how)
  <2>1. SeenByCall(c)'
    BY <1>1, <1>3 DEF Ends, SeenByCall, CallTypes
  <2> QED  BY <1>1, <1>2, <1>3, <2>1, SeenByOthers DEF Ends, CallTypes
<1>4. CASE \E where \in {"wrapped", "account", "config"} : Await(c, where)
  <2>1. SeenByCall(c)'
    BY <1>1, <1>2, <1>4 DEF Await, SeenByCall, CallTypes
  <2> QED  BY <1>1, <1>2, <1>4, <2>1, SeenByOthers DEF Await, CallTypes
<1>5. ASSUME NEW n \in {Ata, 1}, Flush(c, n) PROVE \A d \in Calls : SeenByCall(d)'
  <2>1. n \in {Ata, 1, Post, Redeem} /\ ~(n > Last)
    BY <1>1
  <2> QED  BY <1>1, <1>2, <1>5, <2>1, SeenByFlush
<1>6. CASE Confirm(c) /\ upto[c] \notin {Ata, Redeem} /\ Flush(c, upto[c] + 1)
  <2>1. at[c] = "confirm"
    BY <1>6 DEF Confirm
  <2>2. /\ upto[c] \in {Last, Post} /\ to[c] = upto[c]
        /\ \A n \in 1..Last : n < to[c] => Recovers(n)
        /\ to[c] = Last => Recovers(Last)
    BY <1>2, <1>6, <2>1 DEF SeenByCall
  <2>3. Intact /\ upto[c] + 1 \in {Post, Redeem}
    BY <1>1, <2>2 DEF Intact
  <2> QED  BY <1>1, <1>2, <1>6, <2>3, SeenByFlush
<1> QED  BY <1>3, <1>4, <1>5, <1>6 DEF Resumes, GetBlockhash, RefuseNative, WrappedFound,
            NotWrapped, ReadAccount, ReadConfig, RefuseGuardians, BroadcastRefused, Confirm,
            ConfirmTimesOut

LEMMA SeenByBroadcast ==
  ASSUME SolanaAssumption, IInv, SeenWhole, NEW c \in Calls, Broadcast(c)
  PROVE  SeenWhole'
<1>1. /\ CallTypes /\ Last \in Nat /\ Last > 0
      /\ to[c] \in 0..Redeem /\ upto[c] \in 0..Redeem /\ to[c] <= upto[c]
  BY QuietTypes
<1>2. /\ at[c] = "send" /\ Succeeds(c, to[c])
      /\ pool' = pool \union {Tx(c, to[c])}
      /\ at' = [at EXCEPT ![c] = IF to[c] = upto[c] THEN "confirm" ELSE "send"]
      /\ to' = [to EXCEPT ![c] = IF to[c] = upto[c] THEN to[c] ELSE to[c] + 1]
      /\ UNCHANGED <<vaa, upto, result, landed, redeemed>>
  BY DEF Broadcast
<1>3. /\ at'[c] = IF to[c] = upto[c] THEN "confirm" ELSE "send"
      /\ to'[c] = IF to[c] = upto[c] THEN to[c] ELSE to[c] + 1
      /\ upto'[c] = upto[c] /\ result'[c] = "none"
  BY <1>1, <1>2 DEF CallTypes, SeenWhole, SeenByCall
<1>4. /\ upto[c] \in {Ata, Last, Post, Redeem}
      /\ \A n \in 1..Last : n < to[c] => Recovers(n)
      /\ to[c] \in 1..Last => Recovers(to[c])
  BY <1>2 DEF SeenWhole, SeenByCall, Succeeds
<1>5. SeenByCall(c)'
  <2>1. CASE to[c] = upto[c]
    BY <1>1, <1>2, <1>3, <1>4, <2>1, SameBatches DEF SeenByCall
  <2>2. CASE to[c] # upto[c]
    <3>1. \A n \in 1..Last : n < to[c] + 1 => Recovers(n)
      BY <1>1, <1>4
    <3> QED  BY <1>2, <1>3, <1>4, <2>2, <3>1, SameBatches DEF SeenByCall
  <2> QED  BY <2>1, <2>2
<1>6. \A d \in Calls : SeenByCall(d)'
  BY <1>1, <1>2, <1>5, SeenByOthers DEF SeenWhole, CallTypes
<1>7. to[c] = Redeem => Intact
  BY <1>1, <1>4 DEF Intact
<1>8. \A t \in pool' \union landed' : t.n = Redeem => Intact
  BY <1>2, <1>7 DEF SeenWhole, Tx
<1> QED  BY <1>2, <1>6, <1>8, SameBatches DEF SeenWhole

LEMMA SeenWholeKeeps ==
  ASSUME SolanaAssumption, IInv, SeenWhole, [Next]_vars PROVE SeenWhole'
<1>1. CallTypes /\ ChainTypes /\ Last \in Nat
  BY QuietTypes
<1>2. CASE \E c \in Calls : Broadcast(c)
  BY <1>2, SeenByBroadcast
<1>3. ASSUME NEW c \in Calls, Resumes(c), ~Broadcast(c) PROVE SeenWhole'
  <2>1. UNCHANGED <<vaa, pool, landed, redeemed>>
    BY <1>3 DEF Resumes, GetBlockhash, RefuseNative, WrappedFound, NotWrapped, ReadAccount,
       ReadConfig, RefuseGuardians, BroadcastRefused, Confirm, ConfirmTimesOut, chainVars
  <2>2. \A d \in Calls : SeenByCall(d)'
    BY <1>3, SeenByResumes
  <2> QED  BY <2>1, <2>2, SameBatches DEF SeenWhole
<1>4. ASSUME NEW c \in Calls, Begin(c) PROVE SeenWhole'
  <2>1. /\ UNCHANGED <<vaa, to, upto, redeemed>>
        /\ at' = [at EXCEPT ![c] = "blockhash"]
        /\ result' = [result EXCEPT ![c] = "none"]
    BY <1>4 DEF Begin
  <2>2. /\ landed' \subseteq landed
        /\ \A t \in pool' : t \in pool \/ \E k : t = Tx(0, k) /\ Tx(c, k) \in pool
    BY <1>4 DEF Begin
  <2>3. SeenByCall(c)'
    BY <1>1, <2>1 DEF SeenByCall, CallTypes
  <2>4. \A d \in Calls : SeenByCall(d)'
    BY <1>1, <2>1, <2>3, SeenByOthers DEF SeenWhole, CallTypes
  <2>5. \A t \in pool' \union landed' : t.n = Redeem => Intact
    <3>1. \A t \in pool \union landed : t.n = Redeem => Intact
      BY DEF SeenWhole
    <3>2. ASSUME NEW k, Tx(c, k) \in pool, Tx(0, k).n = Redeem PROVE Intact
      <4>1. Tx(c, k).n = Redeem
        BY <3>2 DEF Tx
      <4> QED  BY <3>1, <3>2, <4>1
    <3> QED  BY <2>2, <3>1, <3>2
  <2> QED  BY <2>1, <2>4, <2>5, SameBatches DEF SeenWhole
<1>5. ASSUME NEW c \in Calls, Rejects(c) PROVE SeenWhole'
  <2>1. UNCHANGED <<vaa, chainVars>> /\ Ends(c, "threw")
    BY <1>5 DEF Rejects
  <2>2. SeenByCall(c)'
    BY <1>1, <2>1 DEF Ends, SeenByCall, CallTypes
  <2>3. \A d \in Calls : SeenByCall(d)'
    BY <1>1, <2>1, <2>2, SeenByOthers DEF SeenWhole, Ends, CallTypes
  <2> QED  BY <2>1, <2>3, SameBatches DEF SeenWhole, chainVars
<1>6. ASSUME NEW c \in Calls, Expires(c) PROVE SeenWhole'
  <2>1. UNCHANGED <<vaa, at, to, upto, result, landed, redeemed>> /\ pool' \subseteq pool
    BY <1>6 DEF Expires
  <2>2. \A d \in Calls : SeenByCall(d)'
    BY <2>1, SameBatches DEF SeenWhole, SeenByCall
  <2> QED  BY <2>1, <2>2, SameBatches DEF SeenWhole
<1>7. ASSUME NEW t \in pool, Lands(t) \/ Lost(t) PROVE SeenWhole'
  <2>1. /\ UNCHANGED <<vaa, at, to, upto, result>>
        /\ pool' \subseteq pool /\ landed' \subseteq landed \union {t}
    BY <1>7 DEF Lands, Lost, callVars
  <2>2. \/ UNCHANGED redeemed
        \/ redeemed' = (redeemed \/ (t.n = Redeem /\ Succeeds(t.call, Redeem)))
    BY <1>7 DEF Lands, Lost
  <2>3. redeemed' => redeemed \/ t.n = Redeem
    BY <2>2, Zenon
  <2>4. t.n = Redeem => Intact
    BY <1>7 DEF SeenWhole
  <2>5. redeemed' => Intact
    BY <2>3, <2>4, Zenon DEF SeenWhole
  <2>6. \A d \in Calls : SeenByCall(d)'
    BY <2>1, SameBatches DEF SeenWhole, SeenByCall
  <2>7. \A u \in pool' \union landed' : u.n = Redeem => Intact
    BY <1>7, <2>1, <2>4 DEF SeenWhole
  <2> QED  BY <2>1, <2>5, <2>6, <2>7, SameBatches DEF SeenWhole
<1>8. CASE Rotate \/ Wrap \/ UNCHANGED vars
  <2>1. UNCHANGED <<vaa, at, to, upto, result, pool, landed, redeemed>>
    BY <1>8 DEF Rotate, Wrap, vars, callVars, chainVars
  <2>2. \A d \in Calls : SeenByCall(d)'
    BY <2>1, SameBatches DEF SeenWhole, SeenByCall
  <2> QED  BY <2>1, <2>2, SameBatches DEF SeenWhole
<1> QED  BY <1>2, <1>3, <1>4, <1>5, <1>6, <1>7, <1>8 DEF Next

(* What an attempt sees of the signatures before it redeems is invariant.  *)
THEOREM SeenWholeInvariant == Spec => [](IInv /\ SeenWhole)
<1>1. SolanaAssumption /\ Init => IInv /\ SeenWhole
  <2>1. Init => SeenWhole
    BY DEF Init, SeenWhole, SeenByCall
  <2> QED  BY <2>1, InitInvariant
<1>2. SolanaAssumption /\ IInv /\ SeenWhole /\ [Next]_vars => IInv' /\ SeenWhole'
  BY StepInvariant, SeenWholeKeeps
<1> QED  BY <1>1, <1>2, SolanaAssumption, PTL DEF Spec

(* Only a VAA that arrives as it was signed is ever redeemed: one with a   *)
(* short scalar is not, however often its user calls.                      *)
THEOREM OnlyIntactIsRedeemed == Spec => [](redeemed => Intact)
<1>1. IInv /\ SeenWhole => (redeemed => Intact)
  BY DEF SeenWhole
<1> QED  BY <1>1, SeenWholeInvariant, PTL

(* The documentation is right about the verifications of every other VAA.  *)
THEOREM IntactVerificationsPass ==
  Spec => [][Intact => \A c \in Calls : VerificationPasses(c)]_vars
<1>1. SolanaAssumption /\ IInv /\ SeenWhole /\ [Next]_vars
        => [Intact => \A c \in Calls : VerificationPasses(c)]_vars
  <2> SUFFICES ASSUME SolanaAssumption, IInv, SeenWhole, Next, Intact,
                      NEW c \in Calls, at[c] = "send", to[c] \in 1..Last, ~expired[c],
                      faults' = faults
               PROVE  result'[c] # "threw"
    BY DEF VerificationPasses
  <2>1. CallTypes /\ Last \in Nat /\ faults \in Nat /\ result[c] = "none"
    BY QuietTypes DEF SeenWhole, SeenByCall
  <2>2. Succeeds(c, to[c])
    BY <2>1 DEF Succeeds, Intact
  <2>3. ~Fault
    BY <2>1 DEF Fault
  <2>4. ~Begin(c)
    BY DEF Begin
  <2>5. Resumes(c) => UNCHANGED result
    BY <2>2 DEF Resumes, GetBlockhash, RefuseNative, WrappedFound, NotWrapped, ReadAccount,
       ReadConfig, RefuseGuardians, Broadcast, BroadcastRefused, Confirm, ConfirmTimesOut
  <2>6. ASSUME NEW d \in Calls, d # c, Begin(d) \/ Resumes(d) PROVE result'[c] = result[c]
    BY <2>1, <2>6 DEF Begin, Resumes, GetBlockhash, RefuseNative, WrappedFound, NotWrapped,
       ReadAccount, ReadConfig, RefuseGuardians, Broadcast, BroadcastRefused, Confirm,
       ConfirmTimesOut, Ends, Await, Flush, CallTypes
  <2>7. \A d \in Calls : ~Rejects(d) /\ ~Expires(d)
    BY <2>3 DEF Rejects, Expires
  <2>8. ASSUME (\E t \in pool : Lands(t) \/ Lost(t)) \/ Rotate \/ Wrap PROVE result' = result
    BY <2>8 DEF Lands, Lost, Rotate, Wrap, callVars
  <2> QED  BY <2>1, <2>4, <2>5, <2>6, <2>7, <2>8 DEF Next
<1> QED  BY <1>1, SeenWholeInvariant, SolanaAssumption, PTL DEF Spec

-----------------------------------------------------------------------------
(* The safety half of liveness.                                            *)

(* What is ahead of a call that is about to confirm transaction n.         *)
LEMMA OnwardFrom ==
  ASSUME Last \in Nat
  PROVE  /\ Onward(Ata) = 2 * Last + 6
         /\ \A n \in 1..Redeem : Onward(n) = 2 * (Redeem - n) + 1
         /\ \A n \in 0..Redeem : Onward(n) \in 1..(2 * Last + 6)
  BY DEF Onward

LEMMA AnswersAreFew ==
  ASSUME SolanaAssumption, IInv
  PROVE  AnswersBounded /\ \A c \in Calls : at[c] # "idle" => AnswersLeft(c) > 0
<1>1. CallTypes /\ Last \in Nat
  BY QuietTypes
<1> SUFFICES ASSUME NEW c \in Calls
             PROVE  /\ AnswersLeft(c) \in 0..(2 * Last + 10)
                    /\ at[c] # "idle" => AnswersLeft(c) > 0
  BY DEF AnswersBounded
<1>2. to[c] \in 0..Redeem /\ at[c] \in Ats
  BY <1>1 DEF CallTypes
<1>3. CASE at[c] \in {"send", "confirm"}
  <2>1. Onward(to[c]) \in 1..(2 * Last + 6)
    BY <1>1, <1>2, OnwardFrom
  <2>2. AnswersLeft(c) \in {Onward(to[c]), Onward(to[c]) + 1}
    BY <1>3 DEF AnswersLeft
  <2> QED  BY ONLY <1>1, <2>1, <2>2
<1>4. CASE at[c] \in {"idle", "config", "account", "wrapped", "blockhash"}
  <2>1. \/ at[c] = "idle" /\ AnswersLeft(c) = 0
        \/ /\ at[c] # "idle"
           /\ AnswersLeft(c) \in {2 * Redeem + 1, 2 * Redeem + 4, 2 * Redeem + 5, 2 * Redeem + 6}
    BY <1>4 DEF AnswersLeft
  <2>2. Last \in Nat /\ Redeem = Last + 2
    BY <1>1
  <2> QED  BY ONLY <2>1, <2>2
<1> QED  BY <1>2, <1>3, <1>4 DEF Ats

(* What a call that resumes does: it ends, or goes on to a later await.    *)
LEMMA ResumingAdvances ==
  ASSUME SolanaAssumption, IInv, SeenWhole, NEW c \in Calls, Resumes(c)
  PROVE  AnswersLeft(c)' \in 0 .. AnswersLeft(c) - 1
<1>1. CallTypes /\ Last \in Nat /\ Last > 0 /\ vaa' = vaa
  BY QuietTypes DEF Resumes, GetBlockhash, RefuseNative, WrappedFound, NotWrapped, ReadAccount,
     ReadConfig, RefuseGuardians, Broadcast, BroadcastRefused, Confirm, ConfirmTimesOut
<1>2. Last' = Last
  BY <1>1 DEF Last
<1>3. /\ at[c] # "idle" /\ at[c] \in Ats /\ to[c] \in 0..Redeem /\ upto[c] \in 0..Redeem
      /\ at[c] = "confirm" => to[c] = upto[c]
  BY <1>1 DEF CallTypes, Resumes, GetBlockhash, RefuseNative, WrappedFound, NotWrapped,
     ReadAccount, ReadConfig, RefuseGuardians, Broadcast, BroadcastRefused, Confirm,
     ConfirmTimesOut, SeenWhole, SeenByCall
<1>0. /\ at'[c] = "send" => AnswersLeft(c)' = Onward(to'[c]) + 1
      /\ at'[c] = "confirm" => AnswersLeft(c)' = Onward(to'[c])
      /\ at'[c] = "config" => AnswersLeft(c)' = 2 * Redeem + 1
      /\ at'[c] = "account" => AnswersLeft(c)' = 2 * Redeem + 4
      /\ at[c] = "send" => AnswersLeft(c) = Onward(to[c]) + 1
      /\ at[c] = "confirm" => AnswersLeft(c) = Onward(to[c])
      /\ at[c] = "config" => AnswersLeft(c) = 2 * Redeem + 1
      /\ at[c] = "account" => AnswersLeft(c) = 2 * Redeem + 4
      /\ at'[c] = "wrapped" => AnswersLeft(c)' = 2 * Redeem + 5
      /\ at[c] = "wrapped" => AnswersLeft(c) = 2 * Redeem + 5
      /\ at[c] = "blockhash" => AnswersLeft(c) = 2 * Redeem + 6
  BY <1>2 DEF AnswersLeft, Onward
<1> USE <1>0, OnwardFrom
<1>4. CASE \E how \in {"returned", "threw"} : Ends(c, how)
  <2>1. at'[c] = "idle"
    BY <1>1, <1>4 DEF Ends, CallTypes
  <2>2. AnswersLeft(c)' = 0
    BY <2>1 DEF AnswersLeft
  <2>3. AnswersLeft(c) \in 0..(2 * Last + 10) /\ AnswersLeft(c) > 0
    BY <1>3, AnswersAreFew DEF AnswersBounded
  <2> QED  BY ONLY <1>1, <2>2, <2>3
<1>5. CASE Broadcast(c)
  <2>1. /\ at[c] = "send"
        /\ at'[c] = IF to[c] = upto[c] THEN "confirm" ELSE "send"
        /\ to'[c] = IF to[c] = upto[c] THEN to[c] ELSE to[c] + 1
    BY <1>1, <1>5 DEF Broadcast, CallTypes
  <2>2. CASE to[c] = upto[c]
    BY <1>1, <1>2, <1>3, <2>1, <2>2
  <2>3. CASE to[c] # upto[c]
    <3>1. to[c] <= upto[c]
      BY DEF IInv
    <3>2. to[c] + 1 \in 1..Redeem
      <4>1. /\ Last \in Nat /\ Redeem = Last + 2
            /\ to[c] \in 0..Redeem /\ upto[c] \in 0..Redeem
            /\ to[c] <= upto[c] /\ to[c] # upto[c]
        BY <1>1, <1>3, <2>3, <3>1
      <4> QED  BY ONLY <4>1
    <3>3. Onward(to[c] + 1) = 2 * (Redeem - (to[c] + 1)) + 1
          /\ Onward(to[c]) >= 2 * (Redeem - to[c]) + 1
      BY <1>1, <1>3, <3>2 DEF Onward
    <3>4. AnswersLeft(c) = Onward(to[c]) + 1 /\ AnswersLeft(c)' = Onward(to[c] + 1) + 1
      <4>1. to'[c] = to[c] + 1
        BY <2>1, <2>3
      <4>2. AnswersLeft(c)' = Onward(to'[c]) + 1 /\ AnswersLeft(c) = Onward(to[c]) + 1
        BY ONLY <1>0, <2>1, <2>3
      <4> QED  BY ONLY <4>1, <4>2
    <3>5. Onward(to[c]) \in Nat
      BY <1>1, <1>3, OnwardFrom
    <3> QED  BY ONLY <1>1, <1>3, <3>2, <3>3, <3>4, <3>5
  <2> QED  BY <2>2, <2>3
<1>6. CASE GetBlockhash(c) \/ WrappedFound(c)
  <2>1. \/ at[c] = "blockhash" /\ at'[c] = "wrapped"
        \/ at[c] = "wrapped" /\ at'[c] = "account"
    BY <1>1, <1>6 DEF GetBlockhash, WrappedFound, Await, CallTypes
  <2> QED  BY <1>1, <1>2, <2>1
<1>7. ASSUME NEW n \in 0..Redeem, Flush(c, n)
      PROVE  at'[c] = "send" /\ to'[c] = n
  BY <1>1, <1>7 DEF Flush, CallTypes
<1>8. CASE ReadAccount(c)
  <2>1. CASE account
    <3>1. at[c] = "account" /\ at'[c] = "config"
      BY <1>1, <1>8, <2>1 DEF ReadAccount, Await, CallTypes
    <3> QED  BY <1>1, <1>2, <3>1
  <2>2. CASE ~account
    <3>1. at[c] = "account" /\ Flush(c, Ata) /\ Ata \in 0..Redeem
      BY <1>1, <1>8, <2>2 DEF ReadAccount
    <3>2. at'[c] = "send" /\ to'[c] = Ata
      BY <1>7, <3>1
    <3> QED  BY <1>1, <1>2, <3>1, <3>2
  <2> QED  BY <2>1, <2>2
<1>9. CASE ReadConfig(c)
  <2>1. at[c] = "config" /\ at'[c] = "send" /\ to'[c] = 1
    BY <1>1, <1>7, <1>9 DEF ReadConfig
  <2>2. Onward(1) = 2 * (Redeem - 1) + 1
    BY <1>1
  <2> QED  BY <1>1, <1>2, <2>1, <2>2
<1>10. CASE Confirm(c) /\ upto[c] # Redeem
  <2>1. CASE upto[c] = Ata
    <3>1. at[c] = "confirm" /\ at'[c] = "config"
      BY <1>1, <1>10, <2>1 DEF Confirm, Await, CallTypes
    <3> QED  BY <1>1, <1>2, <1>3, <2>1, <3>1
  <2>2. CASE upto[c] # Ata
    <3>1. at[c] = "confirm" /\ Flush(c, upto[c] + 1) /\ upto[c] + 1 \in 0..Redeem
      BY <1>1, <1>3, <1>10, <2>2 DEF Confirm
    <3>2. at'[c] = "send" /\ to'[c] = upto[c] + 1
      BY <1>7, <3>1
    <3>3. upto[c] \in 1..Redeem /\ upto[c] + 1 \in 1..Redeem
      <4>1. /\ Last \in Nat /\ Redeem = Last + 2
            /\ upto[c] \in 0..Redeem /\ upto[c] # Redeem /\ upto[c] # 0
        BY <1>1, <1>3, <1>10, <2>2
      <4> QED  BY ONLY <4>1
    <3>4. Onward(upto[c] + 1) = 2 * (Redeem - (upto[c] + 1)) + 1
          /\ Onward(upto[c]) = 2 * (Redeem - upto[c]) + 1
      BY ONLY <1>1, <3>3, OnwardFrom
    <3>5. AnswersLeft(c) = Onward(upto[c]) /\ AnswersLeft(c)' = Onward(upto[c] + 1) + 1
      <4>1. AnswersLeft(c) = Onward(to[c]) /\ to[c] = upto[c]
        BY ONLY <1>0, <1>3, <3>1
      <4>2. AnswersLeft(c)' = Onward(to'[c]) + 1 /\ to'[c] = upto[c] + 1
        BY ONLY <1>0, <3>2
      <4> QED  BY ONLY <4>1, <4>2
    <3> QED  BY ONLY <1>1, <3>3, <3>4, <3>5
  <2> QED  BY <2>1, <2>2
<1> QED  BY <1>4, <1>5, <1>6, <1>8, <1>9, <1>10
         DEF Resumes, RefuseNative, NotWrapped, RefuseGuardians, BroadcastRefused, Confirm,
             ConfirmTimesOut

(* What any other step does to a call in flight: nothing, or it ends it.   *)
LEMMA OthersKeepOrEnd ==
  ASSUME SolanaAssumption, IInv, [Next]_vars, NEW c \in Calls, at[c] # "idle", ~Resumes(c)
  PROVE  vaa' = vaa /\ (at'[c] = "idle" \/ (at'[c] = at[c] /\ to'[c] = to[c]))
<1>1. CallTypes
  BY QuietTypes
<1>2. ~Begin(c)
  BY DEF Begin
<1>3. ASSUME NEW d \in Calls, d # c, Begin(d) \/ Resumes(d)
      PROVE  vaa' = vaa /\ at'[c] = at[c] /\ to'[c] = to[c]
  BY <1>1, <1>3 DEF Begin, Resumes, GetBlockhash, RefuseNative, WrappedFound, NotWrapped,
     ReadAccount, ReadConfig, RefuseGuardians, Broadcast, BroadcastRefused, Confirm,
     ConfirmTimesOut, Ends, Await, Flush, CallTypes
<1>4. ASSUME NEW d \in Calls, Rejects(d)
      PROVE  vaa' = vaa /\ (at'[c] = "idle" \/ (at'[c] = at[c] /\ to'[c] = to[c]))
  <2>1. at' = [at EXCEPT ![d] = "idle"] /\ to' = [to EXCEPT ![d] = Ata] /\ vaa' = vaa
    BY <1>4 DEF Rejects, Ends
  <2>2. CASE d = c
    <3>1. at'[c] = "idle"
      BY <1>1, <2>1, <2>2 DEF CallTypes
    <3> QED  BY <2>1, <3>1
  <2>3. CASE d # c
    BY <1>1, <2>1, <2>3 DEF CallTypes
  <2> QED  BY <2>2, <2>3
<1>5. ASSUME NEW d \in Calls, Expires(d) PROVE UNCHANGED <<vaa, at, to>>
  BY <1>5 DEF Expires
<1>6. ASSUME NEW t \in pool, Lands(t) \/ Lost(t) PROVE UNCHANGED <<vaa, at, to>>
  BY <1>6 DEF Lands, Lost, callVars
<1>7. CASE Rotate \/ Wrap \/ UNCHANGED vars
  BY <1>7 DEF Rotate, Wrap, vars, callVars
<1> QED  BY <1>2, <1>3, <1>4, <1>5, <1>6, <1>7 DEF Next

(* A redemption cannot go round: whatever is lost, late, or refused, each  *)
(* answer takes a call on, and it awaits no more than ten of them and two  *)
(* for each batch of signatures, which makes sixteen for nineteen          *)
(* guardians.  Its transactions are broadcast once, in order.              *)
THEOREM CallsGoOn == Spec => []AnswersBounded /\ CallsAdvance
<1>1. SolanaAssumption /\ IInv => AnswersBounded
  BY AnswersAreFew
<1>2. ASSUME SolanaAssumption, IInv, SeenWhole, [Next]_vars
      PROVE  [\A c \in Calls : at[c] # "idle" =>
                /\ AnswersLeft(c)' <= AnswersLeft(c)
                /\ Resumes(c) => AnswersLeft(c)' < AnswersLeft(c)]_vars
  <2> SUFFICES ASSUME NEW c \in Calls, at[c] # "idle"
               PROVE  /\ AnswersLeft(c)' <= AnswersLeft(c)
                      /\ Resumes(c) => AnswersLeft(c)' < AnswersLeft(c)
    OBVIOUS
  <2>1. AnswersLeft(c) \in Nat
    BY <1>2, AnswersAreFew, QuietTypes DEF AnswersBounded
  <2>2. CASE Resumes(c)
    BY <1>2, <2>1, <2>2, ResumingAdvances
  <2>3. CASE ~Resumes(c)
    <3>1. vaa' = vaa /\ (at'[c] = "idle" \/ (at'[c] = at[c] /\ to'[c] = to[c]))
      BY <1>2, <2>3, OthersKeepOrEnd
    <3>2. Last' = Last
      BY <3>1 DEF Last
    <3>3. AnswersLeft(c)' = 0 \/ AnswersLeft(c)' = AnswersLeft(c)
      BY <3>1, <3>2 DEF AnswersLeft, Onward
    <3> QED  BY <2>1, <2>3, <3>3
  <2> QED  BY <2>2, <2>3
<1> QED  BY <1>1, <1>2, SeenWholeInvariant, SolanaAssumption, PTL DEF Spec, CallsAdvance
=============================================================================
