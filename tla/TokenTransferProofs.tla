------------------------ MODULE TokenTransferProofs ------------------------
(***************************************************************************)
(* The safety properties of TokenTransfer for any set of calls in flight,  *)
(* any number of attempts, with faults and crashes.  IInv is inductive:    *)
(* the lemmas below treat the actions one by one.                          *)
(***************************************************************************)
EXTENDS TokenTransfer, FiniteSets, FiniteSetTheorems, SequenceTheorems, TLAPS

USE DEF Created, Initiated, Attested, Completed, NoVaa, Approval

(* What the proofs of the step lemmas read of the type invariant.          *)
LEMMA InitInvariant == ASSUME TransferAssumption, Init PROVE IInv
<1>1. TypeOK
  BY DEF TransferAssumption, Init, TypeOK, PCs, Initiating, Messages
<1>2. HashesOwned /\ UnparsedIsNew /\ EntriesEmitted /\ VaasDistinct
      /\ VaaMatchesId /\ RedeemsSigned
  BY DEF Init, HashesOwned, UnparsedIsNew, EntriesEmitted, VaasDistinct,
         VaaMatchesId, RedeemsSigned, Entries
<1>3. \A c \in Calls : CallAt(c)
  BY DEF Init, CallAt, PCs, Initiating, Entries
<1> QED  BY <1>1, <1>2, <1>3 DEF IInv, Init

LEMMA IdxPositive ==
  ASSUME IInv, NEW d \in Calls PROVE idx[d] \in Nat /\ idx[d] >= 1
<1>1. CallAt(d) /\ pc[d] \in PCs /\ idx[d] \in Nat
  BY DEF IInv, TypeOK
<1>2. CASE pc[d] \in PCs \ {"fetch", "redeem", "redeeming", "parse"}
  BY <1>1, <1>2 DEF CallAt
<1>3. CASE pc[d] = "parse"
  BY <1>1, <1>3 DEF CallAt
<1>4. CASE pc[d] = "fetch"
  BY <1>1, <1>4 DEF CallAt
<1>5. CASE pc[d] \in {"redeem", "redeeming"}
  <2>1. idx[d] \in 1..Len(vaas)
    BY <1>1, <1>5 DEF CallAt, Entries
  <2> QED  BY <2>1
<1> QED  BY <1>1, <1>2, <1>3, <1>4, <1>5

(* A call that does not move keeps what holds of it while the entries of   *)
(* vaas keep their ids and VAAs and what is redeemed stays redeemed.       *)
LEMMA CallAtCarries ==
  ASSUME NEW d \in Calls, CallAt(d), idx[d] \in Nat, limit[d] \in Nat,
         pc'[d] = pc[d], idx'[d] = idx[d], hashes'[d] = hashes[d],
         limit'[d] = limit[d], automatic' = automatic,
         Len(vaas) \in Nat, Len(vaas') \in Nat, Len(vaas) <= Len(vaas'),
         vaas # <<>> => vaas' # <<>>,
         \A i \in 1..Len(vaas) : /\ vaas'[i].id = vaas[i].id
                                 /\ vaas[i].vaa # NoVaa => vaas'[i].vaa # NoVaa,
         \A m \in redeemed : m \in redeemed'
  PROVE  CallAt(d)'
<1>1. /\ pc'[d] \in (PCs \ {"fetch", "redeem", "redeeming", "parse"}) => idx'[d] = 1
      /\ pc'[d] \in (PCs \ {"transfer", "confirm", "parse"}) => hashes'[d] = <<>>
      /\ pc'[d] \in {"confirm", "parse"} => idx'[d] \in 1..Len(hashes'[d])
  BY DEF CallAt
<1>2. pc'[d] = "fetch" => idx'[d] \in 1..limit'[d] /\ limit'[d] <= Len(vaas')
  BY DEF CallAt
<1>a. ASSUME pc[d] = "fetch", NEW i \in 1..(idx[d] - 1)
      PROVE  vaas'[i].vaa # NoVaa
  <2>1. idx[d] \in 1..limit[d] /\ limit[d] <= Len(vaas) /\ vaas[i].vaa # NoVaa
    BY <1>a DEF CallAt
  <2>2. i \in 1..Len(vaas)
    BY <2>1
  <2> QED  BY <2>1, <2>2
<1>3. pc'[d] = "status" => vaas' # <<>>
  BY DEF CallAt
<1>4. ASSUME pc[d] \in {"redeem", "redeeming"}
      PROVE  idx[d] \in 1..Len(vaas') /\ idx[d] \in 1..Len(vaas)
             /\ vaas'[idx[d]].vaa # NoVaa
  <2>1. idx[d] \in 1..Len(vaas) /\ vaas[idx[d]].vaa # NoVaa
    BY <1>4 DEF CallAt, Entries
  <2> QED  BY <2>1
<1>5. ASSUME pc[d] \in {"redeem", "redeeming"}, ~automatic,
             NEW i \in 1..(idx[d] - 1)
      PROVE  vaas'[i].id \in redeemed'
  <2>1. vaas[i].id \in redeemed
    BY <1>5 DEF CallAt
  <2>2. i \in 1..Len(vaas)
    BY <1>4, <1>5
  <2> QED  BY <2>1, <2>2
<1>6. ASSUME pc[d] = "redeeming"
      PROVE  ~automatic /\ vaas'[idx[d]].id \in redeemed'
  <2>1. ~automatic /\ vaas[idx[d]].id \in redeemed
    BY <1>6 DEF CallAt
  <2> QED  BY <2>1, <1>4, <1>6
<1> QED  BY <1>1, <1>2, <1>a, <1>3, <1>4, <1>5, <1>6 DEF CallAt, Entries

(* A call ends and nothing but its locals changes.                         *)
LEMMA EndsKeeps ==
  ASSUME IInv, NEW c \in Calls, NEW how \in {"returned", "threw"}, Ends(c, how),
         UNCHANGED <<fixed, objVars, attempts, chainVars>>
  PROVE  IInv'
<1> USE DEF fixed, objVars, chainVars
<1>1. TypeOK'
  BY DEF IInv, TypeOK, Ends, PCs, Initiating, Messages
<1>2. HashesOwned' /\ UnparsedIsNew'
  BY DEF IInv, TypeOK, HashesOwned, UnparsedIsNew, Ends, Entries
<1>3. EntriesEmitted' /\ VaasDistinct' /\ VaaMatchesId' /\ RedeemsSigned'
  BY DEF IInv, EntriesEmitted, VaasDistinct, VaaMatchesId, RedeemsSigned,
         Entries, Messages
<1>4. (state = Completed => vaas # <<>> /\ vaas[1].id \in redeemed)'
  BY DEF IInv
<1>5. ASSUME NEW d \in Calls PROVE CallAt(d)'
  BY DEF IInv, TypeOK, CallAt, Ends, PCs, Initiating, Entries
<1> QED  BY <1>1, <1>2, <1>3, <1>4, <1>5 DEF IInv

(* A call moves on to another await and nothing else changes.              *)
LEMMA BeginInitiateKeeps ==
  ASSUME IInv, NEW c \in Calls, BeginInitiate(c) PROVE IInv'
<1> USE DEF fixed, objVars, loopVars, chainVars
<1>1. TypeOK'
  BY TransferAssumption
  DEF IInv, TypeOK, BeginInitiate, Await, PCs, Initiating, Messages, TransferAssumption
<1>2. HashesOwned' /\ UnparsedIsNew'
  BY DEF IInv, HashesOwned, UnparsedIsNew, BeginInitiate, Entries
<1>3. EntriesEmitted' /\ VaasDistinct' /\ VaaMatchesId' /\ RedeemsSigned'
  BY DEF IInv, EntriesEmitted, VaasDistinct, VaaMatchesId, RedeemsSigned,
         Entries, Messages, BeginInitiate
<1>4. (state = Completed => vaas # <<>> /\ vaas[1].id \in redeemed)'
  BY DEF IInv, BeginInitiate
<1>5. ASSUME NEW d \in Calls PROVE CallAt(d)'
  BY DEF IInv, TypeOK, CallAt, BeginInitiate, Await, PCs, Initiating, Entries
<1> QED  BY <1>1, <1>2, <1>3, <1>4, <1>5 DEF IInv

LEMMA PreparedKeeps ==
  ASSUME IInv, NEW c \in Calls, Prepared(c) PROVE IInv'
<1> USE DEF fixed, objVars, loopVars, chainVars
<1> DEFINE where == IF ~automatic /\ token = "erc20" /\ allowance < 1
                    THEN "approve" ELSE "transfer"
<1>1. /\ pc[c] = "prepare" /\ Await(c, where)
      /\ UNCHANGED <<fixed, objVars, loopVars, attempts, chainVars>>
  BY DEF Prepared
<1>2. where \in {"approve", "transfer"}
  OBVIOUS
<1> HIDE DEF where
<1>3. TypeOK'
  BY <1>1, <1>2 DEF IInv, TypeOK, Await, PCs, Initiating, Messages
<1>4. HashesOwned' /\ UnparsedIsNew'
  BY <1>1 DEF IInv, HashesOwned, UnparsedIsNew, Entries
<1>5. EntriesEmitted' /\ VaasDistinct' /\ VaaMatchesId' /\ RedeemsSigned'
  BY <1>1 DEF IInv, EntriesEmitted, VaasDistinct, VaaMatchesId, RedeemsSigned,
         Entries, Messages
<1>6. (state = Completed => vaas # <<>> /\ vaas[1].id \in redeemed)'
  BY <1>1 DEF IInv
<1>7. ASSUME NEW d \in Calls PROVE CallAt(d)'
  BY <1>1, <1>2 DEF IInv, TypeOK, CallAt, Await, PCs, Initiating, Entries
<1> QED  BY <1>3, <1>4, <1>5, <1>6, <1>7 DEF IInv

(* The approve transaction adds a hash that names no message.              *)
LEMMA ApproveKeeps ==
  ASSUME IInv, NEW c \in Calls, Approve(c) PROVE IInv'
<1> USE DEF fixed, objVars
<1>1. TypeOK'
  BY DEF IInv, TypeOK, Approve, Await, PCs, Initiating, Messages
<1>0. pc[c] = "approve" /\ CallAt(c) /\ hashes \in [Calls -> Seq(Nat)]
      /\ emitted \in Nat /\ emitted' = emitted /\ vaas' = vaas /\ idx' = idx
      /\ hashes' = [hashes EXCEPT ![c] = Append(@, Approval)]
  BY DEF IInv, TypeOK, Approve
<1>a. hashes[c] = <<>> /\ idx[c] = 1
  BY <1>0 DEF CallAt, PCs, Initiating
<1>2. Len(hashes'[c]) = 1 /\ hashes'[c][1] = Approval
  BY <1>0, <1>a
<1>3. \A d \in Calls : d # c => hashes'[d] = hashes[d]
  BY DEF IInv, TypeOK, Approve
<1>4. HashesOwned'
  <2>1. \A d \in Calls : \A k \in 1..Len(hashes'[d]) :
           \/ d # c /\ k \in 1..Len(hashes[d]) /\ hashes'[d][k] = hashes[d][k]
           \/ d = c /\ hashes'[d][k] = Approval
    BY <1>2, <1>3
  <2>2. HashesOwned
    BY DEF IInv
  <2>3. \A d \in Calls : \A k \in 1..Len(hashes'[d]) : hashes'[d][k] <= emitted'
    BY ONLY <2>1, <2>2, <1>0 DEF HashesOwned, Approval
  <2>4. \A d, e \in Calls : \A k \in 1..Len(hashes'[d]), l \in 1..Len(hashes'[e]) :
           hashes'[d][k] = hashes'[e][l] /\ hashes'[d][k] # Approval => d = e /\ k = l
    BY ONLY <2>1, <2>2 DEF HashesOwned
  <2> QED  BY ONLY <2>3, <2>4 DEF HashesOwned
<1>5. UnparsedIsNew'
  <2>1. \A d \in Calls : \A k \in idx[d]..Len(hashes'[d]) :
           hashes'[d][k] # Approval => k \in idx[d]..Len(hashes[d])
                                       /\ hashes'[d][k] = hashes[d][k]
    BY <1>2, <1>3, <1>a
  <2>2. \A d \in Calls : \A k \in idx[d]..Len(hashes[d]) :
           hashes[d][k] # Approval => \A i \in Entries : vaas[i].id # hashes[d][k]
    BY DEF IInv, UnparsedIsNew
  <2>3. Entries' = Entries
    BY <1>0 DEF Entries
  <2>4. ASSUME NEW d \in Calls, NEW k \in idx[d]..Len(hashes'[d]),
               hashes'[d][k] # Approval, NEW i \in Entries
        PROVE  vaas[i].id # hashes'[d][k]
    BY <2>1, <2>2, <2>4
  <2> QED  BY ONLY <2>3, <2>4, <1>0 DEF UnparsedIsNew
<1>6. EntriesEmitted' /\ VaasDistinct' /\ VaaMatchesId' /\ RedeemsSigned'
  BY DEF IInv, EntriesEmitted, VaasDistinct, VaaMatchesId, RedeemsSigned,
         Entries, Messages, Approve
<1>7. (state = Completed => vaas # <<>> /\ vaas[1].id \in redeemed)'
  BY DEF IInv, Approve
<1>8. ASSUME NEW d \in Calls PROVE CallAt(d)'
  BY <1>0, <1>2, <1>3 DEF IInv, TypeOK, CallAt, Approve, Await, PCs, Initiating, Entries
<1> QED  BY <1>1, <1>4, <1>5, <1>6, <1>7, <1>8 DEF IInv

(* A new message: no other hash and no entry of vaas names it.             *)
LEMMA TransferKeeps ==
  ASSUME IInv, NEW c \in Calls, Transfer(c) PROVE IInv'
<1> USE DEF fixed, objVars
<1>0. emitted \in Nat /\ allowance \in Nat /\ emitted' = emitted + 1
      /\ vaas' = vaas /\ idx' = idx /\ hashes \in [Calls -> Seq(Nat)]
      /\ hashes' = [hashes EXCEPT ![c] = Append(@, emitted + 1)]
      /\ \A d \in Calls : idx[d] \in Nat
  BY DEF IInv, TypeOK, Transfer
<1>1. TypeOK'
  <2>1. allowance' \in Nat
    BY <1>0 DEF Transfer, CanSpend, IInv, TypeOK
  <2>2. hashes' \in [Calls -> Seq(Nat)]
    BY <1>0
  <2>3. pc' \in [Calls -> PCs]
    BY DEF IInv, TypeOK, Transfer, Await, PCs, Initiating
  <2> QED  BY <1>0, <2>1, <2>2, <2>3 DEF IInv, TypeOK, Transfer, Await, Messages
<1>2. /\ Len(hashes'[c]) = Len(hashes[c]) + 1
      /\ Len(hashes[c]) \in Nat
      /\ hashes'[c][Len(hashes[c]) + 1] = emitted + 1
      /\ \A k \in 1..Len(hashes[c]) : hashes'[c][k] = hashes[c][k]
      /\ \A d \in Calls : d # c => hashes'[d] = hashes[d]
  BY <1>0
<1>3. \A d \in Calls : \A k \in 1..Len(hashes[d]) :
         hashes[d][k] \in Nat /\ hashes[d][k] <= emitted
  BY <1>0 DEF IInv, HashesOwned
<1>4. \A d \in Calls : \A k \in 1..Len(hashes'[d]) :
         \/ k \in 1..Len(hashes[d]) /\ hashes'[d][k] = hashes[d][k]
         \/ d = c /\ k = Len(hashes[c]) + 1 /\ hashes'[d][k] = emitted + 1
  BY <1>2
<1>5. HashesOwned'
  <2>1. \A d \in Calls : \A k \in 1..Len(hashes'[d]) :
           hashes'[d][k] <= emitted + 1
    BY <1>0, <1>3, <1>4
  <2>2. ASSUME NEW d \in Calls, NEW e \in Calls,
               NEW k \in 1..Len(hashes'[d]), NEW l \in 1..Len(hashes'[e]),
               hashes'[d][k] = hashes'[e][l], hashes'[d][k] # Approval
        PROVE  d = e /\ k = l
    <3>1. CASE k \in 1..Len(hashes[d]) /\ hashes'[d][k] = hashes[d][k]
      <4>1. hashes[d][k] \in Nat /\ hashes[d][k] <= emitted
        BY <3>1, <1>3
      <4>2. l \in 1..Len(hashes[e]) /\ hashes'[e][l] = hashes[e][l]
        BY <3>1, <4>1, <2>2, <1>4, <1>0
      <4>3. HashesOwned
        BY DEF IInv
      <4>4. hashes[d][k] = hashes[e][l] /\ hashes[d][k] # Approval
        BY <3>1, <4>2, <2>2
      <4> QED  BY <3>1, <4>2, <4>3, <4>4 DEF HashesOwned
    <3>2. CASE d = c /\ k = Len(hashes[c]) + 1 /\ hashes'[d][k] = emitted + 1
      <4>1. ~(l \in 1..Len(hashes[e]) /\ hashes'[e][l] = hashes[e][l])
        BY <3>2, <1>3, <1>0, <2>2
      <4> QED  BY <3>2, <4>1, <1>4
    <3> QED  BY <3>1, <3>2, <1>4
  <2> QED  BY <2>1, <2>2, <1>0 DEF HashesOwned
<1>6. \A i \in Entries : vaas[i].id <= emitted
  BY <1>0 DEF IInv, EntriesEmitted, Messages
<1>7. UnparsedIsNew'
  <2>1. ASSUME NEW d \in Calls, NEW k \in idx[d]..Len(hashes'[d]),
               hashes'[d][k] # Approval, NEW i \in Entries
        PROVE  vaas[i].id # hashes'[d][k]
    <3>1. idx[d] >= 1
      BY IdxPositive
    <3>2. k \in 1..Len(hashes'[d])
      BY <3>1, <1>0
    <3>3. CASE d = c /\ k = Len(hashes[c]) + 1 /\ hashes'[d][k] = emitted + 1
      BY <3>3, <1>6, <1>0 DEF IInv, EntriesEmitted, Messages
    <3>4. CASE k \in 1..Len(hashes[d]) /\ hashes'[d][k] = hashes[d][k]
      BY <3>4, <2>1, <1>0 DEF IInv, UnparsedIsNew
    <3> QED  BY <3>2, <3>3, <3>4, <1>4
  <2> QED  BY <2>1, <1>0 DEF UnparsedIsNew, Entries
<1>8. EntriesEmitted' /\ VaasDistinct' /\ VaaMatchesId' /\ RedeemsSigned'
  BY <1>0 DEF IInv, EntriesEmitted, VaasDistinct, VaaMatchesId, RedeemsSigned,
         Entries, Messages, Transfer
<1>9. (state = Completed => vaas # <<>> /\ vaas[1].id \in redeemed)'
  BY DEF IInv, Transfer
<1>10. ASSUME NEW d \in Calls PROVE CallAt(d)'
  BY <1>0, <1>2 DEF IInv, TypeOK, CallAt, Transfer, Await, PCs, Initiating, Entries
<1> QED  BY <1>1, <1>5, <1>7, <1>8, <1>9, <1>10 DEF IInv


LEMMA ConfirmKeeps ==
  ASSUME IInv, NEW c \in Calls, Confirm(c) PROVE IInv'
<1> USE DEF fixed, loopVars, chainVars
<1>1. TypeOK'
  BY DEF IInv, TypeOK, Confirm, Await, PCs, Initiating, Messages
<1>2. HashesOwned' /\ UnparsedIsNew'
  BY DEF IInv, HashesOwned, UnparsedIsNew, Confirm, Entries
<1>3. EntriesEmitted' /\ VaasDistinct' /\ VaaMatchesId' /\ RedeemsSigned'
  BY DEF IInv, EntriesEmitted, VaasDistinct, VaaMatchesId, RedeemsSigned,
         Entries, Messages, Confirm
<1>4. (state = Completed => vaas # <<>> /\ vaas[1].id \in redeemed)'
  BY DEF Confirm
<1>5. ASSUME NEW d \in Calls PROVE CallAt(d)'
  BY DEF IInv, TypeOK, CallAt, Confirm, Await, PCs, Initiating, Entries
<1> QED  BY <1>1, <1>2, <1>3, <1>4, <1>5 DEF IInv

(* The id that is pushed is of the call's own message, which no entry and  *)
(* no other hash names.                                                    *)
LEMMA ParseKeeps ==
  ASSUME IInv, NEW c \in Calls, Parse(c) PROVE IInv'
<1> DEFINE h == hashes[c][idx[c]]
<1> DEFINE entry == [id |-> h, vaa |-> NoVaa]
<1>1. /\ pc[c] = "parse" /\ h # Approval /\ vaas' = Append(vaas, entry)
      /\ \/ Ends(c, "returned")
         \/ /\ idx[c] # Len(hashes[c])
            /\ idx' = [idx EXCEPT ![c] = @ + 1]
            /\ Await(c, "parse")
            /\ UNCHANGED <<hashes, limit>>
      /\ UNCHANGED <<automatic, token, redeemer, state, txids, attempts,
                     allowance, emitted, signed, redeemed>>
  BY DEF Parse, fixed, chainVars
<1>2. /\ hashes \in [Calls -> Seq(Nat)] /\ idx \in [Calls -> Nat]
      /\ vaas \in Seq(Entry) /\ emitted \in Nat
      /\ limit \in [Calls -> Nat] /\ pc \in [Calls -> PCs]
  BY DEF IInv, TypeOK
<1>3. idx[c] \in 1..Len(hashes[c])
  BY <1>1 DEF IInv, CallAt
<1>4. h \in Nat /\ h <= emitted /\ h >= 1
  <2>1. h \in Nat
    BY <1>2, <1>3
  <2>2. HashesOwned
    BY DEF IInv
  <2>3. h <= emitted
    BY <1>3, <2>2 DEF HashesOwned
  <2> QED  BY <2>1, <2>3, <1>1
<1>5. \A i \in Entries : vaas[i].id # h
  <2>1. UnparsedIsNew
    BY DEF IInv
  <2>2. idx[c] \in idx[c]..Len(hashes[c])
    BY <1>2, <1>3
  <2> QED  BY <2>1, <2>2, <1>1 DEF UnparsedIsNew
<1> HIDE DEF h
<1>6. /\ Len(vaas') = Len(vaas) + 1 /\ Len(vaas) \in Nat
      /\ vaas'[Len(vaas) + 1].id = h /\ vaas'[Len(vaas) + 1].vaa = NoVaa
      /\ \A i \in 1..Len(vaas) : vaas'[i] = vaas[i]
      /\ vaas' \in Seq(Entry)
  <2>1. entry \in Entry
    BY <1>4 DEF Entry
  <2>2. entry.id = h /\ entry.vaa = NoVaa
    OBVIOUS
  <2> HIDE DEF entry
  <2> QED  BY <1>1, <1>2, <2>1, <2>2
<1> HIDE DEF entry
<1>7. \A d \in Calls : \A k \in 1..Len(hashes'[d]) :
         k \in 1..Len(hashes[d]) /\ hashes'[d][k] = hashes[d][k]
  BY <1>1, <1>2 DEF Ends
<1>8. \A d \in Calls : \A k \in idx'[d]..Len(hashes'[d]) :
         k >= idx[d] /\ (d = c => k # idx[c])
  BY <1>1, <1>2 DEF Ends
<1>9. TypeOK'
  <2>1. hashes' \in [Calls -> Seq(Nat)]
    <3>1. CASE Ends(c, "returned")
      BY <3>1, <1>2 DEF Ends
    <3>2. CASE UNCHANGED hashes
      BY <3>2, <1>2
    <3> QED  BY <3>1, <3>2, <1>1
  <2>2. idx' \in [Calls -> Nat] /\ limit' \in [Calls -> Nat]
    <3>1. CASE Ends(c, "returned")
      BY <3>1, <1>2 DEF Ends
    <3>2. CASE idx' = [idx EXCEPT ![c] = @ + 1] /\ limit' = limit
      BY <3>2, <1>2
    <3> QED  BY <3>1, <3>2, <1>1
  <2>3. /\ pc' \in [Calls -> PCs]
        /\ result' \in [Calls -> {"none", "returned", "threw"}]
    BY <1>1 DEF IInv, TypeOK, Ends, Await, PCs, Initiating
  <2> QED  BY <1>1, <1>6, <2>1, <2>2, <2>3 DEF IInv, TypeOK, Messages
<1>10. HashesOwned'
  <2>1. HashesOwned
    BY DEF IInv
  <2>2. emitted' = emitted
    BY <1>1
  <2>3. \A d \in Calls : \A k \in 1..Len(hashes'[d]) : hashes'[d][k] <= emitted'
    BY ONLY <1>7, <2>1, <2>2 DEF HashesOwned
  <2>4. ASSUME NEW d \in Calls, NEW e \in Calls,
               NEW k \in 1..Len(hashes'[d]), NEW l \in 1..Len(hashes'[e]),
               hashes'[d][k] = hashes'[e][l], hashes'[d][k] # Approval
        PROVE  d = e /\ k = l
    <3>1. /\ k \in 1..Len(hashes[d]) /\ hashes'[d][k] = hashes[d][k]
          /\ l \in 1..Len(hashes[e]) /\ hashes'[e][l] = hashes[e][l]
      BY ONLY <1>7, <2>4
    <3>2. hashes[d][k] = hashes[e][l] /\ hashes[d][k] # Approval
      BY ONLY <2>4, <3>1
    <3> QED  BY <2>1, <3>1, <3>2 DEF HashesOwned
  <2> QED  BY ONLY <2>3, <2>4 DEF HashesOwned
<1>11. UnparsedIsNew'
  <2>1. ASSUME NEW d \in Calls, NEW k \in idx'[d]..Len(hashes'[d]),
               hashes'[d][k] # Approval, NEW i \in 1..Len(vaas')
        PROVE  vaas'[i].id # hashes'[d][k]
    <3>1. idx'[d] \in Nat /\ idx'[d] >= 1
      <4>1. idx[d] \in Nat /\ idx[d] >= 1 /\ idx[c] \in Nat /\ idx[c] >= 1
        BY IdxPositive
      <4>2. CASE Ends(c, "returned")
        BY <4>1, <4>2, <1>2 DEF Ends
      <4>3. CASE idx' = [idx EXCEPT ![c] = @ + 1]
        BY <4>1, <4>3, <1>2
      <4> QED  BY <4>2, <4>3, <1>1
    <3>2. k \in 1..Len(hashes[d]) /\ hashes'[d][k] = hashes[d][k]
      BY <3>1, <1>7
    <3>3. k >= idx[d] /\ (d = c => k # idx[c])
      BY <1>8
    <3>4. CASE i \in 1..Len(vaas)
      <4>1. UnparsedIsNew
        BY DEF IInv
      <4>2. k \in idx[d]..Len(hashes[d])
        BY <3>2, <3>3, <1>2
      <4>3. vaas[i].id # hashes[d][k]
        BY <4>1, <4>2, <3>4, <3>2, <2>1 DEF UnparsedIsNew, Entries
      <4> QED  BY <4>3, <3>2, <3>4, <1>6
    <3>5. CASE i = Len(vaas) + 1
      <4>1. HashesOwned
        BY DEF IInv
      <4>2. hashes[d][k] # hashes[c][idx[c]]
        BY <4>1, <3>2, <3>3, <1>3, <2>1 DEF HashesOwned
      <4> QED  BY <4>2, <3>2, <3>5, <1>6 DEF h
    <3> QED  BY <3>4, <3>5, <1>6
  <2> QED  BY <2>1 DEF UnparsedIsNew, Entries
<1>12. \A i \in 1..Len(vaas') : i \in 1..Len(vaas) \/ i = Len(vaas) + 1
  BY <1>6
<1>13. EntriesEmitted'
  BY <1>1, <1>4, <1>6, <1>12 DEF IInv, EntriesEmitted, Entries, Messages
<1>14. VaasDistinct'
  BY <1>5, <1>6, <1>12 DEF IInv, VaasDistinct, Entries
<1>15. VaaMatchesId' /\ RedeemsSigned'
  BY <1>1, <1>6, <1>12 DEF IInv, VaaMatchesId, RedeemsSigned, Entries
<1>16. (state = Completed => vaas # <<>> /\ vaas[1].id \in redeemed)'
  <2>1. vaas # <<>> => 1 \in 1..Len(vaas)
    BY <1>2
  <2>2. vaas' # <<>>
    BY <1>6
  <2> QED  BY <1>1, <1>6, <2>1, <2>2 DEF IInv
<1>17. ASSUME NEW d \in Calls PROVE CallAt(d)'
  <2>1. CallAt(d) /\ pc[d] \in PCs
    BY DEF IInv, TypeOK
  <2>2. CASE d # c
    <3>1. /\ pc'[d] = pc[d] /\ idx'[d] = idx[d] /\ hashes'[d] = hashes[d]
          /\ limit'[d] = limit[d]
      <4>1. CASE Ends(c, "returned")
        BY <4>1, <1>2, <2>2 DEF Ends
      <4>2. CASE ~Ends(c, "returned")
        BY <4>2, <1>1, <1>2, <2>2 DEF Await
      <4> QED  BY <4>1, <4>2
    <3>2. vaas' # <<>>
      BY <1>6
    <3>3. idx[d] \in Nat /\ limit[d] \in Nat
          /\ redeemed' = redeemed /\ automatic' = automatic
      BY <1>1, <1>2
    <3>4. Len(vaas) \in Nat /\ Len(vaas') \in Nat /\ Len(vaas) <= Len(vaas')
      BY <1>6
    <3>5. \A i \in 1..Len(vaas) : /\ vaas'[i].id = vaas[i].id
                                  /\ vaas[i].vaa # NoVaa => vaas'[i].vaa # NoVaa
      BY <1>6
    <3> QED  BY ONLY <3>1, <3>2, <3>3, <3>4, <3>5, <2>1, CallAtCarries
  <2>3. CASE d = c
    <3>1. CASE Ends(c, "returned")
      <4>1. pc'[d] = "idle" /\ idx'[d] = 1 /\ hashes'[d] = <<>>
        BY <1>2, <2>3, <3>1 DEF Ends, IInv, TypeOK
      <4> QED  BY <4>1 DEF CallAt, PCs, Initiating
    <3>2. CASE ~Ends(c, "returned")
      <4>1. pc'[d] = "parse" /\ idx'[d] = idx[c] + 1 /\ hashes'[d] = hashes[c]
            /\ idx[c] # Len(hashes[c])
        BY <1>1, <1>2, <2>3, <3>2 DEF Await, IInv, TypeOK
      <4>2. idx'[d] \in 1..Len(hashes'[d])
        BY <4>1, <1>3, <1>2
      <4> QED  BY <4>1, <4>2 DEF CallAt, PCs, Initiating
    <3> QED  BY <3>1, <3>2
  <2> QED  BY <2>2, <2>3
<1> QED  BY <1>9, <1>10, <1>11, <1>13, <1>14, <1>15, <1>16, <1>17 DEF IInv


(* fetchAttestation goes on after it may have stored a VAA.                *)
LEMMA FetchLoopKeeps ==
  ASSUME IInv, NEW c \in Calls, hashes[c] = <<>>,
         NEW from \in Nat, NEW to \in Nat, from >= 1, to <= Len(vaas),
         vaas' \in Seq(Entry), Len(vaas') = Len(vaas),
         \A i \in 1..Len(vaas) :
            /\ vaas'[i].id = vaas[i].id
            /\ \/ vaas'[i].vaa = vaas[i].vaa
               \/ vaas'[i].vaa = vaas[i].id /\ vaas[i].id \in signed,
         \A i \in 1..(from - 1) : vaas'[i].vaa # NoVaa,
         FetchLoop(c, vaas', from, to),
         UNCHANGED <<fixed, txids, attempts, chainVars>>
  PROVE  IInv'
<1>0. PICK next \in from..(to + 1) :
       /\ NextMissing(vaas', from, to, next)
       /\ IF next > to
         THEN /\ state' = Attested
              /\ Ends(c, "returned")
         ELSE /\ idx' = [idx EXCEPT ![c] = next]
              /\ limit' = [limit EXCEPT ![c] = to]
              /\ Await(c, "fetch")
              /\ UNCHANGED <<state, hashes>>
  BY Zenon DEF FetchLoop
<1>a. next \in Nat /\ next >= 1 /\ (next > to \/ next <= to)
  OBVIOUS
<1>b. \A i \in 1..(next - 1) : vaas'[i].vaa # NoVaa
  <2>1. \A i \in from..(next - 1) : vaas'[i].vaa # NoVaa
    BY <1>0 DEF NextMissing
  <2> QED  BY <2>1, <1>a
<1>1. \/ /\ state' = Attested
         /\ Ends(c, "returned")
      \/ /\ next <= to
         /\ idx' = [idx EXCEPT ![c] = next]
         /\ limit' = [limit EXCEPT ![c] = to]
         /\ Await(c, "fetch")
         /\ UNCHANGED <<state, hashes>>
  BY <1>0, <1>a
<1>2. /\ hashes \in [Calls -> Seq(Nat)] /\ idx \in [Calls -> Nat]
      /\ vaas \in Seq(Entry) /\ emitted \in Nat
      /\ limit \in [Calls -> Nat] /\ pc \in [Calls -> PCs]
      /\ signed \subseteq Messages
  BY DEF IInv, TypeOK
<1>3. UNCHANGED <<automatic, token, redeemer, txids, attempts, allowance, emitted, signed, redeemed>>
  BY DEF fixed, chainVars
<1>4. \/ /\ state' = Attested /\ pc' = [pc EXCEPT ![c] = "idle"]
         /\ idx' = [idx EXCEPT ![c] = 1] /\ limit' = [limit EXCEPT ![c] = 0]
      \/ /\ state' = state /\ pc' = [pc EXCEPT ![c] = "fetch"]
         /\ idx' = [idx EXCEPT ![c] = next] /\ limit' = [limit EXCEPT ![c] = to]
         /\ next \in 1..to
  BY <1>1 DEF Ends, Await
<1>5. hashes' = hashes
  <2>1. CASE Ends(c, "returned")
    BY <2>1, <1>2 DEF Ends
  <2> QED  BY <2>1, <1>1
<1>6. result' \in [Calls -> {"none", "returned", "threw"}]
  BY <1>1 DEF IInv, TypeOK, Ends, Await
<1>7. TypeOK'
  <2>1. idx' \in [Calls -> Nat] /\ limit' \in [Calls -> Nat]
    <3>1. CASE idx' = [idx EXCEPT ![c] = 1] /\ limit' = [limit EXCEPT ![c] = 0]
      BY <3>1, <1>2
    <3>2. CASE idx' = [idx EXCEPT ![c] = next] /\ limit' = [limit EXCEPT ![c] = to]
      BY <3>2, <1>2, <1>a
    <3> QED  BY <3>1, <3>2, <1>4
  <2>2. pc' \in [Calls -> PCs]
    BY <1>2, <1>4 DEF PCs, Initiating
  <2>3. state' \in {Created, Initiated, Attested, Completed}
    BY <1>4 DEF IInv, TypeOK
  <2> QED  BY <1>3, <1>5, <1>6, <2>1, <2>2, <2>3 DEF IInv, TypeOK, Messages
<1>8. HashesOwned'
  BY <1>3, <1>5 DEF IInv, HashesOwned
<1>9. UnparsedIsNew'
  <2>1. ASSUME NEW d \in Calls, NEW k \in idx'[d]..Len(hashes'[d]),
               hashes'[d][k] # Approval, NEW i \in 1..Len(vaas')
        PROVE  vaas'[i].id # hashes'[d][k]
    <3>1. CASE d = c
      <4>1. hashes'[d] = <<>> /\ Len(hashes'[d]) = 0
        BY <3>1, <1>5
      <4>2. idx'[d] \in Nat /\ idx'[d] >= 1
        <5>1. idx'[c] = 1 \/ idx'[c] = next
          BY <1>2, <1>4
        <5> QED  BY <5>1, <3>1, <1>a
      <4> QED  BY <4>1, <4>2
    <3>2. CASE d # c
      <4>1. idx'[d] = idx[d]
        BY <3>2, <1>2, <1>4
      <4>2. UnparsedIsNew
        BY DEF IInv
      <4>3. k \in idx[d]..Len(hashes[d]) /\ hashes[d][k] # Approval /\ i \in 1..Len(vaas)
        BY ONLY <4>1, <1>5, <2>1, Len(vaas') = Len(vaas)
      <4>4. vaas[i].id # hashes[d][k]
        BY ONLY <4>2, <4>3, d \in Calls DEF UnparsedIsNew, Entries
      <4> QED  BY <4>3, <4>4, <1>5
    <3> QED  BY <3>1, <3>2
  <2> QED  BY <2>1 DEF UnparsedIsNew, Entries
<1>10. EntriesEmitted' /\ VaasDistinct'
  BY <1>3 DEF IInv, EntriesEmitted, VaasDistinct, Entries, Messages
<1>11. VaaMatchesId' /\ RedeemsSigned'
  BY <1>3 DEF IInv, VaaMatchesId, RedeemsSigned, Entries
<1>12. vaas # <<>> => vaas' # <<>> /\ 1 \in 1..Len(vaas)
  BY <1>2
<1>13. (state = Completed => vaas # <<>> /\ vaas[1].id \in redeemed)'
  <2>1. state' = Completed => state = Completed
    BY <1>4
  <2>2. vaas # <<>> => vaas'[1].id = vaas[1].id
    BY <1>12
  <2>3. state = Completed => vaas # <<>> /\ vaas[1].id \in redeemed
    BY DEF IInv
  <2> QED  BY <2>1, <2>2, <2>3, <1>3, <1>12
<1>14. ASSUME NEW d \in Calls PROVE CallAt(d)'
  <2>1. CASE d = c
    <3>1. \/ pc'[c] = "idle" /\ idx'[c] = 1
          \/ pc'[c] = "fetch" /\ idx'[c] \in 1..limit'[c] /\ limit'[c] = to
             /\ idx'[c] = next
      BY <1>2, <1>4
    <3>2. hashes'[c] = <<>>
      BY <1>5
    <3> QED  BY <2>1, <3>1, <3>2, <1>b DEF CallAt, PCs, Initiating
  <2>2. CASE d # c
    <3>1. /\ pc'[d] = pc[d] /\ idx'[d] = idx[d] /\ hashes'[d] = hashes[d]
          /\ limit'[d] = limit[d]
      BY <1>2, <1>4, <1>5, <2>2
    <3>2. CallAt(d) /\ idx[d] \in Nat /\ limit[d] \in Nat
      BY <1>2 DEF IInv
    <3>3. Len(vaas) \in Nat /\ Len(vaas') \in Nat /\ Len(vaas) <= Len(vaas')
      BY <1>2
    <3>4. \A i \in 1..Len(vaas) : /\ vaas'[i].id = vaas[i].id
                                  /\ vaas[i].vaa # NoVaa => vaas'[i].vaa # NoVaa
      <4>1. \A i \in 1..Len(vaas) : vaas[i].id \in 1..emitted
        BY DEF IInv, EntriesEmitted, Entries, Messages
      <4>2. \A i \in 1..Len(vaas) : vaas[i].id # NoVaa
        <5>1. ASSUME NEW i \in 1..Len(vaas) PROVE vaas[i].id # NoVaa
          <6>1. vaas[i].id \in 1..emitted
            BY <4>1
          <6> QED  BY ONLY <6>1, <1>2 DEF NoVaa
        <5> QED  BY <5>1
      <4> QED  BY <4>2
    <3> QED  BY <1>3, <1>12, <3>1, <3>2, <3>3, <3>4, CallAtCarries
  <2> QED  BY <2>1, <2>2
<1> QED  BY <1>7, <1>8, <1>9, <1>10, <1>11, <1>13, <1>14 DEF IInv

LEMMA BeginFetchKeeps ==
  ASSUME IInv, NEW c \in Calls, BeginFetch(c) PROVE IInv'
<1>1. /\ pc[c] = "idle" /\ vaas' = vaas /\ FetchLoop(c, vaas', 1, Len(vaas))
      /\ UNCHANGED <<fixed, txids, attempts, chainVars>>
  BY DEF BeginFetch
<1>2. vaas \in Seq(Entry) /\ Len(vaas) \in Nat
  BY DEF IInv, TypeOK
<1>3. hashes[c] = <<>>
  BY <1>1 DEF IInv, CallAt, PCs, Initiating
<1>4. /\ vaas' \in Seq(Entry) /\ Len(vaas') = Len(vaas)
      /\ \A i \in 1..Len(vaas) :
            /\ vaas'[i].id = vaas[i].id
            /\ \/ vaas'[i].vaa = vaas[i].vaa
               \/ vaas'[i].vaa = vaas[i].id /\ vaas[i].id \in signed
  BY <1>1, <1>2
<1>5. /\ 1 \in Nat /\ 1 >= 1 /\ Len(vaas) <= Len(vaas)
      /\ \A i \in 1..(1 - 1) : vaas'[i].vaa # NoVaa
  BY <1>2
<1> QED  BY <1>1, <1>2, <1>3, <1>4, <1>5, FetchLoopKeeps

(* The entry that fetchAttestation stands at has its VAA after the step,   *)
(* as those before it have.                                                *)
LEMMA FetchHasStored ==
  ASSUME IInv, NEW c \in Calls, FetchArrives(c)
  PROVE  \A i \in 1..((idx[c] + 1) - 1) : vaas'[i].vaa # NoVaa
<1>1. /\ pc[c] = "fetch" /\ vaas[idx[c]].id \in signed
      /\ vaas' = [vaas EXCEPT ![idx[c]].vaa = vaas[idx[c]].id]
  BY DEF FetchArrives
<1>2. /\ vaas \in Seq(Entry) /\ Len(vaas) \in Nat /\ signed \subseteq 1..emitted
      /\ idx[c] \in Nat /\ limit[c] \in Nat /\ emitted \in Nat
  BY DEF IInv, TypeOK, Messages
<1>3. /\ idx[c] \in 1..limit[c] /\ limit[c] <= Len(vaas)
      /\ \A i \in 1..(idx[c] - 1) : vaas[i].vaa # NoVaa
  BY <1>1 DEF IInv, CallAt
<1>4. vaas[idx[c]].id # NoVaa
  BY <1>1, <1>2
<1>5. ASSUME NEW i \in 1..((idx[c] + 1) - 1) PROVE vaas'[i].vaa # NoVaa
  <2>1. vaas[i] \in Entry
    BY <1>2, <1>3, ElementOfSeq
  <2>2. CASE i = idx[c]
    <3>1. vaas'[i] = [vaas[i] EXCEPT !.vaa = vaas[idx[c]].id]
      BY <1>1, <1>2, <1>3, <2>2
    <3> QED  BY <3>1, <2>1, <1>4 DEF Entry
  <2>3. CASE i # idx[c]
    <3>1. vaas'[i] = vaas[i]
      BY <1>1, <1>2, <1>3, <2>3
    <3> QED  BY <3>1, <1>2, <1>3, <2>3
  <2> QED  BY <2>2, <2>3
<1> QED  BY <1>5

LEMMA FetchArrivesKeeps ==
  ASSUME IInv, NEW c \in Calls, FetchArrives(c) PROVE IInv'
<1>1. /\ pc[c] = "fetch" /\ vaas[idx[c]].id \in signed
      /\ vaas' = [vaas EXCEPT ![idx[c]].vaa = vaas[idx[c]].id]
      /\ FetchLoop(c, vaas', idx[c] + 1, limit[c])
      /\ UNCHANGED <<fixed, txids, attempts, chainVars>>
  BY DEF FetchArrives
<1>2. /\ vaas \in Seq(Entry) /\ Len(vaas) \in Nat
      /\ idx[c] \in Nat /\ limit[c] \in Nat
  BY DEF IInv, TypeOK
<1>3. hashes[c] = <<>> /\ idx[c] \in 1..limit[c] /\ limit[c] <= Len(vaas)
  BY <1>1 DEF IInv, CallAt, PCs, Initiating
<1>4. idx[c] \in 1..Len(vaas)
  BY <1>2, <1>3
<1>5. vaas[idx[c]].id \in Nat
  <2>1. vaas[idx[c]] \in Entry
    BY ONLY <1>2, <1>4, ElementOfSeq
  <2> QED  BY <2>1 DEF Entry
<1>6. vaas' \in Seq(Entry) /\ Len(vaas') = Len(vaas)
  <2>1. vaas[idx[c]] \in Entry
    BY ONLY <1>2, <1>4, ElementOfSeq
  <2> DEFINE e == [vaas[idx[c]] EXCEPT !.vaa = vaas[idx[c]].id]
  <2>2. e \in Entry
    BY <2>1, <1>5 DEF Entry
  <2>3. vaas' = [vaas EXCEPT ![idx[c]] = e]
    BY <1>1
  <2> HIDE DEF e
  <2> QED  BY ONLY <1>2, <1>4, <2>2, <2>3, ExceptSeq
<1>7. \A i \in 1..Len(vaas) :
         /\ vaas'[i].id = vaas[i].id
         /\ \/ vaas'[i].vaa = vaas[i].vaa
            \/ vaas'[i].vaa = vaas[i].id /\ vaas[i].id \in signed
  BY <1>1, <1>2, <1>4
<1>8. idx[c] + 1 \in Nat /\ idx[c] + 1 >= 1
  BY <1>2
<1>9. \A i \in 1..((idx[c] + 1) - 1) : vaas'[i].vaa # NoVaa
  BY <1>1, FetchHasStored
<1> QED  BY <1>1, <1>2, <1>3, <1>6, <1>7, <1>8, <1>9, FetchLoopKeeps


LEMMA BeginStatusKeeps ==
  ASSUME IInv, NEW c \in Calls, BeginStatus(c) PROVE IInv'
<1> USE DEF fixed, objVars, loopVars, chainVars
<1>1. TypeOK'
  BY DEF IInv, TypeOK, BeginStatus, Await, PCs, Initiating, Messages
<1>2. HashesOwned' /\ UnparsedIsNew'
  BY DEF IInv, HashesOwned, UnparsedIsNew, BeginStatus, Entries
<1>3. EntriesEmitted' /\ VaasDistinct' /\ VaaMatchesId' /\ RedeemsSigned'
  BY DEF IInv, EntriesEmitted, VaasDistinct, VaaMatchesId, RedeemsSigned,
         Entries, Messages, BeginStatus
<1>4. (state = Completed => vaas # <<>> /\ vaas[1].id \in redeemed)'
  BY DEF IInv, BeginStatus
<1>5. ASSUME NEW d \in Calls PROVE CallAt(d)'
  BY DEF IInv, TypeOK, CallAt, BeginStatus, Await, PCs, Initiating, Entries
<1> QED  BY <1>1, <1>2, <1>3, <1>4, <1>5 DEF IInv

LEMMA StatusCompletedKeeps ==
  ASSUME IInv, NEW c \in Calls, StatusCompleted(c) PROVE IInv'
<1> USE DEF fixed, chainVars
<1>1. TypeOK'
  BY DEF IInv, TypeOK, StatusCompleted, Ends, PCs, Initiating, Messages
<1>2. HashesOwned' /\ UnparsedIsNew'
  BY DEF IInv, TypeOK, HashesOwned, UnparsedIsNew, StatusCompleted, Ends, Entries
<1>3. EntriesEmitted' /\ VaasDistinct' /\ VaaMatchesId' /\ RedeemsSigned'
  BY DEF IInv, EntriesEmitted, VaasDistinct, VaaMatchesId, RedeemsSigned,
         Entries, Messages, StatusCompleted
<1>4. (state = Completed => vaas # <<>> /\ vaas[1].id \in redeemed)'
  BY DEF IInv, CallAt, StatusCompleted
<1>5. ASSUME NEW d \in Calls PROVE CallAt(d)'
  BY DEF IInv, TypeOK, CallAt, StatusCompleted, Ends, PCs, Initiating, Entries
<1> QED  BY <1>1, <1>2, <1>3, <1>4, <1>5 DEF IInv

(* completeTransfer goes on after the entries before `next` are redeemed.  *)
LEMMA RedeemLoopKeeps ==
  ASSUME IInv, NEW c \in Calls, hashes[c] = <<>>,
         NEW next \in Nat, next >= 1,
         ~automatic => \A i \in 1..(next - 1) : vaas[i].id \in redeemed,
         RedeemLoop(c, next),
         UNCHANGED <<fixed, objVars, attempts, chainVars>>
  PROVE  IInv'
<1>1. CASE \E how \in {"returned", "threw"} : Ends(c, how)
  BY <1>1, EndsKeeps
<1>2. CASE ~\E how \in {"returned", "threw"} : Ends(c, how)
  <2> USE DEF fixed, objVars, chainVars
  <2>1. /\ ~(next > Len(vaas)) /\ vaas[next].vaa # NoVaa
        /\ idx' = [idx EXCEPT ![c] = next] /\ Await(c, "redeem")
        /\ UNCHANGED <<hashes, limit>>
    BY <1>2 DEF RedeemLoop
  <2>2. next \in 1..Len(vaas)
    BY <2>1 DEF IInv, TypeOK
  <2>3. TypeOK'
    BY <2>1 DEF IInv, TypeOK, Await, PCs, Initiating, Messages
  <2>4. HashesOwned'
    BY <2>1 DEF IInv, HashesOwned
  <2>5. UnparsedIsNew'
    <3>1. ASSUME NEW d \in Calls, NEW k \in idx'[d]..Len(hashes'[d]),
                 hashes'[d][k] # Approval, NEW i \in 1..Len(vaas)
          PROVE  vaas[i].id # hashes'[d][k]
      <4>1. idx \in [Calls -> Nat]
        BY DEF IInv, TypeOK
      <4>2. CASE d = c
        <5>1. Len(hashes'[d]) = 0
          BY <4>2, <2>1
        <5>2. idx'[d] = next
          BY <4>1, <4>2, <2>1
        <5> QED  BY <5>1, <5>2
      <4>3. CASE d # c
        <5>1. idx'[d] = idx[d] /\ hashes' = hashes
          BY <4>1, <4>3, <2>1
        <5>2. UnparsedIsNew
          BY DEF IInv
        <5> QED  BY <5>1, <5>2, <3>1 DEF UnparsedIsNew, Entries
      <4> QED  BY <4>2, <4>3
    <3> QED  BY <3>1 DEF UnparsedIsNew, Entries
  <2>6. EntriesEmitted' /\ VaasDistinct' /\ VaaMatchesId' /\ RedeemsSigned'
    BY DEF IInv, EntriesEmitted, VaasDistinct, VaaMatchesId, RedeemsSigned,
           Entries, Messages
  <2>7. (state = Completed => vaas # <<>> /\ vaas[1].id \in redeemed)'
    BY DEF IInv
  <2>8. ASSUME NEW d \in Calls PROVE CallAt(d)'
    <3>1. pc \in [Calls -> PCs] /\ idx \in [Calls -> Nat]
      BY DEF IInv, TypeOK
    <3>2. CASE d = c
      <4>1. pc'[d] = "redeem" /\ idx'[d] = next /\ hashes'[d] = <<>>
        BY <3>1, <3>2, <2>1 DEF Await
      <4> QED  BY <4>1, <2>1, <2>2 DEF CallAt, PCs, Initiating, Entries
    <3>3. CASE d # c
      <4>1. pc'[d] = pc[d] /\ idx'[d] = idx[d]
        BY <3>1, <3>3, <2>1 DEF Await
      <4>2. CallAt(d)
        BY DEF IInv
      <4> QED  BY <4>1, <4>2, <2>1 DEF CallAt, Entries
    <3> QED  BY <3>2, <3>3
  <2> QED  BY <2>3, <2>4, <2>5, <2>6, <2>7, <2>8 DEF IInv
<1> QED  BY <1>1, <1>2

LEMMA BeginCompleteKeeps ==
  ASSUME IInv, NEW c \in Calls, BeginComplete(c) PROVE IInv'
<1>1. hashes[c] = <<>>
  BY DEF BeginComplete, IInv, CallAt, PCs, Initiating
<1>2. RedeemLoop(c, 1) /\ UNCHANGED <<fixed, objVars, attempts, chainVars>>
  BY DEF BeginComplete
<1>3. \A i \in 1..(1 - 1) : vaas[i].id \in redeemed
  OBVIOUS
<1>4. 1 \in Nat /\ 1 >= 1
  OBVIOUS
<1> QED  BY <1>1, <1>2, <1>3, <1>4, RedeemLoopKeeps

(* What Redeemed and RedeemNothing share.                                  *)
LEMMA RedeemNextKeeps ==
  ASSUME IInv, NEW c \in Calls, pc[c] \in {"redeem", "redeeming"},
         pc[c] = "redeem" => automatic,
         RedeemLoop(c, idx[c] + 1),
         UNCHANGED <<fixed, objVars, attempts, chainVars>>
  PROVE  IInv'
<1>1. CallAt(c) /\ idx[c] \in Nat /\ idx[c] >= 1
  BY IdxPositive DEF IInv
<1>2. hashes[c] = <<>>
  BY <1>1 DEF CallAt, PCs, Initiating
<1>3. ASSUME ~automatic, NEW i \in 1..((idx[c] + 1) - 1) PROVE vaas[i].id \in redeemed
  <2>1. i \in 1..(idx[c] - 1) \/ i = idx[c]
    BY <1>1
  <2>2. pc[c] = "redeeming"
    BY <1>3
  <2>3. vaas[idx[c]].id \in redeemed
    BY <1>1, <2>2 DEF CallAt
  <2>4. \A j \in 1..(idx[c] - 1) : vaas[j].id \in redeemed
    BY <1>1, <1>3, <2>2 DEF CallAt
  <2> QED  BY <2>1, <2>3, <2>4
<1>4. idx[c] + 1 \in Nat /\ idx[c] + 1 >= 1
  BY <1>1
<1> QED  BY <1>2, <1>3, <1>4, RedeemLoopKeeps

(* Only a VAA that is held, hence signed, reaches the destination.         *)
LEMMA RedeemKeeps ==
  ASSUME IInv, NEW c \in Calls, Redeem(c) PROVE IInv'
<1> USE DEF fixed, objVars, loopVars
<1>1. idx[c] \in 1..Len(vaas) /\ vaas[idx[c]].vaa # NoVaa
  BY DEF Redeem, IInv, CallAt, Entries
<1>2. vaas[idx[c]].vaa = vaas[idx[c]].id /\ vaas[idx[c]].vaa \in signed
  BY <1>1 DEF IInv, VaaMatchesId, Entries
<1>3. /\ redeemed' = redeemed \union {vaas[idx[c]].vaa} /\ vaas' = vaas
      /\ signed' = signed /\ emitted' = emitted
  BY DEF Redeem
<1>4. TypeOK'
  <2>1. redeemed' \subseteq Nat
    <3>1. redeemed \subseteq Nat /\ signed \subseteq Nat
      BY DEF IInv, TypeOK, Messages
    <3> QED  BY ONLY <3>1, <1>2, <1>3
  <2> QED  BY <2>1 DEF IInv, TypeOK, Redeem, Await, PCs, Initiating, Messages
<1>5. HashesOwned' /\ UnparsedIsNew'
  <2>1. HashesOwned /\ UnparsedIsNew
    BY DEF IInv
  <2>2. hashes' = hashes /\ idx' = idx /\ vaas' = vaas /\ emitted' = emitted
    BY DEF Redeem
  <2> QED  BY ONLY <2>1, <2>2 DEF HashesOwned, UnparsedIsNew, Entries
<1>6. EntriesEmitted' /\ VaasDistinct' /\ VaaMatchesId' /\ RedeemsSigned'
  BY <1>2, <1>3 DEF IInv, EntriesEmitted, VaasDistinct, VaaMatchesId,
                    RedeemsSigned, Entries, Messages
<1>7. (state = Completed => vaas # <<>> /\ vaas[1].id \in redeemed)'
  BY <1>3 DEF IInv, Redeem
<1>8. ASSUME NEW d \in Calls PROVE CallAt(d)'
  <2>1. /\ pc \in [Calls -> PCs] /\ CallAt(d) /\ idx' = idx /\ hashes' = hashes
        /\ limit' = limit /\ automatic' = automatic /\ ~automatic
        /\ pc[c] = "redeem" /\ pc' = [pc EXCEPT ![c] = "redeeming"]
    BY DEF IInv, TypeOK, Redeem, Await
  <2>2. CASE d # c
    BY <1>3, <2>1, <2>2 DEF CallAt, Entries
  <2>3. CASE d = c
    <3>1. vaas'[idx'[c]].id \in redeemed'
      BY <1>2, <1>3, <2>1
    <3>2. pc'[c] = "redeeming"
      BY <2>1
    <3> QED  BY <1>3, <2>1, <2>3, <3>1, <3>2 DEF CallAt, Entries, PCs, Initiating
  <2> QED  BY <2>2, <2>3
<1> QED  BY <1>4, <1>5, <1>6, <1>7, <1>8 DEF IInv


LEMMA GuardiansSignKeeps ==
  ASSUME IInv, NEW m \in Messages, GuardiansSign(m) PROVE IInv'
<1> USE DEF fixed, objVars, callVars, loopVars
<1>1. TypeOK'
  BY DEF IInv, TypeOK, GuardiansSign, Messages
<1>2. HashesOwned' /\ UnparsedIsNew'
  BY DEF IInv, HashesOwned, UnparsedIsNew, GuardiansSign, Entries
<1>3. EntriesEmitted' /\ VaasDistinct' /\ VaaMatchesId' /\ RedeemsSigned'
  BY DEF IInv, EntriesEmitted, VaasDistinct, VaaMatchesId, RedeemsSigned,
         Entries, Messages, GuardiansSign
<1>4. (state = Completed => vaas # <<>> /\ vaas[1].id \in redeemed)'
  BY DEF IInv, GuardiansSign
<1>5. ASSUME NEW d \in Calls PROVE CallAt(d)'
  BY DEF IInv, CallAt, GuardiansSign, Entries
<1> QED  BY <1>1, <1>2, <1>3, <1>4, <1>5 DEF IInv

LEMMA RelayerDeliversKeeps ==
  ASSUME IInv, NEW m \in Messages, RelayerDelivers(m) PROVE IInv'
<1> USE DEF fixed, objVars, callVars, loopVars
<1>1. TypeOK'
  <2>1. TypeOK /\ m \in Nat
    BY DEF IInv, TypeOK, Messages
  <2>2. redeemed' \subseteq Nat
    BY <2>1 DEF TypeOK, RelayerDelivers
  <2> QED  BY ONLY <2>1, <2>2, RelayerDelivers(m)
           DEF TypeOK, RelayerDelivers, Messages, fixed, objVars, callVars, loopVars
<1>2. HashesOwned' /\ UnparsedIsNew'
  BY DEF IInv, HashesOwned, UnparsedIsNew, RelayerDelivers, Entries
<1>3. EntriesEmitted' /\ VaasDistinct' /\ VaaMatchesId' /\ RedeemsSigned'
  BY DEF IInv, EntriesEmitted, VaasDistinct, VaaMatchesId, RedeemsSigned,
         Entries, Messages, RelayerDelivers
<1>4. (state = Completed => vaas # <<>> /\ vaas[1].id \in redeemed)'
  BY DEF IInv, RelayerDelivers
<1>5. ASSUME NEW d \in Calls PROVE CallAt(d)'
  BY DEF IInv, CallAt, RelayerDelivers, Entries
<1> QED  BY <1>1, <1>2, <1>3, <1>4, <1>5 DEF IInv

LEMMA RecoverKeeps ==
  ASSUME IInv, NEW m \in Messages, Recover(m) PROVE IInv'
<1> DEFINE entry == [id |-> m, vaa |-> m]
<1>1. /\ m \in signed /\ state' = Attested /\ vaas' = <<entry>>
      /\ txids' \in {<<>>, <<m>>}
      /\ pc' = [c \in Calls |-> "idle"] /\ hashes' = [c \in Calls |-> <<>>]
      /\ idx' = [c \in Calls |-> 1] /\ limit' = [c \in Calls |-> 0]
      /\ result' = [c \in Calls |-> "none"]
      /\ UNCHANGED <<automatic, token, redeemer, attempts, allowance, emitted, signed, redeemed>>
  BY DEF Recover, fixed, chainVars
<1>2. m \in Nat /\ m >= 1 /\ m <= emitted /\ emitted \in Nat
  BY DEF IInv, TypeOK, Messages
<1>3. entry \in Entry /\ entry.id = m /\ entry.vaa = m
  BY <1>2 DEF Entry
<1> HIDE DEF entry
<1>4. vaas' \in Seq(Entry) /\ Len(vaas') = 1 /\ vaas'[1] = entry /\ vaas' # <<>>
  BY <1>1, <1>3
<1>5. TypeOK'
  <2>1. txids' \in Seq(Nat)
    <3>1. <<m>> \in Seq(Nat) /\ <<>> \in Seq(Nat)
      BY <1>2
    <3> QED  BY ONLY <3>1, <1>1
  <2>2. pc' \in [Calls -> PCs] /\ hashes' \in [Calls -> Seq(Nat)]
        /\ idx' \in [Calls -> Nat] /\ limit' \in [Calls -> Nat]
        /\ result' \in [Calls -> {"none", "returned", "threw"}]
    BY <1>1 DEF PCs, Initiating
  <2> QED  BY <1>1, <1>4, <2>1, <2>2 DEF IInv, TypeOK, Messages
<1>6. HashesOwned' /\ UnparsedIsNew'
  BY <1>1 DEF HashesOwned, UnparsedIsNew
<1>7. \A i \in 1..Len(vaas') : i = 1 /\ vaas'[i].id = m /\ vaas'[i].vaa = m
  BY <1>3, <1>4
<1>8. EntriesEmitted' /\ VaasDistinct' /\ VaaMatchesId'
  BY <1>1, <1>2, <1>7 DEF EntriesEmitted, VaasDistinct, VaaMatchesId,
                          Entries, Messages
<1>9. RedeemsSigned' /\ (state = Completed => vaas # <<>> /\ vaas[1].id \in redeemed)'
  BY <1>1 DEF IInv, RedeemsSigned
<1>10. ASSUME NEW d \in Calls PROVE CallAt(d)'
  <2>1. pc'[d] = "idle" /\ idx'[d] = 1 /\ hashes'[d] = <<>>
    BY <1>1
  <2> QED  BY <2>1 DEF CallAt, PCs, Initiating
<1> QED  BY <1>5, <1>6, <1>8, <1>9, <1>10 DEF IInv

LEMMA StutterKeeps == ASSUME IInv, UNCHANGED vars PROVE IInv'
<1> USE DEF vars, fixed, objVars, callVars, loopVars, chainVars
<1>1. TypeOK'
  BY DEF IInv, TypeOK, Messages
<1>4. HashesOwned' /\ UnparsedIsNew'
  BY DEF IInv, HashesOwned, UnparsedIsNew, Entries
<1>2. EntriesEmitted' /\ VaasDistinct' /\ VaaMatchesId' /\ RedeemsSigned'
  BY DEF IInv, EntriesEmitted, VaasDistinct, VaaMatchesId, RedeemsSigned,
         Entries, Messages
<1>3. (state = Completed => vaas # <<>> /\ vaas[1].id \in redeemed)'
      /\ \A d \in Calls : CallAt(d)'
  BY DEF IInv, CallAt, Entries
<1> QED  BY <1>1, <1>2, <1>3, <1>4 DEF IInv

(* Each action of a call ends it, with the rest unchanged, or is one of    *)
(* the lemmas above.                                                       *)
LEMMA CallKeeps ==
  ASSUME IInv, NEW c \in Calls, Begin(c) \/ Resumes(c) \/ Rejects(c) PROVE IInv'
<1>1. CASE TransferReverts(c) \/ ParseFindsNone(c)
  BY <1>1, EndsKeeps DEF TransferReverts, ParseFindsNone
<1>2. CASE FetchGivesUp(c) \/ StatusPending(c)
  BY <1>2, EndsKeeps DEF FetchGivesUp, StatusPending
<1>3. CASE RedeemRefused(c) \/ RedeemReverts(c) \/ Rejects(c)
  BY <1>3, EndsKeeps DEF RedeemRefused, RedeemReverts, Rejects
<1>4. CASE Redeemed(c) \/ RedeemNothing(c)
  BY <1>4, RedeemNextKeeps DEF Redeemed, RedeemNothing
<1>5. CASE Begin(c)
  BY <1>5, BeginInitiateKeeps, BeginFetchKeeps, BeginStatusKeeps,
     BeginCompleteKeeps DEF Begin
<1>6. CASE Prepared(c) \/ Approve(c) \/ Transfer(c) \/ Confirm(c) \/ Parse(c)
  BY <1>6, PreparedKeeps, ApproveKeeps, TransferKeeps, ConfirmKeeps, ParseKeeps
<1>7. CASE FetchArrives(c) \/ StatusCompleted(c) \/ Redeem(c)
  BY <1>7, FetchArrivesKeeps, StatusCompletedKeeps, RedeemKeeps
<1> QED
  BY <1>1, <1>2, <1>3, <1>4, <1>5, <1>6, <1>7
  DEF Resumes, Initiate, Fetch, Status, Complete

LEMMA NextKeeps == ASSUME IInv, [Next]_vars PROVE IInv'
<1>1. CASE \E c \in Calls : Begin(c) \/ Resumes(c) \/ Rejects(c)
  BY <1>1, CallKeeps
<1>2. CASE World
  BY <1>2, GuardiansSignKeeps, RelayerDeliversKeeps, RecoverKeeps DEF World
<1>3. CASE UNCHANGED vars
  BY <1>3, StutterKeeps
<1> QED  BY <1>1, <1>2, <1>3 DEF Next

(* IInv holds in every reachable state, for any number of calls in flight  *)
(* on the object, any number of attempts, with faults and crashes.         *)
THEOREM TokenTransferInvariant == Spec => []IInv
<1>1. Init => IInv
  BY TransferAssumption, InitInvariant
<1>2. IInv /\ [Next]_vars => IInv'
  BY NextKeeps
<1> QED  BY <1>1, <1>2, PTL DEF Spec

(* Overlapping calls of initiateTransfer never record a message twice.     *)
THEOREM NoDuplicateVaas == Spec => []VaasDistinct
<1>1. IInv => VaasDistinct
  BY DEF IInv
<1> QED  BY <1>1, TokenTransferInvariant, PTL

(* Nothing that the guardians have not signed is redeemed.                 *)
THEOREM OnlySignedIsRedeemed == Spec => []RedeemsSigned
<1>1. IInv => RedeemsSigned
  BY DEF IInv
<1> QED  BY <1>1, TokenTransferInvariant, PTL

(* A step of one call leaves every other call where it is.                 *)
LEMMA OthersStay ==
  ASSUME IInv, NEW c \in Calls, NEW d \in Calls, d # c,
         Begin(d) \/ Resumes(d) \/ Rejects(d)
  PROVE  pc'[c] = pc[c]
<1>1. pc \in [Calls -> PCs]
  BY DEF IInv, TypeOK
<1>2. ASSUME NEW how, Ends(d, how) PROVE pc'[c] = pc[c]
  BY <1>1, <1>2 DEF Ends
<1>3. ASSUME NEW where, Await(d, where) PROVE pc'[c] = pc[c]
  BY <1>1, <1>3 DEF Await
<1>4. CASE BeginInitiate(d) \/ Prepared(d) \/ Approve(d) \/ Transfer(d)
           \/ Confirm(d) \/ BeginStatus(d) \/ Redeem(d)
  BY <1>3, <1>4
  DEF BeginInitiate, Prepared, Approve, Transfer, Confirm, BeginStatus, Redeem
<1>5. CASE TransferReverts(d) \/ ParseFindsNone(d) \/ FetchGivesUp(d)
           \/ StatusCompleted(d) \/ StatusPending(d) \/ RedeemRefused(d) \/ RedeemReverts(d) \/ Rejects(d)
  BY <1>2, <1>5
  DEF TransferReverts, ParseFindsNone, FetchGivesUp, StatusCompleted,
      StatusPending, RedeemRefused, RedeemReverts, Rejects
<1>6. CASE Parse(d)
  BY <1>2, <1>3, <1>6 DEF Parse
<1>7. CASE BeginFetch(d) \/ FetchArrives(d)
  BY <1>2, <1>3, <1>7 DEF BeginFetch, FetchArrives, FetchLoop
<1>8. CASE BeginComplete(d) \/ Redeemed(d) \/ RedeemNothing(d)
  BY <1>2, <1>3, <1>8 DEF BeginComplete, Redeemed, RedeemNothing, RedeemLoop
<1> QED
  BY <1>4, <1>5, <1>6, <1>7, <1>8
  DEF Begin, Resumes, Initiate, Fetch, Status, Complete

(* completeTransfer of a manual transfer returns only when every message   *)
(* in vaas, pushed before or during the call, has been redeemed.           *)
THEOREM CompleteLeavesNothing == Spec => CompleteReturnsAll
<1>1. ASSUME IInv, [Next]_vars, NEW c \in Calls,
             pc[c] = "redeeming", result'[c] = "returned", pc'[c] = "idle"
      PROVE  \A i \in Entries : vaas[i].id \in redeemed
  <2>1. CallAt(c) /\ idx[c] \in Nat /\ idx[c] >= 1 /\ Len(vaas) \in Nat
        /\ result \in [Calls -> {"none", "returned", "threw"}]
    BY <1>1, IdxPositive DEF IInv, TypeOK
  <2>2. ~World
    <3>1. \A m \in Messages : ~Recover(m)
      BY <1>1 DEF Recover
    <3>2. \A m \in Messages : ~GuardiansSign(m) /\ ~RelayerDelivers(m)
      BY <1>1 DEF GuardiansSign, RelayerDelivers, callVars
    <3> QED  BY <3>1, <3>2 DEF World
  <2>3. ~UNCHANGED vars
    BY <1>1 DEF vars, callVars
  <2>4. Begin(c) \/ Resumes(c) \/ Rejects(c)
    BY <1>1, <2>2, <2>3, OthersStay DEF Next
  <2>5. ~Begin(c)
    BY <1>1 DEF Begin, BeginInitiate, BeginFetch, BeginStatus, BeginComplete
  <2>6. ~Rejects(c)
    BY <1>1, <2>1 DEF Rejects, Ends
  <2>7. Redeemed(c)
    BY <1>1, <2>4, <2>5, <2>6
    DEF Resumes, Initiate, Fetch, Status, Complete, Prepared, Approve, Transfer,
        TransferReverts, Confirm, Parse, ParseFindsNone, FetchArrives, FetchGivesUp,
        StatusCompleted, StatusPending, Redeem, RedeemRefused, RedeemReverts, RedeemNothing
  <2>8. RedeemLoop(c, idx[c] + 1)
    BY <2>7 DEF Redeemed
  <2>9. ~Ends(c, "threw")
    BY <1>1, <2>1 DEF Ends
  <2>10. ~Await(c, "redeem")
    <3>1. pc \in [Calls -> PCs]
      BY <1>1 DEF IInv, TypeOK
    <3> QED  BY <1>1, <3>1 DEF Await
  <2>11. idx[c] + 1 > Len(vaas)
    BY <2>8, <2>9, <2>10 DEF RedeemLoop
  <2>12. ASSUME NEW i \in Entries PROVE vaas[i].id \in redeemed
    <3>1. i \in 1..(idx[c] - 1) \/ i = idx[c]
      BY <2>1, <2>11 DEF Entries
    <3> QED  BY <3>1, <2>1, <1>1 DEF CallAt
  <2> QED  BY <2>12
<1>2. IInv /\ [Next]_vars =>
        [\A c \in Calls :
            (pc[c] = "redeeming" /\ result'[c] = "returned" /\ pc'[c] = "idle")
                => \A i \in Entries : vaas[i].id \in redeemed]_vars
  BY <1>1
<1> QED  BY <1>2, TokenTransferInvariant, PTL DEF Spec, CompleteReturnsAll

(* When fetchAttestation returns, each entry it enumerated has its VAA,    *)
(* whatever other calls have pushed or stored meanwhile.                   *)
THEOREM FetchLeavesNone == Spec => FetchReturnsAll
<1>1. ASSUME IInv, [Next]_vars, NEW c \in Calls,
             pc[c] = "fetch", result'[c] = "returned", pc'[c] = "idle"
      PROVE  \A i \in 1..limit[c] : vaas'[i].vaa # NoVaa
  <2>1. /\ idx[c] \in Nat /\ limit[c] \in Nat /\ pc \in [Calls -> PCs]
        /\ result \in [Calls -> {"none", "returned", "threw"}]
    BY <1>1 DEF IInv, TypeOK
  <2>2. ~World
    <3>1. \A m \in Messages : ~Recover(m)
      BY <1>1 DEF Recover
    <3>2. \A m \in Messages : ~GuardiansSign(m) /\ ~RelayerDelivers(m)
      BY <1>1 DEF GuardiansSign, RelayerDelivers, callVars
    <3> QED  BY <3>1, <3>2 DEF World
  <2>3. ~UNCHANGED vars
    BY <1>1 DEF vars, callVars
  <2>4. Begin(c) \/ Resumes(c) \/ Rejects(c)
    BY <1>1, <2>2, <2>3, OthersStay DEF Next
  <2>5. ~Begin(c)
    BY <1>1 DEF Begin, BeginInitiate, BeginFetch, BeginStatus, BeginComplete
  <2>6. ~Rejects(c) /\ ~FetchGivesUp(c)
    BY <1>1, <2>1 DEF Rejects, FetchGivesUp, Ends
  <2>7. FetchArrives(c)
    BY <1>1, <2>4, <2>5, <2>6
    DEF Resumes, Initiate, Fetch, Status, Complete, Prepared, Approve, Transfer,
        TransferReverts, Confirm, Parse, ParseFindsNone, StatusCompleted, StatusPending,
        Redeem, RedeemRefused, RedeemReverts, Redeemed, RedeemNothing
  <2>8. \A i \in 1..((idx[c] + 1) - 1) : vaas'[i].vaa # NoVaa
    BY <1>1, <2>7, FetchHasStored
  <2>9. FetchLoop(c, vaas', idx[c] + 1, limit[c])
    BY <2>7 DEF FetchArrives
  <2>10. PICK next \in (idx[c] + 1)..(limit[c] + 1) :
           /\ NextMissing(vaas', idx[c] + 1, limit[c], next)
           /\ IF next > limit[c]
              THEN /\ state' = Attested
                   /\ Ends(c, "returned")
              ELSE /\ idx' = [idx EXCEPT ![c] = next]
                   /\ limit' = [limit EXCEPT ![c] = limit[c]]
                   /\ Await(c, "fetch")
                   /\ UNCHANGED <<state, hashes>>
    BY <2>9, Zenon DEF FetchLoop
  <2>11. ~Await(c, "fetch")
    BY <1>1, <2>1 DEF Await
  <2>12. next > limit[c]
    BY <2>10, <2>11
  <2>13. \A i \in (idx[c] + 1)..(next - 1) : vaas'[i].vaa # NoVaa
    BY <2>10 DEF NextMissing
  <2>14. ASSUME NEW i \in 1..limit[c]
         PROVE  i \in 1..((idx[c] + 1) - 1) \/ i \in (idx[c] + 1)..(next - 1)
    BY <2>1, <2>10, <2>12
  <2> QED  BY <2>8, <2>13, <2>14
<1>2. IInv /\ [Next]_vars =>
        [\A c \in Calls :
            (pc[c] = "fetch" /\ result'[c] = "returned" /\ pc'[c] = "idle")
                => \A i \in 1..limit[c] : vaas'[i].vaa # NoVaa]_vars
  BY <1>1
<1> QED  BY <1>2, TokenTransferInvariant, PTL DEF Spec, FetchReturnsAll

LEMMA WillAssignMeans ==
  ASSUME NEW where \in PCs
  PROVE  /\ where \in {"prepare", "approve", "transfer", "confirm"} => WillAssign(where) = 2
         /\ where = "fetch" => WillAssign(where) = 3
         /\ where = "status" => WillAssign(where) = 4
         /\ where \in {"idle", "parse", "redeem", "redeeming"} => WillAssign(where) = 5
BY DEF WillAssign, PCs, Initiating, Finalized

(* A step of a call that will assign s or a later state, on an object that *)
(* has reached s: the checks at the beginning of a call let none in that   *)
(* will assign an earlier one.                                             *)
LEMMA CallStaysSettled ==
  ASSUME IInv, NEW c \in Calls, Begin(c) \/ Resumes(c) \/ Rejects(c),
         NEW s \in 2..4, state >= s, WillAssign(pc[c]) >= s
  PROVE  state' >= s /\ WillAssign(pc'[c]) >= s
<1>1. /\ state \in 1..4 /\ pc \in [Calls -> PCs] /\ pc[c] \in PCs
  BY DEF IInv, TypeOK
<1>2. ASSUME NEW how, Ends(c, how) PROVE WillAssign(pc'[c]) = 5
  <2>1. pc'[c] = "idle" /\ "idle" \in PCs
    BY <1>1, <1>2 DEF Ends, PCs
  <2> QED  BY <2>1, WillAssignMeans
<1>3. ASSUME NEW where \in PCs, Await(c, where) PROVE pc'[c] = where
  BY <1>1, <1>3 DEF Await
<1>4. CASE BeginInitiate(c) \/ Prepared(c) \/ Approve(c) \/ Transfer(c) \/ Confirm(c)
           \/ TransferReverts(c)
  <2>1. pc[c] \in {"prepare", "approve", "transfer", "confirm"} => s = 2
    BY <1>1, WillAssignMeans
  <2>2. CASE BeginInitiate(c)
    BY <2>2 DEF BeginInitiate
  <2>3. CASE Prepared(c) \/ Approve(c) \/ Transfer(c) \/ Confirm(c)
    <3>1. s = 2 /\ state' >= 2
      BY <2>1, <2>3 DEF Prepared, Approve, Transfer, Confirm, objVars
    <3>2. pc'[c] \in {"approve", "transfer", "confirm", "parse"}
          /\ pc'[c] \in PCs
      BY <1>3, <2>3 DEF Prepared, Approve, Transfer, Confirm, PCs, Initiating
    <3> QED  BY <3>1, <3>2, WillAssignMeans
  <2>4. CASE TransferReverts(c)
    BY <1>2, <2>4 DEF TransferReverts, objVars
  <2> QED  BY <1>4, <2>2, <2>3, <2>4
<1>5. CASE Parse(c)
  <2>1. state' = state /\ (Ends(c, "returned") \/ Await(c, "parse"))
    BY <1>5 DEF Parse
  <2>2. WillAssign(pc'[c]) = 5
    <3>1. CASE Ends(c, "returned")
      BY <3>1, <1>2
    <3>2. CASE Await(c, "parse")
      BY <3>2, <1>3, WillAssignMeans DEF PCs, Initiating
    <3> QED  BY <2>1, <3>1, <3>2
  <2> QED  BY <2>1, <2>2
<1>6. CASE BeginFetch(c) \/ FetchArrives(c)
  <2>1. s <= 3
    <3>1. CASE BeginFetch(c)
      BY <3>1, <1>1 DEF BeginFetch
    <3>2. CASE FetchArrives(c)
      BY <3>2, <1>1, WillAssignMeans DEF FetchArrives
    <3> QED  BY <1>6, <3>1, <3>2
  <2>2. \/ state' = 3 /\ Ends(c, "returned")
        \/ state' = state /\ Await(c, "fetch")
    BY <1>6 DEF BeginFetch, FetchArrives, FetchLoop
  <2>3. WillAssign(pc'[c]) \in {3, 5}
    <3>1. CASE Ends(c, "returned")
      BY <3>1, <1>2
    <3>2. CASE Await(c, "fetch")
      BY <3>2, <1>3, WillAssignMeans DEF PCs
    <3> QED  BY <2>2, <3>1, <3>2
  <2> QED  BY <2>1, <2>2, <2>3
<1>7. CASE BeginStatus(c)
  <2>1. state' = state /\ pc'[c] = "status" /\ "status" \in PCs
    BY <1>7, <1>3 DEF BeginStatus, objVars, PCs
  <2> QED  BY <2>1, WillAssignMeans
<1>8. CASE StatusCompleted(c)
  BY <1>2, <1>8 DEF StatusCompleted
<1>9. CASE ParseFindsNone(c) \/ FetchGivesUp(c) \/ StatusPending(c)
           \/ RedeemRefused(c) \/ RedeemReverts(c) \/ Rejects(c)
  <2>1. state' = state /\ \E how \in {"returned", "threw"} : Ends(c, how)
    BY <1>9 DEF ParseFindsNone, FetchGivesUp, StatusPending, RedeemRefused, RedeemReverts,
       Rejects, objVars
  <2> QED  BY <2>1, <1>2
<1>10. CASE BeginComplete(c) \/ Redeem(c) \/ Redeemed(c) \/ RedeemNothing(c)
  <2>1. /\ state' = state
        /\ \/ \E how \in {"returned", "threw"} : Ends(c, how)
           \/ \E where \in {"redeem", "redeeming"} : Await(c, where)
    BY <1>10 DEF BeginComplete, Redeem, Redeemed, RedeemNothing, RedeemLoop, objVars
  <2>2. WillAssign(pc'[c]) = 5
    <3>1. CASE \E how \in {"returned", "threw"} : Ends(c, how)
      BY <3>1, <1>2
    <3>2. CASE \E where \in {"redeem", "redeeming"} : Await(c, where)
      BY <3>2, <1>3, WillAssignMeans DEF PCs
    <3> QED  BY <2>1, <3>1, <3>2
  <2> QED  BY <2>1, <2>2
<1> QED
  BY <1>4, <1>5, <1>6, <1>7, <1>8, <1>9, <1>10
  DEF Begin, Resumes, Initiate, Fetch, Status, Complete

(* Once the calls that began before have assigned their states, the object *)
(* does not go back, however calls overlap from then on.                   *)
THEOREM StateIsKept == Spec => NeverSetBack
<1>1. ASSUME IInv, [Next]_vars, NEW s \in {Initiated, Attested, Completed}, Settled(s)
      PROVE  Settled(s)' \/ \E m \in Messages : Recover(m)
  <2>1. s \in 2..4 /\ state >= s /\ \A c \in Calls : WillAssign(pc[c]) >= s
    BY <1>1 DEF Settled
  <2>2. CASE UNCHANGED <<state, pc>>
    BY <2>1, <2>2 DEF Settled
  <2>3. CASE \E c \in Calls : Begin(c) \/ Resumes(c) \/ Rejects(c)
    <3>1. PICK c \in Calls : Begin(c) \/ Resumes(c) \/ Rejects(c)
      BY <2>3
    <3>2. state' >= s /\ WillAssign(pc'[c]) >= s
      BY <1>1, <2>1, <3>1, CallStaysSettled
    <3>3. \A d \in Calls : d # c => WillAssign(pc'[d]) >= s
      BY <1>1, <2>1, <3>1, OthersStay
    <3> QED  BY <3>2, <3>3 DEF Settled
  <2>4. CASE World
    <3>1. (\E m \in Messages : Recover(m)) \/ UNCHANGED <<state, pc>>
      BY <2>4 DEF World, GuardiansSign, RelayerDelivers, objVars, callVars
    <3> QED  BY <3>1, <2>2
  <2>5. CASE UNCHANGED vars
    BY <2>2, <2>5 DEF vars, objVars, callVars
  <2> QED  BY <1>1, <2>3, <2>4, <2>5 DEF Next
<1>2. IInv /\ [Next]_vars =>
        [\A s \in {Initiated, Attested, Completed} :
            Settled(s) => Settled(s)' \/ \E m \in Messages : Recover(m)]_vars
  BY <1>1
<1> QED  BY <1>2, TokenTransferInvariant, PTL DEF Spec, NeverSetBack

-----------------------------------------------------------------------------
(* Which calls of initiateTransfer return.                                 *)

(* A step of one call leaves the hashes and the position of the others.    *)
LEMMA OthersKeepTheirs ==
  ASSUME IInv, NEW c \in Calls, NEW d \in Calls, d # c,
         Begin(d) \/ Resumes(d) \/ Rejects(d)
  PROVE  pc'[c] = pc[c] /\ hashes'[c] = hashes[c] /\ idx'[c] = idx[c]
<1> SUFFICES hashes'[c] = hashes[c] /\ idx'[c] = idx[c]
  BY OthersStay
<1>1. hashes \in [Calls -> Seq(Nat)] /\ idx \in [Calls -> Nat]
  BY DEF IInv, TypeOK
<1>2. ASSUME NEW how, Ends(d, how) PROVE hashes'[c] = hashes[c] /\ idx'[c] = idx[c]
  BY <1>1, <1>2 DEF Ends
<1>3. CASE BeginInitiate(d) \/ Prepared(d) \/ Approve(d) \/ Transfer(d)
           \/ Confirm(d) \/ BeginStatus(d) \/ Redeem(d)
  BY <1>1, <1>3
  DEF BeginInitiate, Prepared, Approve, Transfer, Confirm, BeginStatus, Redeem, loopVars
<1>4. CASE TransferReverts(d) \/ ParseFindsNone(d) \/ FetchGivesUp(d)
           \/ StatusCompleted(d) \/ StatusPending(d) \/ RedeemRefused(d) \/ RedeemReverts(d) \/ Rejects(d)
  BY <1>2, <1>4
  DEF TransferReverts, ParseFindsNone, FetchGivesUp, StatusCompleted,
      StatusPending, RedeemRefused, RedeemReverts, Rejects
<1>5. CASE Parse(d)
  BY <1>1, <1>2, <1>5 DEF Parse
<1>6. CASE BeginFetch(d) \/ FetchArrives(d)
  BY <1>1, <1>2, <1>6 DEF BeginFetch, FetchArrives, FetchLoop
<1>7. CASE BeginComplete(d) \/ Redeemed(d) \/ RedeemNothing(d)
  BY <1>1, <1>2, <1>7 DEF BeginComplete, Redeemed, RedeemNothing, RedeemLoop
<1> QED
  BY <1>3, <1>4, <1>5, <1>6, <1>7
  DEF Begin, Resumes, Initiate, Fetch, Status, Complete

(* The call that steps: its hashes are gone, or as they were, or one more. *)
LEMMA ApprovalFirstAt ==
  ASSUME IInv, ApprovalFirst, NEW c \in Calls, Begin(c) \/ Resumes(c) \/ Rejects(c)
  PROVE  /\ pc'[c] = "transfer" => hashes'[c] \in {<<>>, <<Approval>>}
         /\ \A k \in 2..Len(hashes'[c]) : hashes'[c][k] # Approval
         /\ pc'[c] = "parse" /\ Approved(c)' => idx'[c] = 1
<1>1. /\ pc \in [Calls -> PCs] /\ hashes \in [Calls -> Seq(Nat)] /\ idx \in [Calls -> Nat]
      /\ CallAt(c) /\ emitted \in Nat
  BY DEF IInv, TypeOK
<1>2. CASE hashes'[c] = <<>>
  BY <1>2 DEF Approved
<1>3. ASSUME NEW how, Ends(c, how) PROVE hashes'[c] = <<>>
  BY <1>1, <1>3 DEF Ends
<1>4. CASE pc[c] \in PCs \ {"transfer", "confirm", "parse"} /\ pc[c] # "approve"
  <2>1. hashes[c] = <<>>
    BY <1>1, <1>4 DEF CallAt
  <2>2. hashes'[c] = <<>>
    <3>1. CASE BeginInitiate(c) \/ Prepared(c) \/ BeginStatus(c) \/ Redeem(c)
      BY <2>1, <3>1 DEF BeginInitiate, Prepared, BeginStatus, Redeem, loopVars
    <3>2. CASE FetchGivesUp(c) \/ StatusCompleted(c) \/ StatusPending(c)
               \/ RedeemRefused(c) \/ RedeemReverts(c) \/ Rejects(c)
      BY <1>3, <3>2 DEF FetchGivesUp, StatusCompleted, StatusPending, RedeemRefused, RedeemReverts, Rejects
    <3>3. CASE BeginFetch(c) \/ FetchArrives(c)
      BY <1>3, <2>1, <3>3 DEF BeginFetch, FetchArrives, FetchLoop
    <3>4. CASE BeginComplete(c) \/ Redeemed(c) \/ RedeemNothing(c)
      BY <1>3, <2>1, <3>4 DEF BeginComplete, Redeemed, RedeemNothing, RedeemLoop
    <3>5. ~(Approve(c) \/ Transfer(c) \/ TransferReverts(c) \/ Confirm(c) \/ Parse(c)
            \/ ParseFindsNone(c))
      BY <1>4 DEF Approve, Transfer, TransferReverts, Confirm, Parse, ParseFindsNone
    <3> QED  BY <3>1, <3>2, <3>3, <3>4, <3>5
             DEF Begin, Resumes, Initiate, Fetch, Status, Complete
  <2> QED  BY <1>2, <2>2
<1>5. CASE Approve(c)
  <2>1. hashes[c] = <<>> /\ pc[c] = "approve"
    BY <1>1, <1>5 DEF Approve, CallAt, PCs, Initiating
  <2>2. hashes'[c] = <<Approval>> /\ pc'[c] = "transfer"
    BY <1>1, <1>5, <2>1 DEF Approve, Await
  <2> QED  BY <2>2
<1>6. CASE Transfer(c)
  <2>1. hashes[c] \in {<<>>, <<Approval>>}
    BY <1>6 DEF Transfer, ApprovalFirst
  <2>2. hashes'[c] = Append(hashes[c], emitted + 1) /\ pc'[c] = "confirm"
    BY <1>1, <1>6 DEF Transfer, Await
  <2>3. Len(hashes[c]) \in {0, 1} /\ hashes[c] \in Seq(Nat)
    BY <1>1, <2>1
  <2>4. ASSUME NEW k \in 2..Len(hashes'[c]) PROVE hashes'[c][k] # Approval
    <3>0. Len(hashes'[c]) = Len(hashes[c]) + 1
      BY <1>1, <2>2, <2>3
    <3>1. k = Len(hashes[c]) + 1
      <4>1. PICK n \in {0, 1} : n = Len(hashes[c])
        BY <2>3
      <4>2. Len(hashes'[c]) = n + 1
        BY <3>0, <4>1
      <4>3. k \in 2..(n + 1)
        BY <4>2
      <4>4. k = n + 1
        BY <4>3
      <4> QED  BY <4>1, <4>4
    <3>2. hashes'[c][k] = emitted + 1
      BY <1>1, <2>2, <2>3, <3>1
    <3> QED  BY <1>1, <3>2 DEF Approval
  <2> QED  BY <2>2, <2>4
<1>7. CASE Confirm(c)
  <2>1. hashes'[c] = hashes[c] /\ idx'[c] = idx[c] /\ pc'[c] = "parse" /\ pc[c] = "confirm"
    BY <1>1, <1>7 DEF Confirm, Await, loopVars
  <2>2. idx[c] = 1
    BY <1>1, <2>1 DEF CallAt, PCs, Initiating
  <2> QED  BY <2>1, <2>2 DEF ApprovalFirst
<1>8. CASE Parse(c)
  <2>1. CASE Ends(c, "returned")
    BY <1>2, <1>3, <2>1
  <2>2. CASE hashes' = hashes /\ Await(c, "parse")
    <3>1. pc[c] = "parse" /\ hashes[c][idx[c]] # Approval
      BY <1>8 DEF Parse
    <3>2. ~Approved(c)
      BY <3>1 DEF ApprovalFirst, Approved
    <3>3. pc'[c] = "parse"
      BY <1>1, <2>2 DEF Await
    <3> QED  BY <2>2, <3>2, <3>3 DEF ApprovalFirst, Approved
  <2> QED  BY <1>8, <2>1, <2>2 DEF Parse
<1>9. CASE TransferReverts(c) \/ ParseFindsNone(c) \/ Rejects(c)
  BY <1>2, <1>3, <1>9 DEF TransferReverts, ParseFindsNone, Rejects
<1>10. CASE pc[c] \in {"approve", "transfer", "confirm", "parse"}
  BY <1>5, <1>6, <1>7, <1>8, <1>9, <1>10
  DEF Begin, BeginInitiate, BeginFetch, BeginStatus, BeginComplete, Resumes, Initiate, Prepared,
      Fetch, FetchArrives, FetchGivesUp, Status, StatusCompleted, StatusPending, Complete,
      Redeem, RedeemRefused, RedeemReverts, Redeemed, RedeemNothing
<1> QED  BY <1>1, <1>4, <1>10

LEMMA ApprovalFirstKeeps ==
  ASSUME IInv, ApprovalFirst, [Next]_vars PROVE ApprovalFirst'
<1>1. ASSUME NEW d \in Calls, Begin(d) \/ Resumes(d) \/ Rejects(d) PROVE ApprovalFirst'
  <2> SUFFICES ASSUME NEW c \in Calls
               PROVE  /\ pc'[c] = "transfer" => hashes'[c] \in {<<>>, <<Approval>>}
                      /\ \A k \in 2..Len(hashes'[c]) : hashes'[c][k] # Approval
                      /\ pc'[c] = "parse" /\ Approved(c)' => idx'[c] = 1
    BY DEF ApprovalFirst
  <2>1. CASE c = d
    BY <1>1, <2>1, ApprovalFirstAt
  <2>2. CASE c # d
    <3>1. pc'[c] = pc[c] /\ hashes'[c] = hashes[c] /\ idx'[c] = idx[c]
      BY <1>1, <2>2, OthersKeepTheirs
    <3> QED  BY <3>1 DEF ApprovalFirst, Approved
  <2> QED  BY <2>1, <2>2
<1>2. ASSUME NEW m \in Messages, GuardiansSign(m) \/ RelayerDelivers(m) PROVE ApprovalFirst'
  BY <1>2 DEF GuardiansSign, RelayerDelivers, callVars, loopVars, ApprovalFirst, Approved
<1>3. ASSUME NEW m \in Messages, Recover(m) PROVE ApprovalFirst'
  BY <1>3 DEF Recover, ApprovalFirst, Approved
<1>4. CASE UNCHANGED vars
  BY <1>4 DEF vars, callVars, loopVars, ApprovalFirst, Approved
<1> QED  BY <1>1, <1>2, <1>3, <1>4 DEF Next, World

THEOREM ApprovalInvariant == Spec => [](IInv /\ ApprovalFirst)
<1>1. Init => IInv /\ ApprovalFirst
  <2>1. Init => ApprovalFirst
    <3> SUFFICES ASSUME Init PROVE ApprovalFirst
      OBVIOUS
    <3>1. \A c \in Calls : pc[c] = "idle" /\ hashes[c] = <<>>
      BY DEF Init
    <3>2. \A c \in Calls : ~Approved(c) /\ 2..Len(hashes[c]) = {}
      <4>1. 2..Len(<<>>) = {}
        BY Len(<<>>) = 0
      <4> QED  BY <3>1, <4>1 DEF Approved
    <3> QED  BY <3>1, <3>2 DEF ApprovalFirst
  <2> QED  BY <2>1, TransferAssumption, InitInvariant
<1>2. IInv /\ ApprovalFirst /\ [Next]_vars => IInv' /\ ApprovalFirst'
  BY NextKeeps, ApprovalFirstKeeps
<1> QED  BY <1>1, <1>2, PTL DEF Spec

(* Without faults, a call of initiateTransfer whose transactions are mined *)
(* returns if it needed no approval; otherwise it always throws, and its   *)
(* message is not recorded.                                                *)
THEOREM InitiateReturnsUnlessApproved ==
  ASSUME ~Faults
  PROVE  Spec => [][\A c \in Calls : (pc[c] = "parse" /\ pc'[c] = "idle") =>
                       IF Approved(c) THEN result'[c] = "threw" /\ vaas' = vaas
                                      ELSE result'[c] = "returned"]_vars
<1>1. ASSUME IInv, ApprovalFirst, Next, NEW c \in Calls, pc[c] = "parse", pc'[c] = "idle"
      PROVE  IF Approved(c) THEN result'[c] = "threw" /\ vaas' = vaas
                            ELSE result'[c] = "returned"
  <2>1. /\ pc \in [Calls -> PCs] /\ result \in [Calls -> {"none", "returned", "threw"}]
        /\ hashes \in [Calls -> Seq(Nat)] /\ CallAt(c)
    BY <1>1 DEF IInv, TypeOK
  <2>2. idx[c] \in 1..Len(hashes[c])
    BY <1>1, <2>1 DEF CallAt
  <2>3. Begin(c) \/ Resumes(c)
    <3>1. ~World
      BY <1>1 DEF World, GuardiansSign, RelayerDelivers, Recover, callVars
    <3>2. PICK d \in Calls : Begin(d) \/ Resumes(d) \/ Rejects(d)
      BY <1>1, <3>1 DEF Next
    <3>3. d = c
      BY <1>1, <3>2, OthersStay
    <3> QED  BY <3>2, <3>3 DEF Rejects
  <2>4. Parse(c) \/ ParseFindsNone(c)
    BY <1>1, <2>3
    DEF Begin, BeginInitiate, BeginFetch, BeginStatus, BeginComplete, Resumes, Initiate, Prepared,
        Approve, Transfer, TransferReverts, Confirm, Fetch, FetchArrives, FetchGivesUp, Status,
        StatusCompleted, StatusPending, Complete, Redeem, RedeemRefused, RedeemReverts, Redeemed, RedeemNothing
  <2>5. CASE Parse(c)
    <3>1. Ends(c, "returned") /\ hashes[c][idx[c]] # Approval
      BY <1>1, <2>1, <2>5 DEF Parse, Await
    <3>2. ~Approved(c)
      BY <1>1, <3>1 DEF ApprovalFirst, Approved
    <3> QED  BY <2>1, <3>1, <3>2 DEF Ends
  <2>6. CASE ParseFindsNone(c)
    <3>1. Ends(c, "threw") /\ hashes[c][idx[c]] = Approval /\ vaas' = vaas
      BY <2>6 DEF ParseFindsNone, objVars
    <3>2. idx[c] = 1 /\ hashes[c] # <<>>
      BY <1>1, <2>1, <2>2, <3>1 DEF ApprovalFirst
    <3> QED  BY <2>1, <3>1, <3>2 DEF Ends, Approved
  <2> QED  BY <2>4, <2>5, <2>6
<1>2. ASSUME IInv, ApprovalFirst, [Next]_vars
      PROVE  [\A c \in Calls : (pc[c] = "parse" /\ pc'[c] = "idle") =>
                 IF Approved(c) THEN result'[c] = "threw" /\ vaas' = vaas
                                ELSE result'[c] = "returned"]_vars
  BY <1>1, <1>2
<1> QED  BY <1>2, ApprovalInvariant, PTL DEF Spec

-----------------------------------------------------------------------------
(* One call at a time.                                                     *)
(*                                                                         *)
(* What follows is the TokenTransfer of a user who makes one call at a     *)
(* time, for any number of attempts, with faults and crashes: the          *)
(* invariant of the object, and that it implements WormholeTransfer.       *)

(* The object's part of OneCallInv.                                        *)
ObjectOK ==
    /\ AttestedHasAll
    /\ TxidsCoverVaas
    /\ state = Created => vaas = <<>> /\ txids = <<>>

(* With one slot, what holds of the call that moves holds of every call.   *)
LEMMA OneCallStep ==
  ASSUME OneAtATime, NEW c \in Calls, IInv', ObjectOK', (emitted <= attempts)', OneCallAt(c)'
  PROVE  OneCallInv'
<1>1. ASSUME NEW d \in Calls PROVE OneCallAt(d)'
  <2>1. d = c
    BY DEF OneAtATime
  <2> QED  BY <2>1
<1> QED  BY <1>1 DEF OneCallInv, ObjectOK

LEMMA ObjectCarries ==
  ASSUME OneCallInv, UNCHANGED objVars PROVE ObjectOK'
  BY DEF OneCallInv, ObjectOK, AttestedHasAll, TxidsCoverVaas, Entries, objVars

(* What the step lemmas read of the type invariant.                        *)
LEMMA OneCallTypes ==
  ASSUME OneCallInv
  PROVE  /\ emitted \in Nat /\ attempts \in Nat /\ emitted <= attempts
         /\ pc \in [Calls -> PCs] /\ idx \in [Calls -> Nat] /\ limit \in [Calls -> Nat]
         /\ hashes \in [Calls -> Seq(Nat)]
         /\ vaas \in Seq(Entry) /\ txids \in Seq(Nat) /\ Len(vaas) \in Nat
  BY DEF OneCallInv, IInv, TypeOK

(* An action of initiateTransfer before its transactions are confirmed.    *)
LEMMA InitiateKeepsOne ==
  ASSUME OneAtATime, OneCallInv, IInv', NEW c \in Calls,
         \/ BeginInitiate(c)
         \/ Prepared(c)
         \/ Approve(c)
         \/ Transfer(c)
  PROVE  OneCallInv'
<1>1. ObjectOK'
  BY ObjectCarries DEF BeginInitiate, Prepared, Approve, Transfer
<1>2. (emitted <= attempts)'
  BY OneCallTypes
  DEF OneCallInv, OneCallAt, BeginInitiate, Prepared, Approve, Transfer, chainVars
<1>3. state = Created /\ state' = Created
  BY DEF OneCallInv, OneCallAt, BeginInitiate, Prepared, Approve, Transfer, objVars
<1>4. CASE BeginInitiate(c)
  <2>1. pc'[c] = "prepare" /\ emitted' < attempts'
    BY <1>4, OneCallTypes DEF BeginInitiate, Await, chainVars
  <2> QED  BY <1>1, <1>2, <1>3, <2>1, OneCallStep DEF OneCallAt
<1>5. CASE Prepared(c) \/ Approve(c)
  <2>1. pc'[c] \in {"approve", "transfer"} /\ emitted' < attempts'
    BY <1>5, OneCallTypes DEF Prepared, Approve, Await, chainVars, OneCallInv, OneCallAt
  <2> QED  BY <1>1, <1>2, <1>3, <2>1, OneCallStep DEF OneCallAt
<1>6. CASE Transfer(c)
  <2>1. pc'[c] = "confirm" /\ emitted' > 0
    BY <1>6, OneCallTypes DEF Transfer, Await
  <2> QED  BY <1>1, <1>2, <1>3, <2>1, OneCallStep DEF OneCallAt
<1> QED  BY <1>4, <1>5, <1>6

LEMMA ConfirmKeepsOne ==
  ASSUME OneAtATime, OneCallInv, IInv', NEW c \in Calls, Confirm(c) PROVE OneCallInv'
<1>1. vaas' = <<>>
  BY DEF Confirm, OneCallInv, OneCallAt
<1>2. ObjectOK'
  BY <1>1 DEF Confirm, ObjectOK, AttestedHasAll, TxidsCoverVaas, Entries
<1>3. (emitted <= attempts)' /\ OneCallAt(c)'
  BY OneCallTypes DEF Confirm, Await, OneCallAt, loopVars, chainVars
<1> QED  BY <1>2, <1>3, OneCallStep

(* The id that is pushed is that of one of the transactions in txids.      *)
LEMMA ParseKeepsOne ==
  ASSUME OneAtATime, OneCallInv, IInv', NEW c \in Calls, Parse(c) PROVE OneCallInv'
<1>1. /\ state = Initiated /\ txids = hashes[c] /\ idx[c] \in 1..Len(txids)
  BY DEF Parse, OneCallInv, OneCallAt, IInv, CallAt
<1>2. UNCHANGED <<state, txids, emitted, attempts>>
  BY DEF Parse, chainVars
<1> DEFINE e == [id |-> hashes[c][idx[c]], vaa |-> NoVaa]
<1>3. vaas' = Append(vaas, e)
  BY DEF Parse
<1>4. /\ Len(vaas') = Len(vaas) + 1
      /\ \A i \in 1..Len(vaas) : vaas'[i] = vaas[i]
      /\ vaas'[Len(vaas) + 1] = e
  BY <1>3, OneCallTypes
<1>5. ASSUME NEW i \in 1..Len(vaas') PROVE \E k \in 1..Len(txids) : txids[k] = vaas'[i].id
  <2>1. CASE i \in 1..Len(vaas)
    BY <1>1, <1>4, <2>1 DEF OneCallInv, TxidsCoverVaas, Entries
  <2>2. CASE i = Len(vaas) + 1
    BY <1>1, <1>4, <2>2
  <2> QED  BY <1>4, <1>5, <2>1, <2>2, OneCallTypes
<1>6. ObjectOK'
  BY <1>1, <1>2, <1>5 DEF ObjectOK, AttestedHasAll, TxidsCoverVaas, Entries
<1>7. (emitted <= attempts)' /\ OneCallAt(c)'
  BY <1>1, <1>2, OneCallTypes DEF Parse, Ends, Await, OneCallAt
<1> QED  BY <1>6, <1>7, OneCallStep

(* The loop of fetchAttestation: it ends only when every VAA is there.     *)
LEMMA FetchLoopKeepsOne ==
  ASSUME OneAtATime, OneCallInv, IInv', NEW c \in Calls,
         NEW from \in 1..(Len(vaas) + 1),
         FetchLoop(c, vaas', from, Len(vaas)),
         state = Initiated \/ state = Attested,
         state = Attested => vaas' = vaas,
         vaas # <<>>, Len(vaas') = Len(vaas),
         \A i \in 1..Len(vaas) : vaas'[i].id = vaas[i].id,
         \A j \in 1..(from - 1) : vaas'[j].vaa # NoVaa,
         UNCHANGED <<fixed, txids, attempts, chainVars>>
  PROVE  OneCallInv'
<1>1. PICK next \in from..(Len(vaas) + 1) :
        /\ NextMissing(vaas', from, Len(vaas), next)
        /\ IF next > Len(vaas)
           THEN state' = Attested /\ Ends(c, "returned")
           ELSE /\ idx' = [idx EXCEPT ![c] = next]
                /\ limit' = [limit EXCEPT ![c] = Len(vaas)]
                /\ Await(c, "fetch")
                /\ UNCHANGED <<state, hashes>>
  BY DEF FetchLoop
<1>2. Len(vaas) \in Nat /\ from \in Nat /\ next \in Nat /\ vaas' # <<>>
  BY <1>1, OneCallTypes
<1>3. ASSUME NEW j \in 1..(next - 1) PROVE vaas'[j].vaa # NoVaa
  <2>1. j \in 1..(from - 1) \/ j \in from..(next - 1)
    BY <1>2
  <2> QED  BY <1>1, <2>1 DEF NextMissing
<1>4. state # Created /\ (state' = Initiated => state = Initiated) /\ state' # Created
  BY <1>1
<1>5. TxidsCoverVaas'
  BY <1>4 DEF OneCallInv, TxidsCoverVaas, Entries
<1>6. (emitted <= attempts)'
  BY OneCallTypes DEF chainVars
<1>7. CASE next > Len(vaas)
  <2>1. next = Len(vaas) + 1 /\ state' = Attested /\ Ends(c, "returned")
    BY <1>1, <1>2, <1>7
  <2>2. AttestedHasAll'
    BY <1>2, <1>3, <2>1 DEF AttestedHasAll, Entries
  <2>3. OneCallAt(c)'
    BY <2>1, OneCallTypes DEF Ends, OneCallAt
  <2> QED  BY <1>4, <1>5, <1>6, <2>2, <2>3, OneCallStep DEF ObjectOK
<1>8. CASE ~(next > Len(vaas))
  <2>1. next \in 1..Len(vaas) /\ vaas'[next].vaa = NoVaa
    BY <1>1, <1>2, <1>8 DEF NextMissing
  <2>2. state = Initiated
    BY <2>1 DEF OneCallInv, AttestedHasAll, Entries
  <2>3. AttestedHasAll'
    BY <1>1, <1>8, <2>2 DEF AttestedHasAll
  <2>4. OneCallAt(c)'
    BY <1>1, <1>3, <1>8, <2>2, OneCallTypes DEF Await, OneCallAt
  <2> QED  BY <1>4, <1>5, <1>6, <2>3, <2>4, OneCallStep DEF ObjectOK
<1> QED  BY <1>7, <1>8

LEMMA BeginFetchKeepsOne ==
  ASSUME OneAtATime, OneCallInv, IInv', NEW c \in Calls, BeginFetch(c) PROVE OneCallInv'
<1>1. vaas' = vaas /\ vaas # <<>> /\ (state = Initiated \/ state = Attested)
  BY DEF BeginFetch
<1>2. FetchLoop(c, vaas', 1, Len(vaas)) /\ UNCHANGED <<fixed, txids, attempts, chainVars>>
  BY <1>1 DEF BeginFetch
<1>3. 1 \in 1..(Len(vaas) + 1) /\ \A j \in 1..(1 - 1) : vaas'[j].vaa # NoVaa
  BY OneCallTypes
<1> QED  BY <1>1, <1>2, <1>3, FetchLoopKeepsOne

LEMMA FetchArrivesKeepsOne ==
  ASSUME OneAtATime, OneCallInv, IInv', NEW c \in Calls, FetchArrives(c) PROVE OneCallInv'
<1>1. /\ state = Initiated /\ limit[c] = Len(vaas) /\ idx[c] \in 1..Len(vaas)
      /\ \A j \in 1..(idx[c] - 1) : vaas[j].vaa # NoVaa
  BY DEF FetchArrives, OneCallInv, OneCallAt, IInv, CallAt
<1>2. vaas' = [vaas EXCEPT ![idx[c]].vaa = vaas[idx[c]].id]
      /\ FetchLoop(c, vaas', idx[c] + 1, Len(vaas))
      /\ UNCHANGED <<fixed, txids, attempts, chainVars>>
  BY <1>1 DEF FetchArrives
<1>3. \A i \in 1..Len(vaas) : vaas[i] \in Entry /\ vaas[i].id \in Messages
  BY OneCallTypes DEF OneCallInv, IInv, EntriesEmitted, Entries
<1>4. /\ Len(vaas') = Len(vaas) /\ vaas # <<>>
      /\ \A i \in 1..Len(vaas) : vaas'[i].id = vaas[i].id
      /\ \A i \in 1..Len(vaas) : i # idx[c] => vaas'[i] = vaas[i]
      /\ vaas'[idx[c]].vaa = vaas[idx[c]].id
  BY <1>1, <1>2, <1>3, OneCallTypes DEF Entry
<1>5. ASSUME NEW j \in 1..((idx[c] + 1) - 1) PROVE vaas'[j].vaa # NoVaa
  <2>1. CASE j = idx[c]
    BY <1>1, <1>3, <1>4, <2>1, OneCallTypes DEF Messages
  <2>2. CASE j # idx[c]
    BY <1>1, <1>4, <2>2, OneCallTypes
  <2> QED  BY <2>1, <2>2
<1>6. idx[c] + 1 \in 1..(Len(vaas) + 1)
  BY <1>1, OneCallTypes
<1>7. (state = Initiated \/ state = Attested) /\ (state = Attested => vaas' = vaas)
  BY <1>1
<1> HIDE DEF FetchLoop
<1> QED  BY <1>2, <1>4, <1>5, <1>6, <1>7, FetchLoopKeepsOne

(* The actions that leave the object as it is.                             *)
LEMMA QuietKeepsOne ==
  ASSUME OneAtATime, OneCallInv, IInv', NEW c \in Calls,
         \/ TransferReverts(c)
         \/ ParseFindsNone(c)
         \/ FetchGivesUp(c)
         \/ BeginStatus(c)
         \/ StatusPending(c)
         \/ BeginComplete(c)
         \/ Redeem(c)
         \/ RedeemRefused(c) \/ RedeemReverts(c)
         \/ Redeemed(c)
         \/ RedeemNothing(c)
         \/ Rejects(c)
  PROVE  OneCallInv'
<1>1. UNCHANGED <<automatic, objVars, attempts, emitted>>
  BY DEF TransferReverts, ParseFindsNone, FetchGivesUp, BeginStatus, StatusPending,
         BeginComplete, Redeem, RedeemRefused, RedeemReverts, Redeemed, RedeemNothing, Rejects, fixed, chainVars
<1>2. ObjectOK' /\ (emitted <= attempts)'
  BY <1>1, ObjectCarries, OneCallTypes
<1>3. pc'[c] = "idle" \/ (pc'[c] = "status" /\ automatic)
      \/ (pc'[c] \in {"redeem", "redeeming"} /\ state >= Attested)
  BY OneCallTypes
  DEF TransferReverts, ParseFindsNone, FetchGivesUp, BeginStatus, StatusPending,
      BeginComplete, Redeem, RedeemRefused, RedeemReverts, Redeemed, RedeemNothing, Rejects, Ends, Await,
      RedeemLoop, OneCallInv, OneCallAt
<1>4. OneCallAt(c)'
  BY <1>1, <1>3 DEF OneCallAt, objVars
<1> QED  BY <1>2, <1>4, OneCallStep

LEMMA StatusCompletedKeepsOne ==
  ASSUME OneAtATime, OneCallInv, IInv', NEW c \in Calls, StatusCompleted(c) PROVE OneCallInv'
<1>1. ObjectOK'
  BY DEF StatusCompleted, OneCallInv, ObjectOK, AttestedHasAll, TxidsCoverVaas, Entries
<1>2. (emitted <= attempts)' /\ OneCallAt(c)'
  BY OneCallTypes DEF StatusCompleted, Ends, OneCallAt, chainVars
<1> QED  BY <1>1, <1>2, OneCallStep

LEMMA WorldKeepsOne ==
  ASSUME OneCallInv, IInv', World PROVE OneCallInv'
<1>1. PICK m \in Messages : GuardiansSign(m) \/ RelayerDelivers(m) \/ Recover(m)
  BY DEF World
<1>2. CASE GuardiansSign(m) \/ RelayerDelivers(m)
  <2>1. UNCHANGED <<automatic, objVars, callVars, attempts, emitted>>
    BY <1>2 DEF GuardiansSign, RelayerDelivers, fixed
  <2>2. ObjectOK'
    BY <2>1, ObjectCarries
  <2>3. (emitted <= attempts)' /\ \A d \in Calls : OneCallAt(d)'
    BY <2>1, OneCallTypes DEF OneCallInv, OneCallAt, objVars, callVars, loopVars
  <2> QED  BY <2>2, <2>3 DEF OneCallInv, ObjectOK
<1>3. CASE Recover(m)
  <2>1. /\ state' = Attested /\ vaas' = <<[id |-> m, vaa |-> m]>>
        /\ txids' \in {<<>>, <<m>>} /\ UNCHANGED <<emitted, attempts>>
        /\ pc' = [d \in Calls |-> "idle"]
    BY <1>3 DEF Recover, chainVars
  <2>2. m # NoVaa /\ Len(vaas') = 1 /\ vaas'[1].id = m /\ vaas'[1].vaa = m
    BY <2>1, OneCallTypes DEF Messages
  <2>3. AttestedHasAll'
    BY <2>1, <2>2 DEF AttestedHasAll, Entries
  <2>4. TxidsCoverVaas'
    BY <2>1, <2>2 DEF TxidsCoverVaas, Entries
  <2>5. (emitted <= attempts)' /\ \A d \in Calls : OneCallAt(d)'
    BY <2>1, OneCallTypes DEF OneCallAt
  <2> QED  BY <2>1, <2>3, <2>4, <2>5 DEF OneCallInv
<1> QED  BY <1>1, <1>2, <1>3

LEMMA NextKeepsOne ==
  ASSUME OneAtATime, OneCallInv, [Next]_vars PROVE OneCallInv'
<1>1. IInv'
  BY NextKeeps DEF OneCallInv
<1>2. ASSUME NEW c \in Calls, Begin(c) \/ Resumes(c) \/ Rejects(c) PROVE OneCallInv'
  <2>1. CASE BeginInitiate(c) \/ Prepared(c) \/ Approve(c) \/ Transfer(c)
    BY <1>1, <2>1, InitiateKeepsOne
  <2>2. CASE Confirm(c) \/ Parse(c)
    BY <1>1, <2>2, ConfirmKeepsOne, ParseKeepsOne
  <2>3. CASE BeginFetch(c) \/ FetchArrives(c) \/ StatusCompleted(c)
    BY <1>1, <2>3, BeginFetchKeepsOne, FetchArrivesKeepsOne, StatusCompletedKeepsOne
  <2>4. CASE \/ TransferReverts(c)
             \/ ParseFindsNone(c)
             \/ FetchGivesUp(c)
             \/ BeginStatus(c)
             \/ StatusPending(c)
             \/ BeginComplete(c)
             \/ Redeem(c)
             \/ RedeemRefused(c) \/ RedeemReverts(c)
             \/ Redeemed(c)
             \/ RedeemNothing(c)
             \/ Rejects(c)
    BY <1>1, <2>4, QuietKeepsOne
  <2> QED
    BY <1>2, <2>1, <2>2, <2>3, <2>4
    DEF Begin, Resumes, Initiate, Fetch, Status, Complete
<1>3. CASE World
  BY <1>1, <1>3, WorldKeepsOne
<1>4. CASE UNCHANGED vars
  <2>1. ObjectOK'
    BY <1>4, ObjectCarries DEF vars
  <2>2. (emitted <= attempts)' /\ \A d \in Calls : OneCallAt(d)'
    BY <1>4, OneCallTypes
    DEF vars, fixed, callVars, loopVars, objVars, chainVars, OneCallInv, OneCallAt
  <2> QED  BY <1>1, <2>1, <2>2 DEF OneCallInv, ObjectOK
<1> QED  BY <1>2, <1>3, <1>4 DEF Next

(* The invariant of an object on which one call is in flight at a time.    *)
THEOREM OneCallInvariant == OneAtATime => (Spec => []OneCallInv)
<1> SUFFICES ASSUME OneAtATime PROVE Spec => []OneCallInv
  OBVIOUS
<1>1. Init => OneCallInv
  <2>1. Init => IInv
    BY TransferAssumption, InitInvariant
  <2> QED  BY <2>1 DEF Init, OneCallInv, OneCallAt, AttestedHasAll, TxidsCoverVaas, Entries
<1>2. OneCallInv /\ [Next]_vars => OneCallInv'
  BY NextKeepsOne
<1> QED  BY <1>1, <1>2, PTL DEF Spec

(* Attested means that every message of the transfer has its VAA.          *)
THEOREM AttestedIsComplete == OneAtATime => (Spec => []AttestedHasAll)
<1> SUFFICES ASSUME OneAtATime PROVE Spec => []AttestedHasAll
  OBVIOUS
<1>1. OneCallInv => AttestedHasAll
  BY DEF OneCallInv
<1>2. Spec => []OneCallInv
  BY OneCallInvariant
<1> QED  BY <1>1, <1>2, PTL

(* Every message of the transfer is of one of its transactions.            *)
THEOREM TxidsAreComplete == OneAtATime => (Spec => []TxidsCoverVaas)
<1> SUFFICES ASSUME OneAtATime PROVE Spec => []TxidsCoverVaas
  OBVIOUS
<1>1. OneCallInv => TxidsCoverVaas
  BY DEF OneCallInv
<1>2. Spec => []OneCallInv
  BY OneCallInvariant
<1> QED  BY <1>1, <1>2, PTL

-----------------------------------------------------------------------------
(* The refinement of WormholeTransfer.                                     *)

(* The attestations the object holds: what Lifecycle!held stands for.      *)
Held == {vaas[i].vaa : i \in Entries} \ {NoVaa}

(* What the abstract transfer sees.                                        *)
abstractVars == <<automatic, state, Messages, signed, Held, redeemed>>

LEMMA MessagesAllowed ==
  ASSUME TransferAssumption, OneCallInv, NEW m \in Messages PROVE m \in 1..MaxAttempts /\ m # NoVaa
<1>1. emitted \in Nat /\ emitted <= MaxAttempts /\ MaxAttempts \in Nat
  BY DEF TransferAssumption, OneCallInv, IInv, TypeOK
<1> QED  BY <1>1 DEF Messages

(* These change nothing that the abstract transfer sees.                   *)
LEMMA QuietStutters ==
  ASSUME NEW c \in Calls,
         \/ BeginInitiate(c)
         \/ Prepared(c)
         \/ Approve(c)
         \/ TransferReverts(c)
         \/ ParseFindsNone(c)
         \/ FetchGivesUp(c)
         \/ BeginStatus(c)
         \/ StatusPending(c)
         \/ BeginComplete(c)
         \/ RedeemRefused(c) \/ RedeemReverts(c)
         \/ Redeemed(c)
         \/ RedeemNothing(c)
         \/ Rejects(c)
  PROVE  UNCHANGED abstractVars
<1>1. UNCHANGED <<automatic, objVars, emitted, signed, redeemed>>
  BY DEF BeginInitiate, Prepared, Approve, TransferReverts, ParseFindsNone, FetchGivesUp,
         BeginStatus, StatusPending, BeginComplete, RedeemRefused, RedeemReverts, Redeemed, RedeemNothing,
         Rejects, fixed, chainVars
<1> QED  BY <1>1 DEF abstractVars, objVars, Messages, Held, Entries

(* A message that is pushed has no VAA yet.                                *)
LEMMA ParseStutters ==
  ASSUME OneCallInv, NEW c \in Calls, Parse(c) PROVE UNCHANGED abstractVars
<1>1. /\ UNCHANGED <<automatic, state, emitted, signed, redeemed>>
      /\ vaas' = Append(vaas, [id |-> hashes[c][idx[c]], vaa |-> NoVaa])
  BY DEF Parse, fixed, chainVars
<1>2. /\ Len(vaas') = Len(vaas) + 1
      /\ \A i \in 1..Len(vaas) : vaas'[i] = vaas[i]
      /\ vaas'[Len(vaas) + 1].vaa = NoVaa
  BY <1>1, OneCallTypes
<1>3. Held' = Held
  <2>1. ASSUME NEW x \in Held' PROVE x \in Held
    <3>1. PICK i \in 1..Len(vaas') : x = vaas'[i].vaa /\ x # NoVaa
      BY <2>1 DEF Held, Entries
    <3>2. i # Len(vaas) + 1
      BY <1>2, <3>1
    <3>3. i \in 1..Len(vaas)
      BY <1>2, <3>1, <3>2, OneCallTypes
    <3> QED  BY <1>2, <3>1, <3>3 DEF Held, Entries
  <2>2. ASSUME NEW x \in Held PROVE x \in Held'
    <3>1. PICK i \in 1..Len(vaas) : x = vaas[i].vaa /\ x # NoVaa
      BY <2>2 DEF Held, Entries
    <3>2. i \in 1..Len(vaas') /\ vaas'[i].vaa = x
      BY <1>2, <3>1, OneCallTypes
    <3> QED  BY <3>1, <3>2 DEF Held, Entries
  <2> QED  BY <2>1, <2>2
<1> QED  BY <1>1, <1>3 DEF abstractVars, Messages

LEMMA TransferSends ==
  ASSUME TransferAssumption, OneCallInv, NEW c \in Calls, Transfer(c)
  PROVE  Lifecycle!Send(emitted + 1) /\ emitted + 1 \in 1..MaxAttempts
<1>1. /\ emitted \in Nat /\ attempts \in Nat /\ attempts <= MaxAttempts
      /\ emitted < attempts /\ state = Created /\ MaxAttempts \in Nat
  BY OneCallTypes DEF Transfer, OneCallInv, OneCallAt, IInv, TypeOK, TransferAssumption
<1>2. emitted' = emitted + 1 /\ UNCHANGED <<automatic, state, vaas, signed, redeemed>>
  BY DEF Transfer, fixed, objVars
<1>3. Messages' = Messages \union {emitted + 1} /\ emitted + 1 \notin Messages
  BY <1>1, <1>2 DEF Messages
<1> QED  BY <1>1, <1>2, <1>3 DEF Lifecycle!Send, Lifecycle!Created, Entries

LEMMA ConfirmInitiates ==
  ASSUME OneCallInv, NEW c \in Calls, Confirm(c) PROVE Lifecycle!Initiate
<1>1. state = Created /\ emitted \in Nat /\ emitted > 0
  BY OneCallTypes DEF Confirm, OneCallInv, OneCallAt
<1>2. state' = Initiated /\ UNCHANGED <<automatic, vaas, emitted, signed, redeemed>>
  BY DEF Confirm, fixed, chainVars
<1>3. Messages # {}
  BY <1>1 DEF Messages
<1> QED  BY <1>1, <1>2, <1>3
         DEF Messages, Entries, Lifecycle!Initiate, Lifecycle!Created, Lifecycle!Initiated

LEMMA LoopState ==
  ASSUME NEW c \in Calls, NEW list, NEW from, NEW to, FetchLoop(c, list, from, to)
  PROVE  state' \in {state, Attested}
  BY DEF FetchLoop

(* fetchAttestation of an object that has its VAAs is done with the first. *)
LEMMA BeginFetchRefines ==
  ASSUME TransferAssumption, OneCallInv, NEW c \in Calls, BeginFetch(c)
  PROVE  UNCHANGED abstractVars \/ \E m \in 1..MaxAttempts : Lifecycle!Attest(m)
<1>1. /\ vaas # <<>> /\ (state = Initiated \/ state = Attested)
      /\ UNCHANGED <<automatic, vaas, emitted, signed, redeemed>>
  BY DEF BeginFetch, fixed, chainVars
<1>2. CASE state' = state
  BY <1>1, <1>2 DEF abstractVars, Messages, Held, Entries
<1>3. CASE state' # state
  <2>1. PICK next \in 1..(Len(vaas) + 1) :
          /\ NextMissing(vaas, 1, Len(vaas), next)
          /\ next > Len(vaas) /\ state' = Attested
    BY <1>3 DEF BeginFetch, FetchLoop
  <2>2. 1 \in 1..Len(vaas) /\ 1 \in 1..(next - 1)
    BY <1>1, <2>1, OneCallTypes
  <2>3. vaas[1].vaa # NoVaa
    BY <2>1, <2>2 DEF NextMissing
  <2>4. vaas[1].vaa \in signed /\ signed \subseteq Messages
    BY <2>2, <2>3 DEF OneCallInv, IInv, TypeOK, VaaMatchesId, Entries
  <2>5. vaas[1].vaa \in 1..MaxAttempts
    BY <2>4, MessagesAllowed
  <2>6. Lifecycle!Attest(vaas[1].vaa)
    BY <1>1, <2>1, <2>2, <2>3, <2>4
    DEF Entries, Messages, Lifecycle!Attest, Lifecycle!Initiated, Lifecycle!Attested
  <2> QED  BY <2>5, <2>6 DEF Lifecycle!Attest
<1> QED  BY <1>2, <1>3

LEMMA FetchArrivesAttests ==
  ASSUME TransferAssumption, OneCallInv, NEW c \in Calls, FetchArrives(c)
  PROVE  \E m \in 1..MaxAttempts : Lifecycle!Attest(m)
<1> DEFINE k == idx[c]
           m == vaas[k].id
<1>1. state = Initiated /\ k \in 1..Len(vaas) /\ vaas[k] \in Entry
  BY OneCallTypes DEF FetchArrives, OneCallInv, OneCallAt, IInv, CallAt
<1>2. m \in signed /\ m \in Messages
  BY <1>1 DEF FetchArrives, OneCallInv, IInv, EntriesEmitted, Entries
<1>3. m \in 1..MaxAttempts /\ m # NoVaa
  BY <1>2, MessagesAllowed
<1>4. /\ vaas' = [vaas EXCEPT ![k].vaa = m]
      /\ state' \in {state, Attested}
      /\ UNCHANGED <<automatic, emitted, signed, redeemed>>
  BY LoopState DEF FetchArrives, fixed, chainVars
<1>5. /\ Len(vaas') = Len(vaas)
      /\ \A i \in 1..Len(vaas) : i # k => vaas'[i] = vaas[i]
      /\ vaas'[k].vaa = m
  BY <1>1, <1>4, OneCallTypes DEF Entry
<1>6. vaas[k].vaa \in {NoVaa, m}
  BY <1>1 DEF OneCallInv, IInv, VaaMatchesId, Entries
<1> HIDE DEF m, k
<1>7. Held' = Held \union {m}
  <2>1. Held' \subseteq Held \union {m}
    BY <1>1, <1>5 DEF Held, Entries
  <2>2. m \in Held'
    BY <1>1, <1>3, <1>5 DEF Held, Entries
  <2>3. ASSUME NEW x \in Held PROVE x \in Held'
    <3>1. PICK i \in 1..Len(vaas) : x = vaas[i].vaa /\ x # NoVaa
      BY <2>3 DEF Held, Entries
    <3>2. CASE i = k
      BY <1>6, <2>2, <3>1, <3>2
    <3>3. CASE i # k
      BY <1>5, <3>1, <3>3 DEF Held, Entries
    <3> QED  BY <3>2, <3>3
  <2> QED  BY <2>1, <2>2, <2>3
<1>8. Lifecycle!Attest(m)
  BY <1>1, <1>2, <1>4, <1>7
  DEF Held, Messages, Lifecycle!Attest, Lifecycle!Initiated, Lifecycle!Attested
<1> QED  BY <1>3, <1>8 DEF Lifecycle!Attest

LEMMA StatusCompletes ==
  ASSUME OneCallInv, NEW c \in Calls, StatusCompleted(c) PROVE Lifecycle!Complete
<1>1. automatic /\ vaas # <<>> /\ state \in {Created, Initiated, Attested, Completed}
  BY DEF StatusCompleted, OneCallInv, OneCallAt, IInv, TypeOK, CallAt
<1>2. state >= Initiated
  BY <1>1 DEF OneCallInv
<1>3. /\ redeemed # {} /\ state' = Completed
      /\ UNCHANGED <<automatic, vaas, emitted, signed, redeemed>>
  BY DEF StatusCompleted, fixed, chainVars
<1> QED  BY <1>1, <1>2, <1>3
         DEF Messages, Entries, Lifecycle!Complete, Lifecycle!Initiated, Lifecycle!Completed

LEMMA RedeemDelivers ==
  ASSUME TransferAssumption, OneCallInv, NEW c \in Calls, Redeem(c)
  PROVE  \E m \in 1..MaxAttempts : Lifecycle!Deliver(m)
<1> DEFINE m == vaas[idx[c]].vaa
<1>1. idx[c] \in Entries /\ m # NoVaa /\ state >= Attested
  BY DEF Redeem, OneCallInv, OneCallAt, IInv, CallAt
<1>2. m \in signed /\ signed \subseteq Messages
  BY <1>1 DEF OneCallInv, IInv, TypeOK, VaaMatchesId
<1>3. m \in 1..MaxAttempts
  BY <1>2, MessagesAllowed
<1>4. /\ m \notin redeemed /\ redeemed' = redeemed \union {m}
      /\ UNCHANGED <<automatic, state, vaas, emitted, signed>>
  BY DEF Redeem, fixed, objVars
<1>5. m \in Held
  BY <1>1 DEF Held
<1>6. UNCHANGED <<Messages, Held>>
  BY <1>4 DEF Messages, Held, Entries
<1> HIDE DEF m
<1>7. Lifecycle!Deliver(m)
  BY <1>1, <1>2, <1>4, <1>5, <1>6 DEF Held, Lifecycle!Deliver, Lifecycle!Attested
<1> QED  BY <1>3, <1>7

LEMMA WorldRefines ==
  ASSUME TransferAssumption, OneCallInv, World PROVE Lifecycle!Next
<1>1. PICK m \in Messages : GuardiansSign(m) \/ RelayerDelivers(m) \/ Recover(m)
  BY DEF World
<1>2. m \in 1..MaxAttempts /\ m # NoVaa
  BY MessagesAllowed
<1>3. CASE GuardiansSign(m)
  <2>1. Lifecycle!Sign(m)
    BY <1>3 DEF GuardiansSign, fixed, objVars, Messages, Entries, Lifecycle!Sign
  <2> QED  BY <1>2, <2>1 DEF Lifecycle!Next
<1>4. CASE RelayerDelivers(m)
  <2>1. Lifecycle!Deliver(m)
    BY <1>4 DEF RelayerDelivers, fixed, objVars, Messages, Entries, Lifecycle!Deliver
  <2> QED  BY <1>2, <2>1 DEF Lifecycle!Next
<1>5. CASE Recover(m)
  <2>1. /\ vaas' = <<[id |-> m, vaa |-> m]>> /\ state' = Attested /\ m \in signed
        /\ UNCHANGED <<automatic, emitted, signed, redeemed>>
    BY <1>5 DEF Recover, fixed, chainVars
  <2>2. Held' = {m}
    <3>1. Len(vaas') = 1 /\ vaas'[1].vaa = m
      BY <2>1
    <3> QED  BY <1>2, <3>1 DEF Held, Entries
  <2>3. Lifecycle!Recover(m)
    BY <2>1, <2>2 DEF Held, Messages, Lifecycle!Recover, Lifecycle!Attested
  <2> QED  BY <1>2, <2>3 DEF Lifecycle!Next
<1> QED  BY <1>1, <1>3, <1>4, <1>5

LEMMA StepRefines ==
  ASSUME TransferAssumption, OneCallInv, [Next]_vars
  PROVE  Lifecycle!Next \/ UNCHANGED abstractVars
<1>1. ASSUME NEW c \in Calls, Begin(c) \/ Resumes(c) \/ Rejects(c)
      PROVE  Lifecycle!Next \/ UNCHANGED abstractVars
  <2>1. CASE Transfer(c)
    BY <2>1, TransferSends DEF Lifecycle!Next
  <2>2. CASE Confirm(c)
    BY <2>2, ConfirmInitiates DEF Lifecycle!Next
  <2>3. CASE Parse(c)
    BY <2>3, ParseStutters
  <2>4. CASE BeginFetch(c)
    BY <2>4, BeginFetchRefines DEF Lifecycle!Next
  <2>5. CASE FetchArrives(c)
    BY <2>5, FetchArrivesAttests DEF Lifecycle!Next
  <2>6. CASE StatusCompleted(c)
    BY <2>6, StatusCompletes DEF Lifecycle!Next
  <2>7. CASE Redeem(c)
    BY <2>7, RedeemDelivers DEF Lifecycle!Next
  <2>8. CASE \/ BeginInitiate(c)
             \/ Prepared(c)
             \/ Approve(c)
             \/ TransferReverts(c)
             \/ ParseFindsNone(c)
             \/ FetchGivesUp(c)
             \/ BeginStatus(c)
             \/ StatusPending(c)
             \/ BeginComplete(c)
             \/ RedeemRefused(c) \/ RedeemReverts(c)
             \/ Redeemed(c)
             \/ RedeemNothing(c)
             \/ Rejects(c)
    BY <2>8, QuietStutters
  <2> QED
    BY <1>1, <2>1, <2>2, <2>3, <2>4, <2>5, <2>6, <2>7, <2>8
    DEF Begin, Resumes, Initiate, Fetch, Status, Complete
<1>2. CASE World
  BY <1>2, WorldRefines
<1>3. CASE UNCHANGED vars
  BY <1>3 DEF vars, fixed, objVars, chainVars, abstractVars, Messages, Held, Entries
<1> QED  BY <1>1, <1>2, <1>3 DEF Next

(* With one call at a time the object implements WormholeTransfer.         *)
THEOREM TransferImplementsLifecycle == OneAtATime => (Spec => ImplementsLifecycle)
<1> SUFFICES ASSUME OneAtATime PROVE Spec => ImplementsLifecycle
  OBVIOUS
<1>1. Init => Lifecycle!Init
  BY TransferAssumption
  DEF TransferAssumption, Init, Messages, Entries, Lifecycle!Init, Lifecycle!Created
<1>2. OneCallInv /\ [Next]_vars => [Lifecycle!Next]_(Lifecycle!vars)
  <2>1. UNCHANGED abstractVars => UNCHANGED Lifecycle!vars
    BY DEF abstractVars, Held, Lifecycle!vars
  <2> QED  BY <2>1, TransferAssumption, StepRefines
<1>3. Spec => []OneCallInv
  BY OneCallInvariant
<1> QED  BY <1>1, <1>2, <1>3, PTL DEF Spec, ImplementsLifecycle, Lifecycle!Spec

-----------------------------------------------------------------------------
(* What an attempt sends.                                                  *)

(* The calls that have passed the first check and not sent yet, and what   *)
(* the attempts are accounted for with.                                    *)
ToSend == {c \in Calls : pc[c] \in {"prepare", "approve", "transfer"}}

Accounted == IsFiniteSet(ToSend) /\ emitted + Cardinality(ToSend) <= attempts

(* Any other step of a call than these two sends nothing, and begins no    *)
(* attempt.                                                                *)
LEMMA OthersSendNothing ==
  ASSUME IInv, NEW c \in Calls, Begin(c) \/ Resumes(c) \/ Rejects(c),
         ~BeginInitiate(c), ~Transfer(c)
  PROVE  UNCHANGED <<emitted, attempts>> /\ ToSend' \subseteq ToSend
<1>1. pc \in [Calls -> PCs]
  BY DEF IInv, TypeOK
<1>2. ASSUME NEW where, pc' = [pc EXCEPT ![c] = where],
             \/ where \notin {"prepare", "approve", "transfer"}
             \/ pc[c] \in {"prepare", "approve", "transfer"}
      PROVE  ToSend' \subseteq ToSend
  BY <1>1, <1>2 DEF ToSend
<1> USE DEF Ends, Await, chainVars
<1>3. CASE Prepared(c)
  <2>1. PICK where : pc' = [pc EXCEPT ![c] = where]
    BY <1>3 DEF Prepared
  <2> QED  BY <1>2, <1>3, <2>1 DEF Prepared
<1>4. CASE Approve(c)
  BY <1>2, <1>4 DEF Approve
<1>5. CASE BeginStatus(c) \/ Confirm(c) \/ Parse(c) \/ Redeem(c)
  BY <1>2, <1>5 DEF BeginStatus, Confirm, Parse, Redeem
<1>6. CASE TransferReverts(c) \/ ParseFindsNone(c) \/ FetchGivesUp(c)
           \/ StatusCompleted(c) \/ StatusPending(c) \/ RedeemRefused(c) \/ RedeemReverts(c) \/ Rejects(c)
  BY <1>2, <1>6
  DEF TransferReverts, ParseFindsNone, FetchGivesUp, StatusCompleted,
      StatusPending, RedeemRefused, RedeemReverts, Rejects
<1>7. CASE BeginFetch(c) \/ FetchArrives(c)
  <2>1. UNCHANGED <<emitted, attempts>>
    BY <1>7 DEF BeginFetch, FetchArrives
  <2>2. \E where \in {"idle", "fetch"} : pc' = [pc EXCEPT ![c] = where]
    BY <1>7 DEF BeginFetch, FetchArrives, FetchLoop
  <2> QED  BY <1>2, <2>1, <2>2
<1>8. CASE BeginComplete(c) \/ Redeemed(c) \/ RedeemNothing(c)
  BY <1>2, <1>8 DEF BeginComplete, Redeemed, RedeemNothing, RedeemLoop
<1> QED
  BY <1>3, <1>4, <1>5, <1>6, <1>7, <1>8
  DEF Begin, Resumes, Initiate, Fetch, Status, Complete

LEMMA CountedTo ==
  ASSUME NEW n \in Nat PROVE IsFiniteSet(1..n) /\ Cardinality(1..n) = n
<1>1. 1 \in Int /\ n \in Int
  OBVIOUS
<1>2. IsFiniteSet(1..n) /\ Cardinality(1..n) = IF 1 > n THEN 0 ELSE n - 1 + 1
  BY ONLY <1>1, FS_Interval, Zenon
<1> QED  BY <1>2

LEMMA AccountedKeeps ==
  ASSUME IInv, Accounted, [Next]_vars PROVE Accounted'
<1>1. /\ pc \in [Calls -> PCs] /\ emitted \in Nat /\ attempts \in Nat
      /\ IsFiniteSet(ToSend) /\ Cardinality(ToSend) \in Nat
      /\ emitted + Cardinality(ToSend) <= attempts
  BY FS_CardinalityType DEF IInv, TypeOK, Accounted
<1>2. ASSUME ToSend' \subseteq ToSend, UNCHANGED <<emitted, attempts>> PROVE Accounted'
  <2>1. IsFiniteSet(ToSend') /\ Cardinality(ToSend') <= Cardinality(ToSend)
    BY <1>1, <1>2, FS_Subset
  <2>2. Cardinality(ToSend') \in Nat
    BY <2>1, FS_CardinalityType
  <2> QED  BY <1>1, <1>2, <2>1, <2>2 DEF Accounted
<1>3. ASSUME NEW c \in Calls, BeginInitiate(c) PROVE Accounted'
  <2>1. /\ c \notin ToSend /\ ToSend' = ToSend \cup {c}
        /\ emitted' = emitted /\ attempts' = attempts + 1
    BY <1>1, <1>3 DEF BeginInitiate, Await, ToSend, chainVars
  <2>2. /\ IsFiniteSet(ToSend \cup {c})
        /\ Cardinality(ToSend \cup {c}) = Cardinality(ToSend) + 1
    BY <1>1, <2>1, FS_AddElement
  <2> QED  BY <1>1, <2>1, <2>2 DEF Accounted
<1>4. ASSUME NEW c \in Calls, Transfer(c) PROVE Accounted'
  <2>1. /\ c \in ToSend /\ ToSend' = ToSend \ {c}
        /\ emitted' = emitted + 1 /\ attempts' = attempts
    BY <1>1, <1>4 DEF Transfer, Await, ToSend
  <2>2. IsFiniteSet(ToSend') /\ Cardinality(ToSend') = Cardinality(ToSend) - 1
    BY <1>1, <2>1, FS_RemoveElement
  <2> QED  BY <1>1, <2>1, <2>2 DEF Accounted
<1>5. ASSUME NEW m \in Messages, GuardiansSign(m) \/ RelayerDelivers(m) PROVE Accounted'
  BY <1>2, <1>5 DEF GuardiansSign, RelayerDelivers, callVars, ToSend
<1>6. ASSUME NEW m \in Messages, Recover(m) PROVE Accounted'
  BY <1>2, <1>6 DEF Recover, chainVars, ToSend
<1>7. CASE UNCHANGED vars
  BY <1>2, <1>7 DEF vars, callVars, chainVars, ToSend
<1> QED  BY <1>2, <1>3, <1>4, <1>5, <1>6, <1>7, OthersSendNothing DEF Next, World

(* An initiateTransfer that has passed its check sends at most once,       *)
(* however many of them are in flight, whether they fail or the process    *)
(* dies; and the array they share holds at most what was sent.             *)
THEOREM EachAttemptSendsOnce == Spec => []SentOncePerAttempt
<1>1. Init => Accounted
  <2> SUFFICES ASSUME Init PROVE Accounted
    OBVIOUS
  <2>1. ToSend = {}
    BY DEF Init, ToSend
  <2> QED  BY <2>1, FS_EmptySet DEF Init, Accounted
<1>2. IInv /\ Accounted /\ [Next]_vars => Accounted'
  BY AccountedKeeps
<1>3. IInv /\ Accounted => SentOncePerAttempt
  <2> SUFFICES ASSUME IInv, Accounted PROVE SentOncePerAttempt
    OBVIOUS
  <2>1. /\ emitted \in Nat /\ attempts \in Nat /\ Len(vaas) \in Nat
        /\ Cardinality(ToSend) \in Nat
    BY FS_CardinalityType DEF IInv, TypeOK, Accounted
  <2>2. emitted <= attempts
    BY <2>1 DEF Accounted
  <2>3. Len(vaas) <= emitted
    <3>1. /\ IsFiniteSet(Entries) /\ Cardinality(Entries) = Len(vaas)
          /\ IsFiniteSet(Messages) /\ Cardinality(Messages) = emitted
      BY <2>1, CountedTo DEF Entries, Messages
    <3> DEFINE id == [i \in Entries |-> vaas[i].id]
    <3>2. id \in [Entries -> Messages]
      BY DEF IInv, EntriesEmitted
    <3>3. \A i, j \in Entries : id[i] = id[j] => i = j
      BY DEF IInv, VaasDistinct
    <3> HIDE DEF id
    <3>4. ~(Cardinality(Messages) < Cardinality(Entries))
      BY <3>1, <3>2, <3>3, FS_PigeonHole
    <3> QED  BY <2>1, <3>1, <3>4
  <2> QED  BY <2>2, <2>3 DEF SentOncePerAttempt
<1> QED  BY <1>1, <1>2, <1>3, TokenTransferInvariant, PTL DEF Spec

-----------------------------------------------------------------------------
(* The safety half of liveness.                                            *)

LEMMA WhereCallsAre ==
  ASSUME IInv
  PROVE  /\ pc \in [Calls -> PCs] /\ idx \in [Calls -> Nat] /\ limit \in [Calls -> Nat]
         /\ hashes \in [Calls -> Seq(Nat)] /\ vaas \in Seq(Entry) /\ Len(vaas) \in Nat
         /\ \A c \in Calls : CallAt(c)
  BY DEF IInv, TypeOK

(* What AnswersLeft is, now and after a step.                              *)
AnswersAre(c) ==
    /\ pc[c] = "prepare" => AnswersLeft(c) = 6
    /\ pc[c] = "approve" => AnswersLeft(c) = 5
    /\ pc[c] = "transfer" => AnswersLeft(c) = Len(hashes[c]) + 3
    /\ pc[c] = "confirm" => AnswersLeft(c) = Len(hashes[c]) + 1
    /\ pc[c] = "parse" => AnswersLeft(c) = Len(hashes[c]) - idx[c] + 1
    /\ pc[c] = "fetch" => AnswersLeft(c) = limit[c] - idx[c] + 1
    /\ pc[c] = "status" => AnswersLeft(c) = 1
    /\ pc[c] = "redeem" => AnswersLeft(c) = 2 * (Len(vaas) - idx[c]) + 2
    /\ pc[c] = "redeeming" => AnswersLeft(c) = 2 * (Len(vaas) - idx[c]) + 1
    /\ pc[c] = "idle" => AnswersLeft(c) = 0

LEMMA AnswersExpand == ASSUME NEW c PROVE AnswersAre(c) /\ AnswersAre(c)'
  BY DEF AnswersAre, AnswersLeft

(* In flight some answer is awaited; a loop over the array awaits no more  *)
(* than the array is long.                                                 *)
LEMMA AnswersCount ==
  ASSUME IInv, NEW c \in Calls
  PROVE  /\ AnswersLeft(c) \in Nat
         /\ pc[c] # "idle" => AnswersLeft(c) > 0
         /\ pc[c] \notin Initiating => AnswersLeft(c) <= 2 * Len(vaas)
<1>1. /\ pc[c] \in PCs /\ idx[c] \in Nat /\ limit[c] \in Nat
      /\ hashes[c] \in Seq(Nat) /\ Len(hashes[c]) \in Nat /\ Len(vaas) \in Nat
      /\ CallAt(c) /\ AnswersAre(c)
  BY WhereCallsAre, AnswersExpand
<1>2. CASE pc[c] \in Initiating
  BY <1>1, <1>2 DEF CallAt, AnswersAre, Initiating
<1>3. CASE pc[c] = "fetch"
  BY <1>1, <1>3 DEF CallAt, AnswersAre, Initiating
<1>4. CASE pc[c] \in {"redeem", "redeeming"}
  <2>1. idx[c] \in 1..Len(vaas)
    BY <1>1, <1>4 DEF CallAt, Entries
  <2> QED  BY <1>1, <1>4, <2>1 DEF AnswersAre, Initiating
<1>5. CASE pc[c] = "status"
  <2>1. Len(vaas) > 0
    <3>1. vaas # <<>> /\ vaas \in Seq(Entry)
      BY <1>1, <1>5, WhereCallsAre DEF CallAt
    <3> QED  BY <3>1
  <2> QED  BY <1>1, <1>5, <2>1 DEF AnswersAre, Initiating
<1>6. CASE pc[c] = "idle"
  BY <1>1, <1>6 DEF AnswersAre, Initiating
<1> QED  BY <1>1, <1>2, <1>3, <1>4, <1>5, <1>6 DEF PCs

(* What a call that resumes does: it ends, or goes on to a later await.    *)
LEMMA ResumingAdvances ==
  ASSUME IInv, NEW c \in Calls, Resumes(c)
  PROVE  /\ AnswersLeft(c)' \in 0 .. AnswersLeft(c) - 1
         /\ pc'[c] \in Initiating => pc[c] \in Initiating
<1>1. /\ pc[c] \in PCs /\ idx[c] \in Nat /\ limit[c] \in Nat
      /\ hashes[c] \in Seq(Nat) /\ Len(hashes[c]) \in Nat /\ Len(vaas) \in Nat
      /\ CallAt(c) /\ AnswersAre(c) /\ AnswersAre(c)'
      /\ pc \in [Calls -> PCs] /\ idx \in [Calls -> Nat] /\ limit \in [Calls -> Nat]
      /\ hashes \in [Calls -> Seq(Nat)] /\ vaas \in Seq(Entry)
  BY WhereCallsAre, AnswersExpand
<1>2. /\ AnswersLeft(c) \in Nat
      /\ pc[c] # "idle" => AnswersLeft(c) > 0
  BY AnswersCount
<1>3. ASSUME NEW how, Ends(c, how), pc[c] # "idle"
      PROVE  AnswersLeft(c)' \in 0 .. AnswersLeft(c) - 1 /\ pc'[c] = "idle"
  <2>1. pc'[c] = "idle"
    BY <1>1, <1>3 DEF Ends
  <2>2. AnswersLeft(c)' = 0
    BY <1>1, <2>1 DEF AnswersAre
  <2> QED  BY <1>2, <1>3, <2>1, <2>2
<1>4. CASE TransferReverts(c) \/ ParseFindsNone(c) \/ FetchGivesUp(c)
           \/ StatusCompleted(c) \/ StatusPending(c) \/ RedeemRefused(c) \/ RedeemReverts(c)
  <2>1. pc[c] # "idle" /\ \E how : Ends(c, how)
    BY <1>4 DEF TransferReverts, ParseFindsNone, FetchGivesUp, StatusCompleted,
       StatusPending, RedeemRefused, RedeemReverts
  <2> QED  BY <1>3, <2>1 DEF Initiating
<1>5. CASE Prepared(c)
  <2>1. /\ pc[c] = "prepare" /\ pc'[c] \in {"approve", "transfer"}
        /\ hashes'[c] = <<>>
    BY <1>1, <1>5 DEF Prepared, Await, loopVars, CallAt
  <2>2. Len(hashes'[c]) = 0
    BY <2>1
  <2> QED  BY <1>1, <2>1, <2>2 DEF AnswersAre, Initiating
<1>6. CASE Approve(c)
  <2>1. pc[c] = "approve" /\ pc'[c] = "transfer" /\ hashes'[c] = Append(<<>>, Approval)
    BY <1>1, <1>6 DEF Approve, Await, CallAt
  <2>2. Len(hashes'[c]) = 1
    BY <2>1
  <2> QED  BY <1>1, <2>1, <2>2 DEF AnswersAre, Initiating
<1>7. CASE Transfer(c)
  <2>1. /\ pc[c] = "transfer" /\ pc'[c] = "confirm"
        /\ hashes'[c] = Append(hashes[c], emitted + 1)
    BY <1>1, <1>7 DEF Transfer, Await
  <2>2. Len(hashes'[c]) = Len(hashes[c]) + 1
    BY <1>1, <2>1
  <2> QED  BY <1>1, <2>1, <2>2 DEF AnswersAre, Initiating
<1>8. CASE Confirm(c)
  <2>1. /\ pc[c] = "confirm" /\ pc'[c] = "parse"
        /\ hashes'[c] = hashes[c] /\ idx'[c] = 1 /\ Len(hashes[c]) >= 1
    BY <1>1, <1>8 DEF Confirm, Await, loopVars, CallAt, PCs, Initiating
  <2> QED  BY <1>1, <2>1 DEF AnswersAre, Initiating
<1>9. CASE Parse(c)
  <2>1. CASE idx[c] = Len(hashes[c])
    BY <1>3, <1>9, <2>1 DEF Parse, Initiating
  <2>2. CASE idx[c] # Len(hashes[c])
    <3>1. /\ pc[c] = "parse" /\ pc'[c] = "parse" /\ hashes'[c] = hashes[c]
          /\ idx'[c] = idx[c] + 1 /\ idx[c] \in 1..Len(hashes[c])
      BY <1>1, <1>9, <2>2 DEF Parse, Await, CallAt
    <3> QED  BY <1>1, <2>2, <3>1 DEF AnswersAre, Initiating
  <2> QED  BY <2>1, <2>2
<1>10. CASE FetchArrives(c)
  <2>1. pc[c] = "fetch" /\ idx[c] \in 1..limit[c]
    BY <1>1, <1>10 DEF FetchArrives, CallAt
  <2>2. FetchLoop(c, vaas', idx[c] + 1, limit[c])
    BY <1>10 DEF FetchArrives
  <2>3. PICK next \in (idx[c] + 1)..(limit[c] + 1) :
           IF next > limit[c]
           THEN /\ state' = Attested
                /\ Ends(c, "returned")
           ELSE /\ idx' = [idx EXCEPT ![c] = next]
                /\ limit' = [limit EXCEPT ![c] = limit[c]]
                /\ Await(c, "fetch")
                /\ UNCHANGED <<state, hashes>>
    BY <2>2, Zenon DEF FetchLoop
  <2>4. CASE next > limit[c]
    BY <1>3, <2>1, <2>3, <2>4 DEF Initiating
  <2>5. CASE ~(next > limit[c])
    <3>1. next <= limit[c] /\ pc'[c] = "fetch" /\ idx'[c] = next /\ limit'[c] = limit[c]
      BY <1>1, <2>1, <2>3, <2>5 DEF Await
    <3> QED  BY <1>1, <2>1, <3>1 DEF AnswersAre, Initiating
  <2> QED  BY <2>4, <2>5
<1>11. CASE Redeem(c)
  <2>1. /\ pc[c] = "redeem" /\ pc'[c] = "redeeming" /\ idx'[c] = idx[c] /\ vaas' = vaas
    BY <1>1, <1>11 DEF Redeem, Await, loopVars, objVars
  <2>2. idx[c] \in 1..Len(vaas)
    BY <1>1, <2>1 DEF CallAt, Entries
  <2> QED  BY <1>1, <2>1, <2>2 DEF AnswersAre, Initiating
<1>12. CASE Redeemed(c) \/ RedeemNothing(c)
  <2>1. /\ pc[c] \in {"redeem", "redeeming"} /\ vaas' = vaas /\ RedeemLoop(c, idx[c] + 1)
    BY <1>12 DEF Redeemed, RedeemNothing, objVars
  <2>2. CASE \E how : Ends(c, how)
    BY <1>3, <2>1, <2>2 DEF Initiating
  <2>3. CASE ~\E how : Ends(c, how)
    <3>1. /\ ~(idx[c] + 1 > Len(vaas)) /\ pc'[c] = "redeem" /\ idx'[c] = idx[c] + 1
      BY <1>1, <2>1, <2>3 DEF RedeemLoop, Await
    <3> QED  BY <1>1, <2>1, <3>1 DEF AnswersAre, Initiating
  <2> QED  BY <2>2, <2>3
<1> QED
  BY <1>4, <1>5, <1>6, <1>7, <1>8, <1>9, <1>10, <1>11, <1>12
  DEF Resumes, Initiate, Fetch, Status, Complete

(* A step of another call leaves this one where it is; at most it pushes   *)
(* one message to the array.                                               *)
Left(c) ==
    /\ pc'[c] = pc[c]
    /\ hashes'[c] = hashes[c]
    /\ idx'[c] = idx[c]
    /\ limit'[c] = limit[c]
    /\ Len(vaas') \in {Len(vaas), Len(vaas) + 1}

LEMMA OthersLeave ==
  ASSUME IInv, NEW c \in Calls, NEW d \in Calls, d # c,
         Begin(d) \/ Resumes(d) \/ Rejects(d)
  PROVE  Left(c)
<1>1. /\ hashes \in [Calls -> Seq(Nat)] /\ idx \in [Calls -> Nat]
      /\ limit \in [Calls -> Nat] /\ vaas \in Seq(Entry) /\ Len(vaas) \in Nat
  BY DEF IInv, TypeOK
<1> SUFFICES limit'[c] = limit[c] /\ Len(vaas') \in {Len(vaas), Len(vaas) + 1}
  BY OthersKeepTheirs DEF Left
<1>2. ASSUME NEW how, Ends(d, how) PROVE limit'[c] = limit[c]
  BY <1>1, <1>2 DEF Ends
<1>3. CASE BeginInitiate(d) \/ Prepared(d) \/ Approve(d) \/ Transfer(d)
           \/ Confirm(d) \/ BeginStatus(d) \/ Redeem(d)
  BY <1>1, <1>3
  DEF BeginInitiate, Prepared, Approve, Transfer, Confirm, BeginStatus, Redeem,
      loopVars, objVars
<1>4. CASE TransferReverts(d) \/ ParseFindsNone(d) \/ FetchGivesUp(d)
           \/ StatusCompleted(d) \/ StatusPending(d) \/ RedeemRefused(d) \/ RedeemReverts(d) \/ Rejects(d)
  BY <1>2, <1>4
  DEF TransferReverts, ParseFindsNone, FetchGivesUp, StatusCompleted,
      StatusPending, RedeemRefused, RedeemReverts, Rejects, objVars
<1>5. CASE Parse(d)
  <2>1. PICK e : vaas' = Append(vaas, e)
    BY <1>5 DEF Parse
  <2>2. Len(vaas') = Len(vaas) + 1
    BY <1>1, <2>1
  <2> QED  BY <1>2, <1>5, <2>2 DEF Parse
<1>6. CASE BeginFetch(d) \/ FetchArrives(d)
  <2>1. limit'[c] = limit[c]
    BY <1>1, <1>2, <1>6 DEF BeginFetch, FetchArrives, FetchLoop
  <2>2. vaas' = vaas \/ \E i, e : vaas' = [vaas EXCEPT ![i] = e]
    BY <1>6 DEF BeginFetch, FetchArrives
  <2>3. Len(vaas') = Len(vaas)
    BY <1>1, <2>2
  <2> QED  BY <2>1, <2>3
<1>7. CASE BeginComplete(d) \/ Redeemed(d) \/ RedeemNothing(d)
  BY <1>1, <1>2, <1>7 DEF BeginComplete, Redeemed, RedeemNothing, RedeemLoop, objVars
<1> QED
  BY <1>3, <1>4, <1>5, <1>6, <1>7
  DEF Begin, Resumes, Initiate, Fetch, Status, Complete

LEMMA OfACall ==
  ASSUME IInv, [Next]_vars, NEW c \in Calls
  PROVE  \/ Resumes(c)
         \/ pc[c] = "idle" /\ Begin(c)
         \/ pc'[c] = "idle"
         \/ Left(c)
<1>1. pc \in [Calls -> PCs]
  BY DEF IInv, TypeOK
<1>2. CASE UNCHANGED vars
  BY <1>2 DEF vars, callVars, loopVars, objVars, Left
<1>3. ASSUME NEW m \in Messages, GuardiansSign(m) \/ RelayerDelivers(m) PROVE Left(c)
  BY <1>3 DEF GuardiansSign, RelayerDelivers, callVars, loopVars, objVars, Left
<1>4. ASSUME NEW m \in Messages, Recover(m) PROVE pc'[c] = "idle"
  BY <1>4 DEF Recover
<1>5. CASE Rejects(c)
  BY <1>1, <1>5 DEF Rejects, Ends
<1>6. CASE Begin(c)
  BY <1>6 DEF Begin, BeginInitiate, BeginFetch, BeginStatus, BeginComplete
<1>7. ASSUME NEW d \in Calls, d # c, Begin(d) \/ Resumes(d) \/ Rejects(d) PROVE Left(c)
  BY <1>7, OthersLeave
<1> QED  BY <1>2, <1>3, <1>4, <1>5, <1>6, <1>7 DEF Next, World

(* What the step of another call makes of the answers that are left.       *)
LEMMA LeftAnswers ==
  ASSUME IInv, NEW c \in Calls, Left(c)
  PROVE  \/ AnswersLeft(c)' = AnswersLeft(c)
         \/ /\ pc[c] \in {"redeem", "redeeming"}
            /\ Len(vaas') = Len(vaas) + 1
            /\ AnswersLeft(c)' = AnswersLeft(c) + 2
<1>1. /\ pc[c] \in PCs /\ idx[c] \in Nat /\ Len(vaas) \in Nat
      /\ AnswersAre(c) /\ AnswersAre(c)'
  BY WhereCallsAre, AnswersExpand
<1>2. CASE pc[c] \in {"redeem", "redeeming"}
  <2>1. PICK k \in {1, 2} :
           /\ AnswersLeft(c) = 2 * (Len(vaas) - idx[c]) + k
           /\ AnswersLeft(c)' = 2 * (Len(vaas') - idx[c]) + k
    BY <1>1, <1>2 DEF Left, AnswersAre
  <2>2. Len(vaas') = Len(vaas) \/ Len(vaas') = Len(vaas) + 1
    BY DEF Left
  <2> QED  BY <1>1, <1>2, <2>1, <2>2
<1>3. CASE pc[c] \notin {"redeem", "redeeming"}
  BY <1>1, <1>3 DEF Left, AnswersAre, PCs, Initiating
<1> QED  BY <1>2, <1>3

LEMMA StepAdvances ==
  ASSUME IInv, [Next]_vars, NEW c \in Calls, pc[c] # "idle"
  PROVE  /\ \/ AnswersLeft(c)' <= AnswersLeft(c)
            \/ /\ pc[c] \in {"redeem", "redeeming"}
               /\ Len(vaas') = Len(vaas) + 1
               /\ AnswersLeft(c)' = AnswersLeft(c) + 2
         /\ Resumes(c) => AnswersLeft(c)' < AnswersLeft(c)
<1>1. AnswersLeft(c) \in Nat
  BY AnswersCount
<1>2. CASE Resumes(c)
  BY <1>1, <1>2, ResumingAdvances
<1>3. ASSUME ~Resumes(c), pc'[c] = "idle" PROVE AnswersLeft(c)' <= AnswersLeft(c)
  <2>1. AnswersLeft(c)' = 0
    BY <1>3, AnswersExpand DEF AnswersAre
  <2> QED  BY <1>1, <2>1
<1>4. ASSUME ~Resumes(c), Left(c)
      PROVE  \/ AnswersLeft(c)' <= AnswersLeft(c)
             \/ /\ pc[c] \in {"redeem", "redeeming"}
                /\ Len(vaas') = Len(vaas) + 1
                /\ AnswersLeft(c)' = AnswersLeft(c) + 2
  BY <1>1, <1>4, LeftAnswers
<1> QED  BY <1>2, <1>3, <1>4, OfACall

(* A call of initiateTransfer has at most six answers left: it begins with *)
(* as many, and no later call of another method becomes one.               *)
InitiatingBounded ==
    \A c \in Calls : pc[c] \in Initiating => AnswersLeft(c) <= 6

LEMMA InitiatingKeeps ==
  ASSUME IInv, InitiatingBounded, [Next]_vars PROVE InitiatingBounded'
<1> SUFFICES ASSUME NEW c \in Calls, pc'[c] \in Initiating PROVE AnswersLeft(c)' <= 6
  BY DEF InitiatingBounded
<1>1. /\ pc \in [Calls -> PCs] /\ AnswersLeft(c) \in Nat /\ AnswersAre(c)'
      /\ pc[c] \in Initiating => AnswersLeft(c) <= 6
  BY AnswersCount, AnswersExpand DEF IInv, TypeOK, InitiatingBounded
<1>2. CASE Resumes(c)
  BY <1>1, <1>2, ResumingAdvances
<1>3. CASE Begin(c)
  <2>1. CASE BeginInitiate(c)
    <3>1. pc'[c] = "prepare"
      BY <1>1, <2>1 DEF BeginInitiate, Await
    <3> QED  BY <1>1, <3>1 DEF AnswersAre
  <2>2. CASE BeginFetch(c) \/ BeginStatus(c) \/ BeginComplete(c)
    <3>1. pc'[c] \in {"idle", "fetch", "status", "redeem"}
      BY <1>1, <2>2
      DEF BeginFetch, BeginStatus, BeginComplete, FetchLoop, RedeemLoop, Await, Ends
    <3> QED  BY <3>1 DEF Initiating
  <2> QED  BY <1>3, <2>1, <2>2 DEF Begin
<1>4. CASE Left(c)
  <2>1. pc[c] \in Initiating /\ pc[c] \notin {"redeem", "redeeming"}
    BY <1>4 DEF Left, Initiating
  <2> QED  BY <1>1, <1>4, <2>1, LeftAnswers
<1>5. pc'[c] # "idle"
  BY DEF Initiating
<1> QED  BY <1>2, <1>3, <1>4, <1>5, OfACall

(* What a call reads of the shared array and of its own locals when it is  *)
(* resumed is there.                                                       *)
LEMMA NoneIsStuck == IInv => NoCallIsStuck
<1> SUFFICES ASSUME IInv, NEW c \in Calls, pc[c] # "idle" PROVE CanResume(c)
  BY DEF NoCallIsStuck
<1>1. /\ CallAt(c) /\ idx[c] \in Nat /\ limit[c] \in Nat /\ Len(vaas) \in Nat
      /\ hashes[c] \in Seq(Nat)
  BY WhereCallsAre
<1>2. pc[c] = "parse" => idx[c] \in DOMAIN hashes[c]
  BY <1>1 DEF CallAt
<1>3. pc[c] = "fetch" => idx[c] \in Entries
  BY <1>1 DEF CallAt, Entries
<1>4. pc[c] \in {"redeem", "redeeming"} => idx[c] \in Entries
  BY <1>1 DEF CallAt
<1>5. pc[c] = "status" => vaas # <<>>
  BY <1>1 DEF CallAt
<1> QED  BY <1>2, <1>3, <1>4, <1>5 DEF CanResume

(* Wherever a call is suspended, an answer takes it on, nearer to its end, *)
(* and nothing another call does sets it back, but for the one entry more  *)
(* that a push to the shared array gives completeTransfer to redeem.       *)
THEOREM CallsGoOn == Spec => [](NoCallIsStuck /\ AnswersBounded) /\ CallsAdvance
<1>1. Init => InitiatingBounded
  BY DEF Init, InitiatingBounded, Initiating
<1>2. IInv /\ InitiatingBounded /\ [Next]_vars => InitiatingBounded'
  BY InitiatingKeeps
<1>3. IInv /\ InitiatingBounded => NoCallIsStuck /\ AnswersBounded
  <2> SUFFICES ASSUME IInv, InitiatingBounded PROVE NoCallIsStuck /\ AnswersBounded
    OBVIOUS
  <2>1. ASSUME NEW c \in Calls
        PROVE  AnswersLeft(c) \in 0..(IF pc[c] \in Initiating THEN 6 ELSE 2 * Len(vaas))
    <3>1. AnswersLeft(c) \in Nat /\ Len(vaas) \in Nat
      BY AnswersCount, WhereCallsAre
    <3>2. CASE pc[c] \in Initiating
      BY <3>1, <3>2 DEF InitiatingBounded
    <3>3. CASE pc[c] \notin Initiating
      BY <3>1, <3>3, AnswersCount
    <3> QED  BY <3>2, <3>3
  <2> QED  BY <2>1, NoneIsStuck DEF AnswersBounded
<1>4. IInv /\ [Next]_vars =>
        [\A c \in Calls : pc[c] # "idle" =>
            /\ \/ AnswersLeft(c)' <= AnswersLeft(c)
               \/ /\ pc[c] \in {"redeem", "redeeming"}
                  /\ Len(vaas') = Len(vaas) + 1
                  /\ AnswersLeft(c)' = AnswersLeft(c) + 2
            /\ Resumes(c) => AnswersLeft(c)' < AnswersLeft(c)]_vars
  BY StepAdvances
<1> QED
  BY <1>1, <1>2, <1>3, <1>4, TokenTransferInvariant, PTL DEF Spec, CallsAdvance

=============================================================================
