----------------------- MODULE GatewayTransferProofs ------------------------
(***************************************************************************)
(* The safety properties of GatewayTransfer: those of any set of calls in  *)
(* flight, from IInv, and those of an object whose user makes one call at  *)
(* a time, from AloneInv.                                                  *)
(***************************************************************************)
EXTENDS GatewayTransfer, FiniteSets, FiniteSetTheorems, TLAPS

USE DEF Created, Initiated, Attested, None, Approval, Fetching

CallTypes ==
    /\ pc \in [Calls -> PCs]
    /\ ids \in [Calls -> Seq(Nat)]
    /\ msg \in [Calls -> Nat]
    /\ result \in [Calls -> {"none", "returned", "threw"}]

HistTypes ==
    /\ attempts \in 0..MaxAttempts
    /\ faults \in 0..MaxFaults
    /\ overlapped \in BOOLEAN

ChainTypes ==
    /\ allowance \in Nat
    /\ sent \in Nat
    /\ failed \subseteq Messages
    /\ arrived \subseteq Messages \ failed
    /\ signed \subseteq Messages \ failed
    /\ redeemed \subseteq signed

(* What IInv says of the object.                                           *)
ObjectOK ==
    /\ state \in {Created, Initiated, Attested}
    /\ txs \in Seq(Nat)
    /\ vaa \in Nat
    /\ ibc \in Seq(Nat)
    /\ \A i \in DOMAIN txs : txs[i] \in IF fromGateway THEN Messages ELSE 0..sent
    /\ state >= Initiated => txs # <<>>
    /\ vaa # None => vaa \in signed
    /\ ~HasVaa => vaa = None
    /\ \A i \in DOMAIN ibc : ibc[i] \in Messages \ failed

LEMMA Parts ==
  IInv <=> /\ route \in {"in", "out", "through"}
           /\ plain \in BOOLEAN
           /\ CallTypes
           /\ HistTypes
           /\ ChainTypes
           /\ ObjectOK
           /\ \A c \in Calls : CallAt(c)
  BY DEF IInv, TypeOK, CallTypes, HistTypes, ChainTypes, ObjectOK

LEMMA InitInvariant == ASSUME GatewayAssumption, Init PROVE IInv
<1>1. CallTypes /\ ObjectOK
  BY DEF Init, CallTypes, PCs, ObjectOK, HasVaa
<1>2. HistTypes
  <2>1. attempts \in 0..MaxAttempts /\ faults \in 0..MaxFaults
    BY DEF GatewayAssumption, Init
  <2>2. overlapped \in BOOLEAN
    BY DEF Init
  <2> QED  BY <2>1, <2>2 DEF HistTypes
<1>3. ChainTypes
  <2>1. allowance \in Nat
    BY DEF GatewayAssumption, Init
  <2> QED  BY <2>1 DEF Init, ChainTypes, Messages
<1>4. \A c \in Calls : CallAt(c)
  BY DEF Init, CallAt
<1>5. route \in {"in", "out", "through"} /\ plain \in BOOLEAN
  <2>1. route \in {"in", "out", "through"}
    BY DEF GatewayAssumption, Init
  <2>2. plain \in BOOLEAN
    BY DEF Init
  <2> QED  BY <2>1, <2>2
<1> QED  BY <1>1, <1>2, <1>3, <1>4, <1>5, Parts

(* The chains grow: what holds of a call or of the object goes on to hold. *)
LEMMA CallAtCarries ==
  ASSUME NEW d \in Calls, CallAt(d), pc'[d] = pc[d], ids'[d] = ids[d],
         msg'[d] = msg[d], route' = route, sent \in Nat, sent' \in Nat,
         sent <= sent', signed \subseteq signed', vaa # None => vaa' # None,
         txs # <<>> => txs' # <<>>
  PROVE  CallAt(d)'
<1>1. \A m \in Messages : m \in Messages'
  BY DEF Messages
<1>2. \A m \in 0..sent : m \in 0..sent'
  OBVIOUS
<1> QED  BY <1>1, <1>2 DEF CallAt, fromGateway, HasVaa

LEMMA ObjectCarries ==
  ASSUME ObjectOK, UNCHANGED <<route, objVars>>, sent \in Nat, sent' \in Nat,
         sent <= sent', signed \subseteq signed',
         \A m \in Messages \ failed : m \in Messages' \ failed'
  PROVE  ObjectOK'
<1>1. \A m \in Messages : m \in Messages'
  BY DEF Messages
<1>2. \A m \in 0..sent : m \in 0..sent'
  OBVIOUS
<1> QED  BY <1>1, <1>2 DEF ObjectOK, objVars, fromGateway, HasVaa

(* A call ends or goes on to an await.                                     *)
Local(c) ==
    \/ Ends(c, "returned")
    \/ Ends(c, "threw")
    \/ \E where \in PCs, m \in Nat : AwaitWith(c, where, m)

LEMMA LocalTypes ==
  ASSUME CallTypes, NEW c \in Calls, Local(c)
  PROVE  /\ CallTypes'
         /\ \A d \in Calls : d # c => /\ pc'[d] = pc[d]
                                      /\ ids'[d] = ids[d]
                                      /\ msg'[d] = msg[d]
<1>1. ASSUME NEW how \in {"returned", "threw"}, Ends(c, how)
      PROVE  /\ CallTypes'
             /\ \A d \in Calls : d # c => /\ pc'[d] = pc[d]
                                          /\ ids'[d] = ids[d]
                                          /\ msg'[d] = msg[d]
  <2>1. "idle" \in PCs /\ <<>> \in Seq(Nat) /\ None \in Nat
    BY DEF PCs
  <2> QED  BY <1>1, <2>1 DEF CallTypes, Ends
<1>2. ASSUME NEW where \in PCs, NEW m \in Nat, AwaitWith(c, where, m)
      PROVE  /\ CallTypes'
             /\ \A d \in Calls : d # c => /\ pc'[d] = pc[d]
                                          /\ ids'[d] = ids[d]
                                          /\ msg'[d] = msg[d]
  BY <1>2 DEF CallTypes, AwaitWith
<1> QED  BY <1>1, <1>2 DEF Local

(* An ended call is idle and has no locals.                                *)
LEMMA EndedAt ==
  ASSUME CallTypes, NEW c \in Calls, NEW how, Ends(c, how)
  PROVE  CallAt(c)' /\ pc'[c] = "idle"
  BY DEF CallTypes, Ends, CallAt

(* The actions that change nothing but their call.                         *)
Quiet(c) ==
    \/ BeginInitiate(c)
    \/ Prepared(c)
    \/ SendReverts(c)
    \/ Parse(c)
    \/ ParseNothing(c)
    \/ LegsFailed(c)
    \/ PacketFound(c)
    \/ PacketMissing(c)
    \/ VaaMissing(c)
    \/ PollTrue(c)
    \/ PollFalse(c)
    \/ LookupGivesUp(c)
    \/ BeginComplete(c)
    \/ TakeVaa(c)
    \/ RedeemRefused(c)
    \/ RedeemReverts(c)
    \/ Redeemed(c)
    \/ Rejects(c)

LEMMA QuietStep ==
  ASSUME GatewayAssumption, IInv, NEW c \in Calls, Quiet(c)
  PROVE  /\ Local(c)
         /\ HistTypes'
         /\ UNCHANGED <<route, plain, objVars, chainVars>>
         /\ CallAt(c)'
<1>1. CallTypes /\ HistTypes /\ ObjectOK /\ CallAt(c)
  BY Parts
<1>2. UNCHANGED <<route, plain, objVars, chainVars>>
  BY DEF Quiet, BeginInitiate, Prepared, SendReverts, Parse, ParseNothing, LegsFailed,
     PacketFound, PacketMissing, VaaMissing, PollTrue, PollFalse, LookupGivesUp,
     BeginComplete, TakeVaa, RedeemRefused, RedeemReverts, Redeemed, Rejects
<1>3. HistTypes'
  <2>1. CASE BeginInitiate(c) \/ BeginComplete(c)
    <3>1. attempts' \in 0..MaxAttempts /\ faults' \in 0..MaxFaults
      BY <1>1, <2>1 DEF GatewayAssumption, HistTypes, BeginInitiate, BeginComplete
    <3>2. overlapped' \in BOOLEAN
      BY <2>1 DEF BeginInitiate, BeginComplete, Begins
    <3> QED  BY <3>1, <3>2 DEF HistTypes
  <2>2. CASE Rejects(c)
    BY <1>1, <2>2 DEF GatewayAssumption, HistTypes, Rejects, Fault
  <2>3. CASE UNCHANGED histVars
    BY <1>1, <2>3 DEF HistTypes, histVars
  <2> QED  BY <2>1, <2>2, <2>3
           DEF Quiet, Prepared, SendReverts, Parse, ParseNothing, LegsFailed,
               PacketFound, PacketMissing, VaaMissing, PollTrue, PollFalse,
               LookupGivesUp, TakeVaa, RedeemRefused, RedeemReverts, Redeemed
<1>4. CASE Ends(c, "returned") \/ Ends(c, "threw")
  BY <1>1, <1>2, <1>3, <1>4, EndedAt DEF Local
<1>5. CASE \E where \in {"prepare", "approve", "send", "vaa", "lookup", "take"} :
              Await(c, where)
  <2>1. msg[c] \in Nat
    BY <1>1 DEF CallTypes
  <2>2. Local(c)
    BY <1>5, <2>1 DEF Local, Await, PCs
  <2>3. pc[c] = "packet" \/ pc[c] = "parse" => HasVaa
    BY <1>1 DEF CallAt, HasVaa
  <2>4. CallAt(c)'
    BY <1>1, <1>2, <1>5, <2>3
    DEF Quiet, BeginInitiate, Prepared, SendReverts, Parse, ParseNothing, LegsFailed,
        PacketFound, PacketMissing, VaaMissing, PollTrue, PollFalse, LookupGivesUp,
        BeginComplete, TakeVaa, RedeemRefused, RedeemReverts, Redeemed, Rejects, Ends,
        Await, AwaitWith, CallTypes, CallAt, objVars, chainVars, fromGateway, toGateway,
        HasVaa, Messages
  <2> QED  BY <1>2, <1>3, <2>2, <2>4
<1>6. CASE TakeVaa(c)
  <2>1. vaa \in signed /\ vaa \in Nat
    BY <1>1, <1>6 DEF TakeVaa, CallAt, ObjectOK
  <2>2. Local(c)
    BY <1>6, <2>1 DEF TakeVaa, Local, PCs
  <2>3. CallAt(c)'
    BY <1>1, <1>2, <1>6, <2>1
    DEF TakeVaa, AwaitWith, CallTypes, CallAt, objVars, chainVars, fromGateway, HasVaa,
        Messages
  <2> QED  BY <1>2, <1>3, <2>2, <2>3
<1> QED  BY <1>4, <1>5, <1>6
         DEF Quiet, BeginInitiate, Prepared, SendReverts, Parse, ParseNothing, LegsFailed,
             PacketFound, PacketMissing, VaaMissing, PollTrue, PollFalse, LookupGivesUp,
             BeginComplete, TakeVaa, RedeemRefused, RedeemReverts, Redeemed, Rejects

(* The invariant from the parts of a step by call c.                       *)
LEMMA CallStep ==
  ASSUME IInv, NEW c \in Calls, UNCHANGED <<route, plain>>,
         CallTypes', HistTypes', ChainTypes', ObjectOK', CallAt(c)',
         sent <= sent', signed \subseteq signed', vaa # None => vaa' # None,
         txs # <<>> => txs' # <<>>,
         \A d \in Calls : d # c => pc'[d] = pc[d] /\ ids'[d] = ids[d] /\ msg'[d] = msg[d]
  PROVE  IInv'
<1>1. sent \in Nat /\ sent' \in Nat /\ \A d \in Calls : CallAt(d)
  BY Parts DEF ChainTypes
<1>2. ASSUME NEW d \in Calls PROVE CallAt(d)'
  <2>1. CASE d # c
    BY <1>1, <2>1, CallAtCarries
  <2> QED  BY <2>1
<1>3. route' \in {"in", "out", "through"} /\ plain' \in BOOLEAN
  BY Parts
<1> QED  BY <1>2, <1>3
         DEF IInv, TypeOK, CallTypes, HistTypes, ChainTypes, ObjectOK

(* A step that includes a transfer on the source chain.                    *)
LEMMA IncludedStep ==
  ASSUME GatewayAssumption, IInv, NEW c \in Calls, Included(c), HistTypes', allowance' \in Nat,
         failed' \subseteq failed \union {sent + 1}
  PROVE  IInv'
<1>1. CallTypes /\ ChainTypes /\ ObjectOK /\ CallAt(c)
  BY Parts
<1>2. /\ UNCHANGED <<route, plain, objVars, msg, result, arrived, signed, redeemed>>
      /\ sent' = sent + 1 /\ sent \in Nat
      /\ ids' = [ids EXCEPT ![c] = Append(@, sent + 1)]
      /\ pc' = [pc EXCEPT ![c] = "confirm"]
  BY <1>1 DEF Included, ChainTypes
<1>3. Messages' = Messages \union {sent + 1} /\ sent + 1 \notin Messages
  BY <1>2 DEF Messages
<1>4. \A m \in Messages \ failed : m \in Messages' \ failed'
  BY <1>3
<1>5. ChainTypes'
  BY <1>1, <1>2, <1>3 DEF ChainTypes
<1>6. ObjectOK'
  BY <1>1, <1>2, <1>4, ObjectCarries
<1>7. ids[c] \in Seq(Nat) /\ sent + 1 \in Nat /\ ids'[c] = Append(ids[c], sent + 1)
      /\ pc'[c] = "confirm" /\ msg'[c] = msg[c]
  BY <1>1, <1>2 DEF CallTypes
<1>8. CallTypes'
  BY <1>1, <1>2, <1>7 DEF CallTypes, PCs
<1>9. CallAt(c)'
  <2>1. ASSUME NEW i \in DOMAIN ids'[c]
        PROVE  ids'[c][i] = sent + 1 \/ (i \in DOMAIN ids[c] /\ ids'[c][i] = ids[c][i])
    BY <1>7, <2>1
  <2>2. ids'[c] # <<>>
    BY <1>7
  <2>3. sent + 1 \in Messages' /\ sent + 1 \in 0..sent'
    BY <1>2, <1>3
  <2>4. \A m \in 0..sent : m \in 0..sent'
    BY <1>2
  <2>5. \A i \in DOMAIN ids'[c] :
           ids'[c][i] \in IF fromGateway' THEN Messages' ELSE 0..sent'
    BY <1>1, <1>2, <1>3, <2>1, <2>3, <2>4 DEF CallAt, fromGateway
  <2> QED  BY <1>7, <2>2, <2>5 DEF CallAt
<1>10. \A d \in Calls : d # c => pc'[d] = pc[d] /\ ids'[d] = ids[d] /\ msg'[d] = msg[d]
  BY <1>1, <1>2 DEF CallTypes
<1> QED  BY <1>2, <1>5, <1>6, <1>8, <1>9, <1>10, CallStep DEF objVars

LEMMA StepInvariant == ASSUME GatewayAssumption, IInv, [Next]_vars PROVE IInv'
<1>1. CallTypes /\ HistTypes /\ ChainTypes /\ ObjectOK /\ (\A c \in Calls : CallAt(c))
  BY Parts
<1>2. sent \in Nat /\ \A m \in Messages : m \in Nat /\ m # None
  BY <1>1 DEF ChainTypes, Messages
<1>3. ASSUME NEW c \in Calls, Quiet(c) PROVE IInv'
  <2>1. /\ Local(c)
        /\ HistTypes'
        /\ UNCHANGED <<route, plain, objVars, chainVars>>
        /\ CallAt(c)'
    BY <1>3, QuietStep
  <2>2. ObjectOK' /\ ChainTypes'
    BY <1>1, <2>1 DEF ObjectOK, ChainTypes, objVars, chainVars, Messages, fromGateway, HasVaa
  <2>3. /\ CallTypes'
        /\ \A d \in Calls : d # c => pc'[d] = pc[d] /\ ids'[d] = ids[d] /\ msg'[d] = msg[d]
    BY <1>1, <2>1, LocalTypes
  <2>4. sent <= sent' /\ signed \subseteq signed' /\ (vaa # None => vaa' # None)
        /\ (txs # <<>> => txs' # <<>>)
    BY <1>2, <2>1 DEF objVars, chainVars
  <2> QED  BY <2>1, <2>2, <2>3, <2>4, CallStep
<1>4. ASSUME NEW c \in Calls, Approve(c) PROVE IInv'
  <2>1. ids[c] \in Seq(Nat) /\ ids'[c] = Append(ids[c], Approval) /\ pc'[c] = "send"
        /\ ~fromGateway
    BY <1>1, <1>4 DEF Approve, CallTypes, CallAt, fromGateway
  <2>2. CallTypes'
    BY <1>1, <1>4, <2>1 DEF Approve, CallTypes, PCs
  <2>3. \A i \in DOMAIN ids'[c] : ids'[c][i] \in 0..sent
    <3>1. ASSUME NEW i \in DOMAIN ids'[c]
          PROVE  ids'[c][i] = 0 \/ (i \in DOMAIN ids[c] /\ ids'[c][i] = ids[c][i])
      BY <2>1, <3>1
    <3> QED  BY <1>1, <1>2, <2>1, <3>1 DEF CallAt
  <2>4. UNCHANGED <<route, plain, objVars, histVars, sent, failed, arrived, signed, redeemed>>
        /\ allowance' = 1
    BY <1>4 DEF Approve
  <2>5. CallAt(c)'
    BY <2>1, <2>3, <2>4 DEF CallAt, fromGateway
  <2>6. HistTypes' /\ ChainTypes' /\ ObjectOK'
    BY <1>1, <2>4 DEF HistTypes, ChainTypes, ObjectOK, histVars, objVars, Messages,
       fromGateway, HasVaa
  <2>7. \A d \in Calls : d # c => pc'[d] = pc[d] /\ ids'[d] = ids[d] /\ msg'[d] = msg[d]
    BY <1>1, <1>4 DEF Approve, CallTypes
  <2> QED  BY <1>2, <2>2, <2>4, <2>5, <2>6, <2>7, CallStep DEF objVars
<1>5. ASSUME NEW c \in Calls, Send(c) PROVE IInv'
  <2>1. HistTypes'
    BY <1>1, <1>5 DEF HistTypes, Send, Included
  <2>2. allowance' \in Nat /\ failed' = failed
    BY <1>1, <1>5 DEF ChainTypes, Send
  <2> QED  BY <1>5, <2>1, <2>2, IncludedStep DEF Send
<1>6. ASSUME NEW c \in Calls, SendFails(c) PROVE IInv'
  <2>1. HistTypes'
    BY <1>1, <1>6 DEF GatewayAssumption, HistTypes, SendFails, Fault, Included
  <2> QED  BY <1>1, <1>6, <2>1, IncludedStep DEF ChainTypes, SendFails
<1>7. ASSUME NEW c \in Calls,
             Confirm(c) \/ BeginFetch(c) \/ ReadTransactions(c) \/ LegsFound(c)
             \/ VaaArrives(c) \/ LookupFinds(c)
      PROVE  IInv'
  <2>1. UNCHANGED <<route, plain, chainVars>>
    BY <1>7 DEF Confirm, BeginFetch, ReadTransactions, LegsFound, LegsAnswer, VaaArrives,
       LookupFinds
  <2>2. ChainTypes' /\ sent <= sent' /\ signed \subseteq signed'
    BY <1>1, <1>2, <2>1 DEF ChainTypes, chainVars, Messages
  <2>3. HistTypes'
    <3>1. CASE BeginFetch(c)
      <4>1. overlapped' \in BOOLEAN
        BY <3>1 DEF BeginFetch, Begins
      <4> QED  BY <1>1, <3>1, <4>1 DEF HistTypes, BeginFetch
    <3>2. CASE UNCHANGED histVars
      BY <1>1, <3>2 DEF HistTypes, histVars
    <3> QED  BY <1>7, <3>1, <3>2
             DEF Confirm, ReadTransactions, LegsFound, LegsAnswer, VaaArrives, LookupFinds
  <2>4. ASSUME CallTypes', ObjectOK', CallAt(c)', vaa # None => vaa' # None,
               txs # <<>> => txs' # <<>>,
               \A d \in Calls : d # c => pc'[d] = pc[d] /\ ids'[d] = ids[d] /\ msg'[d] = msg[d]
        PROVE  IInv'
    BY <2>1, <2>2, <2>3, <2>4, CallStep
  <2>5. CallAt(c) /\ ids[c] \in Seq(Nat) /\ msg[c] \in Nat /\ pc[c] \in PCs
    BY <1>1 DEF CallTypes
  <2>6. CASE Confirm(c)
    <3>1. Local(c) /\ CallAt(c)'
      BY <1>1, <2>6, EndedAt DEF Confirm, Local
    <3>2. ObjectOK'
      BY <1>1, <2>1, <2>5, <2>6 DEF Confirm, ObjectOK, CallAt, chainVars, Messages,
         fromGateway, HasVaa
    <3>3. txs' # <<>> /\ vaa' = vaa
      BY <2>5, <2>6 DEF Confirm, CallAt
    <3> QED  BY <1>1, <2>4, <3>1, <3>2, <3>3, LocalTypes
  <2>7. CASE BeginFetch(c)
    <3>1. Local(c)
      BY <2>5, <2>7 DEF BeginFetch, Await, Local, PCs
    <3>2. CallAt(c)'
      <4>1. txs' # <<>>
        BY <1>1, <2>7 DEF BeginFetch, ObjectOK
      <4> QED  BY <1>1, <2>1, <2>5, <2>7, <4>1 DEF BeginFetch, Await, AwaitWith, CallTypes,
               CallAt, chainVars, Messages, fromGateway, HasVaa
    <3>3. ObjectOK'
      BY <1>1, <2>1, <2>7 DEF BeginFetch, ObjectOK, chainVars, Messages, fromGateway, HasVaa
    <3> QED  BY <1>1, <2>4, <2>7, <3>1, <3>2, <3>3, LocalTypes DEF BeginFetch
  <2>8. CASE ReadTransactions(c)
    <3>1. UNCHANGED objVars
      BY <2>8 DEF ReadTransactions
    <3>2. ObjectOK' /\ (vaa # None => vaa' # None) /\ (txs # <<>> => txs' # <<>>)
      BY <1>1, <2>1, <3>1 DEF ObjectOK, objVars, chainVars, Messages, fromGateway, HasVaa
    <3>3. CASE fromGateway
      <4>1. pc' = [pc EXCEPT ![c] = "legs"] /\ ids' = [ids EXCEPT ![c] = txs]
            /\ UNCHANGED <<msg, result>>
        BY <2>8, <3>3 DEF ReadTransactions
      <4>2. CallTypes' /\ pc'[c] = "legs" /\ ids'[c] = txs
            /\ \A d \in Calls : d # c => pc'[d] = pc[d] /\ ids'[d] = ids[d] /\ msg'[d] = msg[d]
        BY <1>1, <4>1 DEF CallTypes, ObjectOK, PCs
      <4>3. CallAt(c)'
        <5>1. txs' # <<>> /\ txs' = txs
          BY <2>5, <2>8, <3>1 DEF ReadTransactions, CallAt, objVars
        <5> QED  BY <1>1, <2>1, <3>3, <4>2, <5>1 DEF ObjectOK, CallAt, chainVars, Messages,
                 fromGateway
      <4> QED  BY <2>4, <3>2, <4>2, <4>3
    <3>4. CASE ~fromGateway
      <4>1. AwaitWith(c, "parse", txs[1]) /\ route = "in"
        BY <1>1, <2>8, <3>4, Parts DEF ReadTransactions, fromGateway
      <4>2. CallTypes' /\ pc'[c] = "parse" /\ ids'[c] = ids[c]
            /\ \A d \in Calls : d # c => pc'[d] = pc[d] /\ ids'[d] = ids[d] /\ msg'[d] = msg[d]
        <5>1. txs \in Seq(Nat) /\ txs # <<>>
          BY <1>1, <2>5, <2>8 DEF ReadTransactions, CallAt, ObjectOK
        <5>2. txs[1] \in Nat
          BY <5>1
        <5>3. Local(c)
          BY <4>1, <5>2 DEF Local, PCs
        <5> QED  BY <1>1, <2>5, <4>1, <5>3, LocalTypes DEF CallTypes, AwaitWith
      <4>3. CallAt(c)'
        <5>1. txs' # <<>>
          BY <2>5, <2>8, <3>1 DEF ReadTransactions, CallAt, objVars
        <5>2. msg'[c] = txs[1] /\ txs[1] \in 0..sent
          <6>1. txs \in Seq(Nat) /\ txs # <<>>
            BY <1>1, <2>5, <2>8 DEF ReadTransactions, CallAt, ObjectOK
          <6>2. 1 \in DOMAIN txs
            BY <6>1
          <6> QED  BY <1>1, <3>4, <4>1, <6>2 DEF AwaitWith, CallTypes, ObjectOK
        <5> QED  BY <1>1, <2>1, <4>1, <4>2, <5>1, <5>2
                 DEF CallAt, chainVars, Messages, fromGateway
      <4> QED  BY <2>4, <3>2, <4>2, <4>3
    <3> QED  BY <3>3, <3>4
  <2>9. CASE LegsFound(c)
    <3>1. ids[c] \in Seq(Nat) /\ fromGateway
          /\ (\A i \in DOMAIN ids[c] : ids[c][i] \in Messages \ failed)
      BY <2>5, <2>9 DEF LegsFound, CallAt
    <3>2. ibc' = ids[c] /\ UNCHANGED <<route, txs, vaa, sent, failed, signed>>
          /\ state' \in {state, Attested}
      BY <2>9 DEF LegsFound, LegsAnswer, chainVars
    <3>3. txs # <<>> => ObjectOK'
      BY <1>1, <3>1, <3>2 DEF ObjectOK, Messages, fromGateway, HasVaa
    <3>4. Local(c) /\ CallAt(c)'
      <4>1. CASE Ends(c, "threw") \/ Ends(c, "returned")
        BY <1>1, <4>1, EndedAt DEF Local
      <4>2. CASE ~toGateway /\ Len(ids[c]) = 1 /\ AwaitWith(c, "packet", ids[c][1])
        <5>1. ids[c][1] \in Nat /\ ids[c][1] \in Messages
          BY <3>1, <4>2
        <5>2. Local(c)
          BY <4>2, <5>1 DEF Local, PCs
        <5>3. txs' # <<>>
          BY <2>5, <2>9, <3>2 DEF LegsFound, CallAt
        <5>4. CallAt(c)'
          BY <1>1, <2>1, <2>5, <4>2, <5>3 DEF AwaitWith, CallTypes, CallAt, chainVars, Messages,
             fromGateway, toGateway
        <5> QED  BY <5>2, <5>4
      <4> QED  BY <2>9, <4>1, <4>2 DEF LegsFound, LegsAnswer
    <3>5. txs # <<>>
      BY <2>5, <2>9 DEF LegsFound, CallAt
    <3> QED  BY <1>1, <2>4, <3>2, <3>3, <3>4, <3>5, LocalTypes
  <2>10. CASE VaaArrives(c)
    <3>1. msg[c] \in signed /\ msg[c] # None /\ HasVaa /\ txs # <<>>
      BY <1>1, <1>2, <2>5, <2>10 DEF VaaArrives, CallAt, ChainTypes
    <3>2. vaa' = msg[c] /\ state' \in {state, Attested} /\ UNCHANGED <<txs, ibc>>
          /\ (Ends(c, "returned") \/ (~fromGateway /\ Await(c, "poll")))
      BY <2>10 DEF VaaArrives
    <3>3. ObjectOK'
      BY <1>1, <2>1, <2>5, <3>1, <3>2 DEF ObjectOK, chainVars, Messages, fromGateway, HasVaa
    <3>4. Local(c) /\ CallAt(c)'
      <4>1. CASE Ends(c, "returned")
        BY <1>1, <4>1, EndedAt DEF Local
      <4>2. CASE ~fromGateway /\ Await(c, "poll")
        <5>1. Local(c)
          BY <2>5, <4>2 DEF Await, Local, PCs
        <5>2. route = "in"
          BY <3>1, <4>2, Parts DEF fromGateway, HasVaa
        <5>3. CallAt(c)'
          BY <1>1, <2>1, <2>5, <3>1, <3>2, <4>2, <5>2 DEF Await, AwaitWith, CallTypes, CallAt,
             chainVars, Messages, fromGateway
        <5> QED  BY <5>1, <5>3
      <4> QED  BY <3>2, <4>1, <4>2
    <3> QED  BY <1>1, <2>4, <3>1, <3>2, <3>3, <3>4, LocalTypes
  <2>11. CASE LookupFinds(c)
    <3>1. PICK x \in arrived : ibc' = Append(ibc, x)
      BY <2>11 DEF LookupFinds
    <3>2. x \in Messages \ failed /\ x \in Nat /\ ibc \in Seq(Nat) /\ txs # <<>>
      BY <1>1, <1>2, <2>5, <2>11 DEF ChainTypes, ObjectOK, LookupFinds, CallAt
    <3>3. ASSUME NEW i \in DOMAIN ibc' PROVE ibc'[i] \in Messages \ failed
      <4>1. ibc'[i] = x \/ (i \in DOMAIN ibc /\ ibc'[i] = ibc[i])
        BY <3>1, <3>2, <3>3
      <4> QED  BY <1>1, <3>2, <4>1 DEF ObjectOK
    <3>4. ibc' \in Seq(Nat)
      BY <3>1, <3>2
    <3>5. UNCHANGED <<route, txs, vaa, sent, failed, signed>> /\ state' = Attested
          /\ Ends(c, "returned")
      BY <2>11 DEF LookupFinds, chainVars
    <3>6. ObjectOK'
      BY <1>1, <3>2, <3>3, <3>4, <3>5 DEF ObjectOK, Messages, fromGateway, HasVaa
    <3> QED  BY <1>1, <2>4, <3>5, <3>6, LocalTypes, EndedAt DEF Local
  <2> QED  BY <1>7, <2>6, <2>7, <2>8, <2>9, <2>10, <2>11
<1>8. ASSUME NEW c \in Calls, Redeem(c) PROVE IInv'
  <2>1. CallAt(c) /\ msg[c] \in signed /\ msg[c] \in Nat
    BY <1>1, <1>8 DEF Redeem, CallAt, CallTypes
  <2>2. UNCHANGED <<route, plain, objVars, histVars, allowance, sent, failed, arrived, signed>>
        /\ redeemed' = redeemed \union {msg[c]} /\ Await(c, "redeeming")
    BY <1>8 DEF Redeem
  <2>3. ChainTypes' /\ HistTypes' /\ ObjectOK'
    BY <1>1, <2>1, <2>2 DEF ChainTypes, HistTypes, ObjectOK, objVars, histVars, Messages,
       fromGateway, HasVaa
  <2>4. Local(c)
    BY <2>1, <2>2 DEF Await, Local, PCs
  <2>5. CallAt(c)'
    BY <1>1, <1>8, <2>1, <2>2 DEF Redeem, Await, AwaitWith, CallTypes, CallAt, objVars, Messages,
       fromGateway
  <2> QED  BY <1>1, <1>2, <2>2, <2>3, <2>4, <2>5, LocalTypes, CallStep DEF objVars
<1>9. ASSUME NEW m \in Messages, Arrive(m) \/ Sign(m) PROVE IInv'
  <2>1. UNCHANGED <<route, plain, objVars, callVars, histVars, allowance, sent, failed, redeemed>>
        /\ signed \subseteq signed'
    BY <1>9 DEF Arrive, Sign
  <2>2. ChainTypes'
    BY <1>1, <1>9 DEF Arrive, Sign, ChainTypes, Messages
  <2>3. CallTypes' /\ HistTypes'
    BY <1>1, <2>1 DEF CallTypes, HistTypes, callVars, histVars
  <2>4. ObjectOK'
    BY <1>1, <1>2, <2>1, ObjectCarries DEF Messages
  <2>5. ASSUME NEW d \in Calls PROVE CallAt(d)'
    BY <1>1, <1>2, <2>1, CallAtCarries DEF callVars, objVars
  <2>6. route' \in {"in", "out", "through"} /\ plain' \in BOOLEAN
    BY <2>1, Parts
  <2> QED  BY <2>2, <2>3, <2>4, <2>5, <2>6
           DEF IInv, TypeOK, CallTypes, HistTypes, ChainTypes, ObjectOK
<1>10. ASSUME NEW m \in Messages, Recover(m) PROVE IInv'
  <2>1. m \in Nat /\ m # None /\ m \in Messages \ failed
    BY <1>2, <1>10 DEF Recover
  <2>2. UNCHANGED <<route, plain, attempts, overlapped, chainVars>> /\ Fault
        /\ state' = Attested /\ txs' = <<m>>
    BY <1>10 DEF Recover
  <2>3. CallTypes' /\ \A d \in Calls : CallAt(d)'
    <3>1. /\ pc' = [c \in Calls |-> "idle"]
          /\ ids' = [c \in Calls |-> <<>>]
          /\ msg' = [c \in Calls |-> None]
          /\ result' = [c \in Calls |-> "none"]
      BY <1>10 DEF Recover
    <3> QED  BY <3>1 DEF CallTypes, CallAt, PCs
  <2>4. HistTypes'
    BY <1>1, <2>2 DEF GatewayAssumption, HistTypes, Fault
  <2>5. ChainTypes'
    BY <1>1, <2>2 DEF ChainTypes, chainVars, Messages
  <2>6. PICK x \in Messages \ failed : ibc' = <<x>>
    BY <1>1, <1>10, <2>1 DEF Recover, ChainTypes
  <2>7. vaa' = (IF HasVaa THEN m ELSE None) /\ (HasVaa => m \in signed)
    BY <1>10 DEF Recover
  <2>8. x \in Nat /\ ibc' \in Seq(Nat) /\ (\A i \in DOMAIN ibc' : ibc'[i] = x)
    BY ONLY <2>6, <1>2
  <2>9. txs' \in Seq(Nat) /\ txs' # <<>> /\ (\A i \in DOMAIN txs' : txs'[i] = m)
    BY ONLY <2>1, <2>2
  <2>10. m \in 0..sent
    BY <1>2 DEF Messages
  <2>11. UNCHANGED <<route, sent, failed, signed>>
    BY <2>2 DEF chainVars
  <2>12. ObjectOK'
    BY <2>1, <2>2, <2>6, <2>7, <2>8, <2>9, <2>10, <2>11
    DEF ObjectOK, Messages, fromGateway, HasVaa
  <2>13. route' \in {"in", "out", "through"} /\ plain' \in BOOLEAN
    BY <2>2, Parts
  <2> QED  BY <2>3, <2>4, <2>5, <2>12, <2>13
           DEF IInv, TypeOK, CallTypes, HistTypes, ChainTypes, ObjectOK
<1>11. CASE UNCHANGED vars
  <2>1. UNCHANGED <<route, plain, objVars, callVars, histVars, chainVars>>
    BY <1>11 DEF vars
  <2>2. CallTypes' /\ HistTypes' /\ ChainTypes' /\ ObjectOK'
    BY <1>1, <2>1 DEF CallTypes, HistTypes, ChainTypes, ObjectOK, callVars, histVars,
       chainVars, objVars, Messages, fromGateway, HasVaa
  <2>3. \A d \in Calls : CallAt(d)'
    BY <1>1, <2>1 DEF CallAt, callVars, objVars, chainVars, Messages, fromGateway, HasVaa
  <2>4. route' \in {"in", "out", "through"} /\ plain' \in BOOLEAN
    BY <2>1, Parts
  <2> QED  BY <2>2, <2>3, <2>4
           DEF IInv, TypeOK, CallTypes, HistTypes, ChainTypes, ObjectOK
<1> QED  BY <1>3, <1>4, <1>5, <1>6, <1>7, <1>8, <1>9, <1>10, <1>11
         DEF Next, Begin, Resumes, Initiate, Fetch, Complete, Quiet

(* The inductive invariant, for any set of calls in flight.                *)
THEOREM GatewayInvariant == Spec => []IInv
<1>1. GatewayAssumption /\ Init => IInv
  BY InitInvariant
<1>2. GatewayAssumption /\ IInv /\ [Next]_vars => IInv'
  BY StepInvariant
<1> QED  BY <1>1, <1>2, GatewayAssumption, PTL DEF Spec

(* No leg and no VAA of a failed transaction is ever held.                 *)
THEOREM FailedIsNeverAttested == Spec => []NothingFailedIsAttested
<1>1. IInv => NothingFailedIsAttested
  <2> SUFFICES ASSUME IInv PROVE NothingFailedIsAttested
    OBVIOUS
  <2>1. ChainTypes /\ ObjectOK
    BY Parts
  <2>2. None \notin failed
    BY <2>1 DEF ChainTypes, Messages
  <2> QED  BY <2>1, <2>2 DEF ChainTypes, ObjectOK, NothingFailedIsAttested
<1> QED  BY <1>1, GatewayInvariant, PTL

-----------------------------------------------------------------------------
(* One call at a time.                                                     *)

(* What AloneInv says of an object on which no calls have overlapped.      *)
Own ==
    /\ vaa # None => vaa = txs[1]
    /\ sent <= attempts
    /\ state = Created => txs = <<>> /\ vaa = None
    /\ fromGateway /\ txs # <<>> => Len(txs) = 1

LEMMA AloneParts ==
  AloneInv <=> IInv /\ (~overlapped => Own /\ \A c \in Calls : AloneAt(c))
  BY DEF AloneInv, OwnVaa, Own

Steps(c) == Begin(c) \/ Resumes(c) \/ SendFails(c) \/ Rejects(c)

LEMMA MovesOnly ==
  ASSUME NEW c \in Calls, Steps(c)
  PROVE  \E where : pc' = [pc EXCEPT ![c] = where]
  BY DEF Steps, Begin, BeginInitiate, BeginFetch, BeginComplete, Resumes, Initiate, Fetch,
     Complete, SendFails, Rejects, Prepared, Approve, Send, SendReverts, Included, Confirm,
     ReadTransactions, Parse, ParseNothing, LegsFound, LegsAnswer, LegsFailed, PacketFound,
     PacketMissing, VaaArrives, VaaMissing, PollTrue, PollFalse, LookupFinds, LookupGivesUp,
     TakeVaa, Redeem, RedeemRefused, RedeemReverts, Redeemed, Ends, Await, AwaitWith

(* A call that moves without overlapping another is the only one.          *)
LEMMA OthersIdle ==
  ASSUME AloneInv, NEW c \in Calls, Steps(c), ~overlapped'
  PROVE  /\ ~overlapped /\ Own /\ AloneAt(c)
         /\ \A d \in Calls : d # c => pc'[d] = "idle"
<1>1. pc \in [Calls -> PCs]
  BY DEF AloneInv, IInv, TypeOK
<1>2. CASE Begin(c)
  <2>1. Begins(c) /\ \E where : Await(c, where)
    BY <1>2 DEF Begin, BeginInitiate, BeginFetch, BeginComplete
  <2>2. ~overlapped /\ Alone
    BY <2>1, Zenon DEF Begins
  <2> QED  BY <1>1, <2>1, <2>2, AloneParts DEF Alone, Await, AwaitWith
<1>3. CASE ~Begin(c)
  <2>1. overlapped' = overlapped /\ pc[c] # "idle"
    BY <1>3
    DEF Steps, Resumes, Initiate, Fetch, Complete, SendFails, Rejects, Prepared, Approve,
        Send, SendReverts, Included, Confirm, ReadTransactions, Parse, ParseNothing,
        LegsFound, LegsAnswer, LegsFailed, PacketFound, PacketMissing, VaaArrives,
        VaaMissing, PollTrue, PollFalse, LookupFinds, LookupGivesUp, TakeVaa, Redeem,
        RedeemRefused, RedeemReverts, Redeemed, histVars
  <2>2. Own /\ AloneAt(c)
    BY <2>1, AloneParts
  <2>3. \A d \in Calls : d # c => pc[d] = "idle"
    BY <2>1, <2>2 DEF AloneAt
  <2> QED  BY <1>1, <2>1, <2>2, <2>3, MovesOnly
<1> QED  BY <1>2, <1>3

(* What holds of the call that moves holds of the idle ones.               *)
LEMMA AloneStep ==
  ASSUME NEW c \in Calls, IInv', Own', AloneAt(c)',
         \A d \in Calls : d # c => pc'[d] = "idle"
  PROVE  AloneInv'
<1>1. ASSUME NEW d \in Calls PROVE AloneAt(d)'
  <2>1. CASE d = c
    BY <2>1
  <2>2. CASE d # c
    BY <2>2 DEF AloneAt, Fetching
  <2> QED  BY <2>1, <2>2
<1> QED  BY <1>1 DEF AloneInv, OwnVaa, Own

LEMMA AloneStepInvariant ==
  ASSUME GatewayAssumption, AloneInv, [Next]_vars PROVE AloneInv'
<1>1. IInv /\ IInv'
  BY StepInvariant DEF AloneInv
<1>2. CASE overlapped'
  BY <1>1, <1>2 DEF AloneInv
<1>3. ASSUME NEW c \in Calls, Steps(c), ~overlapped' PROVE AloneInv'
  <2>1. /\ ~overlapped /\ Own /\ AloneAt(c)
        /\ \A d \in Calls : d # c => pc'[d] = "idle"
    BY <1>3, OthersIdle
  <2>2. /\ CallTypes /\ ChainTypes /\ ObjectOK /\ CallAt(c)
        /\ attempts \in Nat /\ attempts' \in Nat /\ sent \in Nat
    <3>1. CallTypes /\ ChainTypes /\ ObjectOK /\ CallAt(c)
      BY <1>1, Parts
    <3>2. attempts \in 0..MaxAttempts /\ attempts' \in 0..MaxAttempts /\ MaxAttempts \in Nat
      BY <1>1 DEF IInv, TypeOK, GatewayAssumption
    <3> QED  BY <3>1, <3>2 DEF ChainTypes
  <2>3. SUFFICES Own' /\ AloneAt(c)'
    BY <1>1, <2>1, AloneStep
  <2>4. (pc'[c] # "idle" => \A d \in Calls : pc'[d] # "idle" => d = c)
    BY <2>1
  <2>5. ASSUME NEW how, Ends(c, how) PROVE AloneAt(c)'
    BY <2>2, <2>5 DEF Ends, AloneAt, CallTypes
  <2>6. ASSUME UNCHANGED <<route, objVars, sent>>, attempts <= attempts' PROVE Own'
    BY <2>1, <2>2, <2>6 DEF Own, objVars, fromGateway
  <2>7. CASE BeginInitiate(c) \/ Prepared(c) \/ Approve(c) \/ SendReverts(c)
    <3>1. UNCHANGED <<route, objVars, sent>> /\ attempts <= attempts'
      BY <2>2, <2>7 DEF BeginInitiate, Prepared, Approve, SendReverts, chainVars, histVars
    <3>2. CASE SendReverts(c)
      BY <2>5, <2>6, <3>1, <3>2 DEF SendReverts
    <3>3. CASE BeginInitiate(c)
      <4>1. ids'[c] = <<>> /\ state' = Created /\ attempts' = attempts + 1
            /\ pc'[c] \in {"prepare", "send"}
        <5>1. pc[c] = "idle"
          BY <3>3, Zenon DEF BeginInitiate, Begins
        <5>2. (Await(c, "send") \/ Await(c, "prepare")) /\ state = Created
              /\ attempts' = attempts + 1 /\ UNCHANGED objVars
          BY <3>3 DEF BeginInitiate
        <5>3. ids[c] = <<>>
          BY <2>2, <5>1 DEF CallAt
        <5> QED  BY <2>2, <5>2, <5>3 DEF Await, AwaitWith, CallTypes, objVars
      <4>2. sent' < attempts'
        BY <2>1, <2>2, <3>1, <4>1 DEF Own
      <4>3. AloneAt(c)'
        BY <2>4, <4>1, <4>2 DEF AloneAt
      <4> QED  BY <2>6, <3>1, <4>3
    <3>4. CASE Prepared(c) \/ Approve(c)
      <4>1. /\ pc'[c] \in {"approve", "send"} /\ UNCHANGED <<route, state, sent, attempts>>
            /\ pc[c] \in {"prepare", "approve"}
            /\ fromGateway => ids'[c] = ids[c]
        <5>1. CASE Prepared(c)
          BY <2>2, <5>1 DEF Prepared, Await, AwaitWith, CallTypes, objVars, histVars, chainVars
        <5>2. CASE Approve(c)
          BY <2>2, <5>2 DEF Approve, CallTypes, CallAt, objVars, histVars, fromGateway
        <5> QED  BY <3>4, <5>1, <5>2
      <4>2. AloneAt(c)'
        BY <2>1, <2>4, <4>1 DEF AloneAt, fromGateway
      <4> QED  BY <2>6, <3>1, <4>2
    <3> QED  BY <2>7, <3>2, <3>3, <3>4
  <2>8. CASE Send(c) \/ SendFails(c)
    <3>1. /\ Included(c) /\ pc[c] = "send" /\ UNCHANGED <<route, objVars, attempts>>
          /\ sent' = sent + 1 /\ pc'[c] = "confirm"
      BY <2>2, <2>8 DEF Send, SendFails, Included, CallTypes
    <3>2. fromGateway => Len(ids'[c]) = 1
      <4>1. ids'[c] = Append(ids[c], sent + 1)
        BY <2>2, <3>1 DEF Included, CallTypes
      <4> QED  BY <2>1, <3>1, <4>1 DEF AloneAt
    <3>3. sent < attempts /\ state = Created
      BY <2>1, <3>1 DEF AloneAt
    <3>4. AloneAt(c)'
      BY <2>2, <2>4, <3>1, <3>2, <3>3 DEF AloneAt, objVars, fromGateway
    <3> QED  BY <2>1, <2>2, <3>1, <3>3, <3>4 DEF Own, objVars, fromGateway
  <2>9. CASE Confirm(c)
    <3>1. /\ txs' = ids[c] /\ state' = Initiated /\ vaa = None /\ vaa' = None
          /\ UNCHANGED <<route, attempts, sent>> /\ (fromGateway => Len(ids[c]) = 1)
      BY <2>1, <2>9 DEF Confirm, AloneAt, Own, histVars, chainVars
    <3>2. Own'
      BY <2>1, <3>1 DEF Own, fromGateway
    <3> QED  BY <2>5, <2>9, <3>2 DEF Confirm
  <2>10. CASE BeginFetch(c)
    <3>1. /\ pc'[c] = "bridge" /\ ibc' = <<>> /\ state \in Initiated..Attested
          /\ UNCHANGED <<route, state, txs, vaa, attempts, sent>>
      BY <2>2, <2>10 DEF BeginFetch, Await, AwaitWith, CallTypes, chainVars
    <3>2. Own'
      BY <2>1, <3>1 DEF Own, fromGateway
    <3>3. AloneAt(c)'
      BY <2>4, <3>1 DEF AloneAt
    <3> QED  BY <3>2, <3>3
  <2>11. CASE \/ ReadTransactions(c)
              \/ Parse(c)
              \/ ParseNothing(c)
              \/ LegsFailed(c)
              \/ PacketFound(c)
              \/ PacketMissing(c)
              \/ VaaMissing(c)
              \/ PollTrue(c)
              \/ PollFalse(c)
              \/ LookupGivesUp(c)
              \/ BeginComplete(c)
              \/ TakeVaa(c)
              \/ Redeem(c)
              \/ RedeemRefused(c)
              \/ RedeemReverts(c)
              \/ Redeemed(c)
              \/ Rejects(c)
    <3>1. UNCHANGED <<route, objVars, sent, attempts>>
      BY <2>11 DEF ReadTransactions, Parse, ParseNothing, LegsFailed, PacketFound,
         PacketMissing, VaaMissing, PollTrue, PollFalse, LookupGivesUp, BeginComplete, TakeVaa,
         Redeem, RedeemRefused, RedeemReverts, Redeemed, Rejects, histVars, chainVars
    <3>2. Own'
      BY <2>2, <2>6, <3>1
    <3>3. CASE ReadTransactions(c)
      <4>1. pc[c] = "bridge" /\ state >= Initiated /\ ibc = <<>>
            /\ \/ pc'[c] = "legs" /\ ids'[c] = txs
               \/ pc'[c] = "parse" /\ msg'[c] = txs[1]
        BY <2>1, <2>2, <3>3 DEF ReadTransactions, AwaitWith, CallTypes, AloneAt
      <4> QED  BY <2>4, <3>1, <3>2, <4>1 DEF AloneAt, objVars
    <3>4. CASE Parse(c) \/ PacketFound(c)
      <4>1. /\ pc[c] \in {"parse", "packet"} /\ state >= Initiated /\ msg[c] = txs[1]
            /\ pc'[c] = "vaa" /\ msg'[c] = msg[c]
            /\ ibc = IF fromGateway THEN txs ELSE <<>>
        BY <2>1, <2>2, <3>4 DEF Parse, PacketFound, Await, AwaitWith, CallTypes, CallAt, AloneAt,
           fromGateway
      <4> QED  BY <2>4, <3>1, <3>2, <4>1 DEF AloneAt, objVars, fromGateway
    <3>5. CASE PollTrue(c)
      <4>1. pc[c] = "poll" /\ pc'[c] = "lookup" /\ msg'[c] = msg[c]
        BY <2>2, <3>5 DEF PollTrue, Await, AwaitWith, CallTypes
      <4> QED  BY <2>1, <2>4, <3>1, <3>2, <4>1 DEF AloneAt, objVars
    <3>6. CASE BeginComplete(c) \/ TakeVaa(c) \/ Redeem(c)
      <4>1. /\ pc'[c] \in {"take", "redeem", "redeeming"} /\ state = Attested
            /\ pc'[c] \in {"redeem", "redeeming"} => msg'[c] = vaa
        BY <2>1, <2>2, <3>6 DEF BeginComplete, TakeVaa, Redeem, Await, AwaitWith, CallTypes,
           AloneAt, ObjectOK
      <4> QED  BY <2>4, <3>1, <3>2, <4>1 DEF AloneAt, objVars
    <3> QED  BY <2>5, <2>11, <3>2, <3>3, <3>4, <3>5, <3>6
             DEF ParseNothing, LegsFailed, PacketMissing, VaaMissing, PollFalse, LookupGivesUp,
                 RedeemRefused, RedeemReverts, Redeemed, Rejects
  <2>12. CASE LegsFound(c)
    <3>1. /\ ids[c] = txs /\ ibc' = txs /\ state >= Initiated /\ fromGateway
          /\ UNCHANGED <<route, txs, vaa, sent, attempts>>
          /\ state' \in {state, Attested}
      BY <2>1, <2>2, <2>12
      DEF LegsFound, LegsAnswer, AloneAt, CallAt, histVars, chainVars
    <3>2. Own'
      BY <2>1, <2>2, <3>1 DEF Own, ObjectOK, fromGateway
    <3>3. CASE AwaitWith(c, "packet", ids[c][1]) /\ state' = state
      <4>1. pc'[c] = "packet" /\ msg'[c] = txs[1]
        BY <2>2, <3>1, <3>3 DEF AwaitWith, CallTypes
      <4> QED  BY <2>4, <3>1, <3>2, <3>3, <4>1 DEF AloneAt
    <3> QED  BY <2>5, <2>12, <3>2, <3>3 DEF LegsFound, LegsAnswer
  <2>13. CASE VaaArrives(c)
    <3>1. /\ pc[c] = "vaa" /\ msg[c] = txs[1] /\ vaa' = txs[1] /\ state >= Initiated
          /\ txs # <<>> /\ ibc = (IF fromGateway THEN txs ELSE <<>>)
          /\ UNCHANGED <<route, txs, ibc, sent, attempts>>
          /\ state' \in {state, Attested}
      BY <2>1, <2>2, <2>13 DEF VaaArrives, AloneAt, CallAt, histVars, chainVars
    <3>2. Own'
      BY <2>1, <2>2, <3>1 DEF Own, ObjectOK, fromGateway
    <3>3. CASE Await(c, "poll") /\ ~fromGateway /\ state' = state
      <4>1. pc'[c] = "poll" /\ msg'[c] = txs[1]
        BY <2>2, <3>1, <3>3 DEF Await, AwaitWith, CallTypes
      <4> QED  BY <2>4, <3>1, <3>2, <3>3, <4>1 DEF AloneAt
    <3> QED  BY <2>5, <2>13, <3>2, <3>3 DEF VaaArrives
  <2>14. CASE LookupFinds(c)
    <3>1. /\ UNCHANGED <<route, txs, vaa, sent, attempts>> /\ state' = Attested
          /\ state >= Initiated
      BY <2>1, <2>14 DEF LookupFinds, AloneAt, histVars, chainVars
    <3>2. Own'
      BY <2>1, <2>2, <3>1 DEF Own, fromGateway
    <3> QED  BY <2>5, <2>14, <3>2 DEF LookupFinds
  <2> QED  BY <1>3, <2>7, <2>8, <2>9, <2>10, <2>11, <2>12, <2>13, <2>14
           DEF Steps, Begin, Resumes, Initiate, Fetch, Complete
<1>4. ASSUME NEW m \in Messages, Arrive(m) \/ Sign(m) PROVE AloneInv'
  <2>1. UNCHANGED <<route, objVars, callVars, histVars, sent>>
    BY <1>4 DEF Arrive, Sign
  <2>2. (~overlapped' => Own' /\ \A c \in Calls : AloneAt(c)')
    BY <2>1, AloneParts DEF Own, AloneAt, objVars, callVars, histVars, fromGateway
  <2> QED  BY <1>1, <2>2 DEF AloneInv, OwnVaa, Own
<1>5. ASSUME NEW m \in Messages, Recover(m), ~overlapped' PROVE AloneInv'
  <2>1. /\ ~overlapped /\ state' = Attested /\ txs' = <<m>> /\ vaa' \in {m, None}
        /\ UNCHANGED <<route, sent, attempts>>
    BY <1>5 DEF Recover, chainVars
  <2>2. txs'[1] = m /\ Len(txs') = 1
    BY <2>1
  <2>3. Own'
    BY <2>1, <2>2, AloneParts DEF Own
  <2>4. \A c \in Calls : AloneAt(c)'
    BY <1>5 DEF Recover, AloneAt
  <2> QED  BY <1>1, <2>3, <2>4 DEF AloneInv, OwnVaa, Own
<1>6. CASE UNCHANGED vars
  <2>1. UNCHANGED <<route, objVars, callVars, histVars, chainVars>>
    BY <1>6 DEF vars
  <2>2. (~overlapped' => Own' /\ \A c \in Calls : AloneAt(c)')
    BY <2>1, AloneParts DEF Own, AloneAt, objVars, callVars, histVars, chainVars, fromGateway
  <2> QED  BY <1>1, <2>2 DEF AloneInv, OwnVaa, Own
<1> QED  BY <1>2, <1>3, <1>4, <1>5, <1>6 DEF Next, Steps

(* The invariant of an object whose user makes one call at a time.         *)
THEOREM AloneInvariant == Spec => []AloneInv
<1>1. GatewayAssumption /\ Init => AloneInv
  <2> SUFFICES ASSUME GatewayAssumption, Init PROVE AloneInv
    OBVIOUS
  <2>1. IInv
    BY InitInvariant
  <2>2. Own /\ \A c \in Calls : AloneAt(c)
    BY DEF Init, Own, AloneAt, Fetching
  <2> QED  BY <2>1, <2>2, AloneParts
<1>2. GatewayAssumption /\ AloneInv /\ [Next]_vars => AloneInv'
  BY AloneStepInvariant
<1> QED  BY <1>1, <1>2, GatewayAssumption, PTL DEF Spec

(* The VAA that is held is that of the object's own transaction.           *)
THEOREM VaaIsItsOwn == Spec => []OwnVaa
<1>1. AloneInv => OwnVaa
  BY AloneParts DEF OwnVaa, Own
<1> QED  BY <1>1, AloneInvariant, PTL

(* A fetchAttestation that returns hands out one leg.                      *)
THEOREM FetchReturnsOneLeg == Spec => ReturnsOneLeg
<1> DEFINE Step(c) ==
      (/\ ~overlapped
       /\ pc[c] \in {"legs", "vaa", "lookup"}
       /\ pc'[c] = "idle" /\ result'[c] = "returned") =>
          /\ Len(ibc') = 1
          /\ IF fromGateway THEN ibc'[1] = txs[1] ELSE ibc'[1] \in arrived
<1>1. AloneInv /\ [Next]_vars => [\A c \in Calls : Step(c)]_vars
  <2> SUFFICES ASSUME AloneInv, Next, NEW c \in Calls, ~overlapped,
                      pc[c] \in {"legs", "vaa", "lookup"}, pc'[c] = "idle",
                      result'[c] = "returned"
               PROVE  /\ Len(ibc') = 1
                      /\ IF fromGateway THEN ibc'[1] = txs[1] ELSE ibc'[1] \in arrived
    OBVIOUS
  <2>1. /\ CallTypes /\ ObjectOK /\ CallAt(c) /\ Own /\ AloneAt(c)
        /\ \A d \in Calls : d # c => pc[d] = "idle"
    BY AloneParts, Parts DEF AloneAt
  <2>2. Steps(c)
    <3>1. ASSUME NEW d \in Calls, Steps(d) PROVE d = c
      BY <2>1, <3>1, MovesOnly DEF CallTypes
    <3>2. ASSUME NEW m \in Messages, Recover(m) PROVE FALSE
      BY <3>2 DEF Recover
    <3>3. ASSUME NEW m \in Messages, Arrive(m) \/ Sign(m) PROVE FALSE
      BY <3>3 DEF Arrive, Sign, callVars
    <3> QED  BY <3>1, <3>2, <3>3 DEF Next, Steps
  <2>3. ~Ends(c, "threw") /\ \A where, m : where # "idle" => ~AwaitWith(c, where, m)
    BY <2>1 DEF Ends, AwaitWith, CallTypes
  <2>4. LegsFound(c) \/ VaaArrives(c) \/ LookupFinds(c)
    <3>1. ~Begin(c)
      <4>1. pc[c] # "idle"
        OBVIOUS
      <4> QED  BY <4>1, Zenon DEF Begin, BeginInitiate, BeginFetch, BeginComplete, Begins
    <3>2. ~(LegsFailed(c) \/ VaaMissing(c) \/ LookupGivesUp(c) \/ Rejects(c))
      BY <2>3 DEF LegsFailed, VaaMissing, LookupGivesUp, Rejects
    <3>3. ~(Initiate(c) \/ SendFails(c) \/ Complete(c))
      BY DEF Initiate, Prepared, Approve, Send, SendReverts, Confirm, SendFails, Complete,
         TakeVaa, Redeem, RedeemRefused, RedeemReverts, Redeemed
    <3>4. ~(ReadTransactions(c) \/ Parse(c) \/ ParseNothing(c) \/ PacketFound(c)
            \/ PacketMissing(c) \/ PollTrue(c) \/ PollFalse(c))
      BY DEF ReadTransactions, Parse, ParseNothing, PacketFound, PacketMissing, PollTrue,
         PollFalse
    <3> QED  BY <2>2, <3>1, <3>2, <3>3, <3>4 DEF Steps, Resumes, Fetch
  <2>5. CASE LegsFound(c)
    <3>1. ibc' = txs /\ fromGateway
      BY <2>1, <2>5 DEF LegsFound, LegsAnswer, AloneAt, CallAt
    <3>2. Len(ids[c]) = 1 /\ ids[c] = txs
      BY <2>1, <2>3, <2>5 DEF LegsFound, LegsAnswer, AloneAt
    <3> QED  BY <3>1, <3>2
  <2>6. CASE VaaArrives(c)
    <3>1. fromGateway
      BY <2>3, <2>6 DEF VaaArrives, Await
    <3>2. ibc' = txs /\ txs # <<>>
      BY <2>1, <2>6, <3>1 DEF VaaArrives, AloneAt, CallAt
    <3> QED  BY <2>1, <3>1, <3>2 DEF Own
  <2>7. CASE LookupFinds(c)
    <3>1. ibc = <<>> /\ ~fromGateway
      BY <2>1, <2>7 DEF LookupFinds, AloneAt, CallAt, fromGateway
    <3>2. PICK x \in arrived : ibc' = Append(ibc, x)
      BY <2>7 DEF LookupFinds
    <3>3. ibc' = <<x>>
      BY <3>1, <3>2
    <3> QED  BY <3>1, <3>3
  <2> QED  BY <2>4, <2>5, <2>6, <2>7
<1> QED  BY <1>1, AloneInvariant, PTL DEF Spec, ReturnsOneLeg

-----------------------------------------------------------------------------
(* The refinement.                                                         *)

(* The mapped variables stand still when what they are made of does.       *)
LEMMA MappedStutter ==
  ASSUME UNCHANGED <<route, state, vaa, sent, arrived, signed, redeemed>>
  PROVE  UNCHANGED Lifecycle!vars
  BY DEF Lifecycle!vars, Messages, HasVaa, fromGateway

(* So do they all for a transfer without a VAA.                            *)
LEMMA ThroughStutters ==
  ASSUME GatewayAssumption, IInv, Next, ~HasVaa
  PROVE  UNCHANGED Lifecycle!vars
<1>1. route = "through" /\ IInv'
  BY StepInvariant, Parts DEF HasVaa
<1>2. route' = route
  BY DEF Next, Begin, BeginInitiate, BeginFetch, BeginComplete, Resumes, Initiate, Fetch,
     Complete, SendFails, Rejects, Prepared, Approve, Send, SendReverts, Included, Confirm,
     ReadTransactions, Parse, ParseNothing, LegsFound, LegsAnswer, LegsFailed, PacketFound,
     PacketMissing, VaaArrives, VaaMissing, PollTrue, PollFalse, LookupFinds, LookupGivesUp,
     TakeVaa, Redeem, RedeemRefused, RedeemReverts, Redeemed, Arrive, Sign, Recover
<1>3. vaa = None /\ vaa' = None
  BY <1>1, <1>2, Parts DEF IInv, HasVaa
<1>4. UNCHANGED <<signed, redeemed>>
  <2>1. \A c \in Calls : ~Redeem(c)
    BY <1>1, Parts DEF Redeem, CallAt
  <2>2. \A m \in Messages : ~Sign(m)
    BY <1>1 DEF Sign
  <2> QED  BY <2>1, <2>2
    DEF Next, Begin, BeginInitiate, BeginFetch, BeginComplete, Resumes, Initiate, Fetch,
        Complete, SendFails, Rejects, Prepared, Approve, Send, SendReverts, Included, Confirm,
        ReadTransactions, Parse, ParseNothing, LegsFound, LegsAnswer, LegsFailed, PacketFound,
        PacketMissing, VaaArrives, VaaMissing, PollTrue, PollFalse, LookupFinds,
        LookupGivesUp, TakeVaa, RedeemRefused, RedeemReverts, Redeemed, Arrive, Recover, chainVars
<1> QED  BY <1>1, <1>2, <1>3, <1>4 DEF Lifecycle!vars, HasVaa, fromGateway

(* The actions of a call that the abstract transfer does not see.          *)
Unseen(c) ==
    \/ Quiet(c)
    \/ Approve(c)
    \/ BeginFetch(c)
    \/ ReadTransactions(c)

LEMMA UnseenStutters ==
  ASSUME NEW c \in Calls, Unseen(c) PROVE UNCHANGED Lifecycle!vars
<1>1. UNCHANGED <<route, state, vaa, sent, arrived, signed, redeemed>>
  BY DEF Unseen, Quiet, BeginInitiate, Prepared, SendReverts, Parse, ParseNothing, LegsFailed,
     PacketFound, PacketMissing, VaaMissing, PollTrue, PollFalse, LookupGivesUp, BeginComplete,
     TakeVaa, RedeemRefused, RedeemReverts, Redeemed, Rejects, Approve, BeginFetch,
     ReadTransactions, objVars, chainVars
<1> QED  BY <1>1, MappedStutter

LEMMA StepRefines ==
  ASSUME GatewayAssumption, AloneInv, [Next]_vars, ~overlapped'
  PROVE  [Lifecycle!Next]_(Lifecycle!vars)
<1>1. /\ IInv /\ CallTypes /\ ChainTypes /\ ObjectOK /\ sent \in Nat /\ MaxAttempts \in Nat
      /\ attempts \in 0..MaxAttempts
      /\ \A m \in signed : m \in Nat /\ m # None /\ m <= sent
  BY AloneParts, Parts DEF ChainTypes, GatewayAssumption, HistTypes, Messages
<1>2. CASE ~HasVaa \/ UNCHANGED vars
  <2>1. CASE UNCHANGED vars
    BY <2>1, MappedStutter DEF vars, objVars, chainVars
  <2>2. CASE Next /\ ~HasVaa
    BY <1>1, <2>2, ThroughStutters
  <2> QED  BY <1>2, <2>1, <2>2
<1>3. ASSUME HasVaa, NEW c \in Calls, Steps(c) PROVE [Lifecycle!Next]_(Lifecycle!vars)
  <2>1. ~overlapped /\ Own /\ AloneAt(c) /\ CallAt(c)
    BY <1>1, <1>3, OthersIdle, Parts
  <2>2. CASE Unseen(c)
    BY <2>2, UnseenStutters
  <2>3. CASE Send(c) \/ SendFails(c)
    <3>1. /\ pc[c] = "send" /\ sent' = sent + 1
          /\ UNCHANGED <<route, state, vaa, arrived, signed, redeemed>>
      BY <2>3 DEF Send, SendFails, Included, objVars
    <3>2. state = Created /\ sent < attempts
      BY <2>1, <3>1 DEF AloneAt
    <3>3. sent + 1 \in 1..MaxAttempts /\ sent + 1 \notin Messages
          /\ Messages' = Messages \union {sent + 1}
      BY <1>1, <3>1, <3>2 DEF Messages
    <3>4. Lifecycle!Send(sent + 1)
      BY <1>3, <3>1, <3>2, <3>3 DEF Lifecycle!Send, Lifecycle!Created, HasVaa, fromGateway
    <3> QED  BY <3>3, <3>4 DEF Lifecycle!Next
  <2>4. CASE Confirm(c)
    <3>1. /\ pc[c] = "confirm" /\ state' = Initiated
          /\ UNCHANGED <<route, vaa, sent, arrived, signed, redeemed>>
      BY <2>4 DEF Confirm, chainVars
    <3>2. state = Created /\ 1 \in Messages
      BY <1>1, <2>1, <3>1 DEF AloneAt, Messages
    <3>3. Lifecycle!Initiate
      BY <1>3, <3>1, <3>2
      DEF Lifecycle!Initiate, Lifecycle!Created, Lifecycle!Initiated, HasVaa, fromGateway,
          Messages
    <3> QED  BY <3>3 DEF Lifecycle!Next
  <2>5. CASE VaaArrives(c)
    <3>1. /\ pc[c] = "vaa" /\ msg[c] \in signed /\ vaa' = msg[c] /\ msg[c] = txs[1]
          /\ state' \in {state, Attested} /\ state \in {Initiated, Attested}
          /\ UNCHANGED <<route, sent, arrived, signed, redeemed>>
      BY <1>1, <2>1, <2>5 DEF VaaArrives, AloneAt, ObjectOK, chainVars
    <3>2. msg[c] \in 1..MaxAttempts /\ msg[c] # None
      BY <1>1, <2>1, <3>1 DEF Own
    <3>3. {vaa'} \ {None} = ({vaa} \ {None}) \union {msg[c]}
      BY <2>1, <3>1, <3>2 DEF Own
    <3>4. Lifecycle!Attest(msg[c])
      BY <1>3, <3>1, <3>2, <3>3
      DEF Lifecycle!Attest, Lifecycle!Initiated, Lifecycle!Attested, HasVaa, fromGateway,
          Messages
    <3> QED  BY <3>2, <3>4 DEF Lifecycle!Next
  <2>6. CASE LookupFinds(c)
    <3>1. /\ pc[c] = "lookup" /\ state' = Attested /\ state \in {Initiated, Attested}
          /\ vaa = msg[c] /\ msg[c] \in signed
          /\ UNCHANGED <<route, vaa, sent, arrived, signed, redeemed>>
      BY <1>1, <2>1, <2>6 DEF LookupFinds, AloneAt, CallAt, ObjectOK, chainVars
    <3>2. vaa \in 1..MaxAttempts /\ vaa # None
      BY <1>1, <2>1, <3>1 DEF Own
    <3>3. Lifecycle!Attest(vaa)
      BY <1>3, <3>1, <3>2
      DEF Lifecycle!Attest, Lifecycle!Initiated, Lifecycle!Attested, HasVaa, fromGateway,
          Messages
    <3> QED  BY <3>2, <3>3 DEF Lifecycle!Next
  <2>7. CASE LegsFound(c)
    <3>1. route = "out"
      BY <1>3, <2>1, <2>7, <1>1, Parts DEF LegsFound, CallAt, HasVaa, fromGateway
    <3>2. UNCHANGED <<route, state, vaa, sent, arrived, signed, redeemed>>
      BY <2>7, <3>1 DEF LegsFound, LegsAnswer, toGateway, chainVars
    <3> QED  BY <3>2, MappedStutter
  <2>8. CASE Redeem(c)
    <3>1. /\ pc[c] = "redeem" /\ msg[c] \notin redeemed
          /\ redeemed' = redeemed \union {msg[c]} /\ state = Attested /\ vaa = msg[c]
          /\ msg[c] \in signed /\ fromGateway
          /\ UNCHANGED <<route, state, vaa, sent, arrived, signed>>
      BY <2>1, <2>8 DEF Redeem, AloneAt, CallAt, objVars, fromGateway
    <3>2. msg[c] \in 1..MaxAttempts /\ msg[c] # None
      BY <1>1, <2>1, <3>1 DEF Own
    <3>3. Lifecycle!Deliver(msg[c])
      BY <1>3, <3>1, <3>2
      DEF Lifecycle!Deliver, Lifecycle!Attested, HasVaa, fromGateway, Messages
    <3> QED  BY <3>2, <3>3 DEF Lifecycle!Next
  <2> QED  BY <1>3, <2>2, <2>3, <2>4, <2>5, <2>6, <2>7, <2>8
           DEF Steps, Begin, Resumes, Initiate, Fetch, Complete, Unseen, Quiet
<1>4. ASSUME HasVaa, NEW m \in Messages, Arrive(m) \/ Sign(m) \/ Recover(m)
      PROVE  [Lifecycle!Next]_(Lifecycle!vars)
  <2>1. ~overlapped
    BY <1>4 DEF Arrive, Sign, Recover, histVars
  <2>2. m \in 1..MaxAttempts /\ m # None
    BY <1>1, <1>4, <2>1, AloneParts DEF Own, Messages
  <2>3. CASE Arrive(m)
    <3>1. /\ m \notin arrived /\ arrived' = arrived \union {m} /\ (fromGateway \/ m \in signed)
          /\ UNCHANGED <<route, state, vaa, sent, signed, redeemed>>
      BY <2>3 DEF Arrive, objVars
    <3>2. CASE fromGateway
      BY <1>4, <3>1, <3>2 DEF Lifecycle!vars, HasVaa, fromGateway, Messages
    <3>3. CASE ~fromGateway
      <4>1. Lifecycle!Deliver(m)
        BY <1>4, <3>1, <3>3 DEF Lifecycle!Deliver, HasVaa, fromGateway, Messages
      <4> QED  BY <2>2, <4>1 DEF Lifecycle!Next
    <3> QED  BY <3>2, <3>3
  <2>4. CASE Sign(m)
    <3>1. Lifecycle!Sign(m)
      BY <1>4, <2>4 DEF Sign, Lifecycle!Sign, HasVaa, fromGateway, Messages, objVars
    <3> QED  BY <2>2, <3>1 DEF Lifecycle!Next
  <2>5. CASE Recover(m)
    <3>1. /\ m \in signed /\ vaa' = m /\ state' = Attested
          /\ UNCHANGED <<route, sent, arrived, signed, redeemed>>
      BY <1>4, <2>5 DEF Recover, chainVars
    <3>2. {vaa'} \ {None} = {m}
      BY <2>2, <3>1
    <3>3. Lifecycle!Recover(m)
      BY <1>4, <3>1, <3>2
      DEF Lifecycle!Recover, Lifecycle!Attested, HasVaa, fromGateway, Messages
    <3> QED  BY <2>2, <3>3 DEF Lifecycle!Next
  <2> QED  BY <1>4, <2>3, <2>4, <2>5
<1> QED  BY <1>2, <1>3, <1>4 DEF Next, Steps

(* As long as its user makes one call at a time the object implements      *)
(* WormholeTransfer.                                                       *)
THEOREM GatewayImplementsLifecycle == Spec => ImplementsWhileAlone
<1>1. GatewayAssumption /\ Init => Lifecycle!Init
  <2> SUFFICES ASSUME GatewayAssumption, Init PROVE Lifecycle!Init
    OBVIOUS
  <2>1. Messages = {}
    BY DEF Init, Messages
  <2>2. route \in {"in", "out", "through"} /\ state = Created /\ vaa = None /\ arrived = {}
        /\ signed = {} /\ redeemed = {}
    BY DEF Init, GatewayAssumption
  <2> QED  BY <2>1, <2>2 DEF Lifecycle!Init, Lifecycle!Created, HasVaa, fromGateway
<1>2. GatewayAssumption /\ AloneInv /\ [Next]_vars =>
         [overlapped' \/ [Lifecycle!Next]_(Lifecycle!vars)]_vars
  BY StepRefines
<1> QED  BY <1>1, <1>2, AloneInvariant, GatewayAssumption, PTL
         DEF Spec, ImplementsWhileAlone

-----------------------------------------------------------------------------
(* What an attempt sends.                                                  *)

(* The calls that have passed the first check and not sent yet, and what   *)
(* the attempts are accounted for with.                                    *)
ToSend == {c \in Calls : pc[c] \in {"prepare", "approve", "send"}}

Accounted == IsFiniteSet(ToSend) /\ sent + Cardinality(ToSend) <= attempts

(* Any other step of a call than these sends nothing, and begins no        *)
(* attempt.                                                                *)
LEMMA OthersSendNothing ==
  ASSUME IInv, NEW c \in Calls, Begin(c) \/ Resumes(c) \/ Rejects(c),
         ~BeginInitiate(c), ~Send(c)
  PROVE  UNCHANGED <<sent, attempts>> /\ ToSend' \subseteq ToSend
<1>1. pc \in [Calls -> PCs]
  BY DEF IInv, TypeOK
<1>2. ASSUME NEW where, pc' = [pc EXCEPT ![c] = where],
             \/ where \notin {"prepare", "approve", "send"}
             \/ pc[c] \in {"prepare", "approve", "send"}
      PROVE  ToSend' \subseteq ToSend
  BY <1>1, <1>2 DEF ToSend
<1> USE DEF Ends, Await, AwaitWith, chainVars, histVars
<1>3. CASE Prepared(c)
  <2>1. PICK where : pc' = [pc EXCEPT ![c] = where]
    BY <1>3 DEF Prepared
  <2> QED  BY <1>2, <1>3, <2>1 DEF Prepared
<1>4. CASE Approve(c) \/ SendReverts(c) \/ Confirm(c) \/ Rejects(c)
  BY <1>2, <1>4 DEF Approve, SendReverts, Confirm, Rejects
<1>5. CASE BeginFetch(c) \/ BeginComplete(c)
  BY <1>2, <1>5 DEF BeginFetch, BeginComplete
<1>6. CASE Fetch(c)
  <2>1. CASE ReadTransactions(c) \/ Parse(c) \/ ParseNothing(c)
    BY <1>2, <2>1 DEF ReadTransactions, Parse, ParseNothing
  <2>2. CASE LegsFound(c) \/ LegsFailed(c) \/ PacketFound(c) \/ PacketMissing(c)
    BY <1>2, <2>2 DEF LegsFound, LegsFailed, LegsAnswer, PacketFound, PacketMissing
  <2>3. CASE VaaArrives(c) \/ VaaMissing(c) \/ PollTrue(c) \/ PollFalse(c)
    BY <1>2, <2>3 DEF VaaArrives, VaaMissing, PollTrue, PollFalse
  <2>4. CASE LookupFinds(c) \/ LookupGivesUp(c)
    BY <1>2, <2>4 DEF LookupFinds, LookupGivesUp
  <2> QED  BY <1>6, <2>1, <2>2, <2>3, <2>4 DEF Fetch
<1>7. CASE Complete(c)
  BY <1>2, <1>7 DEF Complete, TakeVaa, Redeem, RedeemRefused, RedeemReverts, Redeemed
<1> QED
  BY <1>3, <1>4, <1>5, <1>6, <1>7 DEF Begin, Resumes, Initiate

LEMMA AccountedKeeps ==
  ASSUME IInv, Accounted, [Next]_vars PROVE Accounted'
<1>1. /\ pc \in [Calls -> PCs] /\ sent \in Nat /\ attempts \in Nat
      /\ IsFiniteSet(ToSend) /\ Cardinality(ToSend) \in Nat
      /\ sent + Cardinality(ToSend) <= attempts
  BY FS_CardinalityType DEF IInv, TypeOK, Accounted
<1>2. ASSUME ToSend' \subseteq ToSend, UNCHANGED <<sent, attempts>> PROVE Accounted'
  <2>1. IsFiniteSet(ToSend') /\ Cardinality(ToSend') <= Cardinality(ToSend)
    BY <1>1, <1>2, FS_Subset
  <2>2. Cardinality(ToSend') \in Nat
    BY <2>1, FS_CardinalityType
  <2> QED  BY <1>1, <1>2, <2>1, <2>2 DEF Accounted
<1>3. ASSUME NEW c \in Calls, BeginInitiate(c) PROVE Accounted'
  <2>1. /\ c \notin ToSend /\ ToSend' = ToSend \cup {c}
        /\ sent' = sent /\ attempts' = attempts + 1
    BY <1>1, <1>3 DEF BeginInitiate, Begins, Await, AwaitWith, ToSend, chainVars
  <2>2. /\ IsFiniteSet(ToSend \cup {c})
        /\ Cardinality(ToSend \cup {c}) = Cardinality(ToSend) + 1
    BY <1>1, <2>1, FS_AddElement
  <2> QED  BY <1>1, <2>1, <2>2 DEF Accounted
<1>4. ASSUME NEW c \in Calls, Send(c) \/ SendFails(c) PROVE Accounted'
  <2>1. /\ c \in ToSend /\ ToSend' = ToSend \ {c}
        /\ sent' = sent + 1 /\ attempts' = attempts
    BY <1>1, <1>4 DEF Send, SendFails, Included, ToSend
  <2>2. IsFiniteSet(ToSend') /\ Cardinality(ToSend') = Cardinality(ToSend) - 1
    BY <1>1, <2>1, FS_RemoveElement
  <2> QED  BY <1>1, <2>1, <2>2 DEF Accounted
<1>5. ASSUME NEW m \in Messages, Arrive(m) \/ Sign(m) PROVE Accounted'
  BY <1>2, <1>5 DEF Arrive, Sign, callVars, histVars, ToSend
<1>6. ASSUME NEW m \in Messages, Recover(m) PROVE Accounted'
  BY <1>2, <1>6 DEF Recover, chainVars, ToSend
<1>7. CASE UNCHANGED vars
  BY <1>2, <1>7 DEF vars, callVars, chainVars, histVars, ToSend
<1> QED  BY <1>2, <1>3, <1>4, <1>5, <1>6, <1>7, OthersSendNothing DEF Next

(* An initiateTransfer that has passed its check sends at most once,       *)
(* however many of them are in flight, whether its transaction is included *)
(* as a failed one, another fails, or the process dies.                    *)
THEOREM EachAttemptSendsOnce == Spec => []SentOncePerAttempt
<1>1. Init => Accounted
  <2> SUFFICES ASSUME Init PROVE Accounted
    OBVIOUS
  <2>1. ToSend = {}
    BY DEF Init, ToSend
  <2> QED  BY <2>1, FS_EmptySet DEF Init, Accounted
<1>2. IInv /\ Accounted /\ [Next]_vars => Accounted'
  BY AccountedKeeps
<1>3. IInv /\ Accounted => SentOncePerAttempt
  <2> SUFFICES ASSUME IInv, Accounted PROVE SentOncePerAttempt
    OBVIOUS
  <2>1. sent \in Nat /\ attempts \in Nat /\ Cardinality(ToSend) \in Nat
    BY FS_CardinalityType DEF IInv, TypeOK, Accounted
  <2> QED  BY <2>1 DEF Accounted, SentOncePerAttempt
<1> QED  BY <1>1, <1>2, <1>3, GatewayInvariant, PTL DEF Spec

-----------------------------------------------------------------------------
(* The safety half of liveness.                                            *)

(* What a call that resumes does: it ends, or goes on to a later await.    *)
LEMMA ResumingAdvances ==
  ASSUME IInv, NEW c \in Calls, Resumes(c) \/ SendFails(c)
  PROVE  AnswersLeft(pc'[c]) \in 0 .. AnswersLeft(pc[c]) - 1
<1> USE DEF AnswersLeft, Await, AwaitWith, Ends
<1>1. pc \in [Calls -> PCs]
  BY DEF IInv, TypeOK
<1>2. CASE Initiate(c) \/ SendFails(c)
  BY <1>1, <1>2 DEF Initiate, Prepared, Approve, Send, SendReverts, SendFails,
                    Included, Confirm
<1>3. CASE Fetch(c)
  <2>1. CASE ReadTransactions(c) \/ Parse(c) \/ ParseNothing(c)
    BY <1>1, <2>1 DEF ReadTransactions, Parse, ParseNothing
  <2>2. CASE LegsFound(c) \/ LegsFailed(c) \/ PacketFound(c) \/ PacketMissing(c)
    BY <1>1, <2>2 DEF LegsFound, LegsFailed, LegsAnswer, PacketFound, PacketMissing
  <2>3. CASE VaaArrives(c) \/ VaaMissing(c) \/ PollTrue(c) \/ PollFalse(c)
    BY <1>1, <2>3 DEF VaaArrives, VaaMissing, PollTrue, PollFalse
  <2>4. CASE LookupFinds(c) \/ LookupGivesUp(c)
    BY <1>1, <2>4 DEF LookupFinds, LookupGivesUp
  <2> QED  BY <1>3, <2>1, <2>2, <2>3, <2>4 DEF Fetch
<1>4. CASE Complete(c)
  BY <1>1, <1>4 DEF Complete, TakeVaa, Redeem, RedeemRefused, RedeemReverts, Redeemed
<1> QED  BY <1>2, <1>3, <1>4 DEF Resumes

(* A step of a call leaves the others where they are.                      *)
LEMMA OthersStay ==
  ASSUME IInv, NEW c \in Calls, NEW d \in Calls, d # c,
         Begin(d) \/ Resumes(d) \/ SendFails(d)
  PROVE  pc'[c] = pc[c]
<1> USE DEF Await, AwaitWith, Ends
<1>1. pc \in [Calls -> PCs]
  BY DEF IInv, TypeOK
<1>2. CASE Begin(d) \/ Initiate(d) \/ SendFails(d)
  BY <1>1, <1>2 DEF Begin, BeginInitiate, BeginFetch, BeginComplete, Initiate, Prepared,
                    Approve, Send, SendReverts, SendFails, Included, Confirm
<1>3. CASE Fetch(d)
  BY <1>1, <1>3 DEF Fetch, ReadTransactions, Parse, ParseNothing, LegsFound, LegsFailed,
                    LegsAnswer, PacketFound, PacketMissing, VaaArrives, VaaMissing,
                    PollTrue, PollFalse, LookupFinds, LookupGivesUp
<1>4. CASE Complete(d)
  BY <1>1, <1>4 DEF Complete, TakeVaa, Redeem, RedeemRefused, RedeemReverts, Redeemed
<1> QED  BY <1>2, <1>3, <1>4 DEF Resumes

(* What any other step does to a call in flight: nothing, or it ends it.   *)
LEMMA OthersKeepOrEnd ==
  ASSUME IInv, [Next]_vars, NEW c \in Calls, pc[c] # "idle",
         ~(Resumes(c) \/ SendFails(c))
  PROVE  pc'[c] \in {pc[c], "idle"}
<1>1. pc \in [Calls -> PCs]
  BY DEF IInv, TypeOK
<1>2. ~Begin(c)
  BY DEF Begin, BeginInitiate, BeginFetch, BeginComplete, Begins
<1>3. ASSUME NEW d \in Calls, Rejects(d) PROVE pc'[c] \in {pc[c], "idle"}
  BY <1>1, <1>3 DEF Rejects, Ends
<1>4. ASSUME NEW m \in Messages, Arrive(m) \/ Sign(m) PROVE pc'[c] = pc[c]
  BY <1>4 DEF Arrive, Sign, callVars
<1>5. ASSUME NEW m \in Messages, Recover(m) PROVE pc'[c] = "idle"
  BY <1>5 DEF Recover
<1>6. CASE UNCHANGED vars
  BY <1>6 DEF vars, callVars
<1> QED  BY <1>2, <1>3, <1>4, <1>5, <1>6, OthersStay DEF Next

(* A call on the gateway transfer, like one on a CCTPTransfer, cannot go   *)
(* round: an answer takes it on wherever it is suspended, the first of the *)
(* transactions is there when it is read, a hash without a message is      *)
(* noticed, and no other call sets it back.  At most six answers are       *)
(* awaited, so that a call that does not end waits for one of them.        *)
THEOREM CallsGoOn == Spec => []NoCallIsStuck /\ CallsAdvance
<1>1. IInv => NoCallIsStuck
  <2> SUFFICES ASSUME IInv, NEW c \in Calls, pc[c] # "idle" PROVE CanResume(c)
    BY DEF NoCallIsStuck
  <2>1. CallAt(c) /\ sent \in Nat
    BY DEF IInv, TypeOK
  <2> QED  BY <2>1 DEF CallAt, CanResume, Messages
<1>2. ASSUME IInv, [Next]_vars
      PROVE  [\A c \in Calls : pc[c] # "idle" =>
                /\ AnswersLeft(pc'[c]) <= AnswersLeft(pc[c])
                /\ Resumes(c) \/ SendFails(c) =>
                      AnswersLeft(pc'[c]) < AnswersLeft(pc[c])]_vars
  <2> SUFFICES ASSUME NEW c \in Calls, pc[c] # "idle"
               PROVE  /\ AnswersLeft(pc'[c]) <= AnswersLeft(pc[c])
                      /\ Resumes(c) \/ SendFails(c) =>
                            AnswersLeft(pc'[c]) < AnswersLeft(pc[c])
    OBVIOUS
  <2>1. AnswersLeft(pc[c]) \in 0..6 /\ AnswersLeft("idle") = 0
    BY <1>2 DEF AnswersLeft, IInv, TypeOK, PCs
  <2>2. CASE Resumes(c) \/ SendFails(c)
    BY <1>2, <2>1, <2>2, ResumingAdvances
  <2>3. CASE ~(Resumes(c) \/ SendFails(c))
    BY <1>2, <2>1, <2>3, OthersKeepOrEnd
  <2> QED  BY <2>2, <2>3
<1> QED  BY <1>1, <1>2, GatewayInvariant, PTL DEF Spec, CallsAdvance

=============================================================================
