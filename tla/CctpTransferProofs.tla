------------------------ MODULE CctpTransferProofs -------------------------
(***************************************************************************)
(* The safety properties of CctpTransfer: those of any set of calls in     *)
(* flight, from IInv, and those of one call at a time, from OneCallInv.    *)
(***************************************************************************)
EXTENDS CctpTransfer, FiniteSets, FiniteSetTheorems, TLAPS

USE DEF Created, Initiated, Attested, Completed, None, Approval

(* The object's and the chains' part of IInv.                              *)
ObjectOK ==
    /\ txids # <<>> => txids[Len(txids)] \in Messages
    /\ circle.id # None => circle.id \in Messages
    /\ circle.attestation # None => circle.attestation \in attested
    /\ vaa # None => vaa \in attested
    /\ MintsAttested

LEMMA InitInvariant == ASSUME CctpAssumption, Init PROVE IInv
  BY DEF CctpAssumption, Init, IInv, TypeOK, PCs, Messages, Entry, NoEntry, CallAt,
         MintsAttested

(* A step that burns nothing, and only adds attestations.                  *)
LEMMA CallAtCarries ==
  ASSUME NEW d \in Calls, CallAt(d), pc'[d] = pc[d], ca'[d] = ca[d],
         hashes'[d] = hashes[d], burned \in Nat, burned' \in Nat,
         burned <= burned', attested \subseteq attested'
  PROVE  CallAt(d)'
<1>1. \A m \in Messages : m \in Messages'
  BY DEF Messages
<1> QED  BY <1>1 DEF CallAt

LEMMA ObjectCarries ==
  ASSUME IInv, UNCHANGED objVars, UNCHANGED chainVars PROVE ObjectOK'
  BY DEF IInv, ObjectOK, objVars, chainVars, Messages, MintsAttested

(* A call ends, or goes on to an await of which CallAt asks nothing.       *)
LEMMA LocalStep ==
  ASSUME IInv, NEW c \in Calls,
         \/ Ends(c, "returned")
         \/ Ends(c, "threw")
         \/ \E where \in {"prepare", "approve", "burn"} : Await(c, where)
         \/ \E where \in {"parse", "poll"}, e \in Entry :
               e.id \in Messages /\ e.attestation = None /\ AwaitWith(c, where, e)
         \/ \E e \in Entry : e.attestation \in attested /\ AwaitWith(c, "mint", e),
         burned' = burned, attested' = attested
  PROVE  /\ pc' \in [Calls -> PCs]
         /\ hashes' \in [Calls -> Seq(Nat)]
         /\ ca' \in [Calls -> Entry]
         /\ result' \in [Calls -> {"none", "returned", "threw"}]
         /\ \A d \in Calls : CallAt(d)'
<1>1. /\ pc \in [Calls -> PCs]
      /\ hashes \in [Calls -> Seq(Nat)]
      /\ ca \in [Calls -> Entry]
      /\ result \in [Calls -> {"none", "returned", "threw"}]
      /\ burned \in Nat
      /\ \A d \in Calls : CallAt(d)
  BY DEF IInv, TypeOK
<1>2. /\ pc' \in [Calls -> PCs]
      /\ hashes' \in [Calls -> Seq(Nat)]
      /\ ca' \in [Calls -> Entry]
      /\ result' \in [Calls -> {"none", "returned", "threw"}]
  <2>1. CASE Ends(c, "returned") \/ Ends(c, "threw")
    <3>1. NoEntry \in Entry /\ <<>> \in Seq(Nat) /\ "idle" \in PCs
      BY DEF NoEntry, Entry, PCs
    <3>2. CASE Ends(c, "returned")
      BY <1>1, <3>1, <3>2 DEF Ends
    <3>3. CASE Ends(c, "threw")
      BY <1>1, <3>1, <3>3 DEF Ends
    <3> QED  BY <2>1, <3>2, <3>3
  <2>2. ASSUME NEW where \in PCs, NEW e \in Entry, AwaitWith(c, where, e)
        PROVE  /\ pc' \in [Calls -> PCs]
               /\ hashes' \in [Calls -> Seq(Nat)]
               /\ ca' \in [Calls -> Entry]
               /\ result' \in [Calls -> {"none", "returned", "threw"}]
    BY <1>1, <2>2 DEF AwaitWith
  <2> QED  BY <1>1, <2>1, <2>2 DEF Await, PCs
<1>3. ASSUME NEW d \in Calls, d # c PROVE CallAt(d)'
  BY <1>1, <1>3, CallAtCarries DEF Ends, Await, AwaitWith
<1>4. CallAt(c)'
  BY <1>1 DEF CallAt, Ends, Await, AwaitWith, NoEntry, Messages
<1> QED  BY <1>2, <1>3, <1>4

LEMMA StepInvariant == ASSUME CctpAssumption, IInv, [Next]_vars PROVE IInv'
<1> USE DEF objVars, chainVars
<1>1. ASSUME NEW c \in Calls,
             \/ BeginInitiate(c)
             \/ Prepared(c)
             \/ BurnReverts(c)
             \/ PollGivesUp(c)
             \/ BeginComplete(c)
             \/ MintReverts(c)
             \/ Minted(c)
             \/ Rejects(c)
      PROVE  IInv'
  <2>1. /\ pc' \in [Calls -> PCs]
        /\ hashes' \in [Calls -> Seq(Nat)]
        /\ ca' \in [Calls -> Entry]
        /\ result' \in [Calls -> {"none", "returned", "threw"}]
        /\ \A d \in Calls : CallAt(d)'
    <3>1. CASE BeginComplete(c)
      BY <3>1, LocalStep DEF BeginComplete, IInv, TypeOK
    <3>2. CASE ~BeginComplete(c)
      BY <1>1, <3>2, LocalStep
      DEF BeginInitiate, Prepared, BurnReverts, PollGivesUp, MintReverts, Minted, Rejects
    <3> QED  BY <3>1, <3>2
  <2>2. attempts' \in 0..MaxAttempts
    BY <1>1 DEF IInv, TypeOK, CctpAssumption, BeginInitiate, Prepared, BurnReverts,
       PollGivesUp, BeginComplete, MintReverts, Minted, Rejects
  <2>3. UNCHANGED <<automatic, objVars, chainVars>>
    BY <1>1 DEF BeginInitiate, Prepared, BurnReverts, PollGivesUp, BeginComplete,
       MintReverts, Minted, Rejects
  <2>4. ObjectOK'
    BY <2>3, ObjectCarries
  <2>5. TypeOK'
    BY <2>1, <2>2, <2>3 DEF IInv, TypeOK, Messages
  <2> QED  BY <2>1, <2>4, <2>5 DEF IInv, ObjectOK
<1>2. ASSUME NEW c \in Calls, FetchWormhole(c) \/ FetchCircle(c) PROVE IInv'
  <2>1. UNCHANGED <<automatic, txids, circle, vaa, attempts, chainVars>>
        /\ state' \in {Created, Initiated, Attested}
    BY <1>2 DEF FetchWormhole, FetchCircle, CircleLoop, IInv, TypeOK
  <2>2. CASE circle.id = None /\ FetchCircle(c)
    <3> DEFINE e == [NoEntry EXCEPT !.id = txids[Len(txids)]]
    <3>1. txids # <<>> /\ AwaitWith(c, "parse", e)
      BY <2>2 DEF FetchCircle
    <3>2. e \in Entry /\ e.attestation = None /\ e.id \in Messages
      BY <3>1 DEF IInv, TypeOK, Entry, NoEntry, Messages
    <3>3. /\ pc' \in [Calls -> PCs]
          /\ hashes' \in [Calls -> Seq(Nat)]
          /\ ca' \in [Calls -> Entry]
          /\ result' \in [Calls -> {"none", "returned", "threw"}]
          /\ \A d \in Calls : CallAt(d)'
      <4> HIDE DEF e
      <4> QED  BY <3>1, <3>2, <2>1, LocalStep
    <3> QED  BY <3>3, <2>1 DEF IInv, TypeOK, Messages, MintsAttested
  <2>3. CASE ~(circle.id = None /\ FetchCircle(c))
    <3>1. \/ Ends(c, "returned")
          \/ circle.attestation = None /\ circle.id # None /\ AwaitWith(c, "poll", circle)
      BY <1>2, <2>3 DEF FetchWormhole, FetchCircle, CircleLoop
    <3>2. circle \in Entry /\ (circle.id # None => circle.id \in Messages)
      BY DEF IInv, TypeOK
    <3>3. /\ pc' \in [Calls -> PCs]
          /\ hashes' \in [Calls -> Seq(Nat)]
          /\ ca' \in [Calls -> Entry]
          /\ result' \in [Calls -> {"none", "returned", "threw"}]
          /\ \A d \in Calls : CallAt(d)'
      BY <3>1, <3>2, <2>1, LocalStep
    <3> QED  BY <3>3, <2>1 DEF IInv, TypeOK, Messages, MintsAttested
  <2> QED  BY <2>2, <2>3
<1>3. ASSUME NEW c \in Calls, Approve(c) PROVE IInv'
  <2>1. TypeOK'
    BY <1>3 DEF Approve, IInv, TypeOK, PCs, Messages
  <2>2. ASSUME NEW d \in Calls PROVE CallAt(d)'
    BY <1>3 DEF Approve, IInv, TypeOK, CallAt, Messages
  <2> QED  BY <1>3, <2>1, <2>2 DEF Approve, IInv, Messages, MintsAttested
<1>4. ASSUME NEW c \in Calls, Burn(c) PROVE IInv'
  <2>1. \A m \in Messages : m \in Messages'
    BY <1>4 DEF Burn, IInv, TypeOK, Messages
  <2>2. TypeOK'
    BY <1>4, <2>1 DEF Burn, IInv, TypeOK, PCs
  <2>3. ASSUME NEW d \in Calls, d # c PROVE CallAt(d)'
    BY <1>4, <2>3, CallAtCarries DEF Burn, IInv, TypeOK
  <2>4. CallAt(c)'
    <3>1. pc'[c] = "confirm" /\ hashes'[c] = Append(hashes[c], burned + 1)
          /\ burned + 1 \in Messages'
      BY <1>4 DEF Burn, IInv, TypeOK, Messages
    <3>2. hashes'[c] # <<>> /\ hashes'[c][Len(hashes'[c])] = burned + 1
      <4>1. hashes[c] \in Seq(Nat) /\ burned + 1 \in Nat
        BY DEF IInv, TypeOK
      <4> QED  BY <3>1, <4>1
    <3> QED  BY <3>1, <3>2 DEF CallAt
  <2> QED  BY <1>4, <2>1, <2>2, <2>3, <2>4 DEF Burn, IInv, MintsAttested
<1>5. ASSUME NEW c \in Calls, Confirm(c) PROVE IInv'
  <2>1. /\ pc' \in [Calls -> PCs]
        /\ hashes' \in [Calls -> Seq(Nat)]
        /\ ca' \in [Calls -> Entry]
        /\ result' \in [Calls -> {"none", "returned", "threw"}]
        /\ \A d \in Calls : CallAt(d)'
    BY <1>5, LocalStep DEF Confirm
  <2>2. txids' \in Seq(Nat) /\ txids'[Len(txids')] \in Messages
    BY <1>5 DEF Confirm, IInv, TypeOK, CallAt
  <2> QED  BY <1>5, <2>1, <2>2 DEF Confirm, IInv, TypeOK, Messages, MintsAttested
<1>6. ASSUME NEW c \in Calls, Parse(c) PROVE IInv'
  <2>1. ca[c] \in Entry /\ ca[c].attestation = None /\ ca[c].id \in Messages
    BY <1>6 DEF Parse, IInv, TypeOK, CallAt
  <2>2. AwaitWith(c, "poll", ca[c]) /\ state' = state
    BY <1>6, <2>1 DEF Parse, CircleLoop
  <2>3. /\ pc' \in [Calls -> PCs]
        /\ hashes' \in [Calls -> Seq(Nat)]
        /\ ca' \in [Calls -> Entry]
        /\ result' \in [Calls -> {"none", "returned", "threw"}]
        /\ \A d \in Calls : CallAt(d)'
    BY <1>6, <2>1, <2>2, LocalStep DEF Parse
  <2> QED  BY <1>6, <2>1, <2>2, <2>3 DEF Parse, IInv, TypeOK, Messages, MintsAttested
<1>7. ASSUME NEW c \in Calls, AttestationArrives(c) PROVE IInv'
  <2>1. /\ pc' \in [Calls -> PCs]
        /\ hashes' \in [Calls -> Seq(Nat)]
        /\ ca' \in [Calls -> Entry]
        /\ result' \in [Calls -> {"none", "returned", "threw"}]
        /\ \A d \in Calls : CallAt(d)'
    BY <1>7, LocalStep DEF AttestationArrives
  <2>2. circle' \in Entry /\ circle'.id = circle.id /\ circle'.attestation \in attested
    BY <1>7 DEF AttestationArrives, IInv, TypeOK, Entry
  <2>3. TypeOK'
    BY <1>7, <2>1, <2>2 DEF AttestationArrives, IInv, TypeOK, Messages
  <2> QED  BY <1>7, <2>1, <2>2, <2>3
           DEF AttestationArrives, IInv, Messages, MintsAttested
<1>8. ASSUME NEW c \in Calls, Mint(c) PROVE IInv'
  <2>1. ca[c].id \in attested /\ attested \subseteq Nat
    BY <1>8 DEF Mint, Receivable, IInv, TypeOK, CallAt, Messages
  <2>2. TypeOK' /\ MintsAttested'
    BY <1>8, <2>1 DEF Mint, Await, AwaitWith, IInv, TypeOK, PCs, Messages, MintsAttested
  <2>3. ASSUME NEW d \in Calls PROVE CallAt(d)'
    BY <1>8 DEF Mint, Receivable, Await, AwaitWith, IInv, TypeOK, CallAt, Messages
  <2> QED  BY <1>8, <2>2, <2>3 DEF Mint, IInv, Messages
<1>9. ASSUME NEW m \in Messages, Attest(m) \/ RelayerDelivers(m) PROVE IInv'
  <2>1. UNCHANGED <<automatic, objVars, callVars, attempts, allowance, burned>>
        /\ attested \subseteq attested' /\ attested' \subseteq Messages
        /\ minted' \subseteq attested'
    <3>1. attested \subseteq Messages /\ minted \subseteq attested
      BY DEF IInv, TypeOK, MintsAttested
    <3>2. CASE Attest(m)
      BY <3>1, <3>2 DEF Attest
    <3>3. CASE RelayerDelivers(m)
      BY <3>1, <3>3 DEF RelayerDelivers
    <3> QED  BY <1>9, <3>2, <3>3
  <2>2. TypeOK'
    BY <2>1 DEF callVars, IInv, TypeOK, Messages
  <2>3. ASSUME NEW d \in Calls PROVE CallAt(d)'
    <3>1. CallAt(d) /\ burned \in Nat
      BY DEF IInv, TypeOK
    <3> QED  BY <3>1, <2>1, CallAtCarries DEF callVars
  <2> QED  BY <2>1, <2>2, <2>3 DEF IInv, Messages, MintsAttested
<1>10. ASSUME NEW m \in Messages, Recover(m) PROVE IInv'
  <2>1. m \in attested /\ m \in Nat /\ m # 0
    BY <1>10 DEF Recover, Messages, IInv, TypeOK
  <2>2. /\ pc' = [c \in Calls |-> "idle"]
        /\ hashes' = [c \in Calls |-> <<>>]
        /\ ca' = [c \in Calls |-> NoEntry]
        /\ result' = [c \in Calls |-> "none"]
        /\ state' = Attested
        /\ UNCHANGED <<automatic, attempts, chainVars>>
    BY <1>10 DEF Recover
  <2>3. /\ txids' \in Seq(Nat)
        /\ txids' # <<>> => txids'[Len(txids')] = m
        /\ vaa' \in {None, m}
        /\ circle' = NoEntry \/ circle' = [id |-> m, attestation |-> m]
    <3>1. \/ txids' \in {<<>>, <<m>>} /\ circle' = NoEntry /\ vaa' = m
          \/ txids' = <<m>> /\ circle' = [id |-> m, attestation |-> m] /\ vaa' = None
      BY <1>10, Zenon DEF Recover
    <3>2. CASE txids' \in {<<>>, <<m>>} /\ circle' = NoEntry /\ vaa' = m
      <4>1. CASE txids' = <<>>
        BY ONLY <2>1, <3>2, <4>1
      <4>2. CASE txids' = <<m>>
        BY ONLY <2>1, <3>2, <4>2
      <4> QED  BY <3>2, <4>1, <4>2
    <3>3. CASE txids' = <<m>> /\ circle' = [id |-> m, attestation |-> m] /\ vaa' = None
      BY ONLY <2>1, <3>3
    <3> QED  BY <3>1, <3>2, <3>3
  <2>4. TypeOK'
    <3>1. circle' \in Entry
      BY <2>1, <2>3 DEF Entry, NoEntry
    <3>2. pc' \in [Calls -> PCs] /\ ca' \in [Calls -> Entry]
      BY <2>2 DEF PCs, Entry, NoEntry
    <3>3. automatic' \in BOOLEAN
      BY <2>2 DEF IInv, TypeOK
    <3>4. attempts' \in 0..MaxAttempts /\ allowance' \in Nat /\ burned' \in Nat
          /\ attested' \subseteq Messages' /\ minted' \subseteq Nat
      BY <2>2 DEF IInv, TypeOK, Messages
    <3>5. hashes' \in [Calls -> Seq(Nat)]
          /\ result' \in [Calls -> {"none", "returned", "threw"}]
          /\ vaa' \in Nat
      BY ONLY <2>1, <2>2, <2>3
    <3> QED  BY <2>2, <2>3, <3>1, <3>2, <3>3, <3>4, <3>5 DEF TypeOK
  <2>5. \A d \in Calls : CallAt(d)'
    BY <2>2 DEF CallAt
  <2> QED  BY <2>1, <2>2, <2>3, <2>4, <2>5
           DEF IInv, Messages, MintsAttested, NoEntry
<1>11. CASE UNCHANGED vars
  BY <1>11 DEF vars, callVars, IInv, TypeOK, Messages, CallAt, MintsAttested
<1> QED
  BY <1>1, <1>2, <1>3, <1>4, <1>5, <1>6, <1>7, <1>8, <1>9, <1>10, <1>11
  DEF Next, Begin, Resumes, Initiate, Fetch, Complete, Outside

(* The inductive invariant, for any set of calls in flight.                *)
THEOREM CctpInvariant == Spec => []IInv
<1>1. CctpAssumption /\ Init => IInv
  BY InitInvariant
<1>2. CctpAssumption /\ IInv /\ [Next]_vars => IInv'
  BY StepInvariant
<1> QED  BY <1>1, <1>2, CctpAssumption, PTL DEF Spec

(* fetchAttestation never looks for a message in an approve transaction.   *)
THEOREM OnlyBurnsAreParsed == Spec => []ParsesABurn
<1>1. IInv => ParsesABurn
  BY DEF IInv, CallAt, ParsesABurn
<1> QED  BY <1>1, CctpInvariant, PTL

(* completeTransfer submits what the service has attested, or throws,      *)
(* however many calls of fetchAttestation replace the entry meanwhile.     *)
THEOREM OnlyAttestedIsSubmitted == Spec => []SubmitsAttested
<1>1. IInv => SubmitsAttested
  BY DEF IInv, CallAt, SubmitsAttested
<1> QED  BY <1>1, CctpInvariant, PTL

-----------------------------------------------------------------------------
(* One call at a time.                                                     *)

(* The object's part of OneCallInv.                                        *)
HeldOK ==
    /\ AttestedHasAttestation
    /\ AttestationMatchesId
    /\ circle.attestation # None \/ vaa # None => state = Attested

(* With one slot, what holds of the call that moves holds of every call.   *)
LEMMA OneCallStep ==
  ASSUME OneAtATime, NEW c \in Calls, IInv', HeldOK', (burned <= attempts)', OneCallAt(c)'
  PROVE  OneCallInv'
<1>1. ASSUME NEW d \in Calls PROVE OneCallAt(d)'
  <2>1. d = c
    BY DEF OneAtATime
  <2> QED  BY <2>1
<1> QED  BY <1>1 DEF OneCallInv, HeldOK

LEMMA HeldCarries ==
  ASSUME OneCallInv, UNCHANGED <<automatic, objVars>> PROVE HeldOK'
  BY DEF OneCallInv, HeldOK, AttestedHasAttestation, AttestationMatchesId, objVars

LEMMA OneCallStepInvariant ==
  ASSUME CctpAssumption, OneAtATime, OneCallInv, [Next]_vars PROVE OneCallInv'
<1> USE DEF objVars, chainVars
<1>1. IInv /\ IInv'
  BY StepInvariant DEF OneCallInv
<1>2. burned <= attempts /\ burned \in Nat /\ attempts \in Nat
      /\ pc \in [Calls -> PCs] /\ ca \in [Calls -> Entry]
  BY <1>1 DEF OneCallInv, IInv, TypeOK
<1>3. ASSUME NEW c \in Calls,
             BeginInitiate(c) \/ Prepared(c) \/ Approve(c) \/ Burn(c) \/ BurnReverts(c)
      PROVE  OneCallInv'
  <2>1. HeldOK'
    BY <1>3, HeldCarries
    DEF BeginInitiate, Prepared, Approve, Burn, BurnReverts
  <2>2. (burned <= attempts)'
    BY <1>2, <1>3 DEF OneCallInv, OneCallAt, BeginInitiate, Prepared, Approve, Burn, BurnReverts
  <2>3. OneCallAt(c)'
    BY <1>2, <1>3
    DEF OneCallInv, OneCallAt, BeginInitiate, Prepared, Approve, Burn, BurnReverts, Ends,
        Await, AwaitWith
  <2> QED  BY <1>1, <2>1, <2>2, <2>3, OneCallStep
<1>4. ASSUME NEW c \in Calls, Confirm(c) PROVE OneCallInv'
  <2>1. HeldOK'
    BY <1>4 DEF Confirm, OneCallInv, OneCallAt, HeldOK, AttestedHasAttestation,
       AttestationMatchesId
  <2>2. (burned <= attempts)' /\ OneCallAt(c)'
    BY <1>2, <1>4 DEF Confirm, Ends, OneCallAt
  <2> QED  BY <1>1, <2>1, <2>2, OneCallStep
<1>5. ASSUME NEW c \in Calls, FetchWormhole(c) \/ FetchCircle(c) PROVE OneCallInv'
  <2>1. HeldOK'
    BY <1>5 DEF FetchWormhole, FetchCircle, CircleLoop, OneCallInv, HeldOK,
       AttestedHasAttestation, AttestationMatchesId
  <2>2. (burned <= attempts)'
    BY <1>2, <1>5 DEF FetchWormhole, FetchCircle
  <2>3. OneCallAt(c)'
    <3>1. CASE Ends(c, "returned")
      BY <1>2, <3>1 DEF Ends, OneCallAt
    <3>2. ASSUME FetchCircle(c), circle.attestation = None, state' = state,
                 \/ circle.id = None /\ pc'[c] = "parse"
                 \/ pc'[c] = "poll" /\ ca'[c] = circle
          PROVE  OneCallAt(c)'
      <4>1. state = Initiated /\ ~automatic
        BY <3>2 DEF FetchCircle, OneCallInv, AttestedHasAttestation
      <4>2. circle \in Entry
        BY <1>1 DEF IInv, TypeOK
      <4>3. circle.id = None => circle = NoEntry
        BY <3>2, <4>2 DEF Entry, NoEntry
      <4>4. automatic' = automatic /\ circle' = circle
        BY <3>2 DEF FetchCircle
      <4> QED  BY <3>2, <4>1, <4>3, <4>4 DEF OneCallAt
    <3>3. circle.id = None => circle.attestation = None
      BY DEF OneCallInv, AttestationMatchesId
    <3> QED  BY <1>2, <1>5, <3>1, <3>2, <3>3
             DEF FetchWormhole, FetchCircle, CircleLoop, AwaitWith
  <2> QED  BY <1>1, <2>1, <2>2, <2>3, OneCallStep
<1>6. ASSUME NEW c \in Calls, Parse(c) PROVE OneCallInv'
  <2>1. ca[c].attestation = None /\ state = Initiated /\ ~automatic /\ vaa = None
    BY <1>6 DEF Parse, OneCallInv, OneCallAt, IInv, CallAt
  <2>2. AwaitWith(c, "poll", ca[c]) /\ state' = state /\ circle' = ca[c]
        /\ UNCHANGED <<automatic, txids, vaa, attempts, chainVars>>
    BY <1>6, <2>1 DEF Parse, CircleLoop
  <2>3. HeldOK'
    BY <2>1, <2>2 DEF HeldOK, AttestedHasAttestation, AttestationMatchesId
  <2>4. (burned <= attempts)' /\ OneCallAt(c)'
    BY <1>2, <2>1, <2>2 DEF AwaitWith, OneCallAt
  <2> QED  BY <1>1, <2>3, <2>4, OneCallStep
<1>7. ASSUME NEW c \in Calls, AttestationArrives(c) PROVE OneCallInv'
  <2>1. circle = ca[c] /\ circle \in Entry /\ ~automatic /\ circle.id # None
    BY <1>7 DEF AttestationArrives, OneCallInv, OneCallAt, IInv, TypeOK, CallAt, Messages
  <2>2. circle'.id = circle.id /\ circle'.attestation = circle.id
    BY <1>7, <2>1 DEF AttestationArrives, Entry
  <2>3. HeldOK'
    BY <1>7, <2>1, <2>2 DEF AttestationArrives, HeldOK, AttestedHasAttestation,
       AttestationMatchesId
  <2>4. (burned <= attempts)' /\ OneCallAt(c)'
    BY <1>2, <1>7 DEF AttestationArrives, Ends, OneCallAt
  <2> QED  BY <1>1, <2>3, <2>4, OneCallStep
<1>8. ASSUME NEW c \in Calls,
             \/ PollGivesUp(c)
             \/ BeginComplete(c)
             \/ Mint(c)
             \/ MintReverts(c)
             \/ Minted(c)
             \/ Rejects(c)
      PROVE  OneCallInv'
  <2>1. UNCHANGED <<automatic, objVars, attempts, burned>>
    BY <1>8 DEF PollGivesUp, BeginComplete, Mint, MintReverts, Minted, Rejects
  <2>2. HeldOK' /\ (burned <= attempts)'
    BY <1>2, <2>1, HeldCarries
  <2>3. OneCallAt(c)'
    BY <1>2, <1>8, <2>1
    DEF PollGivesUp, BeginComplete, Mint, MintReverts, Minted, Rejects, Ends, Await,
        AwaitWith, OneCallInv, OneCallAt
  <2> QED  BY <1>1, <2>2, <2>3, OneCallStep
<1>9. ASSUME NEW m \in Messages, Attest(m) \/ RelayerDelivers(m) PROVE OneCallInv'
  <2>1. UNCHANGED <<automatic, objVars, callVars, attempts, burned>>
        /\ minted \subseteq minted'
    BY <1>9 DEF Attest, RelayerDelivers
  <2>2. HeldOK'
    BY <2>1, HeldCarries
  <2>3. \A d \in Calls : OneCallAt(d)'
    BY <2>1 DEF callVars, OneCallInv, OneCallAt
  <2> QED  BY <1>1, <1>2, <2>1, <2>2, <2>3 DEF OneCallInv, HeldOK
<1>10. ASSUME NEW m \in Messages, Recover(m) PROVE OneCallInv'
  <2>1. m # None /\ state' = Attested /\ automatic' = automatic
        /\ UNCHANGED <<attempts, burned>> /\ pc' = [c \in Calls |-> "idle"]
    BY <1>10, <1>2 DEF Recover, Messages
  <2>2. HeldOK'
    BY <1>10, <2>1 DEF Recover, NoEntry, HeldOK, AttestedHasAttestation, AttestationMatchesId
  <2>3. \A d \in Calls : OneCallAt(d)'
    BY <2>1 DEF OneCallAt
  <2> QED  BY <1>1, <1>2, <2>1, <2>2, <2>3 DEF OneCallInv, HeldOK
<1>11. CASE UNCHANGED vars
  <2>1. HeldOK'
    BY <1>11, HeldCarries DEF vars
  <2>2. \A d \in Calls : OneCallAt(d)'
    BY <1>11 DEF vars, callVars, OneCallInv, OneCallAt
  <2> QED  BY <1>1, <1>2, <1>11, <2>1, <2>2 DEF vars, OneCallInv, HeldOK
<1> QED
  BY <1>3, <1>4, <1>5, <1>6, <1>7, <1>8, <1>9, <1>10, <1>11
  DEF Next, Begin, Resumes, Initiate, Fetch, Complete, Outside

(* The invariant of an object on which one call is in flight at a time.    *)
THEOREM OneCallInvariant == OneAtATime => (Spec => []OneCallInv)
<1> SUFFICES ASSUME OneAtATime PROVE Spec => []OneCallInv
  OBVIOUS
<1>1. Init => OneCallInv
  <2>1. Init => IInv
    BY CctpAssumption, InitInvariant
  <2> QED  BY <2>1 DEF Init, OneCallInv, OneCallAt, AttestedHasAttestation,
              AttestationMatchesId, NoEntry
<1>2. OneCallInv /\ [Next]_vars => OneCallInv'
  BY CctpAssumption, OneCallStepInvariant
<1> QED  BY <1>1, <1>2, PTL DEF Spec

(* Attested means that the attestation is there.                           *)
THEOREM AttestedIsAttested == OneAtATime => (Spec => []AttestedHasAttestation)
<1> SUFFICES ASSUME OneAtATime PROVE Spec => []AttestedHasAttestation
  OBVIOUS
<1>1. OneCallInv => AttestedHasAttestation
  BY DEF OneCallInv
<1>2. Spec => []OneCallInv
  BY OneCallInvariant
<1> QED  BY <1>1, <1>2, PTL

(* The attestation that is stored is that of the stored message.           *)
THEOREM AttestationIsItsOwn == OneAtATime => (Spec => []AttestationMatchesId)
<1> SUFFICES ASSUME OneAtATime PROVE Spec => []AttestationMatchesId
  OBVIOUS
<1>1. OneCallInv => AttestationMatchesId
  BY DEF OneCallInv
<1>2. Spec => []OneCallInv
  BY OneCallInvariant
<1> QED  BY <1>1, <1>2, PTL

(* A completeTransfer that returns has minted the object's message.        *)
THEOREM CompleteMints == OneAtATime => (Spec => CompleteReturnsMinted)
<1> SUFFICES ASSUME OneAtATime PROVE Spec => CompleteReturnsMinted
  OBVIOUS
<1>1. OneCallInv => \A c \in Calls : pc[c] = "minting" => circle.id \in minted
  BY DEF OneCallInv, OneCallAt
<1>2. OneCallInv /\ [Next]_vars =>
        [\A c \in Calls :
            (pc[c] = "minting" /\ result'[c] = "returned") => circle.id \in minted]_vars
  BY <1>1
<1>3. Spec => []OneCallInv
  BY OneCallInvariant
<1> QED  BY <1>2, <1>3, PTL DEF Spec, CompleteReturnsMinted

-----------------------------------------------------------------------------
(* The refinement of WormholeTransfer.                                     *)

LEMMA StepRefines ==
  ASSUME CctpAssumption, OneAtATime, OneCallInv, [Next]_vars
  PROVE  [Lifecycle!Next]_(Lifecycle!vars)
<1> DEFINE held == {circle.attestation, vaa} \ {None}
<1> USE DEF objVars, chainVars
<1>1. /\ burned \in Nat /\ attempts \in Nat /\ MaxAttempts \in Nat
      /\ burned <= MaxAttempts
      /\ circle \in Entry /\ pc \in [Calls -> PCs]
      /\ attested \subseteq Messages
  BY DEF CctpAssumption, OneCallInv, IInv, TypeOK
<1>2. \A m \in Messages : m \in 1..MaxAttempts /\ m # None
  BY <1>1 DEF Messages
<1>3. SUFFICES ASSUME ~(UNCHANGED <<automatic, state, Messages, attested, held, minted>>)
               PROVE  Lifecycle!Next
  BY DEF Lifecycle!vars
<1>4. ASSUME NEW c \in Calls,
             \/ BeginInitiate(c)
             \/ Prepared(c)
             \/ Approve(c)
             \/ BurnReverts(c)
             \/ Parse(c)
             \/ PollGivesUp(c)
             \/ BeginComplete(c)
             \/ MintReverts(c)
             \/ Minted(c)
             \/ Rejects(c)
             \/ FetchWormhole(c)
             \/ FetchCircle(c)
      PROVE  FALSE
  <2>1. CASE Parse(c)
    <3>1. ca[c].attestation = None /\ circle = NoEntry
      BY <2>1 DEF Parse, OneCallInv, OneCallAt, IInv, CallAt
    <3> QED  BY <2>1, <3>1, <1>3 DEF Parse, CircleLoop, NoEntry, Messages
  <2>2. CASE FetchWormhole(c) \/ FetchCircle(c)
    <3>1. state' = state
      BY <2>2 DEF FetchWormhole, FetchCircle, CircleLoop, OneCallInv
    <3> QED  BY <2>2, <3>1, <1>3 DEF FetchWormhole, FetchCircle, Messages
  <2>3. CASE ~(Parse(c) \/ FetchWormhole(c) \/ FetchCircle(c))
    BY <1>3, <1>4, <2>3
    DEF BeginInitiate, Prepared, Approve, BurnReverts, PollGivesUp, BeginComplete,
        MintReverts, Minted, Rejects, Messages
  <2> QED  BY <2>1, <2>2, <2>3
<1>5. ASSUME NEW c \in Calls, Burn(c) PROVE Lifecycle!Send(burned + 1) /\ burned + 1 \in 1..MaxAttempts
  <2>1. burned < attempts /\ attempts <= MaxAttempts /\ state = Created
    BY <1>1, <1>5 DEF Burn, OneCallInv, OneCallAt, IInv, TypeOK
  <2>2. Messages' = Messages \union {burned + 1} /\ burned + 1 \notin Messages
    BY <1>1, <1>5 DEF Burn, Messages
  <2> QED  BY <1>1, <1>5, <2>1, <2>2 DEF Burn, Lifecycle!Send, Lifecycle!Created
<1>6. ASSUME NEW c \in Calls, Confirm(c) PROVE Lifecycle!Initiate
  <2>1. state = Created /\ Messages # {}
    BY <1>6 DEF Confirm, OneCallInv, OneCallAt, IInv, CallAt
  <2> QED  BY <1>6, <2>1 DEF Confirm, Messages, Lifecycle!Initiate, Lifecycle!Created,
              Lifecycle!Initiated
<1>7. ASSUME NEW c \in Calls, AttestationArrives(c)
      PROVE  Lifecycle!Attest(ca[c].id) /\ ca[c].id \in 1..MaxAttempts
  <2>1. /\ state = Initiated /\ circle.attestation = None /\ vaa = None
        /\ ca[c].id \in attested /\ ca[c].id \in Messages
    BY <1>7 DEF AttestationArrives, OneCallInv, OneCallAt, IInv, CallAt
  <2>2. circle'.attestation = ca[c].id /\ vaa' = vaa
    BY <1>1, <1>7 DEF AttestationArrives, Entry
  <2>3. held = {} /\ held' = {ca[c].id}
    BY <1>2, <2>1, <2>2
  <2> HIDE DEF held
  <2> QED  BY <1>2, <1>7, <2>1, <2>3
           DEF AttestationArrives, Messages, Lifecycle!Attest, Lifecycle!Initiated,
               Lifecycle!Attested, held
<1>8. ASSUME NEW c \in Calls, Mint(c)
      PROVE  Lifecycle!Deliver(ca[c].id) /\ ca[c].id \in 1..MaxAttempts
  <2>1. /\ state = Attested /\ circle = ca[c] /\ ca[c].attestation = ca[c].id
        /\ ca[c].id \in attested \ minted
    BY <1>8 DEF Mint, Receivable, OneCallInv, OneCallAt, IInv, CallAt
  <2>2. ca[c].id \in held
    BY <1>1, <1>2, <2>1
  <2>3. /\ UNCHANGED <<automatic, state, circle, vaa, burned, attested>>
        /\ minted' = minted \union {ca[c].id}
    BY <1>8 DEF Mint
  <2>4. UNCHANGED <<automatic, state, Messages, attested, held>>
    BY <2>3 DEF Messages
  <2>5. ca[c].id \in 1..MaxAttempts /\ state >= 3
    BY <1>1, <1>2, <2>1
  <2> HIDE DEF held
  <2> QED  BY <2>1, <2>2, <2>3, <2>4, <2>5
           DEF Lifecycle!Deliver, Lifecycle!Attested, held
<1>9. ASSUME NEW m \in Messages, Attest(m) PROVE Lifecycle!Sign(m)
  BY <1>9 DEF Attest, Messages, Lifecycle!Sign
<1>10. ASSUME NEW m \in Messages, RelayerDelivers(m) PROVE Lifecycle!Deliver(m)
  BY <1>10 DEF RelayerDelivers, Messages, Lifecycle!Deliver
<1>11. ASSUME NEW m \in Messages, Recover(m) PROVE Lifecycle!Recover(m)
  <2>1. {circle'.attestation, vaa'} \ {None} = {m}
    BY <1>2, <1>11 DEF Recover, NoEntry
  <2> QED  BY <1>11, <2>1 DEF Recover, Messages, Lifecycle!Recover, Lifecycle!Attested
<1>12. ~UNCHANGED vars
  BY <1>3 DEF vars, Messages
<1> QED
  <2>1. CASE \E c \in Calls : Begin(c) \/ Resumes(c) \/ Rejects(c)
    <3>1. PICK c \in Calls : Begin(c) \/ Resumes(c) \/ Rejects(c)
      BY <2>1
    <3>2. Burn(c) \/ Confirm(c) \/ AttestationArrives(c) \/ Mint(c)
      BY <3>1, <1>4 DEF Begin, Resumes, Initiate, Fetch, Complete
    <3> QED  BY <3>2, <1>5, <1>6, <1>7, <1>8 DEF Lifecycle!Next
  <2>2. CASE Outside \/ \E m \in Messages : Recover(m)
    <3>1. PICK m \in Messages : Attest(m) \/ RelayerDelivers(m) \/ Recover(m)
      BY <2>2 DEF Outside
    <3> QED  BY <3>1, <1>2, <1>9, <1>10, <1>11 DEF Lifecycle!Next
  <2> QED  BY <1>12, <2>1, <2>2 DEF Next

(* With one call at a time the object implements WormholeTransfer.         *)
THEOREM CctpImplementsLifecycle == OneAtATime => (Spec => ImplementsLifecycle)
<1> SUFFICES ASSUME OneAtATime PROVE Spec => ImplementsLifecycle
  OBVIOUS
<1>1. Init => Lifecycle!Init
  BY CctpAssumption DEF CctpAssumption, Init, Messages, NoEntry, Lifecycle!Init,
     Lifecycle!Created
<1>2. OneCallInv /\ [Next]_vars => [Lifecycle!Next]_(Lifecycle!vars)
  BY CctpAssumption, StepRefines
<1>3. Spec => []OneCallInv
  BY OneCallInvariant
<1> QED  BY <1>1, <1>2, <1>3, PTL DEF Spec, ImplementsLifecycle, Lifecycle!Spec

-----------------------------------------------------------------------------
(* What an attempt sends.                                                  *)

(* The calls that have passed the first check and not sent yet, and what   *)
(* the attempts are accounted for with.                                    *)
ToSend == {c \in Calls : pc[c] \in {"prepare", "approve", "burn"}}

Accounted == IsFiniteSet(ToSend) /\ burned + Cardinality(ToSend) <= attempts

(* Any other step of a call than these two burns nothing, and begins no    *)
(* attempt.                                                                *)
LEMMA OthersBurnNothing ==
  ASSUME IInv, NEW c \in Calls, Begin(c) \/ Resumes(c) \/ Rejects(c),
         ~BeginInitiate(c), ~Burn(c)
  PROVE  UNCHANGED <<burned, attempts>> /\ ToSend' \subseteq ToSend
<1>1. pc \in [Calls -> PCs]
  BY DEF IInv, TypeOK
<1>2. ASSUME NEW where, pc' = [pc EXCEPT ![c] = where],
             \/ where \notin {"prepare", "approve", "burn"}
             \/ pc[c] \in {"prepare", "approve", "burn"}
      PROVE  ToSend' \subseteq ToSend
  BY <1>1, <1>2 DEF ToSend
<1> USE DEF Ends, Await, AwaitWith, CircleLoop, chainVars
<1>3. CASE Prepared(c)
  <2>1. PICK where : pc' = [pc EXCEPT ![c] = where]
    BY <1>3 DEF Prepared
  <2> QED  BY <1>2, <1>3, <2>1 DEF Prepared
<1>4. CASE Approve(c) \/ BurnReverts(c) \/ Confirm(c) \/ Rejects(c)
  BY <1>2, <1>4 DEF Approve, BurnReverts, Confirm, Rejects
<1>5. CASE FetchWormhole(c) \/ FetchCircle(c) \/ BeginComplete(c)
  BY <1>2, <1>5 DEF FetchWormhole, FetchCircle, BeginComplete
<1>6. CASE Fetch(c)
  BY <1>2, <1>6 DEF Fetch, Parse, AttestationArrives, PollGivesUp
<1>7. CASE Complete(c)
  BY <1>2, <1>7 DEF Complete, Mint, MintReverts, Minted
<1> QED
  BY <1>3, <1>4, <1>5, <1>6, <1>7 DEF Begin, Resumes, Initiate

LEMMA AccountedKeeps ==
  ASSUME IInv, Accounted, [Next]_vars PROVE Accounted'
<1>1. /\ pc \in [Calls -> PCs] /\ burned \in Nat /\ attempts \in Nat
      /\ IsFiniteSet(ToSend) /\ Cardinality(ToSend) \in Nat
      /\ burned + Cardinality(ToSend) <= attempts
  BY FS_CardinalityType DEF IInv, TypeOK, Accounted
<1>2. ASSUME ToSend' \subseteq ToSend, UNCHANGED <<burned, attempts>> PROVE Accounted'
  <2>1. IsFiniteSet(ToSend') /\ Cardinality(ToSend') <= Cardinality(ToSend)
    BY <1>1, <1>2, FS_Subset
  <2>2. Cardinality(ToSend') \in Nat
    BY <2>1, FS_CardinalityType
  <2> QED  BY <1>1, <1>2, <2>1, <2>2 DEF Accounted
<1>3. ASSUME NEW c \in Calls, BeginInitiate(c) PROVE Accounted'
  <2>1. /\ c \notin ToSend /\ ToSend' = ToSend \cup {c}
        /\ burned' = burned /\ attempts' = attempts + 1
    BY <1>1, <1>3 DEF BeginInitiate, Await, AwaitWith, ToSend, chainVars
  <2>2. /\ IsFiniteSet(ToSend \cup {c})
        /\ Cardinality(ToSend \cup {c}) = Cardinality(ToSend) + 1
    BY <1>1, <2>1, FS_AddElement
  <2> QED  BY <1>1, <2>1, <2>2 DEF Accounted
<1>4. ASSUME NEW c \in Calls, Burn(c) PROVE Accounted'
  <2>1. /\ c \in ToSend /\ ToSend' = ToSend \ {c}
        /\ burned' = burned + 1 /\ attempts' = attempts
    BY <1>1, <1>4 DEF Burn, ToSend
  <2>2. IsFiniteSet(ToSend') /\ Cardinality(ToSend') = Cardinality(ToSend) - 1
    BY <1>1, <2>1, FS_RemoveElement
  <2> QED  BY <1>1, <2>1, <2>2 DEF Accounted
<1>5. ASSUME NEW m \in Messages, Attest(m) \/ RelayerDelivers(m) PROVE Accounted'
  BY <1>2, <1>5 DEF Attest, RelayerDelivers, callVars, ToSend
<1>6. ASSUME NEW m \in Messages, Recover(m) PROVE Accounted'
  BY <1>2, <1>6 DEF Recover, chainVars, ToSend
<1>7. CASE UNCHANGED vars
  BY <1>2, <1>7 DEF vars, callVars, chainVars, ToSend
<1> QED  BY <1>2, <1>3, <1>4, <1>5, <1>6, <1>7, OthersBurnNothing DEF Next, Outside

(* An initiateTransfer that has passed its check burns at most once,       *)
(* however many of them are in flight, whether they fail or the process    *)
(* dies.                                                                   *)
THEOREM EachAttemptBurnsOnce == Spec => []BurnsOncePerAttempt
<1>1. Init => Accounted
  <2> SUFFICES ASSUME Init PROVE Accounted
    OBVIOUS
  <2>1. ToSend = {}
    BY DEF Init, ToSend
  <2> QED  BY <2>1, FS_EmptySet DEF Init, Accounted
<1>2. IInv /\ Accounted /\ [Next]_vars => Accounted'
  BY AccountedKeeps
<1>3. IInv /\ Accounted => BurnsOncePerAttempt
  <2> SUFFICES ASSUME IInv, Accounted PROVE BurnsOncePerAttempt
    OBVIOUS
  <2>1. burned \in Nat /\ attempts \in Nat /\ Cardinality(ToSend) \in Nat
    BY FS_CardinalityType DEF IInv, TypeOK, Accounted
  <2> QED  BY <2>1 DEF Accounted, BurnsOncePerAttempt
<1> QED  BY <1>1, <1>2, <1>3, CctpInvariant, PTL DEF Spec

-----------------------------------------------------------------------------
(* The safety half of liveness.                                            *)

(* What a call that resumes does: it ends, or goes on to a later await.    *)
LEMMA ResumingAdvances ==
  ASSUME IInv, NEW c \in Calls, Resumes(c)
  PROVE  AnswersLeft(pc'[c]) \in 0 .. AnswersLeft(pc[c]) - 1
<1> USE DEF AnswersLeft
<1>1. pc \in [Calls -> PCs] /\ CallAt(c)
  BY DEF IInv, TypeOK
<1>2. CASE Initiate(c)
  BY <1>1, <1>2 DEF Initiate, Prepared, Approve, Burn, BurnReverts, Confirm,
                    Await, AwaitWith, Ends
<1>3. CASE Fetch(c)
  BY <1>1, <1>3 DEF Fetch, Parse, CircleLoop, AttestationArrives, PollGivesUp,
                    AwaitWith, Ends
<1>4. CASE Complete(c)
  BY <1>1, <1>4 DEF Complete, Mint, MintReverts, Minted, Await, AwaitWith, Ends
<1> QED  BY <1>2, <1>3, <1>4 DEF Resumes

(* What any other step does to a call in flight: nothing, or it ends it.   *)
LEMMA OthersKeepOrEnd ==
  ASSUME IInv, [Next]_vars, NEW c \in Calls, pc[c] # "idle", ~Resumes(c)
  PROVE  pc'[c] \in {pc[c], "idle"}
<1>1. pc \in [Calls -> PCs]
  BY DEF IInv, TypeOK
<1>2. ASSUME NEW d \in Calls, Begin(d) PROVE pc'[c] = pc[c]
  BY <1>1, <1>2 DEF Begin, BeginInitiate, FetchWormhole, FetchCircle, CircleLoop,
                    BeginComplete, Await, AwaitWith, Ends
<1>3. ASSUME NEW d \in Calls, d # c, Resumes(d) PROVE pc'[c] = pc[c]
  <2>1. CASE Initiate(d)
    BY <1>1, <1>3, <2>1 DEF Initiate, Prepared, Approve, Burn, BurnReverts, Confirm,
                            Await, AwaitWith, Ends
  <2>2. CASE Fetch(d)
    BY <1>1, <1>3, <2>2 DEF Fetch, Parse, CircleLoop, AttestationArrives, PollGivesUp,
                            AwaitWith, Ends
  <2>3. CASE Complete(d)
    BY <1>1, <1>3, <2>3 DEF Complete, Mint, MintReverts, Minted, Await, AwaitWith, Ends
  <2> QED  BY <1>3, <2>1, <2>2, <2>3 DEF Resumes
<1>4. ASSUME NEW d \in Calls, Rejects(d) PROVE pc'[c] \in {pc[c], "idle"}
  BY <1>1, <1>4 DEF Rejects, Ends
<1>5. ASSUME NEW m \in Messages, Attest(m) \/ RelayerDelivers(m) PROVE pc'[c] = pc[c]
  BY <1>5 DEF Attest, RelayerDelivers, callVars
<1>6. ASSUME NEW m \in Messages, Recover(m) PROVE pc'[c] = "idle"
  BY <1>6 DEF Recover
<1>7. CASE UNCHANGED vars
  BY <1>7 DEF vars, callVars
<1> QED  BY <1>2, <1>3, <1>4, <1>5, <1>6, <1>7 DEF Next, Outside

(* The safety half of CallEnds, for any set of calls: in whatever place a  *)
(* call is suspended an answer takes it on, at most four of them are       *)
(* needed, and no other call on the object sets it back or takes away what *)
(* it waits for.  So a call that does not end waits for an answer that     *)
(* never comes.                                                            *)
THEOREM CallsGoOn == Spec => []NoCallIsStuck /\ CallsAdvance
<1>1. IInv => NoCallIsStuck
  BY DEF IInv, CallAt, NoCallIsStuck, CanResume
<1>2. ASSUME IInv, [Next]_vars
      PROVE  [\A c \in Calls : pc[c] # "idle" =>
                /\ AnswersLeft(pc'[c]) <= AnswersLeft(pc[c])
                /\ Resumes(c) => AnswersLeft(pc'[c]) < AnswersLeft(pc[c])]_vars
  <2> SUFFICES ASSUME NEW c \in Calls, pc[c] # "idle"
               PROVE  /\ AnswersLeft(pc'[c]) <= AnswersLeft(pc[c])
                      /\ Resumes(c) => AnswersLeft(pc'[c]) < AnswersLeft(pc[c])
    OBVIOUS
  <2>1. AnswersLeft(pc[c]) \in 0..4 /\ AnswersLeft("idle") = 0
    BY <1>2 DEF AnswersLeft, IInv, TypeOK, PCs
  <2>2. CASE Resumes(c)
    BY <1>2, <2>1, <2>2, ResumingAdvances
  <2>3. CASE ~Resumes(c)
    BY <1>2, <2>1, <2>3, OthersKeepOrEnd
  <2> QED  BY <2>2, <2>3
<1> QED  BY <1>1, <1>2, CctpInvariant, PTL DEF Spec, CallsAdvance

=============================================================================
