-------------------------- MODULE WormholeTransfer -------------------------
(***************************************************************************)
(* What the WormholeTransfer interface and its TransferState promise of a  *)
(* transfer whose owner makes one call at a time, said without calls,      *)
(* hashes or loops: messages are sent only before the transfer counts as   *)
(* initiated, attestations are gathered only for messages that were sent   *)
(* and signed, only a gathered attestation is submitted, and a transfer    *)
(* counts as completed only when its redemption was seen.                  *)
(***************************************************************************)
EXTENDS Integers

CONSTANT Message    \* the messages a transfer may emit

(* TransferState *)
Created   == 1
Initiated == 2
Attested  == 3
Completed == 4

VARIABLES
    automatic,  \* a relayer submits the attestations
    state,      \* the TransferState
    sent,       \* messages on the source chain
    signed,     \* messages the guardians have signed
    held,       \* messages whose attestation the transfer holds
    delivered   \* messages redeemed on the destination chain

vars == <<automatic, state, sent, signed, held, delivered>>

Init ==
    /\ automatic \in BOOLEAN
    /\ state = Created
    /\ sent = {}
    /\ signed = {}
    /\ held = {}
    /\ delivered = {}

(* initiateTransfer reaches the source chain.                              *)
Send(m) ==
    /\ state = Created
    /\ m \notin sent
    /\ sent' = sent \union {m}
    /\ UNCHANGED <<automatic, state, signed, held, delivered>>

(* initiateTransfer learns that its transactions were mined.               *)
Initiate ==
    /\ state = Created
    /\ sent # {}
    /\ state' = Initiated
    /\ UNCHANGED <<automatic, sent, signed, held, delivered>>

Sign(m) ==
    /\ m \in sent \ signed
    /\ signed' = signed \union {m}
    /\ UNCHANGED <<automatic, state, sent, held, delivered>>

(* fetchAttestation obtains one more attestation, perhaps the last one, or *)
(* is done with one it has.                                                *)
Attest(m) ==
    /\ state \in {Initiated, Attested}
    /\ m \in signed
    /\ held' = held \union {m}
    /\ state' \in {state, Attested}
    /\ UNCHANGED <<automatic, sent, signed, delivered>>

(* completeTransfer submits an attestation that is held, or the relayer    *)
(* submits one.                                                            *)
Deliver(m) ==
    /\ m \in signed \ delivered
    /\ automatic \/ (state >= Attested /\ m \in held)
    /\ delivered' = delivered \union {m}
    /\ UNCHANGED <<automatic, state, sent, signed, held>>

(* getTransferState learns of the redemption.                              *)
Complete ==
    /\ automatic
    /\ state >= Initiated
    /\ delivered # {}
    /\ state' = Completed
    /\ UNCHANGED <<automatic, sent, signed, held, delivered>>

(* The transfer is taken up again from the id of a signed message.         *)
Recover(m) ==
    /\ m \in signed
    /\ state' = Attested
    /\ held' = {m}
    /\ UNCHANGED <<automatic, sent, signed, delivered>>

Next ==
    \/ \E m \in Message :
          Send(m) \/ Sign(m) \/ Attest(m) \/ Deliver(m) \/ Recover(m)
    \/ Initiate
    \/ Complete

Spec == Init /\ [][Next]_vars
=============================================================================
