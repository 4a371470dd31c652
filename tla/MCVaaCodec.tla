----------------------------- MODULE MCVaaCodec -----------------------------
(***************************************************************************)
(* VaaCodec for TLC: a byte has five values and the widths are small.      *)
(* MCSigned: VAAs with none, one and two signatures and a payload of every *)
(* kind.  MCFamilies: the payloads of the token bridge and of BAM, and the *)
(* layouts of core/base/__tests__/layout.ts:142-234.  MCLoose: every byte  *)
(* string of up to three bytes.                                            *)
(***************************************************************************)
EXTENDS VaaCodec, Discriminator

Signature(r, s, v) == [r |-> r, s |-> s, v |-> v]

SignedBy(indexes) ==
    [k \in DOMAIN indexes |-> [guardianIndex |-> indexes[k], signature |-> Signature(k, 9, 1)]]

Values(indexes, payload) ==
    [guardianSet |-> 3, signatures |-> SignedBy(indexes), timestamp |-> 5, nonce |-> 0,
     emitterChain |-> ChainName(1), emitterAddress |-> <<0, 2>>, sequence |-> 3,
     consistencyLevel |-> 1, payload |-> payload]

Common ==
    [token |-> [amount |-> 7, address |-> <<1, 2>>, chain |-> ChainName(2)],
     to |-> [address |-> <<3, 0>>, chain |-> ChainName(1)]]

AttestMeta ==
    [token |-> [address |-> <<1, 2>>, chain |-> ChainName(1)], decimals |-> 3,
     symbol |-> <<2, 2>>, name |-> <<1, 0>>]

Transfer == Common @@ [fee |-> 2]

TransferWithPayload(p) == Common @@ [from |-> <<2, 1>>, payload |-> p]

CircleTransferRelay ==
    [token |-> [address |-> <<1, 2>>, amount |-> 15], sourceDomain |-> 0, targetDomain |-> 1,
     nonce |-> 2, caller |-> <<3, 3>>, mintRecipient |-> <<0, 1>>, payloadSize |-> 3,
     relayerPayload |-> [targetRelayerFee |-> 1, toNativeTokenAmount |-> 0,
                         targetRecipient |-> <<2, 2>>]]

Key(c) == [version |-> "Key", chain |-> ChainName(c), emitterAddress |-> <<1, 1>>, sequence |-> 2]

ExecutionInfo == [gasLimit |-> 4, targetChainRefundPerGasUnused |-> 1]

DeliveryInstruction ==
    [target |-> [chain |-> ChainName(2), address |-> <<1, 3>>], payload |-> <<2, 0, 1>>,
     requestedReceiverValue |-> 1, extraReceiverValue |-> 0, executionInfo |-> ExecutionInfo,
     refund |-> [chain |-> ChainName(1), address |-> <<0, 0>>],
     refundDeliveryProvider |-> <<1, 0>>, sourceDeliveryProvider |-> <<0, 1>>,
     senderAddress |-> <<3, 1>>, vaaKeys |-> <<Key(1), Key(2)>>]

BamTokenMessage ==
    [index |-> 1, targetChain |-> ChainName(2), targetAddress |-> <<1>>, senderAddress |-> <<>>,
     contents |-> <<3, 1>>, bridge |-> 2, assetIdentifier |-> 1, amount |-> 6]

GuardianSetUpgrade ==
    [chain |-> NullChain, guardianSet |-> 4, guardians |-> <<[address |-> <<1, 2>>],
                                                             [address |-> <<2, 1>>]>>]

MCSigned ==
    {[literal |-> "AttestMeta", data |-> Values(<<0>>, AttestMeta)],
     [literal |-> "Transfer", data |-> Values(<<1, 3>>, Transfer)],
     [literal |-> "TransferWithPayload", data |-> Values(<<2>>, TransferWithPayload(<<1, 2>>))],
     [literal |-> "TransferWithPayload", data |-> Values(<<>>, TransferWithPayload(<<>>))],
     [literal |-> "CircleTransferRelay", data |-> Values(<<0>>, CircleTransferRelay)],
     [literal |-> "DeliveryInstruction", data |-> Values(<<>>, DeliveryInstruction)],
     [literal |-> "BamTokenMessage", data |-> Values(<<1>>, BamTokenMessage)],
     [literal |-> "CoreBridgeGuardianSetUpgrade", data |-> Values(<<2>>, GuardianSetUpgrade)],
     [literal |-> "Uint8Array", data |-> Values(<<>>, <<>>)],
     [literal |-> "Uint8Array", data |-> Values(<<0, 1, 2>>, <<2, 3>>)]}

Layouts(payloads) == [k \in DOMAIN payloads |-> payloads[k].layout]

Type(t) == fixedTo(uint("type", 1), t, FALSE)
Free(n) == uint(n, 1)
Data(t) == fixedTo(uint("data", 1), t, FALSE)

MCFamilies ==
    [tokenBridge |-> Layouts(tokenBridgePayloads),
     bam |-> Layouts(bamPayloads),
     byByte |-> << <<Type(0)>>, <<Type(2)>> >>,
     byByteOfLongest |-> << <<Type(0), Free("data")>>, <<Type(2)>> >>,
     outOfBounds |-> << <<Free("data"), Type(0)>>, <<Free("data"), Type(2)>>, <<Free("type")>> >>,
     byLength |-> << <<Free("type"), Free("data")>>, <<Free("type")>> >>,
     byByteThenSize |-> << <<Type(0)>>, <<Type(2)>>, <<Free("type"), Free("data")>> >>,
     byByteThenEither |-> << <<Type(0), Data(0)>>, <<Type(0), Data(1)>>, <<Type(1), Free("data")>>,
                             <<Type(1), Free("data"), Free("dat2")>> >>]

\* The package answers as vaa.ts expects on the bytes of these VAAs and on what one
\* changed byte makes of them; the VAAs are written and read back in parts; and they are
\* what guardians sign.
MCData ==
    LET signed == {serialize(create(s.literal, s.data)).bytes : s \in MCSigned}
    IN signed \cup UNION {{[b EXCEPT ![k] = (@ + 1) % Base] : k \in DOMAIN b} : b \in signed}

ASSUME LayoutLaws ==
    /\ WritesBytes
    /\ \A b \in MCData :
           ReadsByName(b) /\ RoundTrips(b) /\ SerializesItems(b) /\ ReadsPayloadAlone(b)
    /\ \A s \in MCSigned : WritesAndReads(s) /\ SignedInOrder(s)

MCLoose == UNION {[1..n -> 0..4] : n \in 0..3}
=============================================================================
