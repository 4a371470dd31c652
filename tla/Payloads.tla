------------------------------ MODULE Payloads ------------------------------
(***************************************************************************)
(* The layouts of VAAs and of the payloads the SDK knows by a literal      *)
(* (core/definitions/src/vaa.ts, layout-items, payloads).                  *)
(*                                                                         *)
(* The widths are parameters: Word is 32 bytes in the program, Long 8,     *)
(* Half 4 and Short 2.  An address and a fixed length string are their     *)
(* bytes; a chain is read from its id and refused when the id is not one   *)
(* of ChainIds.                                                            *)
(*                                                                         *)
(* The functions of the layout package that a conversion calls are         *)
(* parameters too; a run gives them the definitions of Layout.             *)
(***************************************************************************)
EXTENDS LayoutItems

CONSTANTS Word, Long, Half, Short, ChainIds, EvmChainIds

CONSTANTS
    SerializeLayout(_, _),      \* of a layout and an object
    DeserializeLayout(_, _, _)  \* of a layout, the data and an offset, to the end

ASSUME PayloadsAssumption ==
    /\ {Word, Long, Half, Short} \subseteq Nat \ {0}
    /\ Word > 1
    /\ ChainIds \subseteq Nat \ {0}
    /\ EvmChainIds \subseteq ChainIds

--------------------------------------------------------------------------
\* The items shared by the layouts (layout-items).

ChainName(id) == [chain |-> id]

NullChain == [chain |-> 0]      \* null, which stands for all chains

chainItem(n, allowed, allowNull) ==
    LET ids == allowed \cup (IF allowNull THEN {0} ELSE {})
    IN [uint(n, Short) EXCEPT
           !.custom = [to |-> [id \in ids |-> ChainName(id)],
                       from |-> [c \in {ChainName(id) : id \in ChainIds \cup {0}} |-> c.chain]]]
anyChain(n) == chainItem(n, ChainIds, FALSE)

universalAddressItem(n) == sizedBytes(n, Word)
amountItem(n) == uint(n, Word)
sequenceItem(n) == uint(n, Long)
guardianSetItem(n) == uint(n, Half)
payloadIdItem(id) == fixedTo(uint("payloadId", 1), id, TRUE)

\* A signature has a layout of its own, which its conversion reads and writes.
signatureLayout == <<uint("r", Word), uint("s", Word), uint("v", 1)>>

signatureItem(n) ==
    LET size == 2 * Word + 1
    IN [sizedBytes(n, size) EXCEPT
           !.custom = [to |-> [b \in [1..size -> Byte] |->
                                  DeserializeLayout(signatureLayout, b, 0).value],
                       from |-> [s \in [r : 0 .. Base^Word - 1, s : 0 .. Base^Word - 1, v : Byte] |->
                                    SerializeLayout(signatureLayout, s).bytes]]]

--------------------------------------------------------------------------
\* The header and the envelope of a VAA (vaa.ts).

guardianSignatureLayout == <<uint("guardianIndex", 1), signatureItem("signature")>>

headerLayout ==
    <<fixedTo(uint("version", 1), 1, TRUE), guardianSetItem("guardianSet"),
      array("signatures", 1, guardianSignatureLayout)>>

envelopeLayout ==
    <<uint("timestamp", Half), uint("nonce", Half), anyChain("emitterChain"),
      universalAddressItem("emitterAddress"), sequenceItem("sequence"),
      uint("consistencyLevel", 1)>>

--------------------------------------------------------------------------
\* payloads/tokenBridge.ts

fixedLengthStringItem(n) == sizedBytes(n, Word)

transferCommonLayout ==
    <<object("token", <<amountItem("amount"), universalAddressItem("address"), anyChain("chain")>>),
      object("to", <<universalAddressItem("address"), anyChain("chain")>>)>>

transferWithPayloadLayout(customPayload) ==
    <<payloadIdItem(3)>> \o transferCommonLayout \o <<universalAddressItem("from"), customPayload>>

tokenBridgePayloads ==
    <<[literal |-> "AttestMeta",
       layout |-> <<payloadIdItem(2),
                    object("token", <<universalAddressItem("address"), anyChain("chain")>>),
                    uint("decimals", 1), fixedLengthStringItem("symbol"),
                    fixedLengthStringItem("name")>>],
      [literal |-> "Transfer",
       layout |-> <<payloadIdItem(1)>> \o transferCommonLayout \o <<amountItem("fee")>>],
      [literal |-> "TransferWithPayload", layout |-> transferWithPayloadLayout(bytes("payload"))]>>

--------------------------------------------------------------------------
\* payloads/connect.ts

circleTransferRelay ==
    <<payloadIdItem(1),
      object("token", <<universalAddressItem("address"), amountItem("amount")>>),
      uint("sourceDomain", Half), uint("targetDomain", Half), uint("nonce", Long),
      universalAddressItem("caller"), universalAddressItem("mintRecipient"),
      uint("payloadSize", Short),
      object("relayerPayload", <<payloadIdItem(1), amountItem("targetRelayerFee"),
                                 amountItem("toNativeTokenAmount"),
                                 universalAddressItem("targetRecipient")>>)>>

connectPayloads == <<[literal |-> "CircleTransferRelay", layout |-> circleTransferRelay]>>

--------------------------------------------------------------------------
\* payloads/relayer.ts

encodedExecutionInfoItem(n) ==
    object(n, <<fixedTo(uint("size", Half), 3 * Word, TRUE), fixedTo(uint("waste", Word - 1), 0, TRUE),
                fixedTo(uint("version", 1), 0, TRUE), amountItem("gasLimit"),
                amountItem("targetChainRefundPerGasUnused")>>)

addressChainItem(n) == object(n, <<anyChain("chain"), universalAddressItem("address")>>)

vaaKeyLayout ==
    <<fixedPair(uint("version", 1), 1, "Key"), anyChain("chain"),
      universalAddressItem("emitterAddress"), sequenceItem("sequence")>>

relayerPayloads ==
    <<[literal |-> "DeliveryInstruction",
       layout |-> <<payloadIdItem(1), addressChainItem("target"), prefixedBytes("payload", Half),
                    amountItem("requestedReceiverValue"), amountItem("extraReceiverValue"),
                    encodedExecutionInfoItem("executionInfo"), addressChainItem("refund"),
                    universalAddressItem("refundDeliveryProvider"),
                    universalAddressItem("sourceDeliveryProvider"),
                    universalAddressItem("senderAddress"), array("vaaKeys", 1, vaaKeyLayout)>>],
      [literal |-> "RedeliveryInstruction",
       layout |-> <<payloadIdItem(2), object("deliveryVaaKey", vaaKeyLayout), anyChain("targetChain"),
                    amountItem("newRequestedReceiverValue"),
                    encodedExecutionInfoItem("newEncodedExecutionInfo"),
                    universalAddressItem("newSourceDeliveryProvider"),
                    universalAddressItem("newSenderAddress")>>],
      [literal |-> "DeliveryOverride",
       layout |-> <<fixedTo(uint("version", 1), 1, TRUE), amountItem("receiverValue"),
                    encodedExecutionInfoItem("newExecutionInfo"), sizedBytes("redeliveryHash", Word)>>]>>

--------------------------------------------------------------------------
\* payloads/bam.ts

bamAddressItem(n) == prefixedBytes(n, Short)

messageLayout(type) ==
    <<fixedTo(uint("magicByte", 1), Base - 1, TRUE), fixedTo(uint("version", 1), 0, TRUE),
      fixedTo(uint("type", 1), type, TRUE), uint("index", Long), anyChain("targetChain"),
      bamAddressItem("targetAddress"), bamAddressItem("senderAddress"),
      prefixedBytes("contents", Short)>>

tokenMessageLayout ==
    messageLayout(1) \o <<uint("bridge", 1), uint("assetIdentifier", Short), amountItem("amount")>>

extendedMessageLayout == messageLayout(2) \o <<prefixedBytes("relaySignal", Short)>>

bamPayloads ==
    <<[literal |-> "BamMessage", layout |-> messageLayout(0)],
      [literal |-> "BamTokenMessage", layout |-> tokenMessageLayout],
      [literal |-> "BamExtendedMessage", layout |-> extendedMessageLayout]>>

--------------------------------------------------------------------------
\* payloads/governance.ts

\* What follows the header of an action, and whether it may address all chains.
actionLayout(action) ==
    CASE action = "UpgradeContract" -> <<universalAddressItem("newContract")>>
      [] action = "RegisterChain" -> <<anyChain("foreignChain"), universalAddressItem("foreignAddress")>>
      [] action = "RecoverChainId" ->
             <<uint("evmChainId", Word), chainItem("newChainId", EvmChainIds, FALSE)>>
      [] action = "GuardianSetUpgrade" ->
             <<guardianSetItem("guardianSet"), array("guardians", 1, <<sizedBytes("address", Word)>>)>>
      [] action = "SetMessageFee" -> <<uint("messageFee", Word)>>
      [] action = "TransferFees" -> <<uint("amount", Word), universalAddressItem("recipient")>>
      [] action = "UpdateDefaultProvider" -> <<universalAddressItem("defaultProvider")>>

allowNull == {"RegisterChain", "GuardianSetUpgrade", "TransferFees"}

\* The name of the module, right aligned; a short stand-in for it here.
moduleBytes(protocol) ==
    [k \in 1..Word |-> IF k < Word THEN 0
                       ELSE CASE protocol = "CoreBridge" -> 0 [] protocol = "TokenBridge" -> 1
                              [] protocol = "NftBridge" -> 2 [] protocol = "Relayer" -> 3]

governancePayload(literal, protocol, action, num) ==
    [literal |-> literal,
     layout |-> <<fixedPair(bytes("protocol"), moduleBytes(protocol), protocol),
                  fixedPair(uint("action", 1), num, action),
                  chainItem("chain", ChainIds, action \in allowNull)>> \o actionLayout(action)]

governancePayloads ==
    <<governancePayload("CoreBridgeUpgradeContract", "CoreBridge", "UpgradeContract", 1),
      governancePayload("CoreBridgeGuardianSetUpgrade", "CoreBridge", "GuardianSetUpgrade", 2),
      governancePayload("CoreBridgeSetMessageFee", "CoreBridge", "SetMessageFee", 3),
      governancePayload("CoreBridgeTransferFees", "CoreBridge", "TransferFees", 4),
      governancePayload("CoreBridgeRecoverChainId", "CoreBridge", "RecoverChainId", 5),
      governancePayload("TokenBridgeRegisterChain", "TokenBridge", "RegisterChain", 1),
      governancePayload("TokenBridgeUpgradeContract", "TokenBridge", "UpgradeContract", 2),
      governancePayload("TokenBridgeRecoverChainId", "TokenBridge", "RecoverChainId", 3),
      governancePayload("NftBridgeRegisterChain", "NftBridge", "RegisterChain", 1),
      governancePayload("NftBridgeUpgradeContract", "NftBridge", "UpgradeContract", 2),
      governancePayload("NftBridgeRecoverChainId", "NftBridge", "RecoverChainId", 3),
      governancePayload("RelayerRegisterChain", "Relayer", "RegisterChain", 1),
      governancePayload("RelayerUpgradeContract", "Relayer", "UpgradeContract", 2),
      governancePayload("RelayerUpdateDefaultProvider", "Relayer", "UpdateDefaultProvider", 3)>>
=============================================================================
