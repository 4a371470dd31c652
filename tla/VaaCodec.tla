------------------------------ MODULE VaaCodec ------------------------------
(***************************************************************************)
(* What becomes of a VAA on its way through the SDK                        *)
(* (core/definitions/src/vaa.ts and getTransferVaa of the transfers).      *)
(*                                                                         *)
(* The bytes of a signed VAA come from a service that may damage them.     *)
(* They are read, either under a payload literal or by getTransferVaa,     *)
(* and what was read is serialized again to be submitted to the target     *)
(* chain.  A payload whose literal is not known is handed to               *)
(* payloadDiscriminator.                                                   *)
(*                                                                         *)
(* What vaa.ts imports of the layout package are parameters: the module    *)
(* speaks of any package, and a run gives it Layout and Discriminator.     *)
(*                                                                         *)
(* The hash is taken to be injective: it is the bytes it was taken of.     *)
(***************************************************************************)
EXTENDS Payloads, FiniteSets, SequencesExt

CONSTANTS
    Signed,         \* the VAAs the guardians sign: [literal, data], see create
    Families,       \* name of a list of layouts -> the list
    Loose,          \* payloads that come from elsewhere than a VAA
    MaxDamage       \* how often the bytes are damaged on their way

CONSTANTS
    DeserializePart(_, _, _),          \* deserializeLayout without consumeAll
    AddFixedValues(_, _),              \* of a layout and an object
    GenerateLayoutDiscriminator(_),    \* of a list of layouts
    LayoutDiscriminator(_, _)          \* of what was generated, and the bytes

\* The literals under which the transfers read their VAAs.
TransferLiterals == {"Transfer", "TransferWithPayload", "CircleTransferRelay"}

ASSUME VaaCodecAssumption == MaxDamage \in Nat /\ None \notin TransferLiterals

VARIABLES
    vaa,        \* the VAA as it was created, or None
    data,       \* its bytes as they arrived, or None
    damage,     \* how often they were damaged
    got,        \* what reading them gave: [by, result], or None
    sent,       \* what serializing that gave, or None
    answer      \* what a discriminator said: [family, payload, found], or None

vars == <<vaa, data, damage, got, sent, answer>>

--------------------------------------------------------------------------
\* vaa.ts

payloadFactory ==
    LET layouts == tokenBridgePayloads \o connectPayloads \o relayerPayloads
                   \o bamPayloads \o governancePayloads
    IN [l \in {p.literal : p \in ToSet(layouts)} |->
           (CHOOSE p \in ToSet(layouts) : p.literal = l).layout]

\* The literal "Uint8Array" has a conversion that leaves the bytes as they are.
descriptionToPayloadItem(l) ==
    IF l = "Uint8Array" THEN bytes("payload") ELSE object("payload", payloadFactory[l])

bodyLayout(l) == Append(envelopeLayout, descriptionToPayloadItem(l))

keccak256(b) == <<"keccak256", b>>

VAA(l, fields, hash) == [ok |-> TRUE, literal |-> l, fields |-> fields, hash |-> hash]

\* {...first, ...second}
Spread(first, second) ==
    [n \in DOMAIN first \cup DOMAIN second |->
        IF n \in DOMAIN second THEN second[n] ELSE first[n]]

create(l, values) ==
    LET body == AddFixedValues(bodyLayout(l), values)
        hashed == SerializeLayout(bodyLayout(l), body)
    IN IF ~hashed.ok THEN Refused
       ELSE VAA(l, Spread(AddFixedValues(headerLayout, values), body), keccak256(hashed.bytes))

vaaLayout(l) == headerLayout \o envelopeLayout \o <<descriptionToPayloadItem(l)>>

serialize(v) == SerializeLayout(vaaLayout(v.literal), v.fields)

\* Mutant of Ascending: an index may come twice in a row.
AscendingWeakly(signatures) ==
    \A i \in 2..Len(signatures) : signatures[i].guardianIndex >= signatures[i - 1].guardianIndex

\* Guardian indexes that are not strictly ascending are refused.
Ascending(signatures) ==
    \A i \in 2..Len(signatures) : signatures[i].guardianIndex > signatures[i - 1].guardianIndex

\* Mutant of deserialize: the hash takes in the header.
deserializeHashingAll(l, b) ==
    LET header == DeserializePart(headerLayout, b, 0)
        body == DeserializeLayout(bodyLayout(l), b, header.at)
    IN IF ~header.ok \/ ~Ascending(header.value["signatures"]) \/ ~body.ok THEN Refused
       ELSE VAA(l, Spread(header.value, body.value), keccak256(b))

\* Mutant of deserialize: the body may end before the data do.
deserializeLax(l, b) ==
    LET header == DeserializePart(headerLayout, b, 0)
        body == DeserializePart(bodyLayout(l), b, header.at)
    IN IF ~header.ok \/ ~Ascending(header.value["signatures"]) \/ ~body.ok THEN Refused
       ELSE VAA(l, Spread(header.value, body.value),
                keccak256(SubSeq(b, header.at + 1, Len(b))))

deserialize(l, b) ==
    LET header == DeserializePart(headerLayout, b, 0)
        body == DeserializeLayout(bodyLayout(l), b, header.at)
    IN IF ~header.ok \/ ~Ascending(header.value["signatures"]) \/ ~body.ok THEN Refused
       ELSE VAA(l, Spread(header.value, body.value),
                keccak256(SubSeq(b, header.at + 1, Len(b))))

\* serializePayload
serializePayload(l, payload) ==
    IF l = "Uint8Array" THEN [ok |-> TRUE, bytes |-> payload]
    ELSE SerializeLayout(payloadFactory[l], payload)

--------------------------------------------------------------------------
\* getTransferVaa: TokenTransfer and GatewayTransfer look at the first byte of the
\* payload for a transfer with or without payload, CCTPTransfer for its relay.

SerdeOf(p, id) ==
    CASE p = "TokenTransfer" /\ id = 1 -> "Transfer"
      [] p = "TokenTransfer" /\ id = 3 -> "TransferWithPayload"
      [] p = "CCTPTransfer" /\ id = 1 -> "CircleTransferRelay"
      [] OTHER -> None

getTransferVaa(p, b) ==
    LET partial == deserialize("Uint8Array", b)
        payload == partial.fields["payload"]
    IN IF ~partial.ok THEN Refused
       ELSE IF payload = <<>> THEN Refused
       ELSE IF SerdeOf(p, payload[1]) = None THEN Refused
       ELSE deserialize(SerdeOf(p, payload[1]), b)

--------------------------------------------------------------------------
\* What vaa.ts relies on in the layout package where it reads the bytes b.

Literals == DOMAIN payloadFactory \cup {"Uint8Array"}

Header(b) == DeserializePart(headerLayout, b, 0)
Body(l, b) == DeserializeLayout(bodyLayout(l), b, Header(b).at)

\* What is read has the names of its layout, and the header's signatures are a list in
\* which every one has the number of its guardian.
ReadsByName(b) ==
    LET signatures == Header(b).value["signatures"]
    IN Header(b).ok =>
           /\ DOMAIN Header(b).value = Names(headerLayout)
           /\ Len(signatures) \in Nat
           /\ DOMAIN signatures = 1..Len(signatures)
           /\ \A k \in DOMAIN signatures : signatures[k].guardianIndex \in Nat
           /\ \A l \in Literals : Body(l, b).ok => DOMAIN Body(l, b).value = Names(bodyLayout(l))

\* What is read, by itself, is serialized to the bytes it was read from.
RoundTrips(b) ==
    Header(b).ok =>
        /\ Header(b).at \in 0..Len(b)
        /\ SerializeLayout(headerLayout, Header(b).value) = Written(SubSeq(b, 1, Header(b).at))
        /\ \A l \in Literals : Body(l, b).ok =>
               SerializeLayout(bodyLayout(l), Body(l, b).value)
                   = Written(SubSeq(b, Header(b).at + 1, Len(b)))

\* Of an object only the names of the layout are serialized.
WritesByName(layout, v, w) ==
    (\A n \in Names(layout) : v[n] = w[n]) => SerializeLayout(layout, v) = SerializeLayout(layout, w)

\* Two layouts in one are serialized the one after the other.
WritesInTurn(first, second, v) ==
    LET w1 == SerializeLayout(first, v)
        w2 == SerializeLayout(second, v)
    IN w1.ok /\ w2.ok => SerializeLayout(first \o second, v) = Written(w1.bytes \o w2.bytes)

SerializesItems(b) ==
    \A l \in Literals : Header(b).ok /\ Body(l, b).ok =>
        LET v == Spread(Header(b).value, Body(l, b).value)
        IN /\ WritesByName(headerLayout, Header(b).value, v)
           /\ WritesByName(bodyLayout(l), Body(l, b).value, v)
           /\ WritesInTurn(headerLayout, bodyLayout(l), v)

\* What is serialized are bytes.
WritesBytes ==
    \A s \in Signed :
        LET v == create(s.literal, s.data)
        IN v.ok /\ serialize(v).ok => serialize(v).bytes \in Seq(Byte)

--------------------------------------------------------------------------
\* What vaa.ts relies on in the layout package between writing a VAA and reading it.

\* The parts of the VAA of s, its payload as bytes, and its body with those.
HeaderOf(s) == AddFixedValues(headerLayout, s.data)
BodyOf(s) == AddFixedValues(bodyLayout(s.literal), s.data)
PayloadOf(s) == serializePayload(s.literal, BodyOf(s)["payload"])
RawBodyOf(s) == [BodyOf(s) EXCEPT !["payload"] = PayloadOf(s).bytes]

\* Filled up, an object has the names of its layout.
FillsUp(layout, values) == DOMAIN AddFixedValues(layout, values) = Names(layout)

\* What is written is read back, with other bytes behind it or before it.
ReadsBackBefore(rest, layout, v) ==
    LET w == SerializeLayout(layout, v)
    IN w.ok => DeserializePart(layout, w.bytes \o rest, 0)
                   = [ok |-> TRUE, value |-> v, at |-> Len(w.bytes)]

ReadsBackAfter(first, layout, v) ==
    LET w == SerializeLayout(layout, v)
    IN w.ok => DeserializeLayout(layout, first \o w.bytes, Len(first))
                   = [ok |-> TRUE, value |-> v, at |-> Len(first) + Len(w.bytes)]

\* Two layouts in one are not written when one of them is refused.
WritesAllOrNothing(first, second, v) ==
    SerializeLayout(first \o second, v).ok =>
        SerializeLayout(first, v).ok /\ SerializeLayout(second, v).ok

\* An object is written by its layout, and bytes as they are.
WritesObject(n, sub, v) == SerializeLayout(<<object(n, sub)>>, v) = SerializeLayout(sub, v[n])
WritesPlainBytes(n, v) == SerializeLayout(<<bytes(n)>>, v) = Written(v[n])

\* A payload id that comes first, as getTransferVaa relies on, is the first byte.
WritesIdFirst(layout, v) ==
    \A id \in {1, 3} :
        layout[1] = payloadIdItem(id) /\ SerializeLayout(layout, v).ok =>
            LET b == SerializeLayout(layout, v).bytes IN b # <<>> /\ b[1] = id

\* The parts of a VAA that can be created are written by themselves, one after the other.
WritesParts(s) ==
    LET v == create(s.literal, s.data).fields
        body == BodyOf(s)
        payload == <<descriptionToPayloadItem(s.literal)>>
    IN create(s.literal, s.data).ok =>
           /\ WritesByName(headerLayout, HeaderOf(s), v)
           /\ WritesByName(bodyLayout(s.literal), body, v)
           /\ WritesInTurn(headerLayout, bodyLayout(s.literal), v)
           /\ WritesAllOrNothing(headerLayout, bodyLayout(s.literal), v)
           /\ WritesByName(envelopeLayout, body, RawBodyOf(s))
           /\ WritesInTurn(envelopeLayout, payload, body)
           /\ WritesAllOrNothing(envelopeLayout, payload, body)
           /\ WritesInTurn(envelopeLayout, <<bytes("payload")>>, RawBodyOf(s))
           /\ WritesPlainBytes("payload", RawBodyOf(s))
           /\ IF s.literal = "Uint8Array" THEN WritesPlainBytes("payload", body)
              ELSE WritesObject("payload", payloadFactory[s.literal], body)

\* They are written as bytes and read back, the payload as what it is and as bytes.
ReadsParts(s) ==
    LET header == SerializeLayout(headerLayout, HeaderOf(s))
        body == SerializeLayout(bodyLayout(s.literal), BodyOf(s))
    IN header.ok /\ body.ok =>
           /\ {header.bytes, body.bytes} \subseteq Seq(Byte)
           /\ ReadsBackBefore(body.bytes, headerLayout, HeaderOf(s))
           /\ ReadsBackAfter(header.bytes, bodyLayout(s.literal), BodyOf(s))
           /\ ReadsBackAfter(header.bytes, bodyLayout("Uint8Array"), RawBodyOf(s))

WritesAndReads(s) ==
    /\ FillsUp(headerLayout, s.data)
    /\ FillsUp(bodyLayout(s.literal), s.data)
    /\ WritesParts(s)
    /\ ReadsParts(s)
    /\ s.literal # "Uint8Array" => WritesIdFirst(payloadFactory[s.literal], BodyOf(s)["payload"])

\* A payload that is read in its place can be read from its bytes alone.
ReadsPayloadAlone(b) ==
    \A l \in TransferLiterals :
        Header(b).ok /\ Body("Uint8Array", b).ok /\ Body(l, b).ok =>
            DeserializeLayout(payloadFactory[l], Body("Uint8Array", b).value["payload"], 0).ok

\* What the guardians sign: a payload that is known, with signatures in order, and not a
\* transfer by its bytes unless it is one.
SignedInOrder(s) ==
    /\ s.literal \in Literals
    /\ Ascending(HeaderOf(s)["signatures"])
    /\ \A l \in TransferLiterals \ {s.literal} :
           ~DeserializeLayout(payloadFactory[l], PayloadOf(s).bytes, 0).ok

--------------------------------------------------------------------------

Protocols == {"TokenTransfer", "CCTPTransfer"}

Init == /\ vaa = None /\ data = None /\ damage = 0
        /\ got = None /\ sent = None /\ answer = None

\* create and serialize: a VAA is signed and its bytes set out.
Sign(s) ==
    /\ data = None /\ answer = None
    /\ LET v == create(s.literal, s.data)
       IN /\ v.ok
          /\ vaa' = v
          /\ serialize(v).ok
          /\ data' = serialize(v).bytes
    /\ UNCHANGED <<damage, got, sent, answer>>

\* The bytes that arrive are not those that were sent: one is changed, the last
\* is missing, or there is one more.
Damage ==
    /\ data # None /\ got = None /\ damage < MaxDamage
    /\ damage' = damage + 1
    /\ \/ \E k \in DOMAIN data, b \in Byte : b # data[k] /\ data' = [data EXCEPT ![k] = b]
       \/ data # <<>> /\ data' = Front(data)
       \/ \E b \in Byte : data' = Append(data, b)
    /\ UNCHANGED <<vaa, got, sent, answer>>

\* The caller names the literal.
Read(l) ==
    /\ data # None /\ got = None
    /\ got' = [by |-> l, result |-> deserialize(l, data)]
    /\ UNCHANGED <<vaa, data, damage, sent, answer>>

\* A transfer fetches its VAA.
Fetch(p) ==
    /\ data # None /\ got = None
    /\ got' = [by |-> p, result |-> getTransferVaa(p, data)]
    /\ UNCHANGED <<vaa, data, damage, sent, answer>>

\* The VAA that was read is submitted.
Submit ==
    /\ got # None /\ sent = None
    /\ got.result.ok
    /\ sent' = serialize(got.result)
    /\ UNCHANGED <<vaa, data, damage, got, answer>>

\* payloadDiscriminator, which is generated once.
Discriminators == [f \in DOMAIN Families |-> GenerateLayoutDiscriminator(Families[f])]

\* payloadDiscriminator is asked which of a family's layouts a payload has.
Handed ==
    IF data = None THEN Loose
    ELSE IF got = None THEN {}
    ELSE IF got.by = "Uint8Array" /\ got.result.ok /\ sent = None
         THEN {got.result.fields["payload"]}
    ELSE {}

Discriminate(f) ==
    /\ answer = None
    /\ \E p \in Handed :
           answer' = [family |-> f, payload |-> p,
                      found |-> LayoutDiscriminator(Discriminators[f], p)]
    /\ UNCHANGED <<vaa, data, damage, got, sent>>

Next ==
    \/ \E s \in Signed : Sign(s)
    \/ Damage
    \/ \E l \in Literals : Read(l)
    \/ \E p \in Protocols : Fetch(p)
    \/ Submit
    \/ \E f \in DOMAIN Families : Discriminate(f)

Spec == Init /\ [][Next]_vars

--------------------------------------------------------------------------
\* Properties.

\* What is submitted is byte for byte what was fetched, whatever damage the reading
\* accepted: no two encodings are read as the same VAA.  The guardians have signed the
\* bytes that came, so a VAA that is serialized otherwise is refused on the target chain.
SubmitsWhatCame == sent # None => sent = [ok |-> TRUE, bytes |-> data]

\* Bytes that arrive undamaged are read as the VAA that was created, with its fixed
\* values and its hash, under its own literal; under the literal Uint8Array with its
\* payload as bytes; and by a transfer if its payload is one of those the transfer
\* completes, otherwise not at all.
ExpectedUnder(by) ==
    CASE by = vaa.literal -> vaa
      [] by = "TokenTransfer" ->
             IF vaa.literal \in {"Transfer", "TransferWithPayload"} THEN vaa ELSE Refused
      [] by = "CCTPTransfer" -> IF vaa.literal = "CircleTransferRelay" THEN vaa ELSE Refused
      [] by = "Uint8Array" ->
             [vaa EXCEPT !.literal = by,
                         !.fields["payload"] =
                             serializePayload(vaa.literal, vaa.fields["payload"]).bytes]

ReadsWhatWasSigned ==
    got # None /\ damage = 0 /\ got.by \in {vaa.literal, "Uint8Array"} \cup Protocols
        => got.result = ExpectedUnder(got.by)

\* A VAA that was read has every guardian's signature at most once, so the number of its
\* signatures is the number of guardians that signed: the count that a quorum is judged
\* by (Solana's verifySignatures batches and posts by that list).
EachGuardianSignsOnce ==
    got # None /\ got.result.ok =>
        LET signatures == got.result.fields["signatures"]
        IN Cardinality({signatures[k].guardianIndex : k \in DOMAIN signatures}) = Len(signatures)

\* The discriminator of a family never misses: if the payload can be read under a layout
\* of the family, that layout is the answer.
Discriminates ==
    answer # None =>
        LET layouts == Families[answer.family]
        IN \A i \in DOMAIN layouts :
               DeserializeLayout(layouts[i], answer.payload, 0).ok
                   => answer.found = [ok |-> TRUE, index |-> i]
=============================================================================
