--------------------------- MODULE VaaCodecProofs ---------------------------
(***************************************************************************)
(* What VaaCodec promises of a VAA follows, for every payload and all      *)
(* bytes, from what the layout package promises of a layout.               *)
(***************************************************************************)
EXTENDS VaaCodec, SequenceTheorems, FiniteSetTheorems, TLAPS

-----------------------------------------------------------------------------
(* The signatures.                                                         *)

(* Indexes of which each is greater than the one before it all differ.     *)
LEMMA AscendingIndexesDiffer ==
  ASSUME NEW s, Len(s) \in Nat, DOMAIN s = 1..Len(s),
         \A k \in DOMAIN s : s[k].guardianIndex \in Nat,
         Ascending(s), NEW i \in 1..Len(s), NEW j \in 1..Len(s), i < j
  PROVE  s[i].guardianIndex < s[j].guardianIndex
<1> DEFINE index(k) == s[k].guardianIndex
           T == {k \in (i + 1)..Len(s) : ~(index(i) < index(k))}
<1>1. \A k \in 2..Len(s) : index(k - 1) < index(k)
  BY DEF Ascending
<1>2. \A k \in 1..Len(s) : index(k) \in Nat
  OBVIOUS
<1> HIDE DEF index
<1>3. ASSUME T # {} PROVE FALSE
  <2>1. T \subseteq Nat /\ T # {}
    BY <1>3
  <2>2. PICK x \in T : \A y \in T : ~(<<y, x>> \in OpToRel(<, Nat))
    BY <2>1, NatLessThanWellFounded, WFMin
  <2>3. \A y \in T : ~(y < x)
    BY <2>1, <2>2 DEF OpToRel
  <2>4. x \in (i + 1)..Len(s) /\ ~(index(i) < index(x))
    OBVIOUS
  <2>5. CASE x = i + 1
    BY <1>1, <2>4, <2>5
  <2>6. CASE x # i + 1
    <3>1. x - 1 \in (i + 1)..Len(s) /\ x - 1 < x
      BY <2>4, <2>6
    <3>2. index(i) < index(x - 1)
      BY <2>3, <3>1
    <3>3. index(x - 1) < index(x)
      BY <1>1, <2>4
    <3> QED  BY <1>2, <2>4, <3>1, <3>2, <3>3
  <2> QED  BY <2>5, <2>6
<1>4. index(i) < index(j)
  BY <1>3
<1> QED  BY <1>4 DEF index

(* So there are as many of them as there are signatures.                   *)
LEMMA AscendingIndexesCount ==
  ASSUME NEW s, Len(s) \in Nat, DOMAIN s = 1..Len(s),
         \A k \in DOMAIN s : s[k].guardianIndex \in Nat,
         Ascending(s)
  PROVE  Cardinality({s[k].guardianIndex : k \in DOMAIN s}) = Len(s)
<1> DEFINE S == {s[k].guardianIndex : k \in 1..Len(s)}
           f == [k \in 1..Len(s) |-> s[k].guardianIndex]
<1>1. f \in [1..Len(s) -> S]
  OBVIOUS
<1>2. ASSUME NEW i \in 1..Len(s), NEW j \in 1..Len(s), f[i] = f[j] PROVE i = j
  <2>1. ~(i < j) /\ ~(j < i)
    BY <1>2, AscendingIndexesDiffer
  <2> QED  BY <2>1
<1>3. \A v \in S : \E k \in 1..Len(s) : f[k] = v
  OBVIOUS
<1>4. f \in Bijection(1..Len(s), S)
  BY <1>1, <1>2, <1>3 DEF Bijection, Injection, IsInjective, Surjection
<1>5. Cardinality(S) = Len(s)
  BY <1>4, FS_CountingElements DEF ExistsBijection
<1> QED  BY <1>5

-----------------------------------------------------------------------------
(* What the layouts are put together with.                                 *)

LEMMA Triple ==
  \A x, y, z : /\ <<x, y, z>> \in Seq(ToSet(<<x, y, z>>))
               /\ ToSet(<<x, y, z>>) = {x, y, z}
  BY DEF ToSet

LEMMA Appended ==
  \A S : \A s \in Seq(S), e \in S :
      /\ Append(s, e) \in Seq(S)
      /\ Len(Append(s, e)) = Len(s) + 1
      /\ \A k \in 1..Len(s) : Append(s, e)[k] = s[k]
      /\ Append(s, e)[Len(s) + 1] = e
  BY AppendProperties

LEMMA Concatenated ==
  \A S : \A s, t \in Seq(S) :
      /\ s \o t \in Seq(S)
      /\ Len(s \o t) = Len(s) + Len(t)
      /\ \A k \in 1..Len(s) : (s \o t)[k] = s[k]
      /\ \A k \in 1..Len(t) : (s \o t)[Len(s) + k] = t[k]
<1> SUFFICES ASSUME NEW S, NEW s \in Seq(S), NEW t \in Seq(S)
             PROVE  /\ s \o t \in Seq(S)
                    /\ Len(s \o t) = Len(s) + Len(t)
                    /\ \A k \in 1..Len(s) : (s \o t)[k] = s[k]
                    /\ \A k \in 1..Len(t) : (s \o t)[Len(s) + k] = t[k]
  OBVIOUS
<1>1. Len(s) \in Nat /\ Len(t) \in Nat
  OBVIOUS
<1> QED  BY <1>1, ConcatProperties

-----------------------------------------------------------------------------
(* The layouts.                                                            *)

(* The header and the body have no name in common, so the object that      *)
(* spreads one after the other has both, whatever the payload.             *)
LEMMA HeaderNames ==
  /\ "signatures" \in Names(headerLayout)
  /\ Names(headerLayout) \subseteq {"version", "guardianSet", "signatures"}
<1>1. Len(headerLayout) = 3 /\ DOMAIN headerLayout = 1..3
  BY DEF headerLayout
<1>2. /\ headerLayout[1].name = "version"
      /\ headerLayout[2].name = "guardianSet"
      /\ headerLayout[3].name = "signatures"
  BY DEF headerLayout, fixedTo, guardianSetItem, array, uint, item
<1>3. headerLayout[3].fixed = None
  BY DEF headerLayout, array, item
<1> QED  BY <1>1, <1>2, <1>3 DEF Names, Omitted

LEMMA BodyNames ==
  ASSUME NEW l
  PROVE  /\ Names(bodyLayout(l)) \subseteq
                {"timestamp", "nonce", "emitterChain", "emitterAddress", "sequence",
                 "consistencyLevel", "payload"}
         /\ "payload" \in Names(bodyLayout(l))
         /\ "payload" \notin Names(envelopeLayout)
<1> DEFINE Item == ToSet(envelopeLayout) \cup {descriptionToPayloadItem(l)}
<1>1. envelopeLayout \in Seq(Item) /\ Len(envelopeLayout) = 6
  BY DEF envelopeLayout, ToSet
<1>2. /\ DOMAIN bodyLayout(l) = 1..7
      /\ \A k \in 1..6 : bodyLayout(l)[k] = envelopeLayout[k]
      /\ bodyLayout(l)[7] = descriptionToPayloadItem(l)
  <2> HIDE DEF Item
  <2>1. descriptionToPayloadItem(l) \in Item
    BY DEF Item
  <2> DEFINE s == Append(envelopeLayout, descriptionToPayloadItem(l))
  <2>2. /\ s \in Seq(Item)
        /\ Len(s) = Len(envelopeLayout) + 1
        /\ \A k \in 1..Len(envelopeLayout) : s[k] = envelopeLayout[k]
        /\ s[Len(envelopeLayout) + 1] = descriptionToPayloadItem(l)
    BY ONLY <1>1, <2>1, Appended
  <2>3. bodyLayout(l) = s
    BY DEF bodyLayout
  <2> HIDE DEF s
  <2> QED  BY <1>1, <2>2, <2>3
<1>3. /\ envelopeLayout[1].name = "timestamp"
      /\ envelopeLayout[2].name = "nonce"
      /\ envelopeLayout[3].name = "emitterChain"
      /\ envelopeLayout[4].name = "emitterAddress"
      /\ envelopeLayout[5].name = "sequence"
      /\ envelopeLayout[6].name = "consistencyLevel"
  BY DEF envelopeLayout, anyChain, chainItem, universalAddressItem, sequenceItem, sizedBytes,
     bytes, uint, item
<1>4. descriptionToPayloadItem(l).name = "payload" /\ descriptionToPayloadItem(l).fixed = None
  BY DEF descriptionToPayloadItem, object, bytes, item
<1>5. DOMAIN envelopeLayout = 1..6
  BY <1>1
<1> HIDE DEF Item
<1> QED  BY <1>2, <1>3, <1>4, <1>5 DEF Names, Omitted

LEMMA NoNameInCommon ==
  ASSUME NEW l
  PROVE  Names(headerLayout) \cap Names(bodyLayout(l)) = {}
  BY HeaderNames, BodyNames

(* The layout serialize uses is the header's and then the body's.          *)
LEMMA HeaderThenBody ==
  ASSUME NEW l
  PROVE  vaaLayout(l) = headerLayout \o bodyLayout(l)
  BY DEF vaaLayout, headerLayout, bodyLayout, envelopeLayout

(* Of payloads put together, each list keeps its own.                      *)
LEMMA TogetherAll ==
  \A S : \A s, t \in Seq(S) : ToSet(s \o t) = ToSet(s) \cup ToSet(t)
<1> SUFFICES ASSUME NEW S, NEW s \in Seq(S), NEW t \in Seq(S)
             PROVE  ToSet(s \o t) = ToSet(s) \cup ToSet(t)
  OBVIOUS
<1> DEFINE u == s \o t
<1>1. /\ u \in Seq(S)
      /\ Len(u) = Len(s) + Len(t)
      /\ \A k \in 1..Len(s) : u[k] = s[k]
      /\ \A k \in 1..Len(t) : u[Len(s) + k] = t[k]
  BY ONLY s \in Seq(S), t \in Seq(S), Concatenated
<1>2. /\ DOMAIN s = 1..Len(s) /\ DOMAIN t = 1..Len(t) /\ DOMAIN u = 1..Len(u)
      /\ Len(s) \in Nat /\ Len(t) \in Nat
  BY <1>1
<1> HIDE DEF u
<1>3. \A k \in DOMAIN u : \/ \E i \in DOMAIN s : u[k] = s[i]
                          \/ \E i \in DOMAIN t : u[k] = t[i]
  <2> SUFFICES ASSUME NEW k \in DOMAIN u
               PROVE  \/ \E i \in DOMAIN s : u[k] = s[i]
                      \/ \E i \in DOMAIN t : u[k] = t[i]
    OBVIOUS
  <2>1. CASE k \in 1..Len(s)
    BY <1>1, <1>2, <2>1
  <2>2. CASE k \notin 1..Len(s)
    <3>1. k - Len(s) \in 1..Len(t) /\ Len(s) + (k - Len(s)) = k
      BY <1>1, <1>2, <2>2
    <3> QED  BY <1>1, <1>2, <3>1
  <2> QED  BY <2>1, <2>2
<1>4. /\ \A k \in DOMAIN s : k \in DOMAIN u /\ s[k] = u[k]
      /\ \A k \in DOMAIN t : Len(s) + k \in DOMAIN u /\ t[k] = u[Len(s) + k]
  BY <1>1, <1>2
<1>5. ToSet(u) = ToSet(s) \cup ToSet(t)
  BY <1>3, <1>4 DEF ToSet
<1> QED  BY <1>5 DEF u

LEMMA Registered ==
  /\ DOMAIN payloadFactory = {p.literal : p \in ToSet(tokenBridgePayloads)
                                             \cup ToSet(connectPayloads)
                                             \cup ToSet(relayerPayloads)
                                             \cup ToSet(bamPayloads)
                                             \cup ToSet(governancePayloads)}
  /\ \A l \in DOMAIN payloadFactory :
        payloadFactory[l] = (CHOOSE p \in ToSet(tokenBridgePayloads)
                                             \cup ToSet(connectPayloads)
                                             \cup ToSet(relayerPayloads)
                                             \cup ToSet(bamPayloads)
                                             \cup ToSet(governancePayloads) :
                                p.literal = l).layout
<1> DEFINE a == tokenBridgePayloads
           b == connectPayloads
           c == relayerPayloads
           d == bamPayloads
           e == governancePayloads
           S == ToSet(a) \cup ToSet(b) \cup ToSet(c) \cup ToSet(d) \cup ToSet(e)
           all == a \o b \o c \o d \o e
<1>1. a \in Seq(S)
  <2>1. a \in Seq(ToSet(a))
    BY Triple DEF tokenBridgePayloads
  <2> QED  BY <2>1
<1>2. b \in Seq(S)
  BY DEF connectPayloads, ToSet
<1>3. c \in Seq(S)
  <2>1. c \in Seq(ToSet(c))
    BY Triple DEF relayerPayloads
  <2> QED  BY <2>1
<1>4. d \in Seq(S)
  BY DEF bamPayloads, ToSet
<1>5. e \in Seq(S)
  BY DEF governancePayloads, ToSet
<1>6. ToSet(all) = S
  <2> HIDE DEF S, a, b, c, d, e
  <2>1. ASSUME NEW s \in Seq(S), NEW t \in Seq(S)
        PROVE  s \o t \in Seq(S) /\ ToSet(s \o t) = ToSet(s) \cup ToSet(t)
    BY ONLY <2>1, Concatenated, TogetherAll
  <2>2. a \o b \in Seq(S) /\ ToSet(a \o b) = ToSet(a) \cup ToSet(b)
    BY <1>1, <1>2, <2>1
  <2>3. a \o b \o c \in Seq(S) /\ ToSet(a \o b \o c) = ToSet(a \o b) \cup ToSet(c)
    BY <1>3, <2>1, <2>2
  <2>4. /\ a \o b \o c \o d \in Seq(S)
        /\ ToSet(a \o b \o c \o d) = ToSet(a \o b \o c) \cup ToSet(d)
    BY <1>4, <2>1, <2>3
  <2>5. ToSet(all) = ToSet(a \o b \o c \o d) \cup ToSet(e)
    BY <1>5, <2>1, <2>4
  <2> QED  BY <2>2, <2>3, <2>4, <2>5 DEF S
<1> HIDE DEF S, all
<1>7. /\ DOMAIN payloadFactory = {p.literal : p \in ToSet(all)}
      /\ \A l \in DOMAIN payloadFactory :
            payloadFactory[l] = (CHOOSE p \in ToSet(all) : p.literal = l).layout
  BY DEF payloadFactory, all, a, b, c, d, e
<1> QED  BY <1>6, <1>7 DEF S, a, b, c, d, e

(* Each literal the transfers read their VAAs under is registered once,    *)
(* with the payload id getTransferVaa knows it by; and no payload is       *)
(* registered under the name of a protocol.                                *)
LEMMA TransferPayloads ==
  /\ TransferLiterals \subseteq DOMAIN payloadFactory
  /\ payloadFactory["Transfer"][1] = payloadIdItem(1)
  /\ payloadFactory["TransferWithPayload"][1] = payloadIdItem(3)
  /\ payloadFactory["CircleTransferRelay"][1] = payloadIdItem(1)
  /\ Protocols \cap Literals = {}
<1> DEFINE a == ToSet(tokenBridgePayloads)
           b == ToSet(connectPayloads)
           others == ToSet(relayerPayloads) \cup ToSet(bamPayloads) \cup ToSet(governancePayloads)
           S == a \cup b \cup others
<1>1. /\ a = {tokenBridgePayloads[1], tokenBridgePayloads[2], tokenBridgePayloads[3]}
      /\ tokenBridgePayloads[1].literal = "AttestMeta"
      /\ tokenBridgePayloads[2].literal = "Transfer"
      /\ tokenBridgePayloads[2].layout[1] = payloadIdItem(1)
      /\ tokenBridgePayloads[3].literal = "TransferWithPayload"
      /\ tokenBridgePayloads[3].layout[1] = payloadIdItem(3)
  <2>1. a = {tokenBridgePayloads[1], tokenBridgePayloads[2], tokenBridgePayloads[3]}
    <3>1. \E x, y, z : tokenBridgePayloads = <<x, y, z>>
      BY Zenon DEF tokenBridgePayloads
    <3>2. PICK x, y, z : tokenBridgePayloads = <<x, y, z>>
      BY <3>1
    <3>3. a = {x, y, z}
      BY <3>2, Triple
    <3> QED  BY <3>2, <3>3
  <2>2. /\ tokenBridgePayloads[1].literal = "AttestMeta"
        /\ tokenBridgePayloads[2].literal = "Transfer"
        /\ tokenBridgePayloads[3].literal = "TransferWithPayload"
    BY DEF tokenBridgePayloads
  <2>3. tokenBridgePayloads[2].layout[1] = payloadIdItem(1)
    BY DEF tokenBridgePayloads, transferCommonLayout
  <2>4. tokenBridgePayloads[3].layout[1] = payloadIdItem(3)
    BY DEF tokenBridgePayloads, transferWithPayloadLayout, transferCommonLayout
  <2> QED  BY <2>1, <2>2, <2>3, <2>4
<1>2. /\ b = {connectPayloads[1]}
      /\ connectPayloads[1].literal = "CircleTransferRelay"
      /\ connectPayloads[1].layout[1] = payloadIdItem(1)
  BY DEF connectPayloads, circleTransferRelay, ToSet
<1>3. \A p \in others : p.literal \notin TransferLiterals \cup Protocols
  <2>1. \A p \in ToSet(relayerPayloads) : p.literal \notin TransferLiterals \cup Protocols
    BY DEF relayerPayloads, ToSet, TransferLiterals, Protocols
  <2>2. \A p \in ToSet(bamPayloads) : p.literal \notin TransferLiterals \cup Protocols
    BY DEF bamPayloads, ToSet, TransferLiterals, Protocols
  <2>3. \A p \in ToSet(governancePayloads) : p.literal \notin TransferLiterals \cup Protocols
    BY DEF governancePayloads, governancePayload, ToSet, TransferLiterals, Protocols
  <2> QED  BY <2>1, <2>2, <2>3
<1>4. /\ DOMAIN payloadFactory = {p.literal : p \in S}
      /\ \A l \in DOMAIN payloadFactory :
            payloadFactory[l] = (CHOOSE p \in S : p.literal = l).layout
  <2>1. S = a \cup b \cup ToSet(relayerPayloads) \cup ToSet(bamPayloads)
                \cup ToSet(governancePayloads)
    OBVIOUS
  <2> QED  BY <2>1, Registered
<1> HIDE DEF a, b, others
<1>5. /\ tokenBridgePayloads[2] \in S /\ tokenBridgePayloads[3] \in S
      /\ connectPayloads[1] \in S
      /\ \A p \in S : /\ p.literal = "Transfer" => p = tokenBridgePayloads[2]
                      /\ p.literal = "TransferWithPayload" => p = tokenBridgePayloads[3]
                      /\ p.literal = "CircleTransferRelay" => p = connectPayloads[1]
                      /\ p.literal \notin Protocols
  BY <1>1, <1>2, <1>3 DEF TransferLiterals, Protocols
<1> HIDE DEF S
<1>6. TransferLiterals \subseteq DOMAIN payloadFactory
  BY <1>1, <1>2, <1>4, <1>5 DEF TransferLiterals
<1>7. /\ (CHOOSE p \in S : p.literal = "Transfer") = tokenBridgePayloads[2]
      /\ (CHOOSE p \in S : p.literal = "TransferWithPayload") = tokenBridgePayloads[3]
      /\ (CHOOSE p \in S : p.literal = "CircleTransferRelay") = connectPayloads[1]
  BY <1>1, <1>2, <1>5
<1>8. Protocols \cap Literals = {}
  BY <1>4, <1>5 DEF Literals, Protocols
<1> QED  BY <1>1, <1>2, <1>4, <1>6, <1>7, <1>8 DEF TransferLiterals

-----------------------------------------------------------------------------
(* A VAA that was read.                                                    *)

(* deserialize gives the header and the body, read one after the other.    *)
LEMMA ReadInTwoParts ==
  ASSUME NEW l, NEW b, deserialize(l, b).ok
  PROVE  /\ Header(b).ok
         /\ Body(l, b).ok
         /\ Ascending(Header(b).value["signatures"])
         /\ deserialize(l, b).literal = l
         /\ deserialize(l, b).fields = Spread(Header(b).value, Body(l, b).value)
<1>1. ~Refused.ok
  BY DEF Refused
<1> QED  BY <1>1 DEF deserialize, Header, Body, VAA

(* A header's name keeps its value next to the body, and so does a body's. *)
LEMMA PartsKeepTheirValues ==
  ASSUME NEW b, ReadsByName(b), NEW l \in Literals, Header(b).ok, Body(l, b).ok
  PROVE  LET v == Spread(Header(b).value, Body(l, b).value)
         IN /\ \A n \in Names(headerLayout) : v[n] = Header(b).value[n]
            /\ \A n \in Names(bodyLayout(l)) : v[n] = Body(l, b).value[n]
<1>1. /\ DOMAIN Header(b).value = Names(headerLayout)
      /\ DOMAIN Body(l, b).value = Names(bodyLayout(l))
  BY DEF ReadsByName
<1> QED  BY <1>1, NoNameInCommon DEF Spread

(* It has every guardian at most once.                                     *)
LEMMA GuardiansOfARead ==
  ASSUME NEW b, ReadsByName(b), NEW l \in Literals, deserialize(l, b).ok
  PROVE  LET signatures == deserialize(l, b).fields["signatures"]
         IN Cardinality({signatures[k].guardianIndex : k \in DOMAIN signatures})
                = Len(signatures)
<1> DEFINE signatures == Header(b).value["signatures"]
<1>1. /\ Header(b).ok
      /\ Body(l, b).ok
      /\ Ascending(signatures)
      /\ deserialize(l, b).fields = Spread(Header(b).value, Body(l, b).value)
  BY ReadInTwoParts
<1>2. deserialize(l, b).fields["signatures"] = signatures
  BY <1>1, PartsKeepTheirValues, HeaderNames
<1>3. /\ Len(signatures) \in Nat
      /\ DOMAIN signatures = 1..Len(signatures)
      /\ \A k \in DOMAIN signatures : signatures[k].guardianIndex \in Nat
  BY <1>1 DEF ReadsByName
<1> HIDE DEF signatures
<1>4. Cardinality({signatures[k].guardianIndex : k \in DOMAIN signatures}) = Len(signatures)
  BY <1>1, <1>3, AscendingIndexesCount
<1> QED  BY <1>2, <1>4

(* It is serialized to the bytes it was read from: the two parts round     *)
(* trip, neither hides a name of the other, and they are written in turn.  *)
LEMMA BytesOfARead ==
  ASSUME NEW b \in Seq(Byte), ReadsByName(b), RoundTrips(b), SerializesItems(b),
         NEW l \in Literals, deserialize(l, b).ok
  PROVE  serialize(deserialize(l, b)) = Written(b)
<1> DEFINE n == Header(b).at
           v == Spread(Header(b).value, Body(l, b).value)
<1>1. Header(b).ok /\ Body(l, b).ok
  BY ReadInTwoParts
<1>2. serialize(deserialize(l, b)) = SerializeLayout(headerLayout \o bodyLayout(l), v)
  BY ReadInTwoParts, HeaderThenBody DEF serialize
<1>3. /\ n \in 0..Len(b)
      /\ SerializeLayout(headerLayout, Header(b).value) = Written(SubSeq(b, 1, n))
      /\ SerializeLayout(bodyLayout(l), Body(l, b).value) = Written(SubSeq(b, n + 1, Len(b)))
  BY <1>1 DEF RoundTrips
<1>4. /\ WritesByName(headerLayout, Header(b).value, v)
      /\ WritesByName(bodyLayout(l), Body(l, b).value, v)
      /\ WritesInTurn(headerLayout, bodyLayout(l), v)
  BY <1>1 DEF SerializesItems
<1>5. /\ \A k \in Names(headerLayout) : v[k] = Header(b).value[k]
      /\ \A k \in Names(bodyLayout(l)) : v[k] = Body(l, b).value[k]
  BY <1>1, PartsKeepTheirValues
<1> HIDE DEF v, n
<1>6. /\ SerializeLayout(headerLayout, v) = Written(SubSeq(b, 1, n))
      /\ SerializeLayout(bodyLayout(l), v) = Written(SubSeq(b, n + 1, Len(b)))
  BY <1>3, <1>4, <1>5 DEF WritesByName
<1>7. SerializeLayout(headerLayout \o bodyLayout(l), v)
         = Written(SubSeq(b, 1, n) \o SubSeq(b, n + 1, Len(b)))
  <2>1. \A w : Written(w).ok /\ Written(w).bytes = w
    BY DEF Written
  <2> QED  BY <1>4, <1>6, <2>1 DEF WritesInTurn
<1>8. SubSeq(b, 1, n) \o SubSeq(b, n + 1, Len(b)) = b
  <2>1. 1 \in 1..Len(b) + 1 /\ n \in 1 - 1..Len(b) /\ Len(b) \in n..Len(b)
    BY <1>3
  <2>2. SubSeq(b, 1, n) \o SubSeq(b, n + 1, Len(b)) = SubSeq(b, 1, Len(b))
    BY <2>1, ConcatAdjacentSubSeq
  <2> QED  BY <2>2, SubSeqFull
<1> QED  BY <1>2, <1>7, <1>8

(* A transfer reads its VAA under a literal that is registered.            *)
LEMMA ReadByATransfer ==
  ASSUME NEW p, NEW b, getTransferVaa(p, b).ok
  PROVE  \E l \in Literals : getTransferVaa(p, b) = deserialize(l, b)
<1> DEFINE id == deserialize("Uint8Array", b).fields["payload"][1]
<1>1. SerdeOf(p, id) # None /\ getTransferVaa(p, b) = deserialize(SerdeOf(p, id), b)
  <2>1. ~Refused.ok
    BY DEF Refused
  <2> QED  BY <2>1 DEF getTransferVaa
<1> HIDE DEF id
<1>2. SerdeOf(p, id) \in {"Transfer", "TransferWithPayload", "CircleTransferRelay"}
  BY <1>1 DEF SerdeOf
<1> QED  BY <1>1, <1>2, TransferPayloads DEF TransferLiterals, Literals

-----------------------------------------------------------------------------
(* A VAA that was signed.                                                  *)

(* Where one sequence ends the other begins.                               *)
LEMMA Behind ==
  ASSUME NEW S, NEW first \in Seq(S), NEW second \in Seq(S)
  PROVE  SubSeq(first \o second, Len(first) + 1, Len(first \o second)) = second
<1>1. Len(first \o second) = Len(first) + Len(second) /\ Len(first) \in Nat /\ Len(second) \in Nat
  OBVIOUS
<1>2. CASE second = <<>>
  <2>1. Len(first \o second) < Len(first) + 1
    BY <1>1, <1>2
  <2> QED  BY <1>1, <1>2, <2>1, SubSeqEmpty
<1>3. CASE second # <<>>
  <2>1. Len(second) > 0
    BY <1>3
  <2> DEFINE m == Len(first) + 1
             n == Len(first) + Len(second)
  <2>2. m \in Len(first) + 1 .. Len(first) + Len(second)
        /\ n \in Len(first) + 1 .. Len(first) + Len(second)
        /\ m - Len(first) = 1 /\ n - Len(first) = Len(second)
    BY <1>1, <2>1
  <2> HIDE DEF m, n
  <2>3. SubSeq(first \o second, m, n) = SubSeq(second, m - Len(first), n - Len(first))
    BY <2>2, SubSeqOfConcat2
  <2>4. SubSeq(second, 1, Len(second)) = second
    BY SubSeqFull
  <2> QED  BY <1>1, <2>2, <2>3, <2>4 DEF m, n
<1> QED  BY <1>2, <1>3

(* A header and a body that are each read back make a VAA that is read,    *)
(* with the hash of the body.                                              *)
LEMMA ReadBack ==
  ASSUME NEW l, NEW h \in Seq(Byte), NEW w \in Seq(Byte), NEW hv, NEW bv, NEW at,
         DeserializePart(headerLayout, h \o w, 0) = [ok |-> TRUE, value |-> hv, at |-> Len(h)],
         DeserializeLayout(bodyLayout(l), h \o w, Len(h)) = [ok |-> TRUE, value |-> bv, at |-> at],
         Ascending(hv["signatures"])
  PROVE  deserialize(l, h \o w) = VAA(l, Spread(hv, bv), keccak256(w))
<1>1. SubSeq(h \o w, Len(h) + 1, Len(h \o w)) = w
  BY Behind
<1> DEFINE b == h \o w
           header == DeserializePart(headerLayout, b, 0)
           body == DeserializeLayout(bodyLayout(l), b, header.at)
<1>2. header.ok /\ header.value = hv /\ header.at = Len(h)
  OBVIOUS
<1>3. body.ok /\ body.value = bv
  BY <1>2
<1>4. SubSeq(b, header.at + 1, Len(b)) = w
  BY <1>1, <1>2
<1>5. deserialize(l, b)
         = IF ~header.ok \/ ~Ascending(header.value["signatures"]) \/ ~body.ok THEN Refused
           ELSE VAA(l, Spread(header.value, body.value),
                    keccak256(SubSeq(b, header.at + 1, Len(b))))
  BY DEF deserialize
<1> HIDE DEF b, header, body
<1>6. deserialize(l, b) = VAA(l, Spread(hv, bv), keccak256(w))
  BY <1>2, <1>3, <1>4, <1>5
<1> QED  BY <1>6 DEF b

(* A VAA with another literal and another payload.                         *)
Relabel(v, by, payload) == [v EXCEPT !.literal = by, !.fields["payload"] = payload]

LEMMA Relabelled ==
  ASSUME NEW l, NEW fields, NEW hash, NEW by, NEW payload
  PROVE  Relabel(VAA(l, fields, hash), by, payload)
             = VAA(by, [fields EXCEPT !["payload"] = payload], hash)
<1>1. ASSUME NEW ok, NEW f
      PROVE  [[ok |-> ok, literal |-> l, fields |-> fields, hash |-> hash]
                 EXCEPT !.literal = by, !.fields = f]
             = [ok |-> ok, literal |-> by, fields |-> f, hash |-> hash]
  <2> DEFINE v == [ok |-> ok, literal |-> l, fields |-> fields, hash |-> hash]
             w == [ok |-> ok, literal |-> by, fields |-> fields, hash |-> hash]
  <2>1. [v EXCEPT !.literal = by] = w
    OBVIOUS
  <2>2. [w EXCEPT !.fields = f] = [ok |-> ok, literal |-> by, fields |-> f, hash |-> hash]
    OBVIOUS
  <2>3. [v EXCEPT !.literal = by, !.fields = f] = [[v EXCEPT !.literal = by] EXCEPT !.fields = f]
    OBVIOUS
  <2> QED  BY <2>1, <2>2, <2>3
<1>2. [VAA(l, fields, hash) EXCEPT !.literal = by, !.fields["payload"] = payload]
         = [VAA(l, fields, hash) EXCEPT !.literal = by,
                                        !.fields = [fields EXCEPT !["payload"] = payload]]
  BY DEF VAA
<1> QED  BY <1>1, <1>2 DEF VAA, Relabel

(* create and serialize write the header and then the body, which is what  *)
(* the hash was taken of.                                                  *)
LEMMA WrittenInParts ==
  ASSUME NEW s, WritesAndReads(s), create(s.literal, s.data).ok,
         serialize(create(s.literal, s.data)).ok
  PROVE  LET v == create(s.literal, s.data)
             header == SerializeLayout(headerLayout, HeaderOf(s))
             body == SerializeLayout(bodyLayout(s.literal), BodyOf(s))
         IN /\ header.ok /\ body.ok
            /\ v = VAA(s.literal, Spread(HeaderOf(s), BodyOf(s)), keccak256(body.bytes))
            /\ serialize(v).bytes = header.bytes \o body.bytes
<1> DEFINE v == create(s.literal, s.data)
           header == SerializeLayout(headerLayout, HeaderOf(s))
           body == SerializeLayout(bodyLayout(s.literal), BodyOf(s))
           fields == Spread(HeaderOf(s), BodyOf(s))
<1>1. body.ok /\ v = VAA(s.literal, fields, keccak256(body.bytes))
  <2>1. ~Refused.ok
    BY DEF Refused
  <2> QED  BY <2>1 DEF create, BodyOf, HeaderOf
<1>2. v.fields = fields /\ v.literal = s.literal
  BY <1>1 DEF VAA
<1>3. /\ DOMAIN HeaderOf(s) = Names(headerLayout)
      /\ DOMAIN BodyOf(s) = Names(bodyLayout(s.literal))
  BY DEF WritesAndReads, FillsUp, HeaderOf, BodyOf
<1>4. /\ \A n \in Names(headerLayout) : HeaderOf(s)[n] = fields[n]
      /\ \A n \in Names(bodyLayout(s.literal)) : BodyOf(s)[n] = fields[n]
  BY <1>3, NoNameInCommon DEF Spread
<1>5. /\ WritesByName(headerLayout, HeaderOf(s), v.fields)
      /\ WritesByName(bodyLayout(s.literal), BodyOf(s), v.fields)
      /\ WritesInTurn(headerLayout, bodyLayout(s.literal), v.fields)
      /\ WritesAllOrNothing(headerLayout, bodyLayout(s.literal), v.fields)
  BY DEF WritesAndReads, WritesParts
<1> HIDE DEF v, fields
<1>6. /\ SerializeLayout(headerLayout, fields) = header
      /\ SerializeLayout(bodyLayout(s.literal), fields) = body
  BY <1>2, <1>4, <1>5 DEF WritesByName
<1>7. serialize(v) = SerializeLayout(headerLayout \o bodyLayout(s.literal), fields)
  BY <1>2, HeaderThenBody DEF serialize
<1>8. serialize(v).ok
  BY DEF v
<1> HIDE DEF header, body
<1>9. header.ok
  BY <1>2, <1>5, <1>6, <1>7, <1>8 DEF WritesAllOrNothing
<1>10. serialize(v) = Written(header.bytes \o body.bytes)
  BY <1>1, <1>2, <1>5, <1>6, <1>7, <1>9 DEF WritesInTurn
<1>11. serialize(v).bytes = header.bytes \o body.bytes
  <2>1. \A w : Written(w).bytes = w
    BY DEF Written
  <2> QED  BY <1>10, <2>1
<1> QED  BY <1>1, <1>9, <1>11 DEF v, header, body, fields

(* With its payload as bytes the body is written as it is.                 *)
LEMMA BodyWithBytes ==
  ASSUME NEW s, WritesAndReads(s), create(s.literal, s.data).ok,
         SerializeLayout(bodyLayout(s.literal), BodyOf(s)).ok
  PROVE  LET raw == SerializeLayout(bodyLayout("Uint8Array"), RawBodyOf(s))
         IN /\ raw.ok
            /\ raw.bytes = SerializeLayout(bodyLayout(s.literal), BodyOf(s)).bytes
            /\ PayloadOf(s).ok
            /\ RawBodyOf(s)["payload"] = PayloadOf(s).bytes
<1> DEFINE envelope == SerializeLayout(envelopeLayout, BodyOf(s))
           payload == SerializeLayout(<<descriptionToPayloadItem(s.literal)>>, BodyOf(s))
           rawItem == SerializeLayout(<<bytes("payload")>>, RawBodyOf(s))
<1>1. \A l : bodyLayout(l) = envelopeLayout \o <<descriptionToPayloadItem(l)>>
  BY DEF bodyLayout, envelopeLayout
<1>2. descriptionToPayloadItem("Uint8Array") = bytes("payload")
  BY DEF descriptionToPayloadItem
<1>3. /\ WritesByName(envelopeLayout, BodyOf(s), RawBodyOf(s))
      /\ WritesInTurn(envelopeLayout, <<descriptionToPayloadItem(s.literal)>>, BodyOf(s))
      /\ WritesAllOrNothing(envelopeLayout, <<descriptionToPayloadItem(s.literal)>>, BodyOf(s))
      /\ WritesInTurn(envelopeLayout, <<bytes("payload")>>, RawBodyOf(s))
      /\ WritesPlainBytes("payload", RawBodyOf(s))
      /\ s.literal = "Uint8Array" => WritesPlainBytes("payload", BodyOf(s))
      /\ s.literal # "Uint8Array" => WritesObject("payload", payloadFactory[s.literal], BodyOf(s))
  BY DEF WritesAndReads, WritesParts
<1>4. /\ DOMAIN BodyOf(s) = Names(bodyLayout(s.literal))
      /\ RawBodyOf(s)["payload"] = PayloadOf(s).bytes
      /\ \A n \in Names(envelopeLayout) : BodyOf(s)[n] = RawBodyOf(s)[n]
  <2>1. DOMAIN BodyOf(s) = Names(bodyLayout(s.literal))
    BY DEF WritesAndReads, FillsUp, BodyOf
  <2> QED  BY <2>1, BodyNames DEF RawBodyOf
<1>5. SerializeLayout(envelopeLayout, RawBodyOf(s)) = envelope
  BY <1>3, <1>4 DEF WritesByName
<1>6. payload = PayloadOf(s)
  <2>1. CASE s.literal = "Uint8Array"
    BY <1>2, <1>3, <2>1 DEF WritesPlainBytes, PayloadOf, serializePayload, Written
  <2>2. CASE s.literal # "Uint8Array"
    BY <1>3, <2>2 DEF WritesObject, PayloadOf, serializePayload, descriptionToPayloadItem
  <2> QED  BY <2>1, <2>2
<1>7. rawItem = Written(PayloadOf(s).bytes)
  BY <1>3, <1>4 DEF WritesPlainBytes
<1> HIDE DEF envelope, payload, rawItem
<1>8. envelope.ok /\ payload.ok
  BY <1>1, <1>3 DEF WritesAllOrNothing, envelope, payload
<1>9. SerializeLayout(bodyLayout(s.literal), BodyOf(s)) = Written(envelope.bytes \o payload.bytes)
  BY <1>1, <1>3, <1>8 DEF WritesInTurn, envelope, payload
<1>10. SerializeLayout(bodyLayout("Uint8Array"), RawBodyOf(s))
           = Written(envelope.bytes \o PayloadOf(s).bytes)
  <2>1. rawItem.ok /\ rawItem.bytes = PayloadOf(s).bytes
    BY <1>7 DEF Written
  <2> QED  BY <1>1, <1>2, <1>3, <1>5, <1>8, <2>1 DEF WritesInTurn, rawItem
<1>11. \A w : Written(w).ok /\ Written(w).bytes = w
  BY DEF Written
<1> QED  BY <1>4, <1>6, <1>8, <1>9, <1>10, <1>11

(* The bytes of a signed VAA are read under its own literal as the VAA     *)
(* that was created, and under Uint8Array as that VAA with its payload as  *)
(* bytes.                                                                  *)
LEMMA SignedReadByName ==
  ASSUME NEW s, WritesAndReads(s), SignedInOrder(s), create(s.literal, s.data).ok,
         serialize(create(s.literal, s.data)).ok
  PROVE  LET v == create(s.literal, s.data)
             b == serialize(v).bytes
         IN /\ deserialize(s.literal, b) = v
            /\ deserialize("Uint8Array", b) = Relabel(v, "Uint8Array", PayloadOf(s).bytes)
            /\ Header(b).ok
            /\ Body("Uint8Array", b).ok
            /\ Body("Uint8Array", b).value["payload"] = PayloadOf(s).bytes
            /\ v.literal = s.literal
            /\ v.fields["payload"] = BodyOf(s)["payload"]
<1> DEFINE v == create(s.literal, s.data)
           h == SerializeLayout(headerLayout, HeaderOf(s)).bytes
           w == SerializeLayout(bodyLayout(s.literal), BodyOf(s)).bytes
           raw == SerializeLayout(bodyLayout("Uint8Array"), RawBodyOf(s)).bytes
           fields == Spread(HeaderOf(s), BodyOf(s))
<1>1. /\ SerializeLayout(headerLayout, HeaderOf(s)).ok
      /\ SerializeLayout(bodyLayout(s.literal), BodyOf(s)).ok
      /\ v = VAA(s.literal, fields, keccak256(w))
      /\ serialize(v).bytes = h \o w
  BY WrittenInParts
<1>2. /\ SerializeLayout(bodyLayout("Uint8Array"), RawBodyOf(s)).ok /\ raw = w
      /\ RawBodyOf(s)["payload"] = PayloadOf(s).bytes
  BY <1>1, BodyWithBytes
<1>3. /\ {h, w} \subseteq Seq(Byte)
      /\ ReadsBackBefore(w, headerLayout, HeaderOf(s))
      /\ ReadsBackAfter(h, bodyLayout(s.literal), BodyOf(s))
      /\ ReadsBackAfter(h, bodyLayout("Uint8Array"), RawBodyOf(s))
  BY <1>1 DEF WritesAndReads, ReadsParts
<1>4. /\ DeserializePart(headerLayout, h \o w, 0)
            = [ok |-> TRUE, value |-> HeaderOf(s), at |-> Len(h)]
      /\ DeserializeLayout(bodyLayout(s.literal), h \o w, Len(h))
            = [ok |-> TRUE, value |-> BodyOf(s), at |-> Len(h) + Len(w)]
      /\ DeserializeLayout(bodyLayout("Uint8Array"), h \o w, Len(h))
            = [ok |-> TRUE, value |-> RawBodyOf(s), at |-> Len(h) + Len(w)]
  BY <1>1, <1>2, <1>3 DEF ReadsBackBefore, ReadsBackAfter
<1>5. Ascending(HeaderOf(s)["signatures"])
  BY DEF SignedInOrder
<1> HIDE DEF h, w, raw, v
<1>6. deserialize(s.literal, h \o w) = v
  BY <1>1, <1>3, <1>4, <1>5, ReadBack
<1>7. deserialize("Uint8Array", h \o w)
          = VAA("Uint8Array", Spread(HeaderOf(s), RawBodyOf(s)), keccak256(w))
  BY <1>3, <1>4, <1>5, ReadBack
<1>8. /\ DOMAIN BodyOf(s) = Names(bodyLayout(s.literal))
      /\ "payload" \in DOMAIN BodyOf(s)
      /\ RawBodyOf(s) = [BodyOf(s) EXCEPT !["payload"] = PayloadOf(s).bytes]
  BY BodyNames DEF WritesAndReads, FillsUp, BodyOf, RawBodyOf
<1>9. /\ fields["payload"] = BodyOf(s)["payload"]
      /\ Spread(HeaderOf(s), RawBodyOf(s)) = [fields EXCEPT !["payload"] = PayloadOf(s).bytes]
  BY <1>8 DEF Spread
<1> HIDE DEF fields
<1>10. Relabel(v, "Uint8Array", PayloadOf(s).bytes)
          = VAA("Uint8Array", [fields EXCEPT !["payload"] = PayloadOf(s).bytes], keccak256(w))
  BY <1>1, Relabelled
<1>11. v.literal = s.literal /\ v.fields = fields
  BY <1>1 DEF VAA
<1>12. /\ Header(h \o w).ok /\ Header(h \o w).at = Len(h)
       /\ Body("Uint8Array", h \o w).ok
       /\ Body("Uint8Array", h \o w).value = RawBodyOf(s)
  <2>1. Header(h \o w) = [ok |-> TRUE, value |-> HeaderOf(s), at |-> Len(h)]
    BY <1>4 DEF Header
  <2>2. Body("Uint8Array", h \o w) = [ok |-> TRUE, value |-> RawBodyOf(s), at |-> Len(h) + Len(w)]
    BY <1>4, <2>1 DEF Body
  <2> QED  BY <2>1, <2>2
<1> QED  BY <1>1, <1>2, <1>6, <1>7, <1>9, <1>10, <1>11, <1>12 DEF v, fields

(* A transfer reads it if its payload is one of those it completes.        *)
LEMMA SignedReadByATransfer ==
  ASSUME NEW s, WritesAndReads(s), SignedInOrder(s),
         create(s.literal, s.data).ok, serialize(create(s.literal, s.data)).ok,
         ReadsPayloadAlone(serialize(create(s.literal, s.data)).bytes),
         NEW p \in Protocols
  PROVE  LET v == create(s.literal, s.data)
             serves == IF p = "TokenTransfer" THEN {"Transfer", "TransferWithPayload"}
                       ELSE {"CircleTransferRelay"}
         IN getTransferVaa(p, serialize(v).bytes) = IF s.literal \in serves THEN v ELSE Refused
<1> DEFINE v == create(s.literal, s.data)
           b == serialize(v).bytes
           payload == PayloadOf(s).bytes
           serves == IF p = "TokenTransfer" THEN {"Transfer", "TransferWithPayload"}
                     ELSE {"CircleTransferRelay"}
           l == SerdeOf(p, payload[1])
<1>1. /\ deserialize(s.literal, b) = v
      /\ Header(b).ok
      /\ Body("Uint8Array", b).ok
      /\ Body("Uint8Array", b).value["payload"] = payload
  BY SignedReadByName
<1>2. /\ deserialize("Uint8Array", b).ok
      /\ deserialize("Uint8Array", b).fields["payload"] = payload
  <2> DEFINE fields == Spread(HeaderOf(s), BodyOf(s))
             hash == v.hash
  <2>1. v = VAA(s.literal, fields, hash)
    <3>1. v = VAA(s.literal, fields,
                  keccak256(SerializeLayout(bodyLayout(s.literal), BodyOf(s)).bytes))
      BY WrittenInParts
    <3> HIDE DEF v, fields
    <3> QED  BY <3>1 DEF VAA, hash
  <2>2. "payload" \in DOMAIN fields
    BY BodyNames DEF WritesAndReads, FillsUp, BodyOf, Spread
  <2>3. deserialize("Uint8Array", b) = Relabel(v, "Uint8Array", payload)
    BY SignedReadByName
  <2> HIDE DEF v, b, fields, hash, payload
  <2>4. Relabel(v, "Uint8Array", payload)
            = VAA("Uint8Array", [fields EXCEPT !["payload"] = payload], hash)
    BY <2>1, Relabelled
  <2> QED  BY <2>2, <2>3, <2>4 DEF VAA
<1>3. getTransferVaa(p, b) = IF payload = <<>> THEN Refused
                             ELSE IF l = None THEN Refused ELSE deserialize(l, b)
  <2> HIDE DEF b, payload, l
  <2> QED  BY <1>2 DEF getTransferVaa, l
<1>4. l \in serves \cup {None}
  BY DEF SerdeOf, Protocols
<1>5. ASSUME s.literal \in serves PROVE payload # <<>> /\ l = s.literal /\ l # None
  <2>1. s.literal \in TransferLiterals /\ s.literal # "Uint8Array"
    BY <1>5 DEF TransferLiterals
  <2>2. WritesIdFirst(payloadFactory[s.literal], BodyOf(s)["payload"])
    BY <2>1 DEF WritesAndReads
  <2>3. PayloadOf(s) = SerializeLayout(payloadFactory[s.literal], BodyOf(s)["payload"])
    BY <2>1 DEF PayloadOf, serializePayload
  <2>4. PayloadOf(s).ok
    BY WrittenInParts, BodyWithBytes
  <2>5. \A id \in {1, 3} : payloadFactory[s.literal][1] = payloadIdItem(id)
                               => payload # <<>> /\ payload[1] = id
    BY <2>2, <2>3, <2>4 DEF WritesIdFirst
  <2>6. /\ s.literal \in {"Transfer", "CircleTransferRelay"} => payload # <<>> /\ payload[1] = 1
        /\ s.literal = "TransferWithPayload" => payload # <<>> /\ payload[1] = 3
    <3> HIDE DEF payload
    <3> QED  BY <2>5, TransferPayloads
  <2>7. l = s.literal
    <3> HIDE DEF payload
    <3> QED  BY <1>5, <2>6 DEF SerdeOf, Protocols
  <2> HIDE DEF l, payload
  <2>8. None \notin TransferLiterals
    BY VaaCodecAssumption
  <2> QED  BY <1>5, <2>1, <2>6, <2>7, <2>8
<1>6. ASSUME l \in serves, l # s.literal PROVE deserialize(l, b) = Refused
  <2>1. l \in TransferLiterals \ {s.literal}
    BY <1>6 DEF TransferLiterals
  <2> HIDE DEF l
  <2>2. ~DeserializeLayout(payloadFactory[l], payload, 0).ok
    BY <2>1 DEF SignedInOrder
  <2>3. ~Body(l, b).ok
    BY <1>1, <2>1, <2>2 DEF ReadsPayloadAlone
  <2> HIDE DEF b
  <2> QED  BY <2>3 DEF deserialize, Body, Header
<1> HIDE DEF v, b, payload, l
<1> SUFFICES getTransferVaa(p, b) = IF s.literal \in serves THEN v ELSE Refused
  BY DEF v, b
<1>7. CASE s.literal \in serves
  BY <1>1, <1>3, <1>5, <1>7
<1>8. CASE s.literal \notin serves
  BY <1>3, <1>4, <1>6, <1>8
<1> QED  BY <1>7, <1>8

-----------------------------------------------------------------------------
(* The way of a VAA.                                                       *)

(* The bytes that arrived are bytes.                                       *)
DataAreBytes == data # None => data \in Seq(Byte)

(* What was read was read from them, under a registered literal.           *)
ReadFromData ==
  got # None =>
    /\ data # None
    /\ got.result.ok => \E l \in Literals : got.result = deserialize(l, data)

(* What was sent is what was read, serialized.                             *)
SentIsSerialized ==
  sent # None => got # None /\ got.result.ok /\ sent = serialize(got.result)

IInv == DataAreBytes /\ ReadFromData /\ SentIsSerialized

LEMMA IInvInitially == Init => IInv
  BY DEF Init, IInv, DataAreBytes, ReadFromData, SentIsSerialized

LEMMA IInvIsKept ==
  ASSUME WritesBytes, IInv, [Next]_vars
  PROVE  IInv'
<1> USE DEF IInv, DataAreBytes, ReadFromData, SentIsSerialized
<1>1. ASSUME NEW s \in Signed, Sign(s) PROVE IInv'
  <2>1. data' \in Seq(Byte)
    BY <1>1 DEF Sign, WritesBytes
  <2>2. got = None /\ got' = None /\ sent' = None
    BY <1>1 DEF Sign
  <2> QED  BY <2>1, <2>2
<1>2. CASE Damage
  <2>1. data \in Seq(Byte) /\ got' = None /\ sent' = None
    BY <1>2 DEF Damage
  <2>2. data' \in Seq(Byte)
    <3>1. ASSUME NEW k \in DOMAIN data, NEW b \in Byte, data' = [data EXCEPT ![k] = b]
          PROVE  data' \in Seq(Byte)
      BY <2>1, <3>1
    <3>2. ASSUME data # <<>>, data' = Front(data) PROVE data' \in Seq(Byte)
      BY <2>1, <3>2 DEF Front
    <3>3. ASSUME NEW b \in Byte, data' = Append(data, b) PROVE data' \in Seq(Byte)
      BY <2>1, <3>3
    <3> QED  BY <1>2, <3>1, <3>2, <3>3 DEF Damage
  <2> QED  BY <2>1, <2>2
<1>3. ASSUME NEW l \in Literals, Read(l) PROVE IInv'
  <2>1. /\ data # None /\ data' = data /\ sent = None /\ sent' = None
        /\ got'.result = deserialize(l, data)
    BY <1>3 DEF Read
  <2> QED  BY <2>1
<1>4. ASSUME NEW p \in Protocols, Fetch(p) PROVE IInv'
  <2>1. /\ data # None /\ data' = data /\ sent = None /\ sent' = None
        /\ got'.result = getTransferVaa(p, data)
    BY <1>4 DEF Fetch
  <2> QED  BY <2>1, ReadByATransfer
<1>5. CASE Submit
  BY <1>5 DEF Submit
<1>6. ASSUME NEW f \in DOMAIN Families, Discriminate(f) PROVE IInv'
  BY <1>6 DEF Discriminate
<1>7. CASE UNCHANGED vars
  BY <1>7 DEF vars
<1> QED  BY <1>1, <1>2, <1>3, <1>4, <1>5, <1>6, <1>7 DEF Next

(* Whatever the payload, the bytes and the damage, what was read is        *)
(* serialized from the data that arrived: under WritesBytes, IInv holds.   *)
LEMMA CodecInvariant ==
  ASSUME WritesBytes
  PROVE  Spec => []IInv
<1>1. IInv /\ [Next]_vars => IInv'
  BY IInvIsKept
<1> QED  BY <1>1, IInvInitially, PTL DEF Spec

(* No guardian is counted twice in a VAA that was read, by whatever way    *)
(* and whatever became of its bytes (deserialize, vaa.ts).  Of the layout  *)
(* package only this is asked: it reads the fields of the layout it is     *)
(* given, the signatures as a list.                                        *)
THEOREM SignersAreDistinct ==
  ASSUME WritesBytes, \A b \in Seq(Byte) : ReadsByName(b)
  PROVE  Spec => []EachGuardianSignsOnce
<1>1. IInv => EachGuardianSignsOnce
  <2> SUFFICES ASSUME IInv, got # None, got.result.ok
               PROVE  LET signatures == got.result.fields["signatures"]
                      IN Cardinality({signatures[k].guardianIndex : k \in DOMAIN signatures})
                             = Len(signatures)
    BY DEF EachGuardianSignsOnce
  <2>1. data \in Seq(Byte)
    BY DEF IInv, DataAreBytes, ReadFromData
  <2>2. PICK l \in Literals : got.result = deserialize(l, data)
    BY DEF IInv, ReadFromData
  <2> QED  BY <2>1, <2>2, GuardiansOfARead
<1> QED  BY <1>1, CodecInvariant, PTL

(* What is submitted is byte for byte what came, damaged or not, and under *)
(* whichever literal it was read: if the header and every body, each by    *)
(* itself, is written as it was read, so is the VAA (serialize, vaa.ts).   *)
THEOREM SubmitsTheBytesThatCame ==
  ASSUME WritesBytes,
         \A b \in Seq(Byte) : ReadsByName(b) /\ RoundTrips(b) /\ SerializesItems(b)
  PROVE  Spec => []SubmitsWhatCame
<1>1. IInv => SubmitsWhatCame
  <2> SUFFICES ASSUME IInv, sent # None
               PROVE  sent = Written(data)
    BY DEF SubmitsWhatCame, Written
  <2>1. /\ data \in Seq(Byte) /\ got.result.ok /\ sent = serialize(got.result)
        /\ \E l \in Literals : got.result = deserialize(l, data)
    BY DEF IInv, DataAreBytes, ReadFromData, SentIsSerialized
  <2>2. PICK l \in Literals : got.result = deserialize(l, data)
    BY <2>1
  <2> QED  BY <2>1, <2>2, BytesOfARead
<1> QED  BY <1>1, CodecInvariant, PTL

(* The VAA and the data are those of one that was signed.                  *)
WasSigned(s) ==
  /\ vaa = create(s.literal, s.data)
  /\ vaa.ok
  /\ serialize(vaa).ok
  /\ data = serialize(vaa).bytes

(* Undamaged data are those of a signed VAA, and what was read was read    *)
(* from the data by the caller's literal or by a transfer.                 *)
SignedInv ==
  /\ damage \in Nat
  /\ data # None /\ damage = 0 => \E s \in Signed : WasSigned(s)
  /\ got # None =>
        /\ data # None
        /\ \/ got.by \in Literals /\ got.result = deserialize(got.by, data)
           \/ got.by \in Protocols /\ got.result = getTransferVaa(got.by, data)

LEMMA SignedInvHolds == Spec => []SignedInv
<1>1. Init => SignedInv
  BY DEF Init, SignedInv
<1>2. SignedInv /\ [Next]_vars => SignedInv'
  <2> SUFFICES ASSUME SignedInv, [Next]_vars PROVE SignedInv'
    OBVIOUS
  <2> USE DEF SignedInv
  <2>1. ASSUME NEW s \in Signed, Sign(s) PROVE SignedInv'
    <3>1. WasSigned(s)'
      BY <2>1 DEF Sign, WasSigned
    <3>2. got = None /\ got' = None /\ damage' = damage
      BY <2>1 DEF Sign
    <3> QED  BY <3>1, <3>2
  <2>2. CASE Damage
    <3>1. damage' = damage + 1 /\ got' = None
      BY <2>2 DEF Damage
    <3> QED  BY <3>1
  <2>3. ASSUME UNCHANGED <<vaa, data, damage>>,
               \/ got' = got
               \/ data # None /\ \E l \in Literals : got' = [by |-> l, result |-> deserialize(l, data)]
               \/ data # None /\ \E p \in Protocols : got' = [by |-> p, result |-> getTransferVaa(p, data)]
        PROVE  SignedInv'
    <3>1. data # None /\ damage = 0 => (\E s \in Signed : WasSigned(s))'
      BY <2>3 DEF WasSigned
    <3>2. got' # None =>
            /\ data # None
            /\ \/ got'.by \in Literals /\ got'.result = deserialize(got'.by, data)
               \/ got'.by \in Protocols /\ got'.result = getTransferVaa(got'.by, data)
      BY <2>3
    <3> QED  BY <2>3, <3>1, <3>2
  <2>4. ASSUME NEW l \in Literals, Read(l) PROVE SignedInv'
    BY <2>3, <2>4 DEF Read
  <2>5. ASSUME NEW p \in Protocols, Fetch(p) PROVE SignedInv'
    BY <2>3, <2>5 DEF Fetch
  <2>6. CASE Submit
    BY <2>3, <2>6 DEF Submit
  <2>7. ASSUME NEW f \in DOMAIN Families, Discriminate(f) PROVE SignedInv'
    BY <2>3, <2>7 DEF Discriminate
  <2>8. CASE UNCHANGED vars
    BY <2>3, <2>8 DEF vars
  <2> QED  BY <2>1, <2>2, <2>4, <2>5, <2>6, <2>7, <2>8 DEF Next
<1> QED  BY <1>1, <1>2, PTL DEF Spec

(* Bytes that arrive undamaged are read as the VAA that was created: under *)
(* its literal, as bytes, or by the transfer that completes its payload,   *)
(* and by no other transfer (deserialize and getTransferVaa).  Of the      *)
(* layout package it is asked that what is written for the header, and for *)
(* the body, is read back where the other stands next to it; of the        *)
(* guardians that they sign in order, and nothing that is by its bytes a   *)
(* transfer and is not one.  That the hash is the same, that the two parts *)
(* do not hide each other's fields, that a payload's first byte leads      *)
(* getTransferVaa to the literal it was created under, is proved.          *)
THEOREM SignedIsReadAsSigned ==
  ASSUME \A s \in Signed : WritesAndReads(s) /\ SignedInOrder(s),
         \A b \in Seq(Byte) : ReadsPayloadAlone(b)
  PROVE  Spec => []ReadsWhatWasSigned
<1>1. SignedInv => ReadsWhatWasSigned
  <2> SUFFICES ASSUME SignedInv, got # None, damage = 0,
                      got.by \in {vaa.literal, "Uint8Array"} \cup Protocols
               PROVE  got.result = ExpectedUnder(got.by)
    BY DEF ReadsWhatWasSigned
  <2>1. PICK s \in Signed : WasSigned(s)
    BY DEF SignedInv
  <2>2. /\ WritesAndReads(s) /\ SignedInOrder(s)
        /\ vaa = create(s.literal, s.data) /\ data = serialize(vaa).bytes
        /\ create(s.literal, s.data).ok /\ serialize(create(s.literal, s.data)).ok
    BY <2>1 DEF WasSigned
  <2>3. ReadsPayloadAlone(data)
    <3>1. data \in Seq(Byte)
      <4> DEFINE header == SerializeLayout(headerLayout, HeaderOf(s)).bytes
                 body == SerializeLayout(bodyLayout(s.literal), BodyOf(s)).bytes
      <4>1. header \in Seq(Byte) /\ body \in Seq(Byte) /\ data = header \o body
        BY <2>2, WrittenInParts DEF WritesAndReads, ReadsParts
      <4> HIDE DEF header, body
      <4> QED  BY <4>1
    <3> QED  BY <3>1
  <2>4. /\ deserialize(vaa.literal, data) = vaa
        /\ deserialize("Uint8Array", data) = Relabel(vaa, "Uint8Array", PayloadOf(s).bytes)
        /\ PayloadOf(s) = serializePayload(vaa.literal, vaa.fields["payload"])
        /\ vaa.literal = s.literal
    BY <2>2, SignedReadByName DEF PayloadOf
  <2>5. vaa.literal \notin Protocols /\ "Uint8Array" \notin Protocols
    BY <2>2, <2>4, TransferPayloads DEF SignedInOrder, Protocols
  <2>6. CASE got.by \in Protocols
    <3> DEFINE serves == IF got.by = "TokenTransfer" THEN {"Transfer", "TransferWithPayload"}
                         ELSE {"CircleTransferRelay"}
    <3>1. got.result = getTransferVaa(got.by, data)
      BY <2>6, TransferPayloads DEF SignedInv
    <3>2. got.result = IF vaa.literal \in serves THEN vaa ELSE Refused
      BY <2>2, <2>3, <2>4, <2>6, <3>1, SignedReadByATransfer
    <3>3. ExpectedUnder(got.by) = IF vaa.literal \in serves THEN vaa ELSE Refused
      BY <2>5, <2>6 DEF ExpectedUnder, Protocols
    <3> QED  BY <3>2, <3>3
  <2>7. CASE got.by \notin Protocols
    <3>1. got.result = deserialize(got.by, data)
      BY <2>7 DEF SignedInv
    <3>2. CASE got.by = vaa.literal
      <4>1. got.by # "Uint8Array" => ExpectedUnder(got.by) = vaa
        BY <2>7, <3>2 DEF ExpectedUnder, Protocols
      <4>2. got.by = "Uint8Array" => ExpectedUnder(got.by) = vaa
        <5> SUFFICES ASSUME got.by = "Uint8Array" PROVE ExpectedUnder("Uint8Array") = vaa
          OBVIOUS
        <5>1. Relabel(vaa, "Uint8Array", PayloadOf(s).bytes) = vaa
          BY <2>4, <3>2
        <5>2. [vaa EXCEPT !.literal = "Uint8Array",
                          !.fields["payload"] =
                              serializePayload(vaa.literal, vaa.fields["payload"]).bytes] = vaa
          BY <2>4, <5>1 DEF Relabel
        <5> QED  BY <3>2, <5>2 DEF ExpectedUnder
      <4> QED  BY <2>4, <3>1, <3>2, <4>1, <4>2
    <3>3. CASE got.by = "Uint8Array" /\ got.by # vaa.literal
      <4>1. ExpectedUnder("Uint8Array") = Relabel(vaa, "Uint8Array", PayloadOf(s).bytes)
        BY <2>4, <3>3 DEF ExpectedUnder, Relabel
      <4> QED  BY <2>4, <3>1, <3>3, <4>1
    <3> QED  BY <2>7, <3>2, <3>3
  <2> QED  BY <2>6, <2>7
<1> QED  BY <1>1, SignedInvHolds, PTL

=============================================================================
