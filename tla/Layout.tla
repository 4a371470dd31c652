------------------------------- MODULE Layout -------------------------------
(***************************************************************************)
(* Serialization and deserialization by layout                             *)
(* (core/base/src/utils/layout).  Throwing is Refused, and whoever is      *)
(* handed Refused throws on.                                               *)
(***************************************************************************)
EXTENDS LayoutItems, SequencesExt

--------------------------------------------------------------------------
\* Numbers, big endian.

\* serializeUint: a value that its bytes cannot hold is refused.
serializeUint(v, size) ==
    IF v \notin 0 .. Base^size - 1
    THEN Refused
    ELSE [ok |-> TRUE, bytes |-> [k \in 1..size |-> (v \div Base^(size - k)) % Base]]

\* deserializeUint and updateOffset: a read past the end of the data is refused.
deserializeUint(data, offset, size) ==
    IF offset + size > Len(data)
    THEN Refused
    ELSE [ok |-> TRUE, at |-> offset + size,
          value |-> FoldLeft(LAMBDA v, b : v * Base + b, 0,
                             SubSeq(data, offset + 1, offset + size))]

--------------------------------------------------------------------------
\* calcLayoutSize: the size of the buffer that is written.

RECURSIVE calcLayoutSize(_, _)
calcLayoutSize(layout, data) ==
    LET length(i) == IF i.lengthSize = None THEN 0 ELSE i.lengthSize
        Custom(i, v) == IF i.custom = None THEN v ELSE i.custom.from[v]
        SizeOf(i) ==
            CASE i.binary = "object" -> calcLayoutSize(i.layout, data[i.name])
              [] i.binary = "array" ->
                     FoldLeft(LAMBDA n, e : n + calcLayoutSize(i.layout, e),
                              length(i), data[i.name])
              [] i.binary = "bytes" /\ i.fixed # None -> Len(i.fixed.from)
              [] i.binary = "bytes" /\ i.fixed = None /\ i.size # None -> i.size
              [] i.binary = "bytes" /\ i.fixed = None /\ i.size = None ->
                     length(i) + Len(Custom(i, data[i.name]))
              [] i.binary = "uint" -> i.size
    IN FoldLeft(LAMBDA n, i : n + SizeOf(i), 0, layout)

--------------------------------------------------------------------------
\* serializeLayoutItem, whose writes are what it appends to the bytes so far.

AndThen(first, second) ==
    Then(first, LAMBDA w : Then(second, LAMBDA v : Written(w.bytes \o v.bytes)))

\* The value an item writes for v: a bare fixed value must be the one the data
\* has, unless it is omitted there; of a pair nothing is compared.
Encoded(i, v) ==
    CASE i.fixed # None ->
             IF i.fixed.bare /\ ~i.fixed.omit /\ v # i.fixed.from
             THEN Refused
             ELSE [ok |-> TRUE, value |-> i.fixed.from]
      [] i.fixed = None /\ i.custom # None ->
             IF v \in DOMAIN i.custom.from
             THEN [ok |-> TRUE, value |-> i.custom.from[v]]
             ELSE Refused
      [] OTHER -> [ok |-> TRUE, value |-> v]

serializeBytes(i, v) ==
    IF i.fixed = None /\ i.size # None /\ Len(v) # i.size THEN Refused
    ELSE IF i.fixed = None /\ i.size = None /\ i.lengthSize # None
         THEN AndThen(serializeUint(Len(v), i.lengthSize), Written(v))
         ELSE Written(v)

RECURSIVE serializeItems(_, _)
serializeItems(layout, data) ==
    LET Datum(i) == IF Omitted(i) THEN None ELSE data[i.name]
        Leaf(i, Out(_)) == Then(Encoded(i, Datum(i)), LAMBDA e : Out(e.value))
        Item(i) ==
            CASE i.binary = "object" -> serializeItems(i.layout, data[i.name])
              [] i.binary = "array" ->
                     FoldLeft(LAMBDA w, e : AndThen(w, serializeItems(i.layout, e)),
                              IF i.lengthSize = None THEN Written(<<>>)
                              ELSE serializeUint(Len(data[i.name]), i.lengthSize),
                              data[i.name])
              [] i.binary = "bytes" -> Leaf(i, LAMBDA v : serializeBytes(i, v))
              [] i.binary = "uint" -> Leaf(i, LAMBDA v : serializeUint(v, i.size))
    IN FoldLeft(LAMBDA w, i : AndThen(w, Item(i)), Written(<<>>), layout)

\* serializeLayout: the items are written to a buffer of the calculated size.
serializeLayout(layout, data) ==
    LET Buffered(b, size) ==
            IF Len(b) > size THEN Refused
            ELSE Written([k \in 1..size |-> IF k <= Len(b) THEN b[k] ELSE 0])
    IN Then(serializeItems(layout, data),
            LAMBDA w : Buffered(w.bytes, calcLayoutSize(layout, data)))

--------------------------------------------------------------------------
\* deserializeLayoutItem and internalDeserializeLayout: what is read from an
\* offset on, and the offset after it.

Value(v, at) == [ok |-> TRUE, value |-> v, at |-> at]

\* The value an item has for the raw value it read.
Decoded(i, raw, at) ==
    CASE i.fixed # None -> IF raw = i.fixed.from THEN Value(i.fixed.to, at) ELSE Refused
      [] i.fixed = None /\ i.custom # None ->
             IF raw \in DOMAIN i.custom.to THEN Value(i.custom.to[raw], at) ELSE Refused
      [] OTHER -> Value(raw, at)

\* Where the bytes of a bytes item begin and end.
Extent(i, data, offset) ==
    LET Upto(from, n) ==
            IF from + n > Len(data) THEN Refused ELSE [ok |-> TRUE, from |-> from, to |-> from + n]
    IN CASE i.fixed # None -> Upto(offset, Len(i.fixed.from))
         [] i.fixed = None /\ i.size # None -> Upto(offset, i.size)
         [] i.fixed = None /\ i.size = None /\ i.lengthSize # None ->
                Then(deserializeUint(data, offset, i.lengthSize),
                     LAMBDA length : Upto(length.at, length.value))
         [] OTHER -> [ok |-> TRUE, from |-> offset, to |-> Len(data)]

RECURSIVE internalDeserializeLayout(_, _, _), deserializeMany(_, _, _, _)
\* length elements, or as many as there are until the data end.
deserializeMany(layout, data, offset, length) ==
    IF IF length = None THEN offset >= Len(data) ELSE length = 0
    THEN Value(<<>>, offset)
    ELSE Then(internalDeserializeLayout(layout, data, offset),
              LAMBDA first :
                  Then(deserializeMany(layout, data, first.at,
                                       IF length = None THEN None ELSE length - 1),
                       LAMBDA rest : Value(<<first.value>> \o rest.value, rest.at)))

internalDeserializeLayout(layout, data, offset) ==
    LET Item(i, at) ==
            CASE i.binary = "object" -> internalDeserializeLayout(i.layout, data, at)
              [] i.binary = "array" /\ i.lengthSize = None ->
                     deserializeMany(i.layout, data, at, None)
              [] i.binary = "array" /\ i.lengthSize # None ->
                     Then(deserializeUint(data, at, i.lengthSize),
                          LAMBDA length : deserializeMany(i.layout, data, length.at, length.value))
              [] i.binary = "bytes" ->
                     Then(Extent(i, data, at),
                          LAMBDA e : Decoded(i, SubSeq(data, e.from + 1, e.to), e.to))
              [] i.binary = "uint" ->
                     Then(deserializeUint(data, at, i.size),
                          LAMBDA number : Decoded(i, number.value, number.at))
        With(value, i, got) ==
            Value(IF Omitted(i) THEN value ELSE (i.name :> got.value) @@ value, got.at)
        Read(r, i) ==
            Then(r, LAMBDA s : Then(Item(i, s.at), LAMBDA got : With(s.value, i, got)))
    IN FoldLeft(Read, Value([n \in {} |-> None], offset), layout)

\* deserializeLayout with consumeAll: nothing may be left over.
deserializeLayout(layout, data, offset) ==
    Then(internalDeserializeLayout(layout, data, offset),
         LAMBDA r : IF r.at = Len(data) THEN r ELSE Refused)

--------------------------------------------------------------------------
\* addFixedValues: the object with the fixed values its caller need not give.

RECURSIVE addFixedValues(_, _)
addFixedValues(layout, values) ==
    LET kept == {k \in DOMAIN layout : ~Omitted(layout[k])}
        Item(i) ==
            CASE i.binary = "object" ->
                     addFixedValues(i.layout, IF i.name \in DOMAIN values THEN values[i.name]
                                              ELSE [n \in {} |-> None])
              [] i.binary = "array" ->
                     IF i.name \in DOMAIN values
                     THEN [k \in DOMAIN values[i.name] |->
                              addFixedValues(i.layout, values[i.name][k])]
                     ELSE <<>>
              [] i.binary \in {"bytes", "uint"} ->
                     IF i.fixed # None THEN i.fixed.to ELSE values[i.name]
    IN [n \in Names(layout) |->
           Item(layout[CHOOSE k \in kept : layout[k].name = n])]
=============================================================================
