---------------------------- MODULE Discriminator ----------------------------
(***************************************************************************)
(* Telling from the bytes which of several layouts they may conform to     *)
(* (core/base/src/utils/layout/discriminate.ts).                           *)
(*                                                                         *)
(* The program works on bit sets of layout indexes and on maps from sizes  *)
(* to bit sets; here a bit set is a set, and a map that is only asked for  *)
(* the entry at or below a number is the set that entry stands for.        *)
(* Indexes of layouts start at 1 and byte positions at 0.                  *)
(***************************************************************************)
EXTENDS Layout, FiniteSetsExt

CONSTANT Infinity       \* an upper bound that no size reaches

ASSUME InfinityAssumption == Infinity \in Nat

--------------------------------------------------------------------------
\* What is known of a layout: the bounds of its size, and its fixed bytes.

Plus(a, b) == IF a = Infinity \/ b = Infinity THEN Infinity ELSE a + b

\* createLayoutMeta and layoutItemMeta.  fixed gathers the pairs (offset, bytes)
\* in the order they are met.  The offset of an item after the first is counted
\* from the start of its own layout, wherever that layout itself begins.
RECURSIVE createLayoutMeta(_, _, _)
createLayoutMeta(layout, start, fixedBytes) ==
    LET knownFixed(m, b) ==
            [lower |-> Len(b), upper |-> Len(b),
             fixed |-> IF m.offset = Infinity THEN m.fixed
                       ELSE m.fixed \o <<[at |-> m.offset, bytes |-> b]>>]
        sized(m, n) == [lower |-> n, upper |-> n, fixed |-> m.fixed]
        unbounded(m, i) == [lower |-> IF i.lengthSize = None THEN 0 ELSE i.lengthSize,
                            upper |-> Infinity, fixed |-> m.fixed]
        layoutItemMeta(m, i) ==
            CASE i.binary = "object" -> createLayoutMeta(i.layout, m.offset, m.fixed)
              [] i.binary = "array" -> unbounded(m, i)
              [] i.binary = "bytes" /\ i.size # None -> sized(m, i.size)
              [] i.binary = "bytes" /\ i.size = None /\ i.fixed # None ->
                     knownFixed(m, i.fixed.from)
              [] i.binary = "bytes" /\ i.size = None /\ i.fixed = None -> unbounded(m, i)
              [] i.binary = "uint" /\ i.fixed # None /\ i.fixed.bare ->
                     knownFixed(m, serializeUint(i.fixed.from, i.size).bytes)
              [] OTHER -> sized(m, i.size)
        Add(m, i) ==
            LET meta == layoutItemMeta(m, i)
                lower == Plus(m.lower, meta.lower)
                upper == Plus(m.upper, meta.upper)
            IN [lower |-> lower, upper |-> upper, fixed |-> meta.fixed,
                offset |-> IF lower = upper THEN lower ELSE Infinity]
    IN FoldLeft(Add, [lower |-> 0, upper |-> 0, fixed |-> fixedBytes, offset |-> start], layout)

metas(layouts) == [i \in DOMAIN layouts |-> createLayoutMeta(layouts[i], 0, <<>>)]

\* Mutant of layoutsWithByteAt: it takes in those that end just before the byte.
layoutsWithByteAtOrEnd(meta, pos) == {i \in DOMAIN meta : meta[i].lower >= pos}

\* layoutsWithByteAt: those so long that they must have a byte there.
layoutsWithByteAt(meta, pos) == {i \in DOMAIN meta : meta[i].lower > pos}

\* buildAscendingBounds and layoutsWithSize: those that may have that size.
layoutsWithSize(meta, size) == {i \in DOMAIN meta : meta[i].lower <= size /\ size <= meta[i].upper}

\* fixedKnownBytes: at each position the pairs (value, layout) of the fixed bytes
\* recorded there.  The array ends where the last entry of some layout ends, and an
\* entry that goes further makes the generator throw.
EntryEnd(entry) == entry.at + Len(entry.bytes)

knownLength(meta) ==
    Max({0} \cup {EntryEnd(meta[i].fixed[Len(meta[i].fixed)]) :
                     i \in {j \in DOMAIN meta : meta[j].fixed # <<>>}})

Overruns(meta) ==
    \E i \in DOMAIN meta : \E k \in DOMAIN meta[i].fixed :
        EntryEnd(meta[i].fixed[k]) > knownLength(meta)

fixedKnownByte(meta, pos) ==
    LET Here(entry) == entry.at <= pos /\ pos < EntryEnd(entry)
        Of(i) == LET here == SelectSeq(meta[i].fixed, Here)
                 IN [k \in DOMAIN here |-> <<here[k].bytes[pos - here[k].at + 1], i>>]
    IN FoldLeft(LAMBDA pairs, i : pairs \o Of(i), <<>>, [i \in DOMAIN meta |-> i])

--------------------------------------------------------------------------
\* A byte as a discriminator: where it is, the layouts that may be too short to have
\* it, the layouts that fix each value it may have, the others, and its power.

SymmetricDifference(A, B) == (A \ B) \cup (B \ A)

byteAt(meta, pos) ==
    LET known == fixedKnownByte(meta, pos)
        all == DOMAIN meta
        lwba == layoutsWithByteAt(meta, pos)
        values == FoldLeft(LAMBDA vs, p : IF p[1] \in ToSet(vs) THEN vs ELSE vs \o <<p[1]>>,
                           <<>>, known)
        With(v) == {i \in all : \E k \in DOMAIN known : known[k] = <<v, i>>}
    IN [pos |-> pos, outOfBounds |-> all \ lwba,
        anyValue |-> SymmetricDifference(lwba, {known[k][2] : k \in DOMAIN known}),
        distinct |-> [k \in DOMAIN values |-> [value |-> values[k], layouts |-> With(values[k])]],
        power |-> Min({Cardinality(lwba)}
                      \cup {Len(known) - Cardinality(With(v)) + Cardinality(all \ lwba) :
                               v \in ToSet(values)})]

\* What is left of it among some candidates.
narrowed(b, candidates) ==
    LET kept == [k \in DOMAIN b.distinct |->
                    [b.distinct[k] EXCEPT !.layouts = @ \cap candidates]]
        distinct == SelectSeq(kept, LAMBDA d : d.layouts # {})
        known == FoldLeft(LAMBDA n, d : n + Cardinality(d.layouts), 0, distinct)
        out == b.outOfBounds \cap candidates
    IN [pos |-> b.pos, outOfBounds |-> out, anyValue |-> b.anyValue \cap candidates,
        distinct |-> distinct,
        power |-> IF distinct = <<>> THEN 0
                  ELSE Min({b.power} \cup {known - Cardinality(d.layouts) + Cardinality(out) :
                                              d \in ToSet(distinct)})]

\* The sort by descending power is stable.
ByPower(best, top) ==
    FoldLeft(LAMBDA sorted, p : sorted \o SelectSeq(best, LAMBDA b : b.power = p),
             <<>>, [k \in 1 .. top + 1 |-> top + 1 - k])

--------------------------------------------------------------------------
\* generateLayoutDiscriminator.

\* recursivelyBuildStrategy.  The strategy that is added first is kept apart and is
\* not among those found by their candidates.
addStrategy(acc, candidates, strategy) ==
    IF acc.first = None
    THEN [acc EXCEPT !.first = strategy]
    ELSE [acc EXCEPT !.strategies = @ \o <<[candidates |-> candidates, strategy |-> strategy]>>]

ByByte(b) == [by |-> "byte", pos |-> b.pos, outOfBounds |-> b.outOfBounds, distinct |-> b.distinct]
BySize == [by |-> "size"]
Indistinguishable == [by |-> "indistinguishable"]

HasStrategy(acc, candidates) ==
    \E k \in DOMAIN acc.strategies : acc.strategies[k].candidates = candidates

RECURSIVE recursivelyBuildStrategy(_, _, _, _)
recursivelyBuildStrategy(meta, candidates, bestBytes, acc) ==
    LET perfect == Cardinality(candidates) - 1
        Overlap(i) == layoutsWithSize(meta, meta[i].lower) \cap candidates
        sizePower == Cardinality(candidates) - Max({0} \cup {Cardinality(Overlap(i)) : i \in candidates})
        all == [k \in DOMAIN bestBytes |-> narrowed(bestBytes[k], candidates)]
        useful == SelectSeq(all, LAMBDA b : b.power # 0)
        perfectBytes == SelectSeq(useful, LAMBDA b : b.power = perfect)
        best == ByPower(useful, Len(meta))
        lowers == FoldLeft(LAMBDA ls, i : IF i \notin candidates \/ meta[i].lower \in ToSet(ls)
                                          THEN ls ELSE ls \o <<meta[i].lower>>,
                           <<>>, [i \in DOMAIN meta |-> i])
        byByte == addStrategy(acc, candidates, ByByte(best[1]))
        short == recursivelyBuildStrategy(meta, best[1].outOfBounds, best, byByte)
        bySize == addStrategy(acc, candidates, BySize)
    IN IF Cardinality(candidates) <= 1 \/ HasStrategy(acc, candidates) THEN acc
       ELSE IF perfectBytes # <<>> THEN addStrategy(acc, candidates, ByByte(perfectBytes[1]))
       ELSE IF sizePower = perfect THEN bySize
       ELSE IF best # <<>> /\ best[1].power >= sizePower
            THEN FoldLeft(LAMBDA a, d : recursivelyBuildStrategy(
                                            meta, d.layouts \cup best[1].anyValue, Tail(best), a),
                          short, best[1].distinct)
       ELSE IF sizePower > 0
            THEN FoldLeft(LAMBDA a, low : recursivelyBuildStrategy(
                                            meta, layoutsWithSize(meta, low) \cap candidates, best, a),
                          bySize, lowers)
       ELSE [addStrategy(acc, candidates, Indistinguishable) EXCEPT !.distinguishable = FALSE]

generateLayoutDiscriminator(layouts) ==
    LET meta == metas(layouts)
        perfect == Len(layouts) - 1
        sizePower == Len(layouts) - Max({Cardinality(layoutsWithSize(meta, meta[i].lower)) :
                                            i \in DOMAIN meta})
        all == [k \in 1..knownLength(meta) |-> byteAt(meta, k - 1)]
        useful == SelectSeq(all, LAMBDA b : b.power # 0)
        perfectBytes == SelectSeq(useful, LAMBDA b : b.power = perfect)
        built == recursivelyBuildStrategy(meta, DOMAIN layouts, ByPower(useful, Len(layouts)),
                     [first |-> None, strategies |-> <<>>, distinguishable |-> TRUE])
    IN IF Overruns(meta) THEN [kind |-> "throws"]
       ELSE IF perfectBytes # <<>>
            THEN [kind |-> "byte", byte |-> perfectBytes[1], distinguishable |-> TRUE]
       ELSE IF sizePower = perfect
            THEN [kind |-> "size", meta |-> meta, distinguishable |-> TRUE]
       ELSE [kind |-> "strategies", meta |-> meta, first |-> built.first,
             strategies |-> built.strategies, distinguishable |-> built.distinguishable]

--------------------------------------------------------------------------
\* The function that was generated.

Valued(b, v) == UNION {d.layouts : d \in {e \in ToSet(b.distinct) : e.value = v}}

\* One strategy applied to the candidates that are left.
Applied(meta, strategy, candidates, encoded) ==
    IF strategy.by = "size" THEN candidates \cap layoutsWithSize(meta, Len(encoded))
    ELSE IF Len(encoded) <= strategy.pos THEN candidates \cap strategy.outOfBounds
    ELSE (candidates \ UNION {d.layouts : d \in {e \in ToSet(strategy.distinct) :
                                                    e.value # encoded[strategy.pos + 1]}})
         \ strategy.outOfBounds

\* The strategy for the candidates, or findSmallestSuperSetStrategy, which looks at
\* sizes below the number of layouts less two and throws when it finds none.
StrategyFor(g, candidates) ==
    LET own == SelectSeq(g.strategies, LAMBDA s : s.candidates = candidates)
        larger == SelectSeq(g.strategies, LAMBDA s : /\ candidates \subseteq s.candidates
                                                     /\ candidates # s.candidates
                                                     /\ Cardinality(s.candidates) < Len(g.meta) - 2)
        least == Min({Cardinality(s.candidates) : s \in ToSet(larger)})
    IN IF own # <<>> THEN own[1].strategy
       ELSE IF larger = <<>> THEN None
       ELSE SelectSeq(larger, LAMBDA s : Cardinality(s.candidates) = least)[1].strategy

RECURSIVE Follow(_, _, _, _)
Follow(g, strategy, candidates, encoded) ==
    LET left == Applied(g.meta, strategy, candidates, encoded)
    IN IF strategy = None THEN Refused
       ELSE IF strategy.by = "indistinguishable" THEN [ok |-> TRUE, layouts |-> candidates]
       ELSE IF Cardinality(left) <= 1 THEN [ok |-> TRUE, layouts |-> left]
       ELSE Follow(g, StrategyFor(g, left), left, encoded)

discriminator(g, encoded) ==
    CASE g.kind = "throws" -> Refused
      [] g.kind = "byte" ->
             [ok |-> TRUE, layouts |-> IF Len(encoded) <= g.byte.pos THEN g.byte.outOfBounds
                                       ELSE Valued(g.byte, encoded[g.byte.pos + 1])]
      [] g.kind = "size" -> [ok |-> TRUE, layouts |-> layoutsWithSize(g.meta, Len(encoded))]
      [] g.kind = "strategies" -> Follow(g, g.first, DOMAIN g.meta, encoded)

\* layoutDiscriminator without allowAmbiguous: it throws for layouts that cannot be told
\* apart, and otherwise answers with one index, or with None for null.
layoutDiscriminator(g, encoded) ==
    LET found == discriminator(g, encoded)
    IN IF g.kind = "throws" THEN Refused
       ELSE IF ~g.distinguishable \/ ~found.ok THEN Refused
       ELSE [ok |-> TRUE, index |-> IF found.layouts = {} THEN None ELSE Min(found.layouts)]
=============================================================================
