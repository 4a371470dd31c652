---------------------------- MODULE LayoutItems ----------------------------
(***************************************************************************)
(* Layouts: the descriptions from which the SDK serializes and reads every *)
(* VAA and payload (core/base/src/utils/layout/layout.ts).                 *)
(*                                                                         *)
(* A layout is a sequence of items.  An item is a record with its name,    *)
(* its binary kind and what the kind needs: a size, the size of a length   *)
(* field, a fixed value, a conversion, a layout of its own.  A field that  *)
(* an item does not have holds None.  The object a layout describes is a   *)
(* function from the names of its items to their values.                   *)
(*                                                                         *)
(* A byte has Base values: 256 in the program, fewer in a run.  Throwing   *)
(* is Refused, and whoever is handed Refused throws on.  A bytes item with *)
(* a fixed value has its fixed.from as a sequence; both forms of a fixed   *)
(* item, the bare value and the pair (to, from), are the record            *)
(* [from, to, omit, bare], bare telling them apart.  A conversion is a     *)
(* pair of functions: a value outside their domain makes it throw.         *)
(***************************************************************************)
EXTENDS Integers, Sequences

CONSTANTS
    Base,       \* how many values a byte has
    None        \* a field an item does not have

ASSUME BaseAssumption == Base \in Nat \ {0, 1}

Byte == 0 .. Base - 1

Refused == [ok |-> FALSE]

\* What follows a read or a write, unless it was refused.
Then(r, More(_)) == IF r.ok THEN More(r) ELSE Refused

Written(b) == [ok |-> TRUE, bytes |-> b]

--------------------------------------------------------------------------
\* The kinds of items (layout.ts).

item(n, kind) ==
    [name |-> n, binary |-> kind, size |-> None, lengthSize |-> None,
     fixed |-> None, custom |-> None, layout |-> None]

uint(n, s) == [item(n, "uint") EXCEPT !.size = s]
bytes(n) == item(n, "bytes")
sizedBytes(n, s) == [bytes(n) EXCEPT !.size = s]
prefixedBytes(n, l) == [bytes(n) EXCEPT !.lengthSize = l]
array(n, l, sub) == [item(n, "array") EXCEPT !.lengthSize = l, !.layout = sub]
object(n, sub) == [item(n, "object") EXCEPT !.layout = sub]

\* custom: value, with omit or without; custom: {to, from}.
fixedTo(i, value, omit) ==
    [i EXCEPT !.fixed = [from |-> value, to |-> value, omit |-> omit, bare |-> TRUE]]
fixedPair(i, from, to) ==
    [i EXCEPT !.fixed = [from |-> from, to |-> to, omit |-> FALSE, bare |-> FALSE]]

Omitted(i) == i.fixed # None /\ i.fixed.omit

\* The names an object of the layout has.
Names(layout) == {layout[k].name : k \in {k \in DOMAIN layout : ~Omitted(layout[k])}}
=============================================================================
