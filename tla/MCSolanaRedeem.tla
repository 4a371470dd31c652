--------------------------- MODULE MCSolanaRedeem ---------------------------
(***************************************************************************)
(* SolanaRedeem for TLC.  A scalar has two digits here.  MCVaas: the VAA   *)
(* of a single guardian, one with a bare quorum of nineteen, one that all  *)
(* nineteen have signed, and one of a token that is Solana's own.          *)
(* MCShortVaas: two in which a signature begins with a zero.               *)
(***************************************************************************)
EXTENDS SolanaRedeem

Whole == <<10, 3>>
Short == <<0, 7>>

Signed(guardians, count, short) ==
    [native |-> FALSE,
     guardians |-> guardians,
     signatures |-> [j \in 1..count |-> IF j \in short THEN Short ELSE Whole]]

MCVaas ==
    {Signed(1, 1, {}), Signed(19, 13, {}), Signed(19, 19, {}),
     [Signed(1, 1, {}) EXCEPT !.native = TRUE]}

MCShortVaas == {Signed(1, 1, {1}), Signed(19, 13, {9})}
=============================================================================
