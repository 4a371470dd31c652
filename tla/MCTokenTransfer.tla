-------------------------- MODULE MCTokenTransfer --------------------------
(* TokenTransfer for TLC: the calls are model values, and the bound on     *)
(* attempts, the modes, tokens and allowances are set in the cfg files.    *)
EXTENDS TokenTransfer
=============================================================================
