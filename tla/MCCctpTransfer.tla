--------------------------- MODULE MCCctpTransfer ---------------------------
(* CctpTransfer for TLC: the calls are model values, and the bound on      *)
(* attempts, the modes and allowances are set in the cfg files.            *)
EXTENDS CctpTransfer
=============================================================================
