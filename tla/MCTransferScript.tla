-------------------------- MODULE MCTransferScript -------------------------
(* TransferScript for TLC: one call at a time.                             *)
EXTENDS TransferScript
=============================================================================
