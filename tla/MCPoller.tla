------------------------------ MODULE MCPoller ------------------------------
(* Poller for TLC, with the mistakes in retry() that its properties guard  *)
(* against.                                                                *)
EXTENDS Poller
=============================================================================
