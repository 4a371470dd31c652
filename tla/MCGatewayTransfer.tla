-------------------------- MODULE MCGatewayTransfer -------------------------
(* GatewayTransfer for TLC: the calls are model values, the routes,        *)
(* allowances and bounds are set in the cfg file.                          *)
EXTENDS GatewayTransfer
=============================================================================
