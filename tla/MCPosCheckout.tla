---------------------------- MODULE MCPosCheckout ----------------------------
(* Instances of PosCheckout for TLC.                                       *)
EXTENDS PosCheckout, TLC

=============================================================================
