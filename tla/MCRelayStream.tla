---------------------------- MODULE MCRelayStream ----------------------------
(* A small instance of RelayStream for TLC.                                *)
EXTENDS RelayStream, TLC
=============================================================================
