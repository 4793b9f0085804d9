----------------------------- MODULE MCFlowRelay -----------------------------
(* A small instance of FlowRelay for TLC.                                  *)
EXTENDS FlowRelay, TLC
=============================================================================
