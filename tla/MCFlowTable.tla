----------------------------- MODULE MCFlowTable -----------------------------
(* Small instances of FlowTable for TLC.                                   *)
EXTENDS FlowTable, TLC
=============================================================================
