----------------------------- MODULE MCFlowTable -----------------------------
(* The flow table on small instances. *)
EXTENDS FlowTable
=============================================================================
