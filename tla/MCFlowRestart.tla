---------------------------- MODULE MCFlowRestart ----------------------------
(* The flow table across restarts on small instances. *)
EXTENDS FlowRestart
=============================================================================
