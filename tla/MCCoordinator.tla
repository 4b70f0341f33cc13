---------------------------- MODULE MCCoordinator ----------------------------
(* The coordinator on small instances. *)
EXTENDS Coordinator
=============================================================================
