-------------------------- MODULE MCEvidenceRestart --------------------------
(* The evidence of congestion domains across restarts, on small instances. *)
EXTENDS EvidenceRestart
=============================================================================
