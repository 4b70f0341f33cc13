---------------------------- MODULE RestartClaims ----------------------------
(***************************************************************************)
(* What the repository's comments say of restarts and the code does not    *)
(* do.                                                                     *)
(***************************************************************************)
EXTENDS MCFlowRestart

\* engine.hpp, of EngineLimits: "Bounded resource limits enforced before any
\* externally supplied count causes unbounded allocation."  For max_active_flows:
\* there are never more flows that have not ended than that.  load brings flows
\* back and does not count them.
LiveFlowsBounded ==
    Cardinality({i \in DOMAIN flows : ~IsTerminal(i)}) <= MaxActiveFlows

=============================================================================
