--------------------------- MODULE EvidenceClaims ---------------------------
(***************************************************************************)
(* What the repository's comments say of the evidence of a domain and the  *)
(* code does not do.                                                       *)
(***************************************************************************)
EXTENDS DomainEvidence

\* fence_worker: "Invalidate worker-owned live domain measurements": a domain is
\* marked for revalidation only when its own evidence was withdrawn.  The flag
\* any_invalidated outlives the domain that set it.
OnlyHoldersMarked ==
    [][\A d \in DOMAIN dom \cap DOMAIN dom' :
          fenced' # fenced /\ dom'[d].state # dom[d].state
            => d \in awaiting']_evidenceVars
=============================================================================
