--------------------------- MODULE FlowTableProofs ---------------------------
(***************************************************************************)
(* What holds of the flow table for every number of workers, domains and   *)
(* flows, every limit and every counter width.                             *)
(***************************************************************************)
EXTENDS FlowTable, TLAPS

-----------------------------------------------------------------------------
(* Type correctness.                                                       *)

\* The fields of a flow, and what an update of one field keeps.
LEMMA FlowFields ==
  ASSUME NEW f \in Flow
  PROVE  /\ f.generation \in Generations /\ f.owner_worker \in Workers
         /\ f.owner_boot \in Boots /\ f.source \in Sources /\ f.source_boot \in Boots
         /\ f.domain \in 1..MaxDomainId /\ f.state \in FlowStates
         /\ f.submitted \in U64 /\ f.admitted \in U64 /\ f.in_flight \in U64
         /\ f.completed \in U64 /\ f.failed \in U64 /\ f.cancelled \in U64
BY Zenon DEF Flow

\* Replacing a flow by a flow keeps the table well formed.
LEMMA ReplaceFlowType ==
  ASSUME FlowTypeOK, NEW id \in DOMAIN flows, NEW f \in Flow, ReplaceFlow(id, f),
         UNCHANGED members, active_flows' \in Nat
  PROVE  FlowTypeOK'
BY Zenon DEF FlowTypeOK, ReplaceFlow

\* So does marking flows, as fencing and recovery do.
LEMMA MarkLiveType ==
  ASSUME FlowTypeOK, NEW ids, NEW s \in FlowStates
  PROVE  MarkLive(ids, s) \in [1..(next_flow - 1) -> Flow]
BY SMTT(30) DEF FlowTypeOK, MarkLive, Flow

\* The empty table is well formed.
LEMMA TypeInit == FlowInit => FlowTypeOK
BY WidthAssumption, LimitsAssumption DEF FlowInit, FlowTypeOK, U64

\* Operations on workers keep the type.
LEMMA WorkerTypeStep ==
  ASSUME FlowTypeOK, NEW w \in Workers, NEW b \in Boots,
         RegisterWorker(w, b) \/ FenceWorker(w, b)
  PROVE  FlowTypeOK'
<1>1. worker_boot' \in [Workers -> U64]
  BY WidthAssumption
  DEF FlowTypeOK, RegisterWorker, FenceWorker, NextGeneration, U64, Boots
<1>2. CASE RegisterWorker(w, b)
  BY <1>1, <1>2, Zenon DEF FlowTypeOK, RegisterWorker
<1>3. CASE FenceWorker(w, b)
  <2>1. "STALE" \in FlowStates
    BY Zenon DEF FlowStates, StaleOrSuperseded
  <2>2. flows' \in [1..(next_flow - 1) -> Flow]
    BY <1>3, <2>1, MarkLiveType, Zenon DEF FenceWorker
  <2> QED
    BY <1>1, <1>3, <2>2 DEF FlowTypeOK, FenceWorker
<1> QED
  BY <1>2, <1>3, Zenon

\* Operations on sources keep the type.
LEMMA SourceTypeStep ==
  ASSUME FlowTypeOK, NEW s \in Sources, NEW b \in Boots,
         RegisterSource(s, b) \/ FenceSource(s, b)
  PROVE  FlowTypeOK'
<1>1. source_boot' \in [Sources -> U64]
  BY WidthAssumption
  DEF FlowTypeOK, RegisterSource, FenceSource, NextGeneration, U64, Boots
<1>2. CASE RegisterSource(s, b)
  BY <1>1, <1>2, Zenon DEF FlowTypeOK, RegisterSource
<1>3. CASE FenceSource(s, b)
  <2>1. "STALE" \in FlowStates
    BY DEF FlowStates, StaleOrSuperseded
  <2>2. flows' \in [1..(next_flow - 1) -> Flow]
    BY <1>3, <2>1, MarkLiveType, Zenon DEF FenceSource
  <2> QED
    BY <1>1, <1>3, <2>2 DEF FlowTypeOK, FenceSource
<1> QED
  BY <1>2, <1>3

\* Operations on domains keep the type.
LEMMA DomainTypeStep ==
  ASSUME FlowTypeOK, CreateDomain \/ \E d \in 1..MaxDomainId : RemoveDomain(d)
  PROVE  FlowTypeOK'
<1>1. CASE CreateDomain
  <2>1. /\ next_domain' \in 1..(MaxDomainId + 1)
        /\ DOMAIN members' \subseteq 1..(next_domain' - 1)
    BY <1>1, LimitsAssumption, SMTT(30) DEF FlowTypeOK, CreateDomain
  <2>2. members' \in [DOMAIN members' -> Seq(FlowRef)]
    BY <1>1 DEF FlowTypeOK, CreateDomain
  <2> QED
    BY <1>1, <2>1, <2>2, Zenon DEF FlowTypeOK, CreateDomain
<1>2. CASE \E d \in 1..MaxDomainId : RemoveDomain(d)
  BY <1>2, Zenon DEF FlowTypeOK, RemoveDomain
<1> QED
  BY <1>1, <1>2, Zenon

\* A declared flow is well formed.
LEMMA DeclareTypeStep ==
  ASSUME FlowTypeOK, NEW w \in Workers, NEW s \in Sources, NEW wb \in Boots,
         NEW sb \in Boots, NEW d \in 1..MaxDomainId, NEW n \in ByteAmounts,
         DeclareFlow(w, wb, s, sb, d, n)
  PROVE  FlowTypeOK'
<1>1. next_flow' \in 1..(MaxFlowId + 1) /\ next_flow \in 1..(next_flow' - 1)
  BY LimitsAssumption, SMTT(30) DEF FlowTypeOK, DeclareFlow
<1>2. DOMAIN flows \cup {next_flow} = 1..(next_flow' - 1)
  <2>1. next_flow \in Nat \ {0} /\ next_flow' = next_flow + 1
    BY LimitsAssumption, SMTT(30) DEF FlowTypeOK, DeclareFlow
  <2>2. DOMAIN flows = 1..(next_flow - 1)
    BY Zenon DEF FlowTypeOK
  <2>3. \A k \in Nat \ {0} : (1..(k - 1)) \cup {k} = 1..((k + 1) - 1)
    OBVIOUS
  <2> QED
    BY <2>1, <2>2, <2>3, Zenon
<1>3. flows'[next_flow] \in Flow
  <2>1. 1 \in Generations /\ 0 \in U64 /\ n \in U64 /\ "DECLARED" \in FlowStates
    BY WidthAssumption, LimitsAssumption DEF FlowStates, U64, Generations
  <2>2. next_flow \in DOMAIN flows \cup {next_flow}
    OBVIOUS
  <2> QED
    BY <2>1, <2>2, Zenon DEF DeclareFlow, Flow
<1>4. flows' \in [1..(next_flow' - 1) -> Flow]
  BY <1>2, <1>3, Zenon DEF FlowTypeOK, DeclareFlow
<1> QED
  BY SMTT(20), <1>1, <1>4 DEF FlowTypeOK, DeclareFlow

\* Each operation on one flow replaces it by a flow.
LEMMA FlowOpTypeStep ==
  ASSUME FlowTypeOK, NEW ref \in FlowRef, NEW b \in Boots, NEW n \in U64,
         \/ QueueFlow(ref) \/ StartFlow(ref, b) \/ FlowComplete(ref, b)
         \/ FlowFail(ref, b) \/ RevalidateFlow(ref, b)
         \/ FlowProgress(ref, b, n) \/ FlowCancel(ref, b, n)
  PROVE  FlowTypeOK'
<1> DEFINE f == flows[ref.id]
<1>1. ref.id \in DOMAIN flows
  BY Zenon DEF QueueFlow, StartFlow, FlowComplete, FlowFail, RevalidateFlow, FlowProgress,
         FlowCancel, Resolves
<1>2. f \in Flow
  BY <1>1, Zenon DEF FlowTypeOK
<1>3. /\ f.admitted \in U64 /\ f.in_flight \in U64 /\ f.completed \in U64
      /\ f.failed \in U64 /\ f.cancelled \in U64 /\ Remaining(f) \in U64 /\ n \in U64
  BY <1>2, FlowFields, WidthAssumption DEF Remaining, WrapSub, U64
<1>4. active_flows \in Nat /\ Decremented \in Nat
  BY DEF FlowTypeOK, Decremented
<1>5. CASE QueueFlow(ref) \/ RevalidateFlow(ref, b)
  <2>1. \A s \in FlowStates : [f EXCEPT !.state = s] \in Flow
    BY <1>2, Zenon DEF Flow
  <2>2. "QUEUED" \in FlowStates /\ "REVALIDATION_REQUIRED" \in FlowStates
    BY Zenon DEF FlowStates, CanProgress
  <2> QED
    BY <1>1, <1>4, <1>5, <2>1, <2>2, ReplaceFlowType, Zenon DEF QueueFlow, RevalidateFlow
<1>6. CASE StartFlow(ref, b)
  <2> DEFINE x == IF AddFits(f.in_flight, f.admitted) THEN f.in_flight + f.admitted
                                                      ELSE f.in_flight
             g == [f EXCEPT !.state = "ACTIVE", !.in_flight = x]
  <2>1. x \in U64 /\ "ACTIVE" \in FlowStates
    BY <1>3, WidthAssumption DEF AddFits, U64, FlowStates, CanProgress
  <2>2. g \in Flow
    BY <1>2, <2>1, Zenon DEF Flow
  <2> QED
    BY <1>1, <1>4, <1>6, <2>2, ReplaceFlowType, Zenon DEF StartFlow
<1>7. CASE FlowProgress(ref, b, n)
  <2> DEFINE x == f.in_flight - SmallerOf(n, f.in_flight)
             g == [f EXCEPT !.completed = f.completed + n, !.in_flight = x]
  <2>1. x \in U64 /\ f.completed + n \in U64
    BY <1>3, <1>7, WidthAssumption DEF FlowProgress, AddFits, U64, SmallerOf
  <2>2. g \in Flow
    BY <1>2, <2>1, Zenon DEF Flow
  <2> QED
    BY <1>1, <1>4, <1>7, <2>2, ReplaceFlowType, Zenon DEF FlowProgress
<1>8. CASE FlowComplete(ref, b)
  <2> DEFINE x == f.completed + Remaining(f)
             g == [f EXCEPT !.completed = x, !.in_flight = 0, !.state = "COMPLETED"]
  <2>1. x \in U64 /\ 0 \in U64 /\ "COMPLETED" \in FlowStates
    BY <1>3, <1>8, WidthAssumption DEF FlowComplete, AddFits, U64, FlowStates, Terminal
  <2>2. g \in Flow
    BY <1>2, <2>1, Zenon DEF Flow
  <2> QED
    BY <1>1, <1>4, <1>8, <2>2, ReplaceFlowType, Zenon DEF FlowComplete
<1>9. CASE FlowFail(ref, b)
  <2> DEFINE x == f.failed + Remaining(f)
             g == [f EXCEPT !.failed = x, !.in_flight = 0, !.state = "FAILED"]
  <2>1. x \in U64 /\ 0 \in U64 /\ "FAILED" \in FlowStates
    BY <1>3, <1>9, WidthAssumption DEF FlowFail, AddFits, U64, FlowStates, Terminal
  <2>2. g \in Flow
    BY <1>2, <2>1, Zenon DEF Flow
  <2> QED
    BY <1>1, <1>4, <1>9, <2>2, ReplaceFlowType, Zenon DEF FlowFail
<1>10. CASE FlowCancel(ref, b, n)
  <2> DEFINE canc == SmallerOf(n, Remaining(f))
             ok   == WrapAdd(f.completed, f.cancelled + canc) <= f.admitted
             x    == IF ok THEN 0 ELSE f.in_flight
             s    == IF ok THEN "CANCELLED" ELSE f.state
             g    == [f EXCEPT !.cancelled = f.cancelled + canc, !.in_flight = x,
                               !.state = s]
  <2>1. f.cancelled + canc \in U64
    BY <1>3, <1>10, WidthAssumption DEF FlowCancel, AddFits, U64, SmallerOf
  <2>2. x \in U64 /\ s \in FlowStates
    BY <1>2, <1>3, WidthAssumption, FlowFields DEF U64, FlowStates, Terminal
  <2>3. g \in Flow
    BY <1>2, <2>1, <2>2, Zenon DEF Flow
  <2>4. ReplaceFlow(ref.id, g) /\ UNCHANGED members /\ active_flows' \in Nat
    BY <1>4, <1>10, Zenon DEF FlowCancel
  <2> QED
    BY <1>1, <2>3, <2>4, ReplaceFlowType, Zenon
<1> QED
  BY <1>5, <1>6, <1>7, <1>8, <1>9, <1>10, Zenon

\* Admission appends a reference to the list of an existing domain.
LEMMA AdmitTypeStep ==
  ASSUME FlowTypeOK, NEW ref \in FlowRef, AdmitFlow(ref)
  PROVE  FlowTypeOK'
<1> DEFINE f == flows[ref.id]
           sum == f.admitted + f.submitted
           s == IF sum <= f.submitted THEN "ADMITTED" ELSE f.state
           g == [f EXCEPT !.admitted = sum, !.state = s]
<1>1. ref.id \in DOMAIN flows /\ f \in Flow
  BY Zenon DEF AdmitFlow, Resolves, FlowTypeOK
<1>2. sum \in U64 /\ s \in FlowStates
  BY SMTT(20), <1>1, FlowFields, WidthAssumption DEF AdmitFlow, AddFits, U64, FlowStates
<1>3. g \in Flow
  BY <1>1, <1>2, Zenon DEF Flow
<1>4. flows' = [flows EXCEPT ![ref.id] = g]
  BY Zenon DEF AdmitFlow, ReplaceFlow
<1>5. flows' \in [1..(next_flow - 1) -> Flow]
  BY <1>3, <1>4, Zenon DEF FlowTypeOK
<1>6. DOMAIN members' = DOMAIN members /\ members' \in [DOMAIN members -> Seq(FlowRef)]
  BY DEF AdmitFlow, FlowTypeOK
<1> QED
  BY <1>5, <1>6, Zenon DEF AdmitFlow, ReplaceFlow, FlowTypeOK

\* A generation advance keeps the type.
LEMMA AdvanceTypeStep ==
  ASSUME FlowTypeOK, NEW id \in 1..MaxFlowId, NEW g \in Generations,
         AdvanceFlowGeneration(id, g)
  PROVE  FlowTypeOK'
<1> DEFINE f == flows[id]
           s == IF f.state = "STALE" THEN "REVALIDATION_REQUIRED" ELSE f.state
           h == [f EXCEPT !.generation = g, !.state = s]
<1>1. id \in DOMAIN flows /\ f \in Flow
  BY Zenon DEF AdvanceFlowGeneration, FlowTypeOK
<1>2. s \in FlowStates
  BY <1>1, FlowFields, Zenon DEF FlowStates
<1>3. h \in Flow
  BY <1>1, <1>2, Zenon DEF Flow
<1>4. active_flows' \in Nat
  BY Zenon DEF AdvanceFlowGeneration, FlowTypeOK
<1> QED
  BY <1>1, <1>3, <1>4, ReplaceFlowType, Zenon DEF AdvanceFlowGeneration

\* Every step of the flow table preserves its type.
LEMMA TypeStep == FlowTypeOK /\ [FlowNext]_flowVars => FlowTypeOK'
<1> SUFFICES ASSUME FlowTypeOK, [FlowNext]_flowVars PROVE FlowTypeOK'
  OBVIOUS
<1>1. CASE RecoverFlows
  <2>1. flows' \in [1..(next_flow - 1) -> Flow]
    BY <1>1, MarkLiveType, Zenon DEF RecoverFlows, FlowStates
  <2> QED
    BY <1>1, <2>1, Zenon DEF RecoverFlows, FlowTypeOK
<1>2. CASE UNCHANGED flowVars
  BY <1>2, Zenon DEF flowVars, FlowTypeOK
<1>3. ASSUME NEW ref \in FlowRef, NEW b \in Boots,
             \/ QueueFlow(ref) \/ StartFlow(ref, b) \/ FlowComplete(ref, b)
             \/ FlowFail(ref, b) \/ RevalidateFlow(ref, b)
      PROVE  FlowTypeOK'
  <2>1. 0 \in U64
    BY WidthAssumption DEF U64
  <2> QED
    BY <1>3, <2>1, FlowOpTypeStep, Zenon
<1>4. ASSUME NEW ref \in FlowRef, NEW b \in Boots, NEW n \in ByteAmounts,
             FlowProgress(ref, b, n) \/ FlowCancel(ref, b, n)
      PROVE  FlowTypeOK'
  <2>1. n \in U64
    BY LimitsAssumption, Zenon
  <2> QED
    BY <1>4, <2>1, FlowOpTypeStep, Zenon
<1>5. ASSUME NEW ref \in FlowRef, QueueFlow(ref) PROVE FlowTypeOK'
  <2>1. 1 \in Boots
    BY WidthAssumption DEF Boots
  <2> QED
    BY <1>3, <1>5, <2>1, Zenon
<1> QED
  BY <1>1, <1>2, <1>3, <1>4, <1>5, WorkerTypeStep, SourceTypeStep, DomainTypeStep, DeclareTypeStep,
     AdmitTypeStep, AdvanceTypeStep, Zenon DEF FlowNext

\* The flow table is well formed in every reachable state: the ids it hands out
\* are consecutive, boots and generations stay in range, and no 64-bit counter
\* of a flow leaves its range in spite of the unchecked additions.
THEOREM FlowTypeCorrect == FlowSpec => []FlowTypeOK
<1>1. FlowInit => FlowTypeOK
  BY TypeInit, Zenon
<1>2. FlowTypeOK /\ [FlowNext]_flowVars => FlowTypeOK'
  BY TypeStep, Zenon
<1> QED
  BY <1>1, <1>2, PTL DEF FlowSpec

-----------------------------------------------------------------------------
(* Byte accounting.                                                        *)

\* The states that some operation puts a flow in; no code enters the others.
ReachedStates ==
    {"DECLARED", "ADMITTED", "QUEUED", "ACTIVE", "COMPLETED", "CANCELLED", "FAILED",
     "STALE", "REVALIDATION_REQUIRED"}

\* AccountingSound of one flow, strengthened by what ties the counters to the
\* state: nothing is admitted before admission, and only a cancelled (failed)
\* flow has cancelled (failed) bytes.  With it the checks that the handlers make
\* after an addition never refuse one, and remaining never wraps around.
LedgerOK(f) ==
    /\ f.state \in ReachedStates
    /\ f.state = "DECLARED" => f.admitted = 0
    /\ f.state # "CANCELLED" => f.cancelled = 0
    /\ f.state # "FAILED" => f.failed = 0
    /\ f.completed + f.cancelled <= f.admitted
    /\ f.completed + f.failed <= f.admitted
    /\ f.in_flight <= f.admitted
    /\ f.admitted <= f.submitted
    /\ f.state \in {"DECLARED", "ADMITTED", "QUEUED", "COMPLETED", "CANCELLED", "FAILED"}
         => f.in_flight = 0
    /\ f.state = "COMPLETED" => f.completed = f.admitted

AccountingInv == \A i \in DOMAIN flows : LedgerOK(flows[i])

\* The ledgers give sound accounting.
LEMMA AccountingInvImplies == FlowTypeOK /\ AccountingInv => AccountingSound
BY Zenon DEF AccountingInv, AccountingSound, LedgerOK, ReachedStates, Terminal

\* The counters of a flow are integers.
LEMMA LedgerFields ==
  ASSUME NEW f \in Flow
  PROVE  /\ f.submitted \in 0..MaxU64 /\ f.admitted \in 0..MaxU64
         /\ f.in_flight \in 0..MaxU64 /\ f.completed \in 0..MaxU64
         /\ f.failed \in 0..MaxU64 /\ f.cancelled \in 0..MaxU64
BY FlowFields, Zenon DEF U64

\* A step that replaces one flow by one with a sound ledger keeps the invariant.
LEMMA ReplaceLedger ==
  ASSUME FlowTypeOK, AccountingInv, NEW id \in DOMAIN flows, NEW f, LedgerOK(f),
         ReplaceFlow(id, f)
  PROVE  AccountingInv'
BY Zenon DEF AccountingInv, ReplaceFlow, FlowTypeOK

\* A live flow that is marked by fencing or recovery keeps a sound ledger.
LEMMA MarkLiveLedger ==
  ASSUME FlowTypeOK, AccountingInv, NEW ids, NEW s \in {"STALE", "REVALIDATION_REQUIRED"},
         flows' = MarkLive(ids, s)
  PROVE  AccountingInv'
<1>1. DOMAIN flows' = DOMAIN flows
  BY Zenon DEF MarkLive
<1>2. ASSUME NEW i \in DOMAIN flows PROVE LedgerOK(flows'[i])
  <2>1. LedgerOK(flows[i]) /\ flows[i] \in Flow
    BY <1>2, Zenon DEF AccountingInv, FlowTypeOK
  <2>2. CASE flows'[i] = flows[i]
    BY <2>1, <2>2, Zenon
  <2>3. CASE ~IsTerminal(i) /\ flows'[i] = [flows[i] EXCEPT !.state = s]
    BY <2>1, <2>3, Zenon DEF LedgerOK, ReachedStates, IsTerminal, Terminal, Flow
  <2> QED
    BY <2>2, <2>3, Zenon DEF MarkLive
<1> QED
  BY <1>1, <1>2, Zenon DEF AccountingInv

\* A new flow has a sound ledger.
LEMMA DeclareLedger ==
  ASSUME FlowTypeOK, AccountingInv, NEW w, NEW s, NEW wb, NEW sb, NEW d,
         NEW n \in ByteAmounts, DeclareFlow(w, wb, s, sb, d, n)
  PROVE  AccountingInv'
<1>1. n \in 0..MaxU64
  BY LimitsAssumption, Zenon DEF U64
<1>2. LedgerOK(flows'[next_flow])
  BY <1>1, WidthAssumption DEF DeclareFlow, LedgerOK, ReachedStates
<1> QED
  BY <1>2, Zenon DEF DeclareFlow, AccountingInv

\* Every operation on a flow keeps its ledger sound.
LEMMA FlowOpLedger ==
  ASSUME FlowTypeOK, AccountingInv, NEW ref \in FlowRef, NEW b \in Boots, NEW n \in U64,
         \/ AdmitFlow(ref) \/ QueueFlow(ref) \/ StartFlow(ref, b) \/ FlowComplete(ref, b)
         \/ FlowFail(ref, b) \/ RevalidateFlow(ref, b)
         \/ FlowProgress(ref, b, n) \/ FlowCancel(ref, b, n)
  PROVE  AccountingInv'
<1> DEFINE f == flows[ref.id]
<1>1. ref.id \in DOMAIN flows
  BY Zenon DEF AdmitFlow, QueueFlow, StartFlow, FlowComplete, FlowFail, RevalidateFlow,
         FlowProgress, FlowCancel, Resolves
<1>2. f \in Flow /\ LedgerOK(f)
  BY <1>1, Zenon DEF FlowTypeOK, AccountingInv
<1>3. /\ f.submitted \in 0..MaxU64 /\ f.admitted \in 0..MaxU64
      /\ f.in_flight \in 0..MaxU64 /\ f.completed \in 0..MaxU64
      /\ f.failed \in 0..MaxU64 /\ f.cancelled \in 0..MaxU64
      /\ n \in 0..MaxU64 /\ MaxU64 \in Nat
  BY <1>2, LedgerFields, WidthAssumption, Zenon DEF U64
<1>4. Remaining(f) = f.admitted - f.completed
  BY <1>2, <1>3 DEF Remaining, WrapSub, LedgerOK
<1>5. CASE AdmitFlow(ref)
  <2>1. f.state = "DECLARED"
    <3>1. FlowTransitionAllowed(f.state, "ADMITTED")
      BY <1>5, Zenon DEF AdmitFlow
    <3> QED
      BY <1>2, <3>1 DEF FlowTransitionAllowed, FlowTransitions, LedgerOK, ReachedStates
  <2>2. ReplaceFlow(ref.id, [f EXCEPT !.admitted = f.submitted, !.state = "ADMITTED"])
    <3>1. f.admitted + f.submitted = f.submitted /\ f.submitted <= f.submitted
      BY <1>2, <1>3, <2>1 DEF LedgerOK
    <3> QED
      BY <1>5, <3>1, Zenon DEF AdmitFlow
  <2>3. LedgerOK([f EXCEPT !.admitted = f.submitted, !.state = "ADMITTED"])
    BY <1>2, <1>3, <2>1 DEF LedgerOK, ReachedStates, Flow
  <2> QED
    BY <1>1, <2>2, <2>3, ReplaceLedger, Zenon
<1>6. CASE QueueFlow(ref)
  <2>1. f.state = "ADMITTED"
    BY <1>2, <1>6 DEF QueueFlow, FlowTransitionAllowed, FlowTransitions, LedgerOK,
       ReachedStates
  <2>2. LedgerOK([f EXCEPT !.state = "QUEUED"])
    BY <1>2, <1>3, <2>1, Zenon DEF LedgerOK, ReachedStates, Flow
  <2> QED
    BY <1>1, <1>6, <2>2, ReplaceLedger, Zenon DEF QueueFlow
<1>7. CASE StartFlow(ref, b)
  <2>1. f.state \in {"QUEUED", "ADMITTED"}
    BY <1>2, <1>7, Zenon DEF StartFlow, LedgerOK, ReachedStates
  <2>2. ReplaceFlow(ref.id, [f EXCEPT !.state = "ACTIVE", !.in_flight = f.admitted])
    <3>1. AddFits(f.in_flight, f.admitted) /\ f.in_flight + f.admitted = f.admitted
      BY <1>2, <1>3, <2>1 DEF LedgerOK, AddFits
    <3> QED
      BY <1>7, <3>1, Zenon DEF StartFlow
  <2>3. LedgerOK([f EXCEPT !.state = "ACTIVE", !.in_flight = f.admitted])
    BY <1>2, <1>3, <2>1 DEF LedgerOK, ReachedStates, Flow
  <2> QED
    BY <1>1, <2>2, <2>3, ReplaceLedger, Zenon
<1>8. CASE FlowProgress(ref, b, n)
  <2> DEFINE g == [f EXCEPT !.completed = f.completed + n,
                            !.in_flight = f.in_flight - SmallerOf(n, f.in_flight)]
  <2>1. f.state \in {"QUEUED", "ACTIVE"} /\ f.completed + n <= f.admitted
    BY <1>2, <1>8, Zenon DEF FlowProgress, CanProgress, LedgerOK, ReachedStates
  <2>2. LedgerOK(g)
    BY <1>2, <1>3, <2>1 DEF LedgerOK, ReachedStates, Flow, SmallerOf
  <2> QED
    BY <1>1, <1>8, <2>2, ReplaceLedger, Zenon DEF FlowProgress
<1>9. CASE FlowComplete(ref, b)
  <2> DEFINE g == [f EXCEPT !.completed = f.completed + Remaining(f), !.in_flight = 0,
                            !.state = "COMPLETED"]
  <2>1. f.state = "ACTIVE"
    BY <1>2, <1>9 DEF FlowComplete, FlowTransitionAllowed, FlowTransitions, LedgerOK,
       ReachedStates
  <2>2. LedgerOK(g)
    BY <1>2, <1>3, <1>4, <2>1 DEF LedgerOK, ReachedStates, Flow
  <2> QED
    BY <1>1, <1>9, <2>2, ReplaceLedger, Zenon DEF FlowComplete
<1>10. CASE FlowFail(ref, b)
  <2> DEFINE g == [f EXCEPT !.failed = f.failed + Remaining(f), !.in_flight = 0,
                            !.state = "FAILED"]
  <2>1. f.state \in {"DECLARED", "ADMITTED", "QUEUED", "ACTIVE"}
    BY <1>2, <1>10 DEF FlowFail, FlowTransitionAllowed, FlowTransitions, LedgerOK,
       ReachedStates
  <2>2. LedgerOK(g)
    BY <1>2, <1>3, <1>4, <2>1 DEF LedgerOK, ReachedStates, Flow
  <2> QED
    BY <1>1, <1>10, <2>2, ReplaceLedger, Zenon DEF FlowFail
<1>11. CASE FlowCancel(ref, b, n)
  <2> DEFINE canc == SmallerOf(n, Remaining(f))
             g    == [f EXCEPT !.cancelled = f.cancelled + canc, !.in_flight = 0,
                               !.state = "CANCELLED"]
  <2>1. f.state \in {"DECLARED", "ADMITTED", "QUEUED", "ACTIVE"}
    BY <1>2, <1>11 DEF FlowCancel, FlowTransitionAllowed, FlowTransitions, LedgerOK,
       ReachedStates
  <2>2. canc \in Nat /\ f.cancelled = 0 /\ f.completed + canc <= f.admitted
    BY <1>2, <1>3, <1>4, <2>1 DEF LedgerOK, SmallerOf
  <2>3. WrapAdd(f.completed, f.cancelled + canc) <= f.admitted
    BY <1>3, <2>2 DEF WrapAdd
  <2>4. ReplaceFlow(ref.id, g)
    BY <1>11, <2>3, Zenon DEF FlowCancel
  <2>5. LedgerOK(g)
    BY <1>2, <1>3, <2>1, <2>2 DEF LedgerOK, ReachedStates, Flow
  <2> QED
    BY <1>1, <2>4, <2>5, ReplaceLedger, Zenon
<1>12. CASE RevalidateFlow(ref, b)
  <2>1. f.state = "STALE"
    BY <1>2, <1>12 DEF RevalidateFlow, FlowTransitionAllowed, FlowTransitions, LedgerOK,
       ReachedStates
  <2>2. LedgerOK([f EXCEPT !.state = "REVALIDATION_REQUIRED"])
    BY <1>2, <1>3, <2>1, Zenon DEF LedgerOK, ReachedStates, Flow
  <2> QED
    BY <1>1, <1>12, <2>2, ReplaceLedger, Zenon DEF RevalidateFlow
<1> QED
  BY <1>5, <1>6, <1>7, <1>8, <1>9, <1>10, <1>11, <1>12, Zenon

\* So does a generation advance.
LEMMA AdvanceLedger ==
  ASSUME FlowTypeOK, AccountingInv, NEW id, NEW g, AdvanceFlowGeneration(id, g)
  PROVE  AccountingInv'
<1> DEFINE f == flows[id]
           s == IF f.state = "STALE" THEN "REVALIDATION_REQUIRED" ELSE f.state
<1>1. id \in DOMAIN flows /\ f \in Flow /\ LedgerOK(f)
  BY Zenon DEF AdvanceFlowGeneration, AccountingInv, FlowTypeOK
<1>2. LedgerOK([f EXCEPT !.generation = g, !.state = s])
  BY <1>1, Zenon DEF LedgerOK, ReachedStates, Flow
<1> QED
  BY <1>1, <1>2, ReplaceLedger, Zenon DEF AdvanceFlowGeneration

\* Every step keeps all ledgers sound.
LEMMA AccountingStep ==
  FlowTypeOK /\ AccountingInv /\ [FlowNext]_flowVars => AccountingInv'
<1> SUFFICES ASSUME FlowTypeOK, AccountingInv, [FlowNext]_flowVars
             PROVE  AccountingInv'
  OBVIOUS
<1>1. CASE UNCHANGED flows
  BY <1>1, Zenon DEF AccountingInv
<1>2. ASSUME NEW p, NEW b, FenceWorker(p, b) \/ FenceSource(p, b) \/ RecoverFlows
      PROVE  AccountingInv'
  BY <1>2, MarkLiveLedger, Zenon DEF FenceWorker, FenceSource, RecoverFlows
<1>3. ASSUME NEW p, NEW b,
             \/ RegisterWorker(p, b) \/ RegisterSource(p, b) \/ CreateDomain
             \/ RemoveDomain(p) \/ UNCHANGED flowVars
      PROVE  UNCHANGED flows
  BY <1>3, Zenon DEF RegisterWorker, RegisterSource, CreateDomain, RemoveDomain, flowVars
<1>4. ASSUME NEW ref \in FlowRef, NEW b \in Boots,
             \/ AdmitFlow(ref) \/ QueueFlow(ref) \/ StartFlow(ref, b)
             \/ FlowComplete(ref, b) \/ FlowFail(ref, b) \/ RevalidateFlow(ref, b)
      PROVE  AccountingInv'
  <2>1. 0 \in U64
    BY WidthAssumption DEF U64
  <2> QED
    BY <1>4, <2>1, FlowOpLedger, Zenon
<1>5. ASSUME NEW ref \in FlowRef, NEW b \in Boots, NEW n \in ByteAmounts,
             FlowProgress(ref, b, n) \/ FlowCancel(ref, b, n)
      PROVE  AccountingInv'
  <2>1. n \in U64
    BY LimitsAssumption, Zenon
  <2> QED
    BY <1>5, <2>1, FlowOpLedger, Zenon
<1>6. 1 \in Boots
  BY WidthAssumption DEF Boots
<1> QED
  BY <1>1, <1>2, <1>3, <1>4, <1>5, <1>6, DeclareLedger, AdvanceLedger, Zenon DEF FlowNext

\* Every flow has a sound ledger in every reachable state.
LEMMA LedgersCorrect == FlowSpec => []AccountingInv
<1>1. FlowInit => AccountingInv
  BY DEF FlowInit, AccountingInv
<1>2. FlowTypeOK /\ AccountingInv /\ [FlowNext]_flowVars => AccountingInv'
  BY AccountingStep, Zenon
<1> QED
  BY <1>1, <1>2, FlowTypeCorrect, PTL DEF FlowSpec

\* The byte accounting of every flow is sound in every reachable state, for any
\* number of workers, sources, flows and boots and any width of the counters.
THEOREM AccountingCorrect == FlowSpec => []AccountingSound
BY LedgersCorrect, FlowTypeCorrect, AccountingInvImplies, PTL

-----------------------------------------------------------------------------
(* Frozen flows and fenced boots.                                          *)

\* What one step may make of a flow f: it keeps its owners, and keeps its state
\* and bytes as OutOfServiceIsFrozen says.
MayBecome(f, g) ==
    /\ g.owner_worker = f.owner_worker /\ g.owner_boot = f.owner_boot
    /\ g.source = f.source /\ g.source_boot = f.source_boot
    /\ f.state \in Terminal => g.state = f.state
    /\ f.state \in OutOfService => g.state \in OutOfService
    /\ f.state \in Terminal \cup OutOfService => Bytes(g) = Bytes(f)

AllMayBecome ==
    /\ DOMAIN flows \subseteq DOMAIN flows'
    /\ \A i \in DOMAIN flows : MayBecome(flows[i], flows'[i])

\* Replacing a flow by what it may become changes no other flow.
LEMMA ReplaceMayBecome ==
  ASSUME FlowTypeOK, NEW id \in DOMAIN flows, NEW g, MayBecome(flows[id], g),
         ReplaceFlow(id, g)
  PROVE  AllMayBecome
BY Zenon DEF FlowTypeOK, AllMayBecome, MayBecome, ReplaceFlow

\* Marking live flows is a change that flows may make.
LEMMA MarkLiveMayBecome ==
  ASSUME FlowTypeOK, NEW ids, NEW s \in OutOfService, flows' = MarkLive(ids, s)
  PROVE  AllMayBecome
<1>1. DOMAIN flows' = DOMAIN flows
  BY Zenon DEF MarkLive
<1>2. ASSUME NEW i \in DOMAIN flows PROVE MayBecome(flows[i], flows'[i])
  <2>1. flows[i] \in Flow
    BY Zenon DEF FlowTypeOK
  <2>2. CASE flows'[i] = flows[i]
    BY <2>2, Zenon DEF MayBecome
  <2>3. CASE ~IsTerminal(i) /\ flows'[i] = [flows[i] EXCEPT !.state = s]
    BY <2>1, <2>3, Zenon DEF MayBecome, IsTerminal, Bytes, Flow
  <2> QED
    BY <2>2, <2>3, Zenon DEF MarkLive
<1> QED
  BY <1>1, <1>2, Zenon DEF AllMayBecome

\* A flow that is neither ended nor out of service may become anything that has
\* the same owners.
LEMMA FlowOpMayBecome ==
  ASSUME FlowTypeOK, NEW ref \in FlowRef, NEW b \in Boots, NEW n \in U64,
         \/ AdmitFlow(ref) \/ QueueFlow(ref) \/ StartFlow(ref, b) \/ FlowComplete(ref, b)
         \/ FlowFail(ref, b) \/ RevalidateFlow(ref, b)
         \/ FlowProgress(ref, b, n) \/ FlowCancel(ref, b, n)
  PROVE  AllMayBecome
<1> DEFINE f == flows[ref.id]
           InService == f.state \notin Terminal \cup OutOfService
<1>1. ref.id \in DOMAIN flows
  BY Zenon DEF AdmitFlow, QueueFlow, StartFlow, FlowComplete, FlowFail, RevalidateFlow,
         FlowProgress, FlowCancel, Resolves
<1>2. f \in Flow
  BY <1>1, Zenon DEF FlowTypeOK
<1>3. ASSUME NEW to \in {"ADMITTED", "QUEUED", "COMPLETED", "CANCELLED", "FAILED"},
             FlowTransitionAllowed(f.state, to)
      PROVE  InService
  BY <1>3 DEF FlowTransitionAllowed, FlowTransitions, Terminal, OutOfService
<1>4. CASE AdmitFlow(ref)
  <2> DEFINE g == [f EXCEPT !.admitted = f.admitted + f.submitted,
                            !.state = IF f.admitted + f.submitted <= f.submitted
                                      THEN "ADMITTED" ELSE f.state]
  <2>1. InService /\ ReplaceFlow(ref.id, g)
    BY <1>3, <1>4, Zenon DEF AdmitFlow
  <2>2. MayBecome(f, g)
    BY <1>2, <2>1, Zenon DEF MayBecome, Flow
  <2> QED
    BY <1>1, <2>1, <2>2, ReplaceMayBecome, Zenon
<1>5. CASE QueueFlow(ref)
  <2>1. InService /\ ReplaceFlow(ref.id, [f EXCEPT !.state = "QUEUED"])
    BY <1>3, <1>5, Zenon DEF QueueFlow
  <2>2. MayBecome(f, [f EXCEPT !.state = "QUEUED"])
    BY <1>2, <2>1, Zenon DEF MayBecome, Flow
  <2> QED
    BY <1>1, <2>1, <2>2, ReplaceMayBecome, Zenon
<1>6. CASE StartFlow(ref, b)
  <2> DEFINE g == [f EXCEPT !.state = "ACTIVE",
                            !.in_flight = IF AddFits(f.in_flight, f.admitted)
                                          THEN f.in_flight + f.admitted ELSE f.in_flight]
  <2>1. InService /\ ReplaceFlow(ref.id, g)
    BY <1>6, Zenon DEF StartFlow, Terminal, OutOfService
  <2>2. MayBecome(f, g)
    BY <1>2, <2>1, Zenon DEF MayBecome, Flow
  <2> QED
    BY <1>1, <2>1, <2>2, ReplaceMayBecome, Zenon
<1>7. CASE FlowProgress(ref, b, n)
  <2> DEFINE g == [f EXCEPT !.completed = f.completed + n,
                            !.in_flight = f.in_flight - SmallerOf(n, f.in_flight)]
  <2>1. InService /\ ReplaceFlow(ref.id, g)
    BY <1>7, Zenon DEF FlowProgress, CanProgress, Terminal, OutOfService
  <2>2. MayBecome(f, g)
    BY <1>2, <2>1, Zenon DEF MayBecome, Flow
  <2> QED
    BY <1>1, <2>1, <2>2, ReplaceMayBecome, Zenon
<1>8. CASE FlowComplete(ref, b)
  <2> DEFINE g == [f EXCEPT !.completed = f.completed + Remaining(f), !.in_flight = 0,
                            !.state = "COMPLETED"]
  <2>1. InService /\ ReplaceFlow(ref.id, g)
    BY <1>3, <1>8, Zenon DEF FlowComplete
  <2>2. MayBecome(f, g)
    BY <1>2, <2>1, Zenon DEF MayBecome, Flow
  <2> QED
    BY <1>1, <2>1, <2>2, ReplaceMayBecome, Zenon
<1>9. CASE FlowFail(ref, b)
  <2> DEFINE g == [f EXCEPT !.failed = f.failed + Remaining(f), !.in_flight = 0,
                            !.state = "FAILED"]
  <2>1. InService /\ ReplaceFlow(ref.id, g)
    BY <1>3, <1>9, Zenon DEF FlowFail
  <2>2. MayBecome(f, g)
    BY <1>2, <2>1, Zenon DEF MayBecome, Flow
  <2> QED
    BY <1>1, <2>1, <2>2, ReplaceMayBecome, Zenon
<1>10. CASE FlowCancel(ref, b, n)
  <2> DEFINE canc == SmallerOf(n, Remaining(f))
             ok   == WrapAdd(f.completed, f.cancelled + canc) <= f.admitted
             g    == [f EXCEPT !.cancelled = f.cancelled + canc,
                               !.in_flight = IF ok THEN 0 ELSE f.in_flight,
                               !.state = IF ok THEN "CANCELLED" ELSE f.state]
  <2>1. InService /\ ReplaceFlow(ref.id, g)
    BY <1>3, <1>10, Zenon DEF FlowCancel
  <2>2. MayBecome(f, g)
    BY <1>2, <2>1, Zenon DEF MayBecome, Flow
  <2> QED
    BY <1>1, <2>1, <2>2, ReplaceMayBecome, Zenon
<1>11. CASE RevalidateFlow(ref, b)
  <2>1. f.state \notin Terminal
    BY <1>11 DEF RevalidateFlow, FlowTransitionAllowed, FlowTransitions, Terminal
  <2>2. MayBecome(f, [f EXCEPT !.state = "REVALIDATION_REQUIRED"])
    BY <1>2, <2>1, Zenon DEF MayBecome, Flow, Bytes, OutOfService
  <2> QED
    BY <1>1, <1>11, <2>2, ReplaceMayBecome, Zenon DEF RevalidateFlow
<1> QED
  BY <1>4, <1>5, <1>6, <1>7, <1>8, <1>9, <1>10, <1>11, Zenon

\* So is a generation advance.
LEMMA AdvanceMayBecome ==
  ASSUME FlowTypeOK, NEW id, NEW g, AdvanceFlowGeneration(id, g)
  PROVE  AllMayBecome
<1> DEFINE f == flows[id]
           s == IF f.state = "STALE" THEN "REVALIDATION_REQUIRED" ELSE f.state
           h == [f EXCEPT !.generation = g, !.state = s]
<1>1. id \in DOMAIN flows /\ f \in Flow
  BY Zenon DEF AdvanceFlowGeneration, FlowTypeOK
<1>2. MayBecome(f, h)
  BY <1>1, Zenon DEF MayBecome, Flow, Bytes, OutOfService, Terminal
<1> QED
  BY <1>1, <1>2, ReplaceMayBecome, Zenon DEF AdvanceFlowGeneration

\* Every step changes flows as they may change.
LEMMA StepMayBecome == FlowTypeOK /\ [FlowNext]_flowVars => AllMayBecome
<1> SUFFICES ASSUME FlowTypeOK, [FlowNext]_flowVars PROVE AllMayBecome
  OBVIOUS
<1>1. CASE UNCHANGED flows
  BY <1>1, Zenon DEF AllMayBecome, MayBecome
<1>2. ASSUME NEW p, NEW b, FenceWorker(p, b) \/ FenceSource(p, b) \/ RecoverFlows
      PROVE  AllMayBecome
  BY <1>2, MarkLiveMayBecome, Zenon DEF FenceWorker, FenceSource, RecoverFlows, OutOfService
<1>3. ASSUME NEW p, NEW b,
             \/ RegisterWorker(p, b) \/ RegisterSource(p, b) \/ CreateDomain
             \/ RemoveDomain(p) \/ UNCHANGED flowVars
      PROVE  UNCHANGED flows
  BY <1>3, Zenon DEF RegisterWorker, RegisterSource, CreateDomain, RemoveDomain, flowVars
<1>4. ASSUME NEW ref \in FlowRef, NEW b \in Boots,
             \/ AdmitFlow(ref) \/ QueueFlow(ref) \/ StartFlow(ref, b)
             \/ FlowComplete(ref, b) \/ FlowFail(ref, b) \/ RevalidateFlow(ref, b)
      PROVE  AllMayBecome
  <2>1. 0 \in U64
    BY WidthAssumption DEF U64
  <2> QED
    BY <1>4, <2>1, FlowOpMayBecome, Zenon
<1>5. ASSUME NEW ref \in FlowRef, NEW b \in Boots, NEW n \in ByteAmounts,
             FlowProgress(ref, b, n) \/ FlowCancel(ref, b, n)
      PROVE  AllMayBecome
  <2>1. n \in U64
    BY LimitsAssumption
  <2> QED
    BY <1>5, <2>1, FlowOpMayBecome, Zenon
<1>6. ASSUME NEW w, NEW wb, NEW s, NEW sb, NEW d, NEW n, DeclareFlow(w, wb, s, sb, d, n)
      PROVE  AllMayBecome
  <2>1. next_flow \notin DOMAIN flows
    BY LimitsAssumption DEF FlowTypeOK
  <2>2. \A i \in DOMAIN flows : flows'[i] = flows[i]
    BY <1>6, <2>1, Zenon DEF DeclareFlow
  <2> QED
    BY <1>6, <2>2, Zenon DEF DeclareFlow, AllMayBecome, MayBecome
<1>7. 1 \in Boots
  BY WidthAssumption DEF Boots
<1> QED
  BY <1>1, <1>2, <1>3, <1>4, <1>5, <1>6, <1>7, AdvanceMayBecome, Zenon DEF FlowNext

\* No step of the engine changes a flow that has ended, or puts a flow that went
\* stale back into service, or touches the bytes of either.
THEOREM FrozenCorrect == FlowSpec => OutOfServiceIsFrozen
<1>1. FlowTypeOK /\ [FlowNext]_flowVars =>
        [\A i \in DOMAIN flows :
           /\ IsTerminal(i) => flows'[i].state = flows[i].state
           /\ flows[i].state \in OutOfService => flows'[i].state \in OutOfService
           /\ flows[i].state \in Terminal \cup OutOfService
                => Bytes(flows'[i]) = Bytes(flows[i])]_flowVars
  BY StepMayBecome, Zenon DEF AllMayBecome, MayBecome, IsTerminal
<1> QED
  BY <1>1, FlowTypeCorrect, PTL DEF FlowSpec, OutOfServiceIsFrozen

\* The operations on one flow replace it.
LEMMA OperationsReplace ==
  ASSUME NEW ref, NEW b, NEW n,
         \/ AdmitFlow(ref) \/ QueueFlow(ref) \/ StartFlow(ref, b)
         \/ FlowComplete(ref, b) \/ FlowFail(ref, b) \/ RevalidateFlow(ref, b)
         \/ FlowProgress(ref, b, n) \/ FlowCancel(ref, b, n)
         \/ AdvanceFlowGeneration(ref, n)
  PROVE  \E id, f : ReplaceFlow(id, f)
BY Zenon DEF AdmitFlow, QueueFlow, StartFlow, FlowProgress, FlowComplete, FlowCancel,
       FlowFail, AdvanceFlowGeneration, RevalidateFlow

\* Only a declaration adds a flow.
LEMMA OnlyDeclareAdds ==
  ASSUME [FlowNext]_flowVars
  PROVE  \/ DOMAIN flows' = DOMAIN flows
         \/ \E w \in Workers, s \in Sources, wb \in Boots, sb \in Boots,
               d \in 1..MaxDomainId, n \in ByteAmounts : DeclareFlow(w, wb, s, sb, d, n)
<1> DEFINE Same == DOMAIN flows' = DOMAIN flows
<1>1. ASSUME NEW p, NEW b,
             \/ RegisterWorker(p, b) \/ RegisterSource(p, b) \/ CreateDomain
             \/ RemoveDomain(p) \/ UNCHANGED flowVars
      PROVE  Same
  BY <1>1, Zenon DEF RegisterWorker, RegisterSource, CreateDomain, RemoveDomain, flowVars
<1>2. ASSUME NEW p, NEW b, FenceWorker(p, b) \/ FenceSource(p, b) \/ RecoverFlows
      PROVE  Same
  BY <1>2, Zenon DEF FenceWorker, FenceSource, RecoverFlows, MarkLive
<1>3. ASSUME NEW id, NEW f, ReplaceFlow(id, f) PROVE Same
  BY <1>3, Zenon DEF ReplaceFlow
<1> HIDE DEF Same
<1>4. ASSUME NEW ref, NEW b, NEW n,
             \/ AdmitFlow(ref) \/ QueueFlow(ref) \/ StartFlow(ref, b)
             \/ FlowComplete(ref, b) \/ FlowFail(ref, b) \/ RevalidateFlow(ref, b)
             \/ FlowProgress(ref, b, n) \/ FlowCancel(ref, b, n)
             \/ AdvanceFlowGeneration(ref, n)
      PROVE  Same
  BY <1>3, <1>4, OperationsReplace, Zenon
<1>5. \/ Same
      \/ \E w \in Workers, s \in Sources, wb \in Boots, sb \in Boots,
            d \in 1..MaxDomainId, n \in ByteAmounts : DeclareFlow(w, wb, s, sb, d, n)
  BY <1>1, <1>2, <1>4, Zenon DEF FlowNext
<1> QED
  BY <1>5, Zenon DEF Same

\* Only registration and fencing change the boots, and only fencing the history.
LEMMA AuthoritySteps ==
  ASSUME [FlowNext]_flowVars
  PROVE  \/ \E w \in Workers, b \in Boots : RegisterWorker(w, b) \/ FenceWorker(w, b)
         \/ \E s \in Sources, b \in Boots : RegisterSource(s, b) \/ FenceSource(s, b)
         \/ UNCHANGED <<worker_boot, source_boot, fenced>>
<1> DEFINE Same == UNCHANGED <<worker_boot, source_boot, fenced>>
<1>1. ASSUME NEW d, CreateDomain \/ RemoveDomain(d) \/ RecoverFlows \/ UNCHANGED flowVars
      PROVE  Same
  BY <1>1, Zenon DEF CreateDomain, RemoveDomain, RecoverFlows, flowVars
<1>2. ASSUME NEW w, NEW wb, NEW s, NEW sb, NEW d, NEW n, DeclareFlow(w, wb, s, sb, d, n)
      PROVE  Same
  BY <1>2, Zenon DEF DeclareFlow
<1>3. ASSUME NEW id, NEW f, ReplaceFlow(id, f) PROVE Same
  BY <1>3, Zenon DEF ReplaceFlow
<1>4. ASSUME NEW ref, NEW b, NEW n,
             \/ AdmitFlow(ref) \/ QueueFlow(ref) \/ StartFlow(ref, b)
             \/ FlowComplete(ref, b) \/ FlowFail(ref, b) \/ RevalidateFlow(ref, b)
             \/ FlowProgress(ref, b, n) \/ FlowCancel(ref, b, n)
             \/ AdvanceFlowGeneration(ref, n)
      PROVE  Same
  BY <1>3, <1>4, OperationsReplace, Zenon
<1> QED
  BY <1>1, <1>2, <1>4, Zenon DEF FlowNext

\* Boots only grow, and only through registration and fencing.
LEMMA BootsGrow ==
  ASSUME FlowTypeOK, [FlowNext]_flowVars
  PROVE  \A p \in Workers \cup Sources : BootOf(p)' >= BootOf(p)
<1>1. \A p \in Workers \cup Sources : BootOf(p) \in 0..MaxU64
  BY Zenon DEF FlowTypeOK, BootOf, U64
<1>2. CASE UNCHANGED <<worker_boot, source_boot>>
  BY <1>1, <1>2, WidthAssumption DEF BootOf
<1>3. ASSUME NEW w \in Workers, NEW b \in Boots, RegisterWorker(w, b) \/ FenceWorker(w, b)
      PROVE  \A p \in Workers \cup Sources : BootOf(p)' >= BootOf(p)
  BY <1>1, <1>3, WidthAssumption
  DEF RegisterWorker, FenceWorker, BootOf, NextGeneration, FlowTypeOK, Boots
<1>4. ASSUME NEW s \in Sources, NEW b \in Boots, RegisterSource(s, b) \/ FenceSource(s, b)
      PROVE  \A p \in Workers \cup Sources : BootOf(p)' >= BootOf(p)
  <2>1. s \notin Workers /\ UNCHANGED worker_boot
    BY <1>4, PartiesAssumption, Zenon DEF RegisterSource, FenceSource
  <2>2. \A t \in Sources : source_boot'[t] >= source_boot[t]
    <3>1. /\ source_boot \in [Sources -> 0..MaxU64] /\ MaxU64 \in Nat /\ b \in Nat
      BY WidthAssumption DEF FlowTypeOK, U64, Boots
    <3>2. CASE RegisterSource(s, b)
      BY <3>1, <3>2 DEF RegisterSource
    <3>3. CASE FenceSource(s, b)
      BY <3>1, <3>3 DEF FenceSource, NextGeneration
    <3> QED
      BY <1>4, <3>2, <3>3, Zenon
  <2>3. ASSUME NEW p \in Workers \cup Sources PROVE BootOf(p)' >= BootOf(p)
    <3>1. CASE p \in Workers
      BY <1>1, <2>1, <3>1, WidthAssumption DEF BootOf
    <3>2. CASE p \notin Workers
      BY <2>2, <3>2, Zenon DEF BootOf
    <3> QED
      BY <3>1, <3>2, Zenon
  <2> QED
    BY <2>3, Zenon
<1> QED
  BY <1>2, <1>3, <1>4, AuthoritySteps, Zenon

\* Fencing leaves no live flow of the fenced boot behind.  ReachedStates matters:
\* a superseded flow would be passed over by fencing and not be stale.
LEMMA FenceKills ==
  ASSUME FlowTypeOK, AccountingInv, NEW p \in Workers \cup Sources, NEW b \in Boots,
         \/ p \in Workers /\ FenceWorker(p, b)
         \/ p \in Sources /\ FenceSource(p, b)
  PROVE  /\ b < MaxU64 => BootOf(p)' > b
         /\ \A i \in DOMAIN flows' :
               OwnedBy(i, p, b)' => flows'[i].state \in Terminal \cup OutOfService
<1>1. b < MaxU64 => BootOf(p)' > b
  BY PartiesAssumption, WidthAssumption
  DEF FenceWorker, FenceSource, BootOf, NextGeneration, FlowTypeOK, Boots
<1>2. ASSUME NEW i \in DOMAIN flows', OwnedBy(i, p, b)'
      PROVE  flows'[i].state \in Terminal \cup OutOfService
  <2> DEFINE f == flows[i]
  <2>1. i \in DOMAIN flows /\ f \in Flow /\ LedgerOK(f)
    BY <1>2, Zenon DEF FenceWorker, FenceSource, MarkLive, FlowTypeOK, AccountingInv
  <2>2. f.owner_worker \in Workers /\ f.source \in Sources
    BY <2>1, Zenon DEF Flow
  <2>3. flows'[i] = [f EXCEPT !.state = "STALE"] \/ flows'[i] = f
    BY <2>1, Zenon DEF FenceWorker, FenceSource, MarkLive
  <2>4. OwnedBy(i, p, b)
    BY <1>2, <2>1, <2>3, Zenon DEF OwnedBy, Flow
  <2>5. \/ flows'[i] = [f EXCEPT !.state = "STALE"]
        \/ flows'[i] = f /\ (IsTerminal(i) \/ IsStale(i))
    <3>1. CASE p \in Workers /\ FenceWorker(p, b)
      <4>1. f.owner_worker = p /\ f.owner_boot = b
        BY <2>2, <2>4, <3>1, PartiesAssumption, Zenon DEF OwnedBy
      <4> QED
        BY <2>1, <3>1, <4>1, Zenon DEF FenceWorker, MarkLive
    <3>2. CASE p \in Sources /\ FenceSource(p, b)
      <4>1. f.source = p /\ f.source_boot = b
        BY <2>2, <2>4, <3>2, PartiesAssumption, Zenon DEF OwnedBy
      <4> QED
        BY <2>1, <3>2, <4>1, Zenon DEF FenceSource, MarkLive
    <3> QED
      BY <3>1, <3>2, Zenon
  <2>6. f.state \notin {"SUPERSEDED", "RETIRED"}
    BY <2>1, Zenon DEF LedgerOK, ReachedStates
  <2> QED
    BY <2>1, <2>5, <2>6, Zenon
    DEF IsTerminal, IsStale, Terminal, StaleOrSuperseded, OutOfService, Flow
<1> QED
  BY <1>1, <1>2, Zenon

\* Every step keeps fenced boots dead.
LEMMA FencedStep ==
  ASSUME FlowTypeOK, FlowTypeOK', AccountingInv, FencedStaysDead, [FlowNext]_flowVars
  PROVE  FencedStaysDead'
<1> SUFFICES ASSUME NEW pb \in fenced', pb[2] < MaxU64
             PROVE  /\ BootOf(pb[1])' > pb[2]
                    /\ \A i \in DOMAIN flows' : OwnedBy(i, pb[1], pb[2])' =>
                          flows'[i].state \in Terminal \cup OutOfService
  BY Zenon DEF FencedStaysDead
<1>1. pb[1] \in Workers \cup Sources /\ pb[2] \in 1..MaxU64
      /\ pb = <<pb[1], pb[2]>>
  BY DEF FlowTypeOK, Boots
<1>2. CASE pb \in fenced
  <2>1. BootOf(pb[1]) > pb[2]
    BY <1>2, Zenon DEF FencedStaysDead
  <2>2. BootOf(pb[1])' > pb[2]
    <3>1. BootOf(pb[1])' >= BootOf(pb[1])
      BY <1>1, BootsGrow, Zenon
    <3>2. BootOf(pb[1]) \in 0..MaxU64 /\ BootOf(pb[1])' \in 0..MaxU64
      BY <1>1, Zenon DEF FlowTypeOK, BootOf, U64
    <3> QED
      BY <1>1, <2>1, <3>1, <3>2, WidthAssumption
  <2>3. ASSUME NEW i \in DOMAIN flows', OwnedBy(i, pb[1], pb[2])'
        PROVE  flows'[i].state \in Terminal \cup OutOfService
    <3>1. CASE i \in DOMAIN flows
      <4>1. MayBecome(flows[i], flows'[i])
        BY <3>1, StepMayBecome, Zenon DEF AllMayBecome
      <4>2. OwnedBy(i, pb[1], pb[2])
        BY <2>3, <4>1, Zenon DEF OwnedBy, MayBecome
      <4>3. flows[i].state \in Terminal \cup OutOfService
        BY <1>2, <3>1, <4>2, Zenon DEF FencedStaysDead
      <4> QED
        BY <4>1, <4>3, Zenon DEF MayBecome
    <3>2. CASE i \notin DOMAIN flows
      <4>1. PICK w \in Workers, s \in Sources, wb \in Boots, sb \in Boots,
                 d \in 1..MaxDomainId, n \in ByteAmounts : DeclareFlow(w, wb, s, sb, d, n)
        BY <2>3, <3>2, OnlyDeclareAdds, Zenon
      <4>2. i = next_flow
        BY <2>3, <3>2, <4>1, Zenon DEF DeclareFlow
      <4>3. /\ flows'[i].owner_worker = w /\ flows'[i].owner_boot = worker_boot[w]
            /\ flows'[i].source = s /\ flows'[i].source_boot = source_boot[s]
        BY <4>1, <4>2, Zenon DEF DeclareFlow
      <4>4. pb[2] = BootOf(pb[1])
        BY <2>3, <4>3, PartiesAssumption, Zenon DEF OwnedBy, BootOf
      <4> QED
        BY <1>1, <2>1, <4>4
    <3> QED
      BY <3>1, <3>2, Zenon
  <2> QED
    BY <2>2, <2>3, Zenon
<1>3. CASE pb \notin fenced
  <2>1. \/ \E w \in Workers, b \in Boots : FenceWorker(w, b) /\ pb = <<w, b>>
        \/ \E s \in Sources, b \in Boots : FenceSource(s, b) /\ pb = <<s, b>>
    BY <1>3, AuthoritySteps, Zenon DEF RegisterWorker, RegisterSource, FenceWorker, FenceSource
  <2>2. /\ pb[2] \in Boots
        /\ \/ pb[1] \in Workers /\ FenceWorker(pb[1], pb[2])
           \/ pb[1] \in Sources /\ FenceSource(pb[1], pb[2])
    BY <2>1
  <2> QED
    BY <1>1, <2>2, FenceKills, Zenon
<1> QED
  BY <1>2, <1>3, Zenon

\* Fencing is for good, for any number of parties and boots: a fenced boot is
\* never current again and none of its flows is ever live again.
THEOREM FencingCorrect == FlowSpec => []FencedStaysDead
<1>1. FlowInit => FencedStaysDead
  BY Zenon DEF FlowInit, FencedStaysDead
<1>2. FlowTypeOK /\ FlowTypeOK' /\ AccountingInv /\ FencedStaysDead /\ [FlowNext]_flowVars
        => FencedStaysDead'
  BY FencedStep, Zenon
<1> QED
  BY <1>1, <1>2, FlowTypeCorrect, LedgersCorrect, PTL DEF FlowSpec

-----------------------------------------------------------------------------
(* The kinds of steps, as the lists of the domains and the cached count of *)
(* live flows see them.                                                    *)

\* What no step but an admission changes of a flow, or undoes.
Keeps(f, g) ==
    /\ g.domain = f.domain
    /\ g.generation >= f.generation
    /\ g.admitted = f.admitted
    /\ g.state = "DECLARED" => f.state = "DECLARED"

\* Besides, the flow neither ends nor starts to wait.
KeepsQuietly(f, g) ==
    /\ Keeps(f, g)
    /\ g.state \in Terminal <=> f.state \in Terminal
    /\ g.state = "QUEUED" => f.state = "QUEUED"

\* A step that ends no flow, queues none and leaves lists and count alone.
QuietStep ==
    /\ DOMAIN flows' = DOMAIN flows
    /\ \A i \in DOMAIN flows : KeepsQuietly(flows[i], flows'[i])
    /\ UNCHANGED <<members, next_domain, active_flows>>

\* A step that replaces flow i by g.
OneFlowStep(i, g) ==
    /\ i \in DOMAIN flows
    /\ flows' = [flows EXCEPT ![i] = g]
    /\ UNCHANGED next_domain

\* flow_complete, flow_cancel and flow_fail: a live flow ends and gives up its slot.
EndStep(i, g) ==
    /\ OneFlowStep(i, g)
    /\ Keeps(flows[i], g)
    /\ ~IsTerminal(i) /\ g.state \in Terminal
    /\ active_flows' = Decremented
    /\ UNCHANGED members

\* admit_flow: the flow gets its bytes and its domain lists it.
AdmitStep(ref, g) ==
    /\ OneFlowStep(ref.id, g)
    /\ Resolves(ref) /\ flows[ref.id].state = "DECLARED"
    /\ g.domain = flows[ref.id].domain /\ g.generation = ref.generation
    /\ g.state = "ADMITTED"
    /\ g.domain \in DOMAIN members
    /\ members' = [members EXCEPT ![g.domain] = Append(@, ref)]
    /\ UNCHANGED active_flows

\* An operation that replaces a flow by one that it becomes quietly is quiet.
LEMMA ReplaceQuietly ==
  ASSUME FlowTypeOK, NEW i \in DOMAIN flows, NEW g, ReplaceFlow(i, g),
         KeepsQuietly(flows[i], g), UNCHANGED <<members, active_flows>>
  PROVE  QuietStep
<1>1. \A j \in DOMAIN flows : flows[j].generation \in Int
  BY FlowFields DEF FlowTypeOK, Generations
<1>2. \A j \in DOMAIN flows : KeepsQuietly(flows[j], flows[j])
  BY <1>1 DEF KeepsQuietly, Keeps
<1>3. \A j \in DOMAIN flows : flows'[j] = IF j = i THEN g ELSE flows[j]
  BY Zenon DEF ReplaceFlow, FlowTypeOK
<1>4. \A j \in DOMAIN flows : KeepsQuietly(flows[j], flows'[j])
  BY <1>2, <1>3, Zenon
<1> QED
  BY <1>4, Zenon DEF QuietStep, ReplaceFlow

\* Marking live flows, as fencing and recovery do, is quiet.
LEMMA MarkLiveQuietly ==
  ASSUME FlowTypeOK, NEW ids, NEW s \in {"STALE", "REVALIDATION_REQUIRED"},
         flows' = MarkLive(ids, s), UNCHANGED <<members, next_domain, active_flows>>
  PROVE  QuietStep
<1>1. DOMAIN flows' = DOMAIN flows
  BY Zenon DEF MarkLive
<1>2. ASSUME NEW i \in DOMAIN flows PROVE KeepsQuietly(flows[i], flows'[i])
  <2>1. flows[i] \in Flow /\ flows[i].generation \in Int
    BY FlowFields DEF FlowTypeOK, Generations
  <2>2. CASE flows'[i] = flows[i]
    BY <2>1, <2>2 DEF KeepsQuietly, Keeps
  <2>3. CASE ~IsTerminal(i) /\ flows'[i] = [flows[i] EXCEPT !.state = s]
    BY <2>1, <2>3 DEF KeepsQuietly, Keeps, IsTerminal, Terminal, Flow
  <2> QED
    BY <2>2, <2>3, Zenon DEF MarkLive
<1> QED
  BY <1>1, <1>2, Zenon DEF QuietStep

\* The quiet operations on one flow.
LEMMA FlowOpQuiet ==
  ASSUME FlowTypeOK, NEW ref \in FlowRef, NEW b \in Boots, NEW n,
         \/ StartFlow(ref, b) \/ RevalidateFlow(ref, b) \/ FlowProgress(ref, b, n)
  PROVE  QuietStep
<1> DEFINE f == flows[ref.id]
<1>1. ref.id \in DOMAIN flows
  BY Zenon DEF StartFlow, RevalidateFlow, FlowProgress, Resolves
<1>2. f \in Flow /\ f.generation \in Int
  BY <1>1, FlowFields DEF FlowTypeOK, Generations
<1>3. CASE StartFlow(ref, b)
  <2> DEFINE g == [f EXCEPT !.state = "ACTIVE",
                            !.in_flight = IF AddFits(f.in_flight, f.admitted)
                                          THEN f.in_flight + f.admitted ELSE f.in_flight]
  <2>1. KeepsQuietly(f, g)
    BY <1>2, <1>3 DEF StartFlow, KeepsQuietly, Keeps, Terminal, Flow
  <2>2. ReplaceFlow(ref.id, g) /\ UNCHANGED <<members, active_flows>>
    BY <1>3, Zenon DEF StartFlow
  <2> QED
    BY <1>1, <2>1, <2>2, ReplaceQuietly, Zenon
<1>4. CASE RevalidateFlow(ref, b)
  <2> DEFINE g == [f EXCEPT !.state = "REVALIDATION_REQUIRED"]
  <2>1. f.state = "STALE"
    BY <1>4 DEF RevalidateFlow, FlowTransitionAllowed, FlowTransitions
  <2>2. KeepsQuietly(f, g)
    BY <1>2, <2>1 DEF KeepsQuietly, Keeps, Terminal, Flow
  <2>3. ReplaceFlow(ref.id, g) /\ UNCHANGED <<members, active_flows>>
    BY <1>4, Zenon DEF RevalidateFlow
  <2> QED
    BY <1>1, <2>2, <2>3, ReplaceQuietly, Zenon
<1>5. CASE FlowProgress(ref, b, n)
  <2> DEFINE g == [f EXCEPT !.completed = f.completed + n,
                            !.in_flight = f.in_flight - SmallerOf(n, f.in_flight)]
  <2>1. KeepsQuietly(f, g)
    BY <1>2 DEF KeepsQuietly, Keeps, Flow
  <2>2. ReplaceFlow(ref.id, g) /\ UNCHANGED <<members, active_flows>>
    BY <1>5, Zenon DEF FlowProgress
  <2> QED
    BY <1>1, <2>1, <2>2, ReplaceQuietly, Zenon
<1> QED
  BY <1>3, <1>4, <1>5, Zenon

\* So is a generation advance.
LEMMA AdvanceQuiet ==
  ASSUME FlowTypeOK, NEW id, NEW g \in Generations, AdvanceFlowGeneration(id, g)
  PROVE  QuietStep
<1> DEFINE f == flows[id]
           s == IF f.state = "STALE" THEN "REVALIDATION_REQUIRED" ELSE f.state
           h == [f EXCEPT !.generation = g, !.state = s]
<1>1. id \in DOMAIN flows /\ f \in Flow /\ f.generation \in Int /\ g > f.generation /\ g \in Int
  BY FlowFields DEF AdvanceFlowGeneration, FlowTypeOK, Generations
<1>2. KeepsQuietly(f, h)
  BY <1>1 DEF KeepsQuietly, Keeps, Terminal, Flow
<1>3. ReplaceFlow(id, h) /\ UNCHANGED <<members, active_flows>>
  BY Zenon DEF AdvanceFlowGeneration
<1> QED
  BY <1>1, <1>2, <1>3, ReplaceQuietly, Zenon

\* Each of the three ways to end a flow is an EndStep: with a sound ledger the
\* check that flow_cancel makes after the fact never fails.
LEMMA OperationEnds ==
  ASSUME FlowTypeOK, AccountingInv, NEW ref \in FlowRef, NEW b \in Boots, NEW n \in U64,
         FlowComplete(ref, b) \/ FlowFail(ref, b) \/ FlowCancel(ref, b, n)
  PROVE  \E g : EndStep(ref.id, g)
<1> DEFINE f == flows[ref.id]
<1>1. ref.id \in DOMAIN flows
  BY Zenon DEF FlowComplete, FlowFail, FlowCancel, Resolves
<1>2. f \in Flow /\ LedgerOK(f) /\ f.generation \in Int
  BY <1>1, FlowFields DEF FlowTypeOK, AccountingInv, Generations
<1>3. ASSUME NEW to \in {"COMPLETED", "CANCELLED", "FAILED"},
             FlowTransitionAllowed(f.state, to)
      PROVE  ~IsTerminal(ref.id)
  BY <1>3 DEF FlowTransitionAllowed, FlowTransitions, Terminal, IsTerminal
<1>4. CASE FlowComplete(ref, b)
  <2> DEFINE g == [f EXCEPT !.completed = f.completed + Remaining(f), !.in_flight = 0,
                            !.state = "COMPLETED"]
  <2>1. Keeps(f, g) /\ g.state \in Terminal
    BY <1>2 DEF Keeps, Terminal, Flow
  <2>2. EndStep(ref.id, g)
    BY <1>1, <1>3, <1>4, <2>1, Zenon DEF FlowComplete, EndStep, OneFlowStep, ReplaceFlow
  <2> QED
    BY <2>2, Zenon
<1>5. CASE FlowFail(ref, b)
  <2> DEFINE g == [f EXCEPT !.failed = f.failed + Remaining(f), !.in_flight = 0,
                            !.state = "FAILED"]
  <2>1. Keeps(f, g) /\ g.state \in Terminal
    BY <1>2 DEF Keeps, Terminal, Flow
  <2>2. EndStep(ref.id, g)
    BY <1>1, <1>3, <1>5, <2>1, Zenon DEF FlowFail, EndStep, OneFlowStep, ReplaceFlow
  <2> QED
    BY <2>2, Zenon
<1>6. CASE FlowCancel(ref, b, n)
  <2> DEFINE canc == SmallerOf(n, Remaining(f))
             g    == [f EXCEPT !.cancelled = f.cancelled + canc, !.in_flight = 0,
                               !.state = "CANCELLED"]
  <2>1. f.state \in {"DECLARED", "ADMITTED", "QUEUED", "ACTIVE"}
    BY <1>2, <1>6 DEF FlowCancel, FlowTransitionAllowed, FlowTransitions, LedgerOK,
       ReachedStates
  <2>2. /\ f.completed \in 0..MaxU64 /\ f.admitted \in 0..MaxU64 /\ n \in 0..MaxU64
        /\ MaxU64 \in Nat
    BY <1>2, LedgerFields, WidthAssumption, Zenon DEF U64
  <2>3. canc \in Nat /\ f.cancelled = 0 /\ f.completed + canc <= f.admitted
    BY <1>2, <2>1, <2>2 DEF LedgerOK, SmallerOf, Remaining, WrapSub
  <2>4. WrapAdd(f.completed, f.cancelled + canc) <= f.admitted
    BY <2>2, <2>3 DEF WrapAdd
  <2>5. ReplaceFlow(ref.id, g) /\ active_flows' = Decremented /\ UNCHANGED members
    BY <1>6, <2>4, Zenon DEF FlowCancel
  <2>6. Keeps(f, g) /\ g.state \in Terminal
    BY <1>2 DEF Keeps, Terminal, Flow
  <2>7. ~IsTerminal(ref.id)
    BY <2>1, Zenon DEF IsTerminal, Terminal
  <2>8. EndStep(ref.id, g)
    BY <1>1, <2>5, <2>6, <2>7, Zenon DEF EndStep, OneFlowStep, ReplaceFlow
  <2> QED
    BY <2>8, Zenon
<1> QED
  BY <1>4, <1>5, <1>6, Zenon

\* admit_flow is an AdmitStep: only a declared flow is admitted, and what it adds
\* to is zero.
LEMMA OperationAdmits ==
  ASSUME FlowTypeOK, AccountingInv, NEW ref \in FlowRef, AdmitFlow(ref)
  PROVE  \E g : AdmitStep(ref, g)
<1> DEFINE f == flows[ref.id]
           g == [f EXCEPT !.admitted = f.submitted, !.state = "ADMITTED"]
<1>1. Resolves(ref) /\ ref.id \in DOMAIN flows
  BY Zenon DEF AdmitFlow, Resolves
<1>2. f \in Flow /\ LedgerOK(f)
  BY <1>1, Zenon DEF FlowTypeOK, AccountingInv
<1>3. f.state = "DECLARED"
  <2>1. FlowTransitionAllowed(f.state, "ADMITTED")
    BY Zenon DEF AdmitFlow
  <2> QED
    BY <1>2, <2>1 DEF FlowTransitionAllowed, FlowTransitions, LedgerOK, ReachedStates
<1>4. f.admitted + f.submitted = f.submitted /\ f.submitted <= f.submitted
  BY <1>2, <1>3, LedgerFields DEF LedgerOK
<1>5. /\ ReplaceFlow(ref.id, g)
      /\ members' = [members EXCEPT ![f.domain] = Append(@, ref)]
      /\ f.domain \in DOMAIN members /\ UNCHANGED active_flows
  BY <1>4, Zenon DEF AdmitFlow
<1>6. g.domain = f.domain /\ g.generation = ref.generation /\ g.state = "ADMITTED"
  BY <1>1, <1>2, Zenon DEF Flow, Resolves
<1>7. AdmitStep(ref, g)
  BY <1>1, <1>3, <1>5, <1>6, Zenon DEF AdmitStep, OneFlowStep, ReplaceFlow
<1> QED
  BY <1>7, Zenon

\* Every step is of one of these kinds.
LEMMA StepKinds ==
  ASSUME FlowTypeOK, AccountingInv, [FlowNext]_flowVars
  PROVE  \/ QuietStep
         \/ CreateDomain
         \/ \E d \in 1..MaxDomainId : RemoveDomain(d)
         \/ \E w \in Workers, s \in Sources, wb \in Boots, sb \in Boots,
               d \in 1..MaxDomainId, n \in ByteAmounts : DeclareFlow(w, wb, s, sb, d, n)
         \/ \E ref \in FlowRef : \E g : AdmitStep(ref, g)
         \/ \E ref \in FlowRef : QueueFlow(ref)
         \/ \E i, g : EndStep(i, g)
<1>1. ASSUME NEW p, NEW b, RegisterWorker(p, b) \/ RegisterSource(p, b) \/ UNCHANGED flowVars
      PROVE  QuietStep
  <2>1. UNCHANGED <<flows, members, next_domain, active_flows>>
    BY <1>1, Zenon DEF RegisterWorker, RegisterSource, flowVars
  <2>2. \A j \in DOMAIN flows : flows[j].generation \in Int
    BY FlowFields DEF FlowTypeOK, Generations
  <2> QED
    BY <2>1, <2>2 DEF QuietStep, KeepsQuietly, Keeps
<1>2. ASSUME NEW p, NEW b, FenceWorker(p, b) \/ FenceSource(p, b) \/ RecoverFlows
      PROVE  QuietStep
  BY <1>2, MarkLiveQuietly, Zenon DEF FenceWorker, FenceSource, RecoverFlows
<1>3. ASSUME NEW ref \in FlowRef, NEW b \in Boots, FlowComplete(ref, b) \/ FlowFail(ref, b)
      PROVE  \E i, g : EndStep(i, g)
  <2>1. 0 \in U64
    BY WidthAssumption DEF U64
  <2> QED
    BY <1>3, <2>1, OperationEnds, Zenon
<1>4. ASSUME NEW ref \in FlowRef, NEW b \in Boots, NEW n \in ByteAmounts, FlowCancel(ref, b, n)
      PROVE  \E i, g : EndStep(i, g)
  <2>1. n \in U64
    BY LimitsAssumption
  <2> QED
    BY <1>4, <2>1, OperationEnds, Zenon
<1> QED
  BY <1>1, <1>2, <1>3, <1>4, FlowOpQuiet, AdvanceQuiet, OperationAdmits, Zenon DEF FlowNext

-----------------------------------------------------------------------------
(* The lists of the domains.                                               *)

\* BoundExactlyOnce, strengthened by: the domain of a flow has been created, so
\* the domain that is created next has no flows and may start with no list.
BoundInv ==
    /\ BoundExactlyOnce
    /\ \A i \in DOMAIN flows : flows[i].domain < next_domain

\* The lists hold references.
LEMMA ListedRef ==
  ASSUME FlowTypeOK, NEW d \in DOMAIN members
  PROVE  /\ members[d] \in Seq(FlowRef) /\ Len(members[d]) \in Nat
         /\ DOMAIN members[d] = 1..Len(members[d])
         /\ \A k \in DOMAIN members[d] : members[d][k] \in FlowRef
<1>1. members[d] \in Seq(FlowRef)
  BY Zenon DEF FlowTypeOK
<1> QED
  BY <1>1

\* A step that keeps the flows and touches no list keeps it.
LEMMA BoundKept ==
  ASSUME FlowTypeOK, FlowTypeOK', BoundInv, DOMAIN flows' = DOMAIN flows,
         \A i \in DOMAIN flows : Keeps(flows[i], flows'[i]),
         UNCHANGED <<members, next_domain>>
  PROVE  BoundInv'
<1>1. ASSUME NEW d \in DOMAIN members, NEW k \in DOMAIN members[d]
      PROVE  members[d][k].generation \in Int
  BY ListedRef DEF FlowRef, Generations
<1>2. \A i \in DOMAIN flows : flows[i].generation \in Int /\ flows'[i].generation \in Int
  BY FlowFields DEF FlowTypeOK, Generations
<1>3. ASSUME NEW d \in DOMAIN members, NEW k \in DOMAIN members[d]
      PROVE  LET ref == members[d][k]
             IN  /\ ref.id \in DOMAIN flows'
                 /\ flows'[ref.id].domain = d
                 /\ flows'[ref.id].state # "DECLARED"
                 /\ ref.generation <= flows'[ref.id].generation
  <2> DEFINE ref == members[d][k]
  <2>1. /\ ref.id \in DOMAIN flows /\ flows[ref.id].domain = d
        /\ flows[ref.id].state # "DECLARED"
        /\ ref.generation <= flows[ref.id].generation
    BY DEF BoundInv, BoundExactlyOnce
  <2> QED
    BY <1>1, <1>2, <2>1 DEF Keeps
<1>4. \A i \in DOMAIN flows' :
        flows'[i].admitted > 0 /\ flows'[i].domain \in DOMAIN members
          => \E k \in DOMAIN members[flows'[i].domain] :
                members[flows'[i].domain][k].id = i
  BY DEF BoundInv, BoundExactlyOnce, Keeps
<1>5. \A i \in DOMAIN flows' : flows'[i].domain < next_domain
  BY Zenon DEF BoundInv, Keeps
<1>6. \A d \in DOMAIN members : \A j, k \in DOMAIN members[d] :
         members[d][j].id = members[d][k].id => j = k
  BY Zenon DEF BoundInv, BoundExactlyOnce
<1>7. BoundExactlyOnce'
  BY <1>3, <1>4, <1>6 DEF BoundExactlyOnce
<1> QED
  BY <1>5, <1>7, Zenon DEF BoundInv

\* An admission adds the flow to a list that does not hold it yet: a declared
\* flow is on no list.
LEMMA BoundAdmit ==
  ASSUME FlowTypeOK, FlowTypeOK', BoundInv, NEW ref \in FlowRef, NEW g, AdmitStep(ref, g)
  PROVE  BoundInv'
<1> DEFINE e == g.domain
           q == members[e]
           n == Len(q)
<1>1. /\ ref.id \in DOMAIN flows /\ e \in DOMAIN members /\ q \in Seq(FlowRef) /\ n \in Nat
      /\ DOMAIN q = 1..n /\ flows[ref.id].state = "DECLARED"
      /\ e = flows[ref.id].domain /\ ref.generation = flows[ref.id].generation
  BY SMTT(20) DEF AdmitStep, OneFlowStep, Resolves, FlowTypeOK
<1>2. /\ DOMAIN flows' = DOMAIN flows /\ flows'[ref.id] = g
      /\ \A i \in DOMAIN flows : i # ref.id => flows'[i] = flows[i]
  BY <1>1, Zenon DEF AdmitStep, OneFlowStep, FlowTypeOK
<1>3. /\ DOMAIN members' = DOMAIN members /\ members'[e] = Append(q, ref)
      /\ \A d \in DOMAIN members : d # e => members'[d] = members[d]
  BY <1>1, Zenon DEF AdmitStep, FlowTypeOK
<1>4. /\ DOMAIN members'[e] = 1..(n + 1) /\ members'[e][n + 1] = ref
      /\ \A k \in 1..n : members'[e][k] = q[k]
  BY <1>1, <1>3
<1>5. \A d \in DOMAIN members : \A k \in DOMAIN members[d] : members[d][k].id # ref.id
  BY <1>1 DEF BoundInv, BoundExactlyOnce
<1>6. g.generation = ref.generation /\ g.state = "ADMITTED" /\ ref.generation \in Int
  BY DEF AdmitStep, FlowRef, Generations
<1>7. ASSUME NEW d \in DOMAIN members', NEW j \in DOMAIN members'[d],
             NEW k \in DOMAIN members'[d], members'[d][j].id = members'[d][k].id
      PROVE  j = k
  <2>1. CASE d # e
    BY <1>3, <1>7, <2>1 DEF BoundInv, BoundExactlyOnce
  <2>2. CASE d = e
    <3>1. (j \in 1..n \/ j = n + 1) /\ (k \in 1..n \/ k = n + 1)
      BY SMTT(20), <1>1, <1>4, <1>7, <2>2
    <3>2. CASE j \in 1..n /\ k \in 1..n
      <4>1. members'[d][j] = q[j] /\ members'[d][k] = q[k] /\ q[j].id = q[k].id
        BY <1>4, <1>7, <2>2, <3>2, Zenon
      <4> HIDE DEF e, q, n
      <4>2. \A x, y \in DOMAIN members[e] : members[e][x].id = members[e][y].id => x = y
        BY <1>1, Zenon DEF BoundInv, BoundExactlyOnce
      <4> QED
        BY <1>1, <3>2, <4>1, <4>2, Zenon DEF q
    <3> QED
      BY SMTT(20), <1>1, <1>4, <1>5, <1>7, <2>2, <3>1, <3>2
  <2> QED
    BY <2>1, <2>2, Zenon
<1>8. ASSUME NEW d \in DOMAIN members', NEW k \in DOMAIN members'[d]
      PROVE  LET r == members'[d][k]
             IN  /\ r.id \in DOMAIN flows'
                 /\ flows'[r.id].domain = d
                 /\ flows'[r.id].state # "DECLARED"
                 /\ r.generation <= flows'[r.id].generation
  <2> DEFINE r == members'[d][k]
  <2>1. CASE d \in DOMAIN members /\ k \in DOMAIN members[d] /\ r = members[d][k]
    BY <1>2, <1>5, <2>1 DEF BoundInv, BoundExactlyOnce
  <2>2. CASE d = e /\ r = ref
    BY <1>1, <1>2, <1>6, <2>2
  <2>3. CASE d # e
    BY <1>3, <1>8, <2>1, <2>3, Zenon
  <2>4. CASE d = e
    <3>1. k \in 1..n \/ k = n + 1
      BY <1>1, <1>4, <1>8, <2>4
    <3> QED
      BY <1>1, <1>4, <2>1, <2>2, <2>4, <3>1, ZenonT(60)
  <2> QED
    BY <2>3, <2>4, Zenon
<1>9. ASSUME NEW i \in DOMAIN flows', flows'[i].admitted > 0,
             flows'[i].domain \in DOMAIN members'
      PROVE  \E k \in DOMAIN members'[flows'[i].domain] :
                members'[flows'[i].domain][k].id = i
  <2>1. CASE i = ref.id
    <3>1. flows'[i].domain = e /\ n + 1 \in DOMAIN members'[e]
      BY <1>1, <1>2, <1>4, <2>1
    <3> QED
      BY <1>4, <2>1, <3>1
  <2>2. CASE i # ref.id
    <3>1. PICK k \in DOMAIN members[flows[i].domain] : members[flows[i].domain][k].id = i
      BY <1>2, <1>3, <1>9, <2>2, Zenon DEF BoundInv, BoundExactlyOnce
    <3>2. /\ k \in DOMAIN members'[flows[i].domain]
          /\ members'[flows[i].domain][k] = members[flows[i].domain][k]
      <4>1. flows[i].domain \in DOMAIN members
        BY <1>2, <1>3, <1>9, <2>2, Zenon
      <4>2. CASE flows[i].domain = e
        <5>1. k \in 1..n /\ k \in 1..(n + 1)
          BY <1>1, <3>1, <4>2
        <5> QED
          BY <1>4, <4>2, <5>1, Zenon
      <4> QED
        BY <1>3, <3>1, <4>1, <4>2, Zenon
    <3> QED
      BY <1>2, <1>9, <2>2, <3>1, <3>2, Zenon
  <2> QED
    BY <2>1, <2>2, Zenon
<1>10. \A i \in DOMAIN flows' : flows'[i].domain < next_domain'
  BY <1>1, <1>2, Zenon DEF BoundInv, AdmitStep, OneFlowStep
<1>11. BoundExactlyOnce'
  BY <1>7, <1>8, <1>9 DEF BoundExactlyOnce
<1> QED
  BY <1>10, <1>11, Zenon DEF BoundInv

\* A new domain has an empty list, and no flow names it yet.
LEMMA BoundDomain ==
  ASSUME FlowTypeOK, FlowTypeOK', BoundInv,
         CreateDomain \/ \E d \in 1..MaxDomainId : RemoveDomain(d)
  PROVE  BoundInv'
<1>0. next_domain \in Int /\ UNCHANGED flows
  <2>1. next_domain \in Int
    BY LimitsAssumption DEF FlowTypeOK
  <2> QED
    BY <2>1, Zenon DEF CreateDomain, RemoveDomain
<1>1. CASE CreateDomain
  <2>1. /\ next_domain' = next_domain + 1 /\ next_domain \notin DOMAIN members
        /\ DOMAIN members' = DOMAIN members \cup {next_domain}
        /\ members'[next_domain] = << >>
        /\ \A d \in DOMAIN members : members'[d] = members[d]
    BY <1>0, <1>1 DEF CreateDomain, FlowTypeOK
  <2>2. DOMAIN members'[next_domain] = {}
    BY <2>1
  <2>3. \A i \in DOMAIN flows : flows[i].domain \in Int /\ flows[i].domain < next_domain
    BY SMTT(20), FlowFields, LimitsAssumption DEF BoundInv, FlowTypeOK
  <2>4. \A d \in DOMAIN members' : \A j, k \in DOMAIN members'[d] :
           members'[d][j].id = members'[d][k].id => j = k
    BY <2>1, <2>2 DEF BoundInv, BoundExactlyOnce
  <2>5. \A d \in DOMAIN members' : \A k \in DOMAIN members'[d] :
           LET ref == members'[d][k]
           IN  /\ ref.id \in DOMAIN flows
               /\ flows[ref.id].domain = d
               /\ flows[ref.id].state # "DECLARED"
               /\ ref.generation <= flows[ref.id].generation
    BY <2>1, <2>2 DEF BoundInv, BoundExactlyOnce
  <2>6. \A i \in DOMAIN flows :
           flows[i].admitted > 0 /\ flows[i].domain \in DOMAIN members'
             => \E k \in DOMAIN members'[flows[i].domain] :
                   members'[flows[i].domain][k].id = i
    BY <1>0, <2>1, <2>3 DEF BoundInv, BoundExactlyOnce
  <2>7. BoundExactlyOnce'
    BY SMTT(20), <1>0, <2>4, <2>5, <2>6 DEF BoundExactlyOnce
  <2> QED
    BY <1>0, <2>1, <2>3, <2>7 DEF BoundInv
<1>2. ASSUME NEW d \in 1..MaxDomainId, RemoveDomain(d) PROVE BoundInv'
  BY <1>0, <1>2 DEF RemoveDomain, BoundInv, BoundExactlyOnce
<1> QED
  BY <1>1, <1>2, Zenon

\* A declared flow names an existing domain and has no admitted bytes.
LEMMA BoundDeclare ==
  ASSUME FlowTypeOK, BoundInv, NEW w, NEW s, NEW wb, NEW sb, NEW d, NEW n,
         DeclareFlow(w, wb, s, sb, d, n)
  PROVE  BoundInv'
<1>1. /\ next_flow \notin DOMAIN flows /\ UNCHANGED <<members, next_domain>>
      /\ d \in DOMAIN members /\ d < next_domain
  BY LimitsAssumption, SMTT(30) DEF FlowTypeOK, DeclareFlow
<1>2. /\ DOMAIN flows' = DOMAIN flows \cup {next_flow}
      /\ \A i \in DOMAIN flows : flows'[i] = flows[i]
      /\ flows'[next_flow].domain = d /\ flows'[next_flow].admitted = 0
  BY <1>1, Zenon DEF DeclareFlow
<1>3. BoundExactlyOnce'
  BY <1>1, <1>2, SMTT(30) DEF BoundInv, BoundExactlyOnce
<1> QED
  BY <1>1, <1>2, <1>3 DEF BoundInv

\* Queueing a flow changes only its state.
LEMMA QueueKeeps ==
  ASSUME FlowTypeOK, AccountingInv, NEW ref \in FlowRef, QueueFlow(ref)
  PROVE  /\ DOMAIN flows' = DOMAIN flows
         /\ \A i \in DOMAIN flows : Keeps(flows[i], flows'[i])
         /\ \A i \in DOMAIN flows : i # ref.id => flows'[i] = flows[i]
         /\ ref.id \in DOMAIN flows /\ flows[ref.id].state = "ADMITTED"
         /\ flows'[ref.id].state = "QUEUED"
         /\ flows'[ref.id].generation = flows[ref.id].generation
         /\ UNCHANGED <<members, next_domain, active_flows>>
<1> DEFINE f == flows[ref.id]
           g == [f EXCEPT !.state = "QUEUED"]
<1>1. ref.id \in DOMAIN flows /\ f \in Flow /\ LedgerOK(f)
  BY Zenon DEF QueueFlow, Resolves, FlowTypeOK, AccountingInv
<1>2. f.state = "ADMITTED"
  BY <1>1 DEF QueueFlow, FlowTransitionAllowed, FlowTransitions, LedgerOK, ReachedStates
<1>3. flows' = [flows EXCEPT ![ref.id] = g] /\ UNCHANGED <<members, next_domain, active_flows>>
  BY Zenon DEF QueueFlow, ReplaceFlow
<1>4. \A i \in DOMAIN flows : flows[i].generation \in Int
  BY FlowFields DEF FlowTypeOK, Generations
<1>5. Keeps(f, g) /\ g.state = "QUEUED" /\ g.generation = f.generation
  BY <1>1, <1>4 DEF Keeps, Flow
<1>6. \A i \in DOMAIN flows : flows'[i] = IF i = ref.id THEN g ELSE flows[i]
  BY <1>3, Zenon DEF FlowTypeOK
<1>7. \A i \in DOMAIN flows : Keeps(flows[i], flows[i])
  BY <1>4 DEF Keeps
<1>8. DOMAIN flows' = DOMAIN flows
  BY <1>3, Zenon
<1>9. \A i \in DOMAIN flows : Keeps(flows[i], flows'[i])
  BY <1>5, <1>6, <1>7, Zenon
<1> HIDE DEF g
<1> QED
  BY <1>1, <1>2, <1>3, <1>5, <1>6, <1>8, <1>9, Zenon

\* So does the end of a flow, as far as the lists are concerned.
LEMMA EndKeeps ==
  ASSUME FlowTypeOK, NEW i, NEW g, EndStep(i, g)
  PROVE  /\ DOMAIN flows' = DOMAIN flows
         /\ \A j \in DOMAIN flows : Keeps(flows[j], flows'[j])
         /\ \A j \in DOMAIN flows : flows'[j] = IF j = i THEN g ELSE flows[j]
         /\ i \in DOMAIN flows
         /\ UNCHANGED <<members, next_domain>>
<1>1. i \in DOMAIN flows /\ flows' = [flows EXCEPT ![i] = g] /\ Keeps(flows[i], g)
      /\ UNCHANGED <<members, next_domain>>
  BY DEF EndStep, OneFlowStep
<1>2. \A j \in DOMAIN flows : Keeps(flows[j], flows[j])
  BY FlowFields DEF FlowTypeOK, Generations, Keeps
<1>3. DOMAIN flows' = DOMAIN flows
  BY <1>1, Zenon
<1>4. \A j \in DOMAIN flows : flows'[j] = IF j = i THEN g ELSE flows[j]
  BY <1>1, Zenon DEF FlowTypeOK
<1> QED
  BY <1>1, <1>2, <1>3, <1>4, Zenon

\* Every step keeps the lists in order.
LEMMA BoundStep ==
  ASSUME FlowTypeOK, FlowTypeOK', AccountingInv, BoundInv, [FlowNext]_flowVars
  PROVE  BoundInv'
<1>1. CASE QuietStep
  BY <1>1, BoundKept, Zenon DEF QuietStep, KeepsQuietly
<1>2. ASSUME NEW ref \in FlowRef, QueueFlow(ref) PROVE BoundInv'
  BY <1>2, QueueKeeps, BoundKept, Zenon
<1>3. ASSUME NEW i, NEW g, EndStep(i, g) PROVE BoundInv'
  BY <1>3, EndKeeps, BoundKept, Zenon
<1> QED
  BY <1>1, <1>2, <1>3, StepKinds, BoundAdmit, BoundDomain, BoundDeclare

\* A flow is bound to its domain exactly once, for any number of flows, domains
\* and generations, although admit_flow appends without looking for the flow.
THEOREM BoundCorrect == FlowSpec => []BoundExactlyOnce
<1>1. FlowInit => BoundInv
  BY DEF FlowInit, BoundInv, BoundExactlyOnce
<1>2. FlowTypeOK /\ FlowTypeOK' /\ AccountingInv /\ BoundInv /\ [FlowNext]_flowVars
        => BoundInv'
  BY BoundStep
<1>3. BoundInv => BoundExactlyOnce
  BY Zenon DEF BoundInv
<1> QED
  BY <1>1, <1>2, <1>3, FlowTypeCorrect, LedgersCorrect, PTL DEF FlowSpec
=============================================================================
