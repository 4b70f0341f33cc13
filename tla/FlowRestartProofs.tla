-------------------------- MODULE FlowRestartProofs --------------------------
(***************************************************************************)
(* What holds of the flow table across saves, crashes and restarts, for    *)
(* every number of workers, domains and flows and every counter width; and *)
(* the limits of the table: the cached count of live flows is exact, and   *)
(* the queues that queue_flow counts stay within their length.             *)
(***************************************************************************)
EXTENDS FlowRestart, FlowTableProofs, FiniteSetTheorems, SequenceTheorems

-----------------------------------------------------------------------------
(* The invariant: the table and the image in the file are sound alike.     *)

\* The image in the file is a well-formed table.
ImageTyped(m) ==
    /\ m.worker_boot \in [Workers -> U64]
    /\ m.source_boot \in [Sources -> U64]
    /\ m.next_domain \in 1..(MaxDomainId + 1)
    /\ m.next_flow \in 1..(MaxFlowId + 1)
    /\ DOMAIN m.members \subseteq 1..(m.next_domain - 1)
    /\ m.members \in [DOMAIN m.members -> Seq(FlowRef)]
    /\ m.flows \in [1..(m.next_flow - 1) -> Flow]

ImageLedger(m) == \A i \in DOMAIN m.flows : LedgerOK(m.flows[i])

\* Flow f belongs to that boot of the party.
Owns(f, party, boot) ==
    \/ f.owner_worker = party /\ f.owner_boot = boot
    \/ f.source = party /\ f.source_boot = boot

\* What was fenced when the image was written is dead in it.
ImageFenced(m) ==
    \A pb \in kept : pb[2] < MaxU64 =>
        /\ (IF pb[1] \in Workers THEN m.worker_boot[pb[1]] ELSE m.source_boot[pb[1]]) > pb[2]
        /\ \A i \in DOMAIN m.flows : Owns(m.flows[i], pb[1], pb[2]) =>
              m.flows[i].state \in Terminal \cup OutOfService

FileInv ==
    /\ kept \subseteq (Workers \cup Sources) \X Boots
    /\ Complete => ImageTyped(file) /\ ImageLedger(file) /\ ImageFenced(file)

RestartInv ==
    /\ FlowTypeOK /\ AccountingInv /\ FencedStaysDead
    /\ restored \in Nat /\ LoadedStaysOut
    /\ FileInv

-----------------------------------------------------------------------------
\* load keeps everything of a flow but its state, and leaves no flow in service.
LEMMA RestoredFlow ==
  ASSUME NEW f \in Flow, LedgerOK(f)
  PROVE  /\ Restored(f) \in Flow /\ LedgerOK(Restored(f))
         /\ Restored(f).state \in Terminal \cup OutOfService
         /\ \A p, b : Owns(Restored(f), p, b) => Owns(f, p, b)
<1>1. CASE Restored(f) = f
  BY <1>1 DEF Restored, LedgerOK, ReachedStates, Terminal, StaleOrSuperseded, OutOfService
<1>2. CASE /\ f.state \notin Terminal \cup StaleOrSuperseded
           /\ Restored(f) = [f EXCEPT !.state = "REVALIDATION_REQUIRED"]
  <2>1. "REVALIDATION_REQUIRED" \in FlowStates
    BY Zenon DEF FlowStates
  <2> QED
    BY <1>2, <2>1, Zenon DEF LedgerOK, ReachedStates, Terminal, OutOfService, Owns, Flow
<1> QED
  BY <1>1, <1>2, Zenon DEF Restored

\* A first start satisfies the invariant.
LEMMA RestartStart == RestartInit => RestartInv
<1> SUFFICES ASSUME RestartInit PROVE RestartInv
  OBVIOUS
<1>1. FlowTypeOK
  BY TypeInit, Zenon DEF RestartInit
<1> QED
  BY <1>1 DEF RestartInit, RestartInv, FlowInit, AccountingInv, FencedStaysDead,
              LoadedStaysOut, FileInv, Complete

\* An operation of the engine changes neither the file nor, by MayBecome, what
\* was loaded.
LEMMA OperationStep ==
  ASSUME RestartInv, [FlowNext]_flowVars, UNCHANGED <<file, kept, restored>>
  PROVE  RestartInv'
<1>1. FlowTypeOK'
  BY TypeStep, Zenon DEF RestartInv
<1>2. AccountingInv'
  BY AccountingStep, Zenon DEF RestartInv
<1>3. FencedStaysDead'
  BY <1>1, FencedStep, Zenon DEF RestartInv
<1>4. LoadedStaysOut'
  <2>1. AllMayBecome
    BY StepMayBecome, Zenon DEF RestartInv
  <2> QED
    BY <2>1, Zenon DEF RestartInv, LoadedStaysOut, AllMayBecome, MayBecome
<1>5. FileInv'
  BY Zenon DEF RestartInv, FileInv, Complete, ImageTyped, ImageLedger, ImageFenced
<1> QED
  BY <1>1, <1>2, <1>3, <1>4, <1>5, Zenon DEF RestartInv

\* A written image is as sound as the table.
LEMMA WriteStep ==
  ASSUME RestartInv, WriteFile
  PROVE  RestartInv'
<1>1. UNCHANGED flowVars /\ file' = Image /\ kept' = fenced /\ restored' = restored
  BY Zenon DEF WriteFile
<1>2. FlowTypeOK' /\ AccountingInv' /\ FencedStaysDead' /\ restored' \in Nat /\ LoadedStaysOut'
  BY <1>1, Zenon
  DEF RestartInv, flowVars, FlowTypeOK, AccountingInv, FencedStaysDead, BootOf, OwnedBy,
              LoadedStaysOut
<1>3. /\ Image.worker_boot = worker_boot /\ Image.source_boot = source_boot
      /\ Image.members = members /\ Image.next_domain = next_domain
      /\ Image.flows = flows /\ Image.next_flow = next_flow
  BY Zenon DEF Image
<1>4. ImageTyped(Image) /\ ImageLedger(Image)
  BY <1>3, Zenon DEF RestartInv, FlowTypeOK, AccountingInv, ImageTyped, ImageLedger
<1>5. ImageFenced(file)'
  BY <1>1, <1>3 DEF RestartInv, FencedStaysDead, BootOf, OwnedBy, ImageFenced, Owns
<1>6. kept' \subseteq (Workers \cup Sources) \X Boots
  BY <1>1, Zenon DEF RestartInv, FlowTypeOK
<1>7. FileInv'
  BY <1>1, <1>4, <1>5, <1>6, Zenon DEF FileInv, ImageTyped, ImageLedger
<1> QED
  BY <1>2, <1>7, Zenon DEF RestartInv

\* A process that has ended has an empty table.
LEMMA ExitStep ==
  ASSUME RestartInv, Exit
  PROVE  RestartInv'
<1>1. FlowTypeOK'
  BY WidthAssumption, LimitsAssumption DEF Exit, FlowTypeOK, U64
<1>2. FileInv'
  BY Zenon DEF Exit, RestartInv, FileInv, Complete, ImageTyped, ImageLedger, ImageFenced
<1> QED
  BY <1>1, <1>2 DEF Exit, RestartInv, AccountingInv, FencedStaysDead, LoadedStaysOut

\* A loaded table is as sound as the image, and out of service.
LEMMA LoadStep ==
  ASSUME RestartInv, StartLoaded
  PROVE  RestartInv'
<1>1. ImageTyped(file) /\ ImageLedger(file) /\ ImageFenced(file)
  BY Zenon DEF StartLoaded, RestartInv, FileInv
<1>2. /\ worker_boot' = file.worker_boot /\ source_boot' = file.source_boot
      /\ members' = file.members /\ next_domain' = file.next_domain
      /\ flows' = [i \in DOMAIN file.flows |-> Restored(file.flows[i])]
      /\ next_flow' = file.next_flow /\ fenced' = kept
      /\ restored' = file.next_flow - 1
      /\ UNCHANGED <<active_flows, file, kept>>
  BY Zenon DEF StartLoaded
<1>3. DOMAIN file.flows = 1..(file.next_flow - 1) /\ file.next_flow \in Nat \ {0}
  BY <1>1, LimitsAssumption DEF ImageTyped
<1>4. \A i \in DOMAIN file.flows : file.flows[i] \in Flow /\ LedgerOK(file.flows[i])
  BY <1>1, Zenon DEF ImageTyped, ImageLedger
<1>5. \A i \in DOMAIN flows' :
        /\ flows'[i] \in Flow /\ LedgerOK(flows'[i])
        /\ flows'[i].state \in Terminal \cup OutOfService
  BY <1>2, <1>4, RestoredFlow, Zenon
<1>6. FlowTypeOK'
  <2>1. flows' \in [1..(next_flow' - 1) -> Flow]
    BY <1>2, <1>3, <1>5, Zenon
  <2> QED
    BY <1>1, <1>2, <2>1, Zenon DEF RestartInv, FileInv, FlowTypeOK, ImageTyped
<1>7. AccountingInv'
  BY <1>5, Zenon DEF AccountingInv
<1>8. FencedStaysDead'
  BY <1>1, <1>2, <1>5, Zenon DEF FencedStaysDead, BootOf, ImageFenced
<1>9. restored' \in Nat /\ LoadedStaysOut'
  <2>1. restored' \in Nat
    BY <1>2, <1>3
  <2>2. DOMAIN flows' = 1..restored'
    BY <1>2, <1>3, Zenon
  <2>3. LoadedStaysOut'
    BY <1>5, <2>2, Zenon DEF LoadedStaysOut
  <2> QED
    BY <2>1, <2>3, Zenon
<1>10. FileInv'
  BY <1>2, Zenon DEF RestartInv, FileInv, Complete, ImageTyped, ImageLedger, ImageFenced
<1> QED
  BY <1>6, <1>7, <1>8, <1>9, <1>10, Zenon DEF RestartInv

\* Every step, restarts included, keeps it.
LEMMA RestartStep == RestartInv /\ [RestartNext]_restartVars => RestartInv'
<1> SUFFICES ASSUME RestartInv, [RestartNext]_restartVars PROVE RestartInv'
  OBVIOUS
<1>1. CASE Operation \/ UNCHANGED restartVars
  BY <1>1, OperationStep, Zenon DEF Operation, restartVars
<1>2. CASE OpenFile
  <2>1. FileInv'
    BY <1>2, Zenon DEF OpenFile, RestartInv, FileInv, Complete
  <2> QED
    BY <1>2, <2>1 DEF OpenFile, RestartInv, flowVars, FlowTypeOK, AccountingInv,
                      FencedStaysDead, BootOf, OwnedBy, LoadedStaysOut
<1>3. CASE WriteFails \/ StartEmpty
  BY <1>3, OperationStep, Zenon DEF WriteFails, StartEmpty
<1> QED
  BY <1>1, <1>2, <1>3, WriteStep, ExitStep, LoadStep, Zenon DEF RestartNext

\* The invariant holds throughout.
LEMMA RestartInvariant == RestartSpec => []RestartInv
BY RestartStart, RestartStep, PTL DEF RestartSpec

-----------------------------------------------------------------------------
(* Consequences.                                                           *)

\* load accepts every completely written file: the accounting that the handlers
\* maintain implies accounting_valid for every flow, in every interleaving with
\* saves, crashes and restarts.
THEOREM SavedCorrect == RestartSpec => []SavedIsLoadable
<1>1. RestartInv => SavedIsLoadable
  <2> SUFFICES ASSUME RestartInv, Complete, NEW i \in DOMAIN file.flows
               PROVE  AccountingValid(file.flows[i])
    BY DEF SavedIsLoadable, Accepted
  <2>1. file.flows[i] \in Flow /\ LedgerOK(file.flows[i])
    BY SMTT(20) DEF RestartInv, FileInv, ImageTyped, ImageLedger
  <2> QED
    BY <2>1, LedgerFields DEF LedgerOK, AccountingValid
<1> QED
  BY <1>1, RestartInvariant, PTL

\* A flow that load has brought back is never in service again, whatever the
\* workers do and however often the coordinator is restarted.
THEOREM LoadedCorrect == RestartSpec => []LoadedStaysOut
<1>1. RestartInv => LoadedStaysOut
  BY Zenon DEF RestartInv
<1> QED
  BY <1>1, RestartInvariant, PTL

\* A boot that was fenced when the file was written is dead after every start
\* from that file, and so is every boot fenced since.
THEOREM FencesCorrect == RestartSpec => []FencesSurvive
<1>1. RestartInv => FencesSurvive
  BY DEF RestartInv, FencesSurvive
<1> QED
  BY <1>1, RestartInvariant, PTL

\* The byte accounting of every flow stays sound across restarts.
THEOREM RestartAccountingCorrect == RestartSpec => []AccountingSound
<1>1. RestartInv => AccountingSound
  BY AccountingInvImplies DEF RestartInv
<1> QED
  BY <1>1, RestartInvariant, PTL

-----------------------------------------------------------------------------
(* The lists of the domains across restarts.                               *)

\* BoundInv of a table that holds these lists, flows and this next id.
Bound(ms, fs, next) ==
    /\ \A d \in DOMAIN ms : \A j, k \in DOMAIN ms[d] : ms[d][j].id = ms[d][k].id => j = k
    /\ \A d \in DOMAIN ms : \A k \in DOMAIN ms[d] :
          /\ ms[d][k].id \in DOMAIN fs
          /\ fs[ms[d][k].id].domain = d
          /\ fs[ms[d][k].id].state # "DECLARED"
          /\ ms[d][k].generation <= fs[ms[d][k].id].generation
    /\ \A i \in DOMAIN fs :
          fs[i].admitted > 0 /\ fs[i].domain \in DOMAIN ms
            => \E k \in DOMAIN ms[fs[i].domain] : ms[fs[i].domain][k].id = i
    /\ \A i \in DOMAIN fs : fs[i].domain < next

ImageBound(m) == Bound(m.members, m.flows, m.next_domain)

ListsInv == BoundInv /\ (Complete => ImageBound(file))

\* Bound says of the table what BoundInv says.
LEMMA BoundOfTable == BoundInv <=> Bound(members, flows, next_domain)
BY DEF BoundInv, BoundExactlyOnce, Bound

\* Flows that keep their domain, generation and admitted bytes, and do not go back
\* to "DECLARED", stay bound.
LEMMA BoundOfOthers ==
  ASSUME NEW ms, NEW fs, NEW gs, NEW next, Bound(ms, fs, next), DOMAIN gs = DOMAIN fs,
         \A i \in DOMAIN fs : /\ gs[i].domain = fs[i].domain
                              /\ gs[i].generation = fs[i].generation
                              /\ gs[i].admitted = fs[i].admitted
                              /\ gs[i].state = "DECLARED" => fs[i].state = "DECLARED"
  PROVE  Bound(ms, gs, next)
BY DEF Bound

\* A written image lists what the table lists.
LEMMA WriteLists ==
  ASSUME ListsInv, WriteFile
  PROVE  ListsInv'
<1>1. UNCHANGED flowVars /\ file' = Image
  BY DEF WriteFile
<1>2. /\ Image.members = members /\ Image.next_domain = next_domain /\ Image.flows = flows
  BY Zenon DEF Image
<1>3. ImageBound(Image)
  BY SMTT(20), <1>2, BoundOfTable DEF ListsInv, ImageBound
<1>4. BoundInv'
  BY <1>1 DEF ListsInv, BoundInv, BoundExactlyOnce, flowVars
<1>5. ImageBound(file')
  BY <1>1, <1>3, Zenon
<1> QED
  BY <1>4, <1>5, Zenon DEF ListsInv

\* load leaves the lists as they were saved, and of a flow changes only the state,
\* never to "DECLARED".
LEMMA LoadLists ==
  ASSUME RestartInv, ListsInv, StartLoaded
  PROVE  ListsInv'
<1>1. ImageTyped(file) /\ ImageBound(file)
  BY DEF StartLoaded, RestartInv, FileInv, ListsInv
<1>2. /\ members' = file.members /\ next_domain' = file.next_domain
      /\ flows' = [i \in DOMAIN file.flows |-> Restored(file.flows[i])]
      /\ UNCHANGED file
  BY Zenon DEF StartLoaded
<1>3. ASSUME NEW i \in DOMAIN file.flows
      PROVE  /\ flows'[i].domain = file.flows[i].domain
             /\ flows'[i].generation = file.flows[i].generation
             /\ flows'[i].admitted = file.flows[i].admitted
             /\ flows'[i].state = "DECLARED" => file.flows[i].state = "DECLARED"
  <2>1. file.flows[i] \in Flow
    BY <1>1, Zenon DEF ImageTyped
  <2> QED
    BY <1>2, <2>1, Zenon DEF Restored, Flow
<1>4. DOMAIN flows' = DOMAIN file.flows
  BY <1>2, Zenon
<1>5. Bound(file.members, flows', file.next_domain)
  BY <1>1, <1>3, <1>4, BoundOfOthers, Zenon DEF ImageBound
<1>6. BoundInv'
  <2>1. Bound(members', flows', next_domain')
    BY <1>2, <1>5, Zenon
  <2> QED
    BY <2>1, Zenon DEF BoundInv, BoundExactlyOnce, Bound
<1>7. ImageBound(file')
  BY <1>1, <1>2, Zenon
<1> QED
  BY <1>6, <1>7, Zenon DEF ListsInv

\* Every step, restarts included, keeps the lists in order.
LEMMA ListsStep ==
  ASSUME RestartInv, RestartInv', ListsInv, [RestartNext]_restartVars
  PROVE  ListsInv'
<1>1. ASSUME [FlowNext]_flowVars, UNCHANGED file \/ file' = Torn PROVE ListsInv'
  <2>1. BoundInv'
    BY <1>1, BoundStep, Zenon DEF RestartInv, ListsInv
  <2>2. Complete' => ImageBound(file')
    BY <1>1, Zenon DEF ListsInv, Complete
  <2> QED
    BY <2>1, <2>2, Zenon DEF ListsInv
<1>2. CASE Operation \/ OpenFile \/ WriteFails \/ StartEmpty \/ UNCHANGED restartVars
  BY <1>1, <1>2, Zenon DEF Operation, OpenFile, WriteFails, StartEmpty, restartVars
<1>3. CASE Exit
  <2>1. BoundInv'
    BY <1>3 DEF Exit, BoundInv, BoundExactlyOnce
  <2>2. Complete' => ImageBound(file')
    BY <1>3, Zenon DEF Exit, ListsInv, Complete
  <2> QED
    BY <2>1, <2>2 DEF ListsInv
<1> QED
  BY SMTT(20), <1>2, <1>3, WriteLists, LoadLists DEF RestartNext

\* A flow is bound to its domain exactly once in every state, whatever was saved,
\* lost and loaded before.
THEOREM RestartBoundCorrect == RestartSpec => []BoundExactlyOnce
<1>1. RestartInit => ListsInv
  BY DEF RestartInit, FlowInit, ListsInv, BoundInv, BoundExactlyOnce, Complete
<1>2. RestartInv /\ RestartInv' /\ ListsInv /\ [RestartNext]_restartVars => ListsInv'
  BY ListsStep, Zenon
<1>3. ListsInv => BoundExactlyOnce
  BY Zenon DEF ListsInv, BoundInv
<1> QED
  BY <1>1, <1>2, <1>3, RestartInvariant, PTL DEF RestartSpec

-----------------------------------------------------------------------------
(* The count of live flows.                                                *)

LiveFlows == {i \in DOMAIN flows : ~IsTerminal(i)}

\* There are finitely many live flows.
LEMMA LiveFinite ==
  ASSUME FlowTypeOK
  PROVE  IsFiniteSet(LiveFlows) /\ Cardinality(LiveFlows) \in Nat
<1>1. next_flow - 1 \in Int /\ DOMAIN flows = 1..(next_flow - 1)
  BY LimitsAssumption DEF FlowTypeOK
<1>2. IsFiniteSet(DOMAIN flows)
  BY <1>1, FS_Interval
<1>3. LiveFlows \subseteq DOMAIN flows
  BY Zenon DEF LiveFlows
<1> QED
  BY <1>2, <1>3, FS_Subset, FS_CardinalityType, Zenon

\* A step that neither ends nor adds a flow leaves the count exact.
LEMMA CountKept ==
  ASSUME ActiveCountExact, DOMAIN flows' = DOMAIN flows,
         \A i \in DOMAIN flows : flows'[i].state \in Terminal <=> flows[i].state \in Terminal,
         UNCHANGED active_flows
  PROVE  ActiveCountExact'
<1>1. LiveFlows' = LiveFlows
  BY Zenon DEF LiveFlows, IsTerminal
<1> QED
  BY <1>1, Zenon DEF ActiveCountExact, LiveFlows

\* A declaration takes a slot that is free.
LEMMA CountDeclare ==
  ASSUME FlowTypeOK, ActiveCountExact, NEW w, NEW s, NEW wb, NEW sb, NEW d, NEW n,
         DeclareFlow(w, wb, s, sb, d, n)
  PROVE  ActiveCountExact'
<1>1. next_flow \notin DOMAIN flows /\ active_flows \in Nat /\ MaxActiveFlows \in Nat
  BY LimitsAssumption DEF FlowTypeOK
<1>2. /\ DOMAIN flows' = DOMAIN flows \cup {next_flow}
      /\ \A i \in DOMAIN flows : flows'[i] = flows[i]
      /\ flows'[next_flow].state = "DECLARED"
      /\ active_flows' = active_flows + 1 /\ active_flows < MaxActiveFlows
  BY <1>1, Zenon DEF DeclareFlow
<1>3. LiveFlows' = LiveFlows \cup {next_flow} /\ next_flow \notin LiveFlows
  BY <1>1, <1>2, Zenon DEF LiveFlows, IsTerminal, Terminal
<1>4. Cardinality(LiveFlows') = Cardinality(LiveFlows) + 1
  BY <1>3, LiveFinite, FS_AddElement, Zenon
<1> QED
  BY SMTT(20), <1>1, <1>2, <1>4 DEF ActiveCountExact, LiveFlows

\* The end of a flow gives up exactly one slot; there is one to give up, so the
\* guard of the decrement never applies.
LEMMA CountEnd ==
  ASSUME FlowTypeOK, ActiveCountExact, NEW i, NEW g, EndStep(i, g)
  PROVE  ActiveCountExact'
<1>1. i \in LiveFlows /\ g.state \in Terminal /\ active_flows' = Decremented
  BY EndKeeps DEF EndStep, LiveFlows
<1>2. LiveFlows' = LiveFlows \ {i}
  BY <1>1, EndKeeps, Zenon DEF LiveFlows, IsTerminal
<1>3. Cardinality(LiveFlows') = Cardinality(LiveFlows) - 1
  BY <1>1, <1>2, LiveFinite, FS_RemoveElement, Zenon
<1>4. Cardinality(LiveFlows) # 0
  BY <1>1, LiveFinite, FS_EmptySet, Zenon
<1> QED
  BY SMTT(20), <1>1, <1>3, <1>4, LiveFinite, LimitsAssumption
  DEF ActiveCountExact, LiveFlows, Decremented

\* Every step keeps the count exact.
LEMMA CountStep ==
  ASSUME FlowTypeOK, AccountingInv, ActiveCountExact, [FlowNext]_flowVars
  PROVE  ActiveCountExact'
<1>1. CASE QuietStep
  BY <1>1, CountKept, Zenon DEF QuietStep, KeepsQuietly
<1>2. CASE CreateDomain \/ \E d \in 1..MaxDomainId : RemoveDomain(d)
  <2>1. UNCHANGED <<flows, active_flows>>
    BY <1>2, Zenon DEF CreateDomain, RemoveDomain
  <2> QED
    BY <2>1, CountKept, Zenon
<1>3. ASSUME NEW ref \in FlowRef, NEW g, AdmitStep(ref, g) PROVE ActiveCountExact'
  <2>1. /\ DOMAIN flows' = DOMAIN flows /\ UNCHANGED active_flows
        /\ \A i \in DOMAIN flows : flows'[i] = IF i = ref.id THEN g ELSE flows[i]
        /\ g.state = "ADMITTED" /\ flows[ref.id].state = "DECLARED"
    BY <1>3, Zenon DEF AdmitStep, OneFlowStep, FlowTypeOK
  <2>2. \A i \in DOMAIN flows : flows'[i].state \in Terminal <=> flows[i].state \in Terminal
    BY <2>1, Zenon DEF Terminal
  <2> QED
    BY <2>1, <2>2, CountKept, Zenon
<1>4. ASSUME NEW ref \in FlowRef, QueueFlow(ref) PROVE ActiveCountExact'
  <2>1. \A i \in DOMAIN flows : flows'[i].state \in Terminal <=> flows[i].state \in Terminal
    BY <1>4, QueueKeeps, Zenon DEF Terminal
  <2> QED
    BY SMTT(20), <1>4, <2>1, QueueKeeps, CountKept
<1> QED
  BY SMTT(20), <1>1, <1>2, <1>3, <1>4, StepKinds, CountDeclare, CountEnd

\* The cached count of live flows is exact and within its limit, for any limit and
\* any number of flows: no path through the handlers ends a flow twice, or ends it
\* without giving up its slot.
THEOREM CountCorrect == FlowSpec => []ActiveCountExact
<1>1. FlowInit => ActiveCountExact
  <2> SUFFICES ASSUME FlowInit PROVE ActiveCountExact
    OBVIOUS
  <2>1. LiveFlows = {} /\ active_flows = 0
    BY DEF FlowInit, LiveFlows
  <2> QED
    BY <2>1, FS_EmptySet, LimitsAssumption DEF FlowInit, ActiveCountExact, LiveFlows
<1>2. FlowTypeOK /\ AccountingInv /\ ActiveCountExact /\ [FlowNext]_flowVars
        => ActiveCountExact'
  BY CountStep, Zenon
<1> QED
  BY <1>1, <1>2, FlowTypeCorrect, LedgersCorrect, PTL DEF FlowSpec

-----------------------------------------------------------------------------
(* The queues.                                                             *)

\* The places of a queue are finitely many.
LEMMA QueueFinite ==
  ASSUME FlowTypeOK, NEW d \in DOMAIN members
  PROVE  IsFiniteSet(QueuedRefs(d)) /\ Cardinality(QueuedRefs(d)) \in Nat
<1>1. IsFiniteSet(DOMAIN members[d])
  BY ListedRef, FS_Interval
<1>2. QueuedRefs(d) \subseteq DOMAIN members[d]
  BY Zenon DEF QueuedRefs
<1> QED
  BY <1>1, <1>2, FS_Subset, FS_CardinalityType, Zenon

\* A queue that loses entries stays within its limit.
LEMMA QueueShrinks ==
  ASSUME FlowTypeOK, ResolvedQueueBounded, NEW d \in DOMAIN members, NEW Q,
         Q \subseteq QueuedRefs(d)
  PROVE  Cardinality(Q) <= MaxQueueDepthOps
<1>1. Cardinality(Q) \in Nat /\ Cardinality(Q) <= Cardinality(QueuedRefs(d))
  BY QueueFinite, FS_Subset, FS_CardinalityType, Zenon
<1> QED
  BY <1>1, QueueFinite, LimitsAssumption DEF ResolvedQueueBounded

\* The flows of a list that are queued after a step that queues none were so
\* before: a reference that has stopped to resolve never resolves again, because
\* the lists hold no reference from a later generation.
LEMMA QueueKept ==
  ASSUME FlowTypeOK, FlowTypeOK', BoundInv, NEW d \in DOMAIN members,
         DOMAIN flows' = DOMAIN flows, d \in DOMAIN members', members'[d] = members[d],
         \A i \in DOMAIN flows : /\ flows'[i].generation >= flows[i].generation
                                 /\ flows'[i].state = "QUEUED" => flows[i].state = "QUEUED"
  PROVE  QueuedRefs(d)' \subseteq QueuedRefs(d)
<1> SUFFICES ASSUME NEW k \in QueuedRefs(d)' PROVE k \in QueuedRefs(d)
  OBVIOUS
<1> DEFINE ref == members[d][k]
<1>1. /\ k \in DOMAIN members[d] /\ ref.id \in DOMAIN flows
      /\ flows'[ref.id].generation = ref.generation /\ flows'[ref.id].state = "QUEUED"
  BY Zenon DEF QueuedRefs, Resolves
<1>2. ref.generation <= flows[ref.id].generation
  BY <1>1, Zenon DEF BoundInv, BoundExactlyOnce
<1>3. ref.generation \in Int /\ flows[ref.id].generation \in Int
  <2>1. ref \in FlowRef
    BY <1>1, ListedRef, Zenon
  <2>2. flows[ref.id] \in Flow
    BY <1>1, Zenon DEF FlowTypeOK
  <2> QED
    BY SMTT(20), <2>1, <2>2, FlowFields DEF FlowRef, Generations
<1>4. flows[ref.id].generation = ref.generation
  BY SMTT(20), <1>1, <1>2, <1>3
<1> QED
  BY <1>1, <1>4, Zenon DEF QueuedRefs, Resolves

\* Queueing a flow fills one place of its domain's queue, which queue_flow has
\* found free, and none of any other.
LEMMA QueueStep ==
  ASSUME FlowTypeOK, FlowTypeOK', AccountingInv, BoundInv, ResolvedQueueBounded,
         NEW ref \in FlowRef, QueueFlow(ref)
  PROVE  ResolvedQueueBounded'
<1>0. PICK e : e = flows[ref.id].domain
  OBVIOUS
<1>1. /\ DOMAIN flows' = DOMAIN flows /\ UNCHANGED members /\ ref.id \in DOMAIN flows
      /\ flows'[ref.id].generation = flows[ref.id].generation
      /\ \A i \in DOMAIN flows : i # ref.id => flows'[i] = flows[i]
  BY QueueKeeps, Zenon
<1>2. ASSUME NEW d \in DOMAIN members, d # e
      PROVE  QueuedRefs(d)' \subseteq QueuedRefs(d)
  <2>1. \A k \in DOMAIN members[d] : members[d][k].id # ref.id
    BY SMTT(20), <1>0, <1>2 DEF BoundInv, BoundExactlyOnce
  <2> QED
    BY <1>1, <2>1, Zenon DEF QueuedRefs, Resolves
<1>3. \A k \in QueuedRefs(e)' : k \in QueuedRefs(e) \/ members[e][k].id = ref.id
  BY <1>1 DEF QueuedRefs, Resolves
<1>4. e \in DOMAIN members /\ Cardinality(QueuedRefs(e)) + 1 <= MaxQueueDepthOps
  BY <1>0 DEF QueueFlow, QueueHasRoom
<1>5. Cardinality(QueuedRefs(e)') <= MaxQueueDepthOps
  <2>1. CASE QueuedRefs(e)' \subseteq QueuedRefs(e)
    BY <1>4, <2>1, QueueShrinks, Zenon
  <2>2. ASSUME NEW k \in QueuedRefs(e)', k \notin QueuedRefs(e)
        PROVE  Cardinality(QueuedRefs(e)') <= MaxQueueDepthOps
    <3>1. k \in DOMAIN members[e] /\ members[e][k].id = ref.id
      BY SMTT(20), <1>1, <1>3, <2>2 DEF QueuedRefs
    <3>2. QueuedRefs(e)' \subseteq QueuedRefs(e) \cup {k}
      BY SMTT(20), <1>1, <1>3, <1>4, <3>1 DEF BoundInv, BoundExactlyOnce, QueuedRefs
    <3>3. /\ IsFiniteSet(QueuedRefs(e) \cup {k})
          /\ Cardinality(QueuedRefs(e) \cup {k}) = Cardinality(QueuedRefs(e)) + 1
      BY <1>4, <2>2, QueueFinite, FS_AddElement, Zenon
    <3>4. /\ Cardinality(QueuedRefs(e)') \in Nat
          /\ Cardinality(QueuedRefs(e)') <= Cardinality(QueuedRefs(e)) + 1
      BY SMTT(20), <3>2, <3>3, FS_Subset, FS_CardinalityType
    <3> QED
      BY SMTT(20), <1>4, <3>4, QueueFinite, LimitsAssumption
  <2> QED
    BY <2>1, <2>2, Zenon
<1>6. ASSUME NEW d \in DOMAIN members'
      PROVE  Cardinality(QueuedRefs(d)') <= MaxQueueDepthOps
  BY <1>1, <1>2, <1>5, QueueShrinks, Zenon
<1> QED
  BY <1>6, Zenon DEF ResolvedQueueBounded

\* An admitted flow does not wait yet.
LEMMA QueueAdmit ==
  ASSUME FlowTypeOK, FlowTypeOK', BoundInv, ResolvedQueueBounded, NEW ref \in FlowRef,
         NEW g, AdmitStep(ref, g)
  PROVE  ResolvedQueueBounded'
<1> DEFINE e == g.domain
           n == Len(members[e])
<1>1. /\ ref.id \in DOMAIN flows /\ e \in DOMAIN members /\ g.state = "ADMITTED"
      /\ DOMAIN flows' = DOMAIN flows
      /\ \A i \in DOMAIN flows : flows'[i] = IF i = ref.id THEN g ELSE flows[i]
  BY SMTT(20) DEF AdmitStep, OneFlowStep, FlowTypeOK
<1>2. /\ DOMAIN members' = DOMAIN members /\ members'[e] = Append(members[e], ref)
      /\ \A d \in DOMAIN members : d # e => members'[d] = members[d]
  BY SMTT(20), <1>1 DEF AdmitStep, FlowTypeOK
<1>3. /\ n \in Nat /\ DOMAIN members[e] = 1..n /\ DOMAIN members'[e] = 1..(n + 1)
      /\ members'[e][n + 1] = ref
      /\ \A k \in 1..n : members'[e][k] = members[e][k]
  BY SMTT(20), <1>1, <1>2, ListedRef, AppendProperties
<1>4. ASSUME NEW d \in DOMAIN members, NEW k \in QueuedRefs(d)'
      PROVE  k \in QueuedRefs(d)
  <2>1. /\ k \in DOMAIN members'[d] /\ members'[d][k].id \in DOMAIN flows
        /\ members'[d][k].id # ref.id
        /\ flows'[members'[d][k].id].state = "QUEUED"
        /\ flows'[members'[d][k].id].generation = members'[d][k].generation
    BY <1>1, <1>4, Zenon DEF QueuedRefs, Resolves
  <2>2. k \in DOMAIN members[d] /\ members'[d][k] = members[d][k]
    <3>1. CASE d # e
      BY <1>2, <2>1, <3>1, Zenon
    <3>2. CASE d = e
      <4>1. k \in 1..n
        BY SMTT(20), <1>3, <2>1, <3>2
      <4> QED
        BY SMTT(20), <1>3, <3>2, <4>1
    <3> QED
      BY <3>1, <3>2, Zenon
  <2> QED
    BY SMTT(20), <1>1, <2>1, <2>2 DEF QueuedRefs, Resolves
<1>5. ASSUME NEW d \in DOMAIN members'
      PROVE  Cardinality(QueuedRefs(d)') <= MaxQueueDepthOps
  BY <1>2, <1>4, QueueShrinks, Zenon
<1> QED
  BY <1>5, Zenon DEF ResolvedQueueBounded

\* A new domain has an empty queue; the others keep theirs.
LEMMA QueueDomain ==
  ASSUME FlowTypeOK, ResolvedQueueBounded,
         CreateDomain \/ \E d \in 1..MaxDomainId : RemoveDomain(d)
  PROVE  ResolvedQueueBounded'
<1>1. UNCHANGED flows
  BY ZenonT(60) DEF CreateDomain, RemoveDomain
<1>2. ASSUME NEW d \in DOMAIN members'
      PROVE  \/ d \in DOMAIN members /\ members'[d] = members[d]
             \/ members'[d] = << >>
  <2>1. CASE CreateDomain
    BY <1>2, <2>1, Zenon DEF CreateDomain
  <2>2. ASSUME NEW e \in 1..MaxDomainId, RemoveDomain(e)
        PROVE  d \in DOMAIN members /\ members'[d] = members[d]
    BY <1>2, <2>2, Zenon DEF RemoveDomain
  <2> QED
    BY <2>1, <2>2, Zenon
<1>3. ASSUME NEW d \in DOMAIN members'
      PROVE  Cardinality(QueuedRefs(d)') <= MaxQueueDepthOps
  <2>1. CASE d \in DOMAIN members /\ members'[d] = members[d]
    <3>1. QueuedRefs(d)' = QueuedRefs(d)
      BY <1>1, <2>1, Zenon DEF QueuedRefs, Resolves
    <3> QED
      BY <2>1, <3>1, Zenon DEF ResolvedQueueBounded
  <2>2. CASE members'[d] = << >>
    <3>1. QueuedRefs(d)' = {}
      BY <2>2 DEF QueuedRefs
    <3> QED
      BY SMTT(20), <3>1, FS_EmptySet, LimitsAssumption
  <2> QED
    BY <1>2, <2>1, <2>2, Zenon
<1> QED
  BY <1>3, Zenon DEF ResolvedQueueBounded

\* Every step keeps the queues within their limit.
LEMMA QueueBoundStep ==
  ASSUME FlowTypeOK, FlowTypeOK', AccountingInv, BoundInv, ResolvedQueueBounded,
         [FlowNext]_flowVars
  PROVE  ResolvedQueueBounded'
<1>1. ASSUME UNCHANGED members, DOMAIN flows' = DOMAIN flows,
             \A i \in DOMAIN flows :
                /\ flows'[i].generation >= flows[i].generation
                /\ flows'[i].state = "QUEUED" => flows[i].state = "QUEUED"
      PROVE  ResolvedQueueBounded'
  <2>1. ASSUME NEW d \in DOMAIN members'
        PROVE  Cardinality(QueuedRefs(d)') <= MaxQueueDepthOps
    <3>1. QueuedRefs(d)' \subseteq QueuedRefs(d) /\ d \in DOMAIN members
      BY SMTT(20), <1>1, <2>1, QueueKept
    <3> QED
      BY SMTT(20), <3>1, QueueShrinks
  <2> QED
    BY <2>1, Zenon DEF ResolvedQueueBounded
<1>2. CASE QuietStep
  BY SMTT(20), <1>1, <1>2 DEF QuietStep, KeepsQuietly, Keeps
<1>3. ASSUME NEW i, NEW g, EndStep(i, g) PROVE ResolvedQueueBounded'
  <2>1. g.state # "QUEUED"
    BY <1>3, Zenon DEF EndStep, Terminal
  <2> QED
    BY SMTT(20), <1>1, <1>3, <2>1, EndKeeps DEF Keeps
<1>4. ASSUME NEW w, NEW s, NEW wb, NEW sb, NEW d, NEW n, DeclareFlow(w, wb, s, sb, d, n)
      PROVE  ResolvedQueueBounded'
  <2>1. /\ UNCHANGED members /\ next_flow \notin DOMAIN flows
        /\ \A i \in DOMAIN flows : i \in DOMAIN flows' /\ flows'[i] = flows[i]
    <3>1. next_flow \notin DOMAIN flows
      BY SMTT(20), LimitsAssumption DEF FlowTypeOK
    <3> QED
      BY SMTT(20), <1>4, <3>1 DEF DeclareFlow
  <2>2. \A e \in DOMAIN members : \A k \in DOMAIN members[e] : members[e][k].id \in DOMAIN flows
    BY Zenon DEF BoundInv, BoundExactlyOnce
  <2>3. \A e \in DOMAIN members : QueuedRefs(e)' = QueuedRefs(e)
    BY <2>1, <2>2, Zenon DEF QueuedRefs, Resolves
  <2> QED
    BY SMTT(20), <2>1, <2>3 DEF ResolvedQueueBounded
<1> QED
  BY SMTT(20), <1>2, <1>3, <1>4, StepKinds, QueueStep, QueueAdmit, QueueDomain

\* queue_flow holds its limit for every limit and any number of flows, domains and
\* generations: no later operation brings an entry back that had stopped to count.
THEOREM QueueBoundCorrect == FlowSpec => []ResolvedQueueBounded
<1>1. FlowInit => BoundInv /\ ResolvedQueueBounded
  BY DEF FlowInit, BoundInv, BoundExactlyOnce, ResolvedQueueBounded
<1>2. FlowTypeOK /\ FlowTypeOK' /\ AccountingInv /\ BoundInv /\ [FlowNext]_flowVars
        => BoundInv'
  BY BoundStep, Zenon
<1>3. FlowTypeOK /\ FlowTypeOK' /\ AccountingInv /\ BoundInv /\ ResolvedQueueBounded
        /\ [FlowNext]_flowVars => ResolvedQueueBounded'
  BY QueueBoundStep, Zenon
<1> QED
  BY <1>1, <1>2, <1>3, FlowTypeCorrect, LedgersCorrect, PTL DEF FlowSpec
=============================================================================
