------------------------------ MODULE FlowTable ------------------------------
(***************************************************************************)
(* The flow table of the engine (class CongestionFabric, engine.cpp): who  *)
(* is registered with which boot, which domains exist, which flows each    *)
(* domain holds, and the lifecycle and byte accounting of every flow.      *)
(*                                                                         *)
(* Every public method of the engine takes the engine's one lock for its   *)
(* whole body, so each is one atomic action.  A call that the code refuses *)
(* changes nothing and is a stuttering step.  The arguments range over all *)
(* values a client of the protocol can send: any boot, any id, and a       *)
(* generation that is current or stale.                                    *)
(***************************************************************************)
EXTENDS FlowLifecycle, Sequences, FiniteSets

CONSTANTS
    Workers, Sources,    \* valid WorkerIds and SourceIds
    MaxDomains,          \* EngineLimits::max_domains
    MaxActiveFlows,      \* EngineLimits::max_active_flows
    MaxQueueDepthOps,    \* EngineLimits::max_queue_depth_ops
    ByteAmounts,         \* the byte counts clients send
    MaxDomainId,         \* bound: domains ever created
    MaxFlowId            \* bound: flows ever declared

ASSUME PartiesAssumption == Workers \cap Sources = {}
ASSUME LimitsAssumption ==
    /\ MaxDomains \in Nat /\ MaxActiveFlows \in Nat /\ MaxQueueDepthOps \in Nat
    /\ MaxDomainId \in Nat /\ MaxFlowId \in Nat
    /\ ByteAmounts \subseteq U64

VARIABLES
    worker_boot,    \* current boot of each worker, 0 when not registered
    source_boot,    \* current boot of each source, 0 when not registered
    members,        \* CongestionDomain::flows of each existing domain
    next_domain,
    flows,          \* flow id |-> flow; a flow is never erased
    next_flow,
    active_flows,   \* the cached count of live flows
    fenced          \* history: the <<party, boot>> pairs fenced so far

flowVars == <<worker_boot, source_boot, members, next_domain, flows, next_flow,
              active_flows, fenced>>

Boots == 1..MaxU64
Generations == 1..MaxU64
FlowRef == [id : 1..MaxFlowId, generation : Generations]

Flow == [generation : Generations,
         owner_worker : Workers, owner_boot : Boots,
         source : Sources, source_boot : Boots,
         domain : 1..MaxDomainId,
         state : FlowStates,
         submitted : U64, admitted : U64, in_flight : U64,
         completed : U64, failed : U64, cancelled : U64]

-----------------------------------------------------------------------------
\* is_terminal and the staleness predicate, of the flow with this id.
IsTerminal(i) == flows[i].state \in Terminal
IsStale(i) == flows[i].state \in StaleOrSuperseded

\* Mutant: find_flow looks at the id alone.
ResolvesById(ref) == ref.id \in DOMAIN flows

\* find_flow: a reference resolves only at the flow's current generation.
Resolves(ref) ==
    /\ ref.id \in DOMAIN flows
    /\ flows[ref.id].generation = ref.generation

\* The flows in state "QUEUED" that queue_flow counts for a domain.
QueuedRefs(d) ==
    {k \in DOMAIN members[d] :
        /\ Resolves(members[d][k])
        /\ flows[members[d][k].id].state = "QUEUED"}

\* Mutant: flows that wait in the queue are passed over.
MarkRunning(ids, s) ==
    [i \in DOMAIN flows |->
        IF i \in ids /\ ~IsTerminal(i) /\ ~IsStale(i) /\ flows[i].state # "QUEUED"
        THEN [flows[i] EXCEPT !.state = s]
        ELSE flows[i]]

\* Every live flow among the ids moves to state s (fencing, recovery).
MarkLive(ids, s) ==
    [i \in DOMAIN flows |->
        IF i \in ids /\ ~IsTerminal(i) /\ ~IsStale(i)
        THEN [flows[i] EXCEPT !.state = s]
        ELSE flows[i]]

FlowInit ==
    /\ worker_boot = [w \in Workers |-> 0]
    /\ source_boot = [s \in Sources |-> 0]
    /\ members = << >>
    /\ next_domain = 1
    /\ flows = << >>
    /\ next_flow = 1
    /\ active_flows = 0
    /\ fenced = {}

-----------------------------------------------------------------------------
(* Authority: registration and fencing.                                    *)

RegisterWorker(w, boot) ==
    /\ worker_boot[w] < boot
    /\ worker_boot' = [worker_boot EXCEPT ![w] = boot]
    /\ UNCHANGED <<source_boot, members, next_domain, flows, next_flow,
                   active_flows, fenced>>

RegisterSource(s, boot) ==
    /\ source_boot[s] < boot
    /\ source_boot' = [source_boot EXCEPT ![s] = boot]
    /\ UNCHANGED <<worker_boot, members, next_domain, flows, next_flow,
                   active_flows, fenced>>

FenceWorker(w, dead_boot) ==
    /\ worker_boot[w] = dead_boot
    /\ worker_boot' = [worker_boot EXCEPT ![w] = NextGeneration(@)]
    /\ flows' = MarkLive({i \in DOMAIN flows : /\ flows[i].owner_worker = w
                                              /\ flows[i].owner_boot = dead_boot},
                         "STALE")
    /\ fenced' = fenced \cup {<<w, dead_boot>>}
    /\ UNCHANGED <<source_boot, members, next_domain, next_flow, active_flows>>

FenceSource(s, dead_boot) ==
    /\ source_boot[s] = dead_boot
    /\ source_boot' = [source_boot EXCEPT ![s] = NextGeneration(@)]
    /\ flows' = MarkLive({i \in DOMAIN flows : /\ flows[i].source = s
                                              /\ flows[i].source_boot = dead_boot},
                         "STALE")
    /\ fenced' = fenced \cup {<<s, dead_boot>>}
    /\ UNCHANGED <<worker_boot, members, next_domain, next_flow, active_flows>>

-----------------------------------------------------------------------------
(* Domains.  A removed domain leaves its flows behind; ids are not reused. *)

CreateDomain ==
    /\ Cardinality(DOMAIN members) < MaxDomains
    /\ next_domain <= MaxDomainId
    /\ members' = [d \in DOMAIN members \cup {next_domain} |->
                      IF d = next_domain THEN << >> ELSE members[d]]
    /\ next_domain' = next_domain + 1
    /\ UNCHANGED <<worker_boot, source_boot, flows, next_flow, active_flows, fenced>>

RemoveDomain(d) ==
    /\ d \in DOMAIN members
    /\ members' = [e \in DOMAIN members \ {d} |-> members[e]]
    /\ UNCHANGED <<worker_boot, source_boot, next_domain, flows, next_flow,
                   active_flows, fenced>>

-----------------------------------------------------------------------------
(* Flows.                                                                  *)

DeclareFlow(w, wboot, s, sboot, d, submitted) ==
    /\ worker_boot[w] = wboot
    /\ source_boot[s] = sboot
    /\ d \in DOMAIN members
    /\ active_flows < MaxActiveFlows
    /\ next_flow <= MaxFlowId
    /\ flows' = [i \in DOMAIN flows \cup {next_flow} |->
                    IF i # next_flow THEN flows[i] ELSE
                    [generation |-> 1,
                     owner_worker |-> w, owner_boot |-> wboot,
                     source |-> s, source_boot |-> sboot,
                     domain |-> d, state |-> "DECLARED",
                     submitted |-> submitted,
                     admitted |-> 0, in_flight |-> 0, completed |-> 0,
                     failed |-> 0, cancelled |-> 0]]
    /\ next_flow' = next_flow + 1
    /\ active_flows' = active_flows + 1
    /\ UNCHANGED <<worker_boot, source_boot, members, next_domain, fenced>>

\* What an operation on one flow does to the table: it replaces the flow.
ReplaceFlow(id, f) ==
    /\ flows' = [flows EXCEPT ![id] = f]
    /\ UNCHANGED <<worker_boot, source_boot, next_domain, next_flow, fenced>>

\* The check after ByteCounter::add comes too late to undo the addition.
AdmitFlow(ref) ==
    LET f   == flows[ref.id]
        sum == f.admitted + f.submitted
        ok  == sum <= f.submitted
    IN  /\ Resolves(ref)
        /\ FlowTransitionAllowed(f.state, "ADMITTED")
        /\ f.domain \in DOMAIN members
        /\ AddFits(f.admitted, f.submitted)
        /\ ReplaceFlow(ref.id, [f EXCEPT !.admitted = sum,
                                         !.state = IF ok THEN "ADMITTED" ELSE @])
        /\ members' = IF ok THEN [members EXCEPT ![f.domain] = Append(@, ref)]
                            ELSE members
        /\ UNCHANGED active_flows

\* Mutant: the bound is compared with the count before the flow is added.
QueueNotOver(d) == Cardinality(QueuedRefs(d)) <= MaxQueueDepthOps

QueueHasRoom(d) == Cardinality(QueuedRefs(d)) + 1 <= MaxQueueDepthOps

QueueFlow(ref) ==
    LET f == flows[ref.id]
    IN  /\ Resolves(ref)
        /\ FlowTransitionAllowed(f.state, "QUEUED")
        /\ f.domain \in DOMAIN members
        /\ QueueHasRoom(f.domain)
        /\ ReplaceFlow(ref.id, [f EXCEPT !.state = "QUEUED"])
        /\ UNCHANGED <<members, active_flows>>

\* The flow is "ACTIVE" even when the addition to in_flight is refused.
StartFlow(ref, boot) ==
    LET f == flows[ref.id]
    IN  /\ Resolves(ref)
        /\ f.owner_boot = boot
        /\ f.state \in {"QUEUED", "ADMITTED", "VALIDATING"}
        /\ ReplaceFlow(ref.id,
             [f EXCEPT !.state = "ACTIVE",
                       !.in_flight = IF AddFits(@, f.admitted)
                                     THEN @ + f.admitted ELSE @])
        /\ UNCHANGED <<members, active_flows>>

FlowProgress(ref, boot, delta) ==
    LET f == flows[ref.id]
    IN  /\ Resolves(ref)
        /\ f.owner_boot = boot
        /\ f.state \in CanProgress
        /\ AddFits(f.completed, delta)
        /\ f.completed + delta <= f.admitted
        /\ ReplaceFlow(ref.id, [f EXCEPT !.completed = @ + delta,
                                         !.in_flight = @ - SmallerOf(delta, @)])
        /\ UNCHANGED <<members, active_flows>>

\* Mutant: an ended flow keeps its slot.
NotDecremented == active_flows

\* active_flows after a flow has ended.
Decremented == IF active_flows > 0 THEN active_flows - 1 ELSE active_flows

\* Mutant: completed bytes are not subtracted.
RemainingOfAll(f) == f.admitted

Remaining(f) == WrapSub(f.admitted, f.completed)

FlowComplete(ref, boot) ==
    LET f == flows[ref.id]
    IN  /\ Resolves(ref)
        /\ f.owner_boot = boot
        /\ FlowTransitionAllowed(f.state, "COMPLETED")
        /\ AddFits(f.completed, Remaining(f))
        /\ ReplaceFlow(ref.id, [f EXCEPT !.completed = @ + Remaining(f),
                                         !.in_flight = 0,
                                         !.state = "COMPLETED"])
        /\ active_flows' = Decremented
        /\ UNCHANGED members

\* The last check, too, comes after cancelled has been added to.
FlowCancel(ref, boot, so_far) ==
    LET f    == flows[ref.id]
        canc == SmallerOf(so_far, Remaining(f))
        ok   == WrapAdd(f.completed, f.cancelled + canc) <= f.admitted
    IN  /\ Resolves(ref)
        /\ f.owner_boot = boot
        /\ FlowTransitionAllowed(f.state, "CANCELLED")
        /\ AddFits(f.cancelled, canc)
        /\ ReplaceFlow(ref.id,
             [f EXCEPT !.cancelled = @ + canc,
                       !.in_flight = IF ok THEN 0 ELSE @,
                       !.state = IF ok THEN "CANCELLED" ELSE @])
        /\ active_flows' = IF ok THEN Decremented ELSE active_flows
        /\ UNCHANGED members

FlowFail(ref, boot) ==
    LET f == flows[ref.id]
    IN  /\ Resolves(ref)
        /\ f.owner_boot = boot
        /\ FlowTransitionAllowed(f.state, "FAILED")
        /\ AddFits(f.failed, Remaining(f))
        /\ ReplaceFlow(ref.id, [f EXCEPT !.failed = @ + Remaining(f),
                                         !.in_flight = 0,
                                         !.state = "FAILED"])
        /\ active_flows' = Decremented
        /\ UNCHANGED members

\* Finds the flow by its id alone: the caller's generation is not compared.
AdvanceFlowGeneration(id, next) ==
    LET f == flows[id]
    IN  /\ id \in DOMAIN flows
        /\ next > f.generation
        /\ ReplaceFlow(id,
             [f EXCEPT !.generation = next,
                       !.state = IF @ = "STALE" THEN "REVALIDATION_REQUIRED" ELSE @])
        /\ UNCHANGED <<members, active_flows>>

RevalidateFlow(ref, boot) ==
    LET f == flows[ref.id]
    IN  /\ Resolves(ref)
        /\ f.owner_boot = boot
        /\ FlowTransitionAllowed(f.state, "REVALIDATION_REQUIRED")
        /\ ReplaceFlow(ref.id, [f EXCEPT !.state = "REVALIDATION_REQUIRED"])
        /\ UNCHANGED <<members, active_flows>>

\* recover_dynamic_evidence, as far as flows are concerned.
RecoverFlows ==
    /\ flows' = MarkLive(DOMAIN flows, "REVALIDATION_REQUIRED")
    /\ UNCHANGED <<worker_boot, source_boot, members, next_domain, next_flow,
                   active_flows, fenced>>

-----------------------------------------------------------------------------
FlowNext ==
    \/ \E w \in Workers, b \in Boots : RegisterWorker(w, b) \/ FenceWorker(w, b)
    \/ \E s \in Sources, b \in Boots : RegisterSource(s, b) \/ FenceSource(s, b)
    \/ CreateDomain
    \/ \E d \in 1..MaxDomainId : RemoveDomain(d)
    \/ \E w \in Workers, s \in Sources, wb, sb \in Boots, d \in 1..MaxDomainId,
          n \in ByteAmounts : DeclareFlow(w, wb, s, sb, d, n)
    \/ \E ref \in FlowRef : AdmitFlow(ref) \/ QueueFlow(ref)
    \/ \E ref \in FlowRef, b \in Boots :
          \/ StartFlow(ref, b)
          \/ FlowComplete(ref, b)
          \/ FlowFail(ref, b)
          \/ RevalidateFlow(ref, b)
    \/ \E ref \in FlowRef, b \in Boots, n \in ByteAmounts :
          FlowProgress(ref, b, n) \/ FlowCancel(ref, b, n)
    \/ \E id \in 1..MaxFlowId, g \in Generations : AdvanceFlowGeneration(id, g)
    \/ RecoverFlows

FlowSpec == FlowInit /\ [][FlowNext]_flowVars

-----------------------------------------------------------------------------
(* Invariants.                                                             *)

\* The flow table is well formed: ids are handed out consecutively and never
\* reused, and every counter is a 64-bit value.
FlowTypeOK ==
    /\ worker_boot \in [Workers -> U64]
    /\ source_boot \in [Sources -> U64]
    /\ next_domain \in 1..(MaxDomainId + 1)
    /\ next_flow \in 1..(MaxFlowId + 1)
    /\ DOMAIN members \subseteq 1..(next_domain - 1)
    /\ members \in [DOMAIN members -> Seq(FlowRef)]
    /\ flows \in [1..(next_flow - 1) -> Flow]
    /\ active_flows \in Nat
    /\ fenced \subseteq (Workers \cup Sources) \X Boots

\* Byte accounting is sound in every interleaving (accounting_valid plus what
\* the cancel, fail and complete paths owe): work done, cancelled or failed is
\* never more than was admitted, nothing is admitted that was not submitted, no
\* work is in flight before the start or after the end, and a completed flow has
\* completed all of its admitted bytes.
AccountingSound ==
    \A i \in DOMAIN flows :
        LET f == flows[i]
        IN  /\ f.completed + f.cancelled <= f.admitted
            /\ f.completed + f.failed <= f.admitted
            /\ f.in_flight <= f.admitted
            /\ f.admitted <= f.submitted
            /\ f.state \in {"DECLARED", "ADMITTED", "QUEUED"} \cup Terminal
                 => f.in_flight = 0
            /\ f.state = "COMPLETED" => f.completed = f.admitted

\* live_flow_count is exact and bounded: the counter that declare_flow compares
\* with max_active_flows, kept by increments and decrements spread over the
\* handlers, always equals the number of flows that have not ended.
ActiveCountExact ==
    /\ active_flows = Cardinality({i \in DOMAIN flows : ~IsTerminal(i)})
    /\ active_flows <= MaxActiveFlows

\* "A flow is bound to its domain exactly once at admission" (admit_flow appends
\* with no duplicate scan): no domain lists a flow twice, a domain lists only
\* flows that name it and at no later generation than theirs, and a flow that
\* holds admitted bytes is listed by its domain as long as the domain exists.
BoundExactlyOnce ==
    /\ \A d \in DOMAIN members : \A j, k \in DOMAIN members[d] :
          members[d][j].id = members[d][k].id => j = k
    /\ \A d \in DOMAIN members : \A k \in DOMAIN members[d] :
          LET ref == members[d][k]
          IN  /\ ref.id \in DOMAIN flows
              /\ flows[ref.id].domain = d
              /\ flows[ref.id].state # "DECLARED"
              /\ ref.generation <= flows[ref.id].generation
    /\ \A i \in DOMAIN flows :
          flows[i].admitted > 0 /\ flows[i].domain \in DOMAIN members
            => \E k \in DOMAIN members[flows[i].domain] :
                  members[flows[i].domain][k].id = i

\* queue_flow holds the line it can see: among the references of a domain that
\* still resolve, no more than max_queue_depth_ops are queued.
ResolvedQueueBounded ==
    \A d \in DOMAIN members : Cardinality(QueuedRefs(d)) <= MaxQueueDepthOps

OutOfService == {"STALE", "REVALIDATION_REQUIRED"}

BootOf(party) == IF party \in Workers THEN worker_boot[party] ELSE source_boot[party]

OwnedBy(i, party, boot) ==
    \/ flows[i].owner_worker = party /\ flows[i].owner_boot = boot
    \/ flows[i].source = party /\ flows[i].source_boot = boot

\* Fencing is for good ("stale-boot replay rejection"): once fence_worker or
\* fence_source has fenced a boot, that boot is never current again, and none of
\* its flows is ever live again, whatever registrations, declarations and
\* replays follow.  (The largest boot cannot be fenced: next() saturates.)
FencedStaysDead ==
    \A pb \in fenced : pb[2] < MaxU64 =>
        /\ BootOf(pb[1]) > pb[2]
        /\ \A i \in DOMAIN flows : OwnedBy(i, pb[1], pb[2]) =>
              flows[i].state \in Terminal \cup OutOfService

-----------------------------------------------------------------------------
(* Action properties.                                                      *)

Bytes(f) == <<f.submitted, f.admitted, f.in_flight, f.completed,
              f.failed, f.cancelled>>

\* "Terminal and sentinel states are immutable except revalidation" (flow.hpp):
\* no step changes the state or the bytes of a flow that has ended, and a flow
\* that went stale keeps its bytes and never gets back into service.
OutOfServiceIsFrozen ==
    [][\A i \in DOMAIN flows :
          /\ IsTerminal(i) => flows'[i].state = flows[i].state
          /\ flows[i].state \in OutOfService => flows'[i].state \in OutOfService
          /\ flows[i].state \in Terminal \cup OutOfService
               => Bytes(flows'[i]) = Bytes(flows[i])]_flowVars
=============================================================================
