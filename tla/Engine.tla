------------------------------- MODULE Engine -------------------------------
(***************************************************************************)
(* The engine as a whole (class CongestionFabric, engine.cpp): FlowTable   *)
(* and DomainEvidence over one state, with what connects them.             *)
(*                                                                         *)
(* Operations that touch both parts are joint actions, under one lock.     *)
(* Classification reads the flows of the domain (aggregate_domain), which  *)
(* DomainEvidence left open.  On top of both: the capacity profile of each *)
(* domain, and the queries that read flows and evidence together           *)
(* (backpressure, fairness, snapshot).                                     *)
(***************************************************************************)
EXTENDS Capacity, FlowLifecycle, Sequences, FiniteSets, Functions

CONSTANTS
    Workers, NoWorker, Sources,
    MaxDomains, MaxActiveFlows, MaxQueueDepthOps, MaxEpisodeHistory,
    Profiles,             \* the profiles that create_domain is called with
    Rates, Latencies, ByteAmounts,
    RegisteredBoots,      \* bound: the boots that parties register with
    Publishing,           \* bound: the parties that publish measurements
    MaxDomainId, MaxFlowId, MaxEventId

ASSUME EngineAssumption ==
    /\ Workers \cap Sources = {} /\ NoWorker \notin Workers
    /\ MaxDomains \in Nat /\ MaxActiveFlows \in Nat /\ MaxQueueDepthOps \in Nat
    /\ MaxEpisodeHistory \in Nat
    /\ MaxDomainId \in Nat /\ MaxFlowId \in Nat /\ MaxEventId \in Nat
    /\ ByteAmounts \subseteq U64
    /\ Rates \subseteq Int /\ 0 \in Rates
    /\ Latencies \subseteq Nat /\ 0 \in Latencies
    /\ Profiles \subseteq Profile
    /\ RegisteredBoots \subseteq 1..MaxU64
    /\ Publishing \subseteq Workers \cup {NoWorker}

VARIABLES
    worker_boot, source_boot, fenced, next_domain,
    members, flows, next_flow, active_flows,
    dom, next_event, awaiting,
    profile         \* CongestionDomain::capacity

F == INSTANCE FlowTable
E == INSTANCE DomainEvidence WITH
        Capacities <- {Effective(p) : p \in Profiles},
        fenced <- {pb \in fenced : pb[1] \in Workers}

table == <<worker_boot, source_boot, fenced, next_domain, members, flows,
           next_flow, active_flows>>
evidence == <<dom, next_event, awaiting>>
engineVars == <<table, evidence, profile>>

EngineInit ==
    /\ F!FlowInit
    /\ E!EvidenceInit
    /\ profile = << >>

-----------------------------------------------------------------------------
(* What the evidence side sees of the flows of a domain.                   *)

Flow(d, k) == flows[members[d][k].id]

\* The entries of the domain's list that find_flow resolves and that are neither
\* stale nor superseded.
Seen(d) ==
    {k \in DOMAIN members[d] : /\ F!Resolves(members[d][k])
                               /\ ~F!IsStale(members[d][k].id)}

\* Those that have not ended: the participants of fairness and backpressure.
Live(d) == {k \in Seen(d) : ~F!IsTerminal(members[d][k].id)}

Queued(d) == {k \in Seen(d) : Flow(d, k).state = "QUEUED"}
InFlight(d) == {k \in Seen(d) : Flow(d, k).state \in CanProgress \ {"QUEUED"}}

\* Sums of byte counts are plain 64-bit additions.
Wrapped(n) == n % (MaxU64 + 1)

QueuedBytes(d) ==
    Wrapped(SumFunctionOnSet([k \in Queued(d) |-> Flow(d, k).admitted], Queued(d)))

\* A live flow has bytes in flight and none completed, while another has some.
Starving(d, k) ==
    /\ Flow(d, k).completed = 0 /\ Flow(d, k).in_flight > 0
    /\ \E j \in Live(d) : Flow(d, j).completed > 0

TrafficOf(d) ==
    IF QueuedBytes(d) > 0
    THEN IF \E k \in Live(d) : Starving(d, k) THEN "starving" ELSE "backlog"
    ELSE IF Queued(d) \cup InFlight(d) # {} THEN "active" ELSE "none"

-----------------------------------------------------------------------------
(* Operations on both parts.                                               *)

RegisterWorker(w, boot) ==
    F!RegisterWorker(w, boot) /\ E!RegisterWorker(w, boot) /\ UNCHANGED profile

\* Mutant: only the flows of the worker are fenced.
FenceFlowsOnly(w, boot) == F!FenceWorker(w, boot) /\ UNCHANGED <<evidence, profile>>

FenceWorker(w, boot) ==
    F!FenceWorker(w, boot) /\ E!FenceWorker(w, boot) /\ UNCHANGED profile

CreateDomain(p) ==
    /\ ProfileValid(p)
    /\ F!CreateDomain
    /\ E!CreateDomain(Effective(p))
    /\ profile' = [d \in DOMAIN profile \cup {next_domain} |->
                      IF d = next_domain THEN p ELSE profile[d]]

\* Mutant: the flows of the domain are erased with it.
RemoveWithFlows(d) ==
    /\ d \in DOMAIN members
    /\ members' = Restrict(members, DOMAIN members \ {d})
    /\ flows' = Restrict(flows, {i \in DOMAIN flows : flows[i].domain # d})
    /\ UNCHANGED <<worker_boot, source_boot, fenced, next_domain, next_flow, active_flows>>
    /\ E!RemoveDomain(d)
    /\ profile' = Restrict(profile, DOMAIN profile \ {d})

RemoveDomain(d) ==
    /\ F!RemoveDomain(d)
    /\ E!RemoveDomain(d)
    /\ profile' = Restrict(profile, DOMAIN profile \ {d})

\* A flow that starts lifts the revalidation requirement of its domain, unless
\* the addition to in_flight was refused or went beyond what is admitted.
StartFlow(ref, boot) ==
    LET f == flows[ref.id]
        lifts == /\ AddFits(f.in_flight, f.admitted)
                 /\ f.in_flight + f.admitted <= f.admitted
                 /\ f.domain \in DOMAIN dom
    IN  /\ F!StartFlow(ref, boot)
        /\ IF lifts THEN E!StartFlowIn(f.domain) ELSE UNCHANGED evidence
        /\ UNCHANGED profile

RecomputeDomain(d) ==
    /\ UNCHANGED <<table, profile>>
    /\ E!RecomputeDomain(d, TrafficOf(d))

RecoverDynamicEvidence == F!RecoverFlows /\ E!RecoverEvidence /\ UNCHANGED profile

PublishedBy(d, p) ==
    /\ UNCHANGED <<table, profile>>
    /\ \/ \E r \in Rates : \/ E!PublishOffered(d, r, p[1], p[2])
                           \/ E!PublishServiced(d, r, p[1], p[2])
       \/ \E l \in Latencies : E!PublishLatency(d, l, p[1], p[2])

\* The operations that concern flows alone.
FlowOperation ==
    /\ \/ \E s \in Sources, b \in RegisteredBoots : F!RegisterSource(s, b)
       \/ \E s \in Sources, b \in F!Boots : F!FenceSource(s, b)
       \/ \E w \in Workers, s \in Sources, wb, sb \in F!Boots, d \in 1..MaxDomainId,
             n \in ByteAmounts : F!DeclareFlow(w, wb, s, sb, d, n)
       \/ \E ref \in F!FlowRef : F!AdmitFlow(ref) \/ F!QueueFlow(ref)
       \/ \E ref \in F!FlowRef, b \in F!Boots :
             \/ F!FlowComplete(ref, b)
             \/ F!FlowFail(ref, b)
             \/ F!RevalidateFlow(ref, b)
       \/ \E ref \in F!FlowRef, b \in F!Boots, n \in ByteAmounts :
             F!FlowProgress(ref, b, n) \/ F!FlowCancel(ref, b, n)
       \/ \E id \in 1..MaxFlowId, g \in F!Generations : F!AdvanceFlowGeneration(id, g)
    /\ UNCHANGED <<evidence, profile>>

EngineNext ==
    \/ \E w \in Workers, b \in RegisteredBoots : RegisterWorker(w, b)
    \/ \E w \in Workers, b \in F!Boots : FenceWorker(w, b)
    \/ \E p \in Profiles : CreateDomain(p)
    \/ \E d \in 1..MaxDomainId :
          \/ RemoveDomain(d)
          \/ RecomputeDomain(d)
          \/ \E p \in E!Publishers : p[1] \in Publishing /\ PublishedBy(d, p)
    \/ \E ref \in F!FlowRef, b \in F!Boots : StartFlow(ref, b)
    \/ FlowOperation
    \/ RecoverDynamicEvidence

EngineSpec == EngineInit /\ [][EngineNext]_engineVars

-----------------------------------------------------------------------------
(* Queries, which change nothing.                                          *)

\* What snapshot takes for live flows: it does not skip the stale ones.
LiveOrStale(d) ==
    {k \in DOMAIN members[d] : /\ F!Resolves(members[d][k])
                               /\ ~F!IsTerminal(members[d][k].id)}

\* The first of the entries that has the most bytes in flight, 0 when none has any.
Dominant(d, entries) ==
    LET carrying == {k \in entries : Flow(d, k).in_flight > 0}
        precedes(j, k) == \/ Flow(d, j).in_flight > Flow(d, k).in_flight
                          \/ Flow(d, j).in_flight = Flow(d, k).in_flight /\ j <= k
    IN  IF carrying = {} THEN 0
        ELSE CHOOSE j \in carrying : \A k \in carrying : precedes(j, k)

\* CongestionState compared as an enumerator: everything from SATURATED on, which
\* includes the states declared after the congested ones.
FromSaturated ==
    {"SATURATED", "QUEUEING", "CONGESTED", "SEVERELY_CONGESTED",
     "RECOVERING", "REVALIDATION_REQUIRED"}

IntentFor(state) ==
    CASE state = "SEVERELY_CONGESTED" -> "PAUSE_NEW_TRAFFIC"
      [] state = "CONGESTED" -> "THROTTLE"
      [] OTHER -> "ADMIT_LIMITED"

\* Mutant: eval_backpressure, too, does not skip stale flows.
AllContributors(d) == LiveOrStale(d)

Contributors(d) == Live(d)

\* eval_backpressure: the intent, and the entry of the flow it targets.
EvalBackpressure(d) ==
    IF dom[d].state \in FromSaturated /\ dom[d].offered.rate > dom[d].serviced.rate
    THEN [intent |-> IntentFor(dom[d].state), target |-> Dominant(d, Contributors(d))]
    ELSE [intent |-> "NO_ACTION", target |-> 0]

\* snapshot: the state is derived afresh; the dominant contributor may be stale.
Snapshot(d) ==
    [state |-> E!Classify(dom[d], TrafficOf(d)),
     residual |-> LET r == Residual(dom[d].capacity, dom[d].offered.rate)
                  IN  IF r = NoBound THEN 0 ELSE r,
     dominant_contributor |-> Dominant(d, LiveOrStale(d))]

TotalCompleted(d) == SumFunctionOnSet([k \in Live(d) |-> Flow(d, k).completed], Live(d))

\* Mutant: what was serviced is always split equally.
EqualShareBelow(d, k) ==
    20 * dom[d].serviced.rate < dom[d].capacity * Cardinality(Live(d))

\* The observed share of a participant is below 5% of the effective capacity: its
\* part of the serviced rate is by completed bytes, or equal when none completed.
ObservedShareBelow(d, k) ==
    IF Wrapped(TotalCompleted(d)) > 0
    THEN 20 * dom[d].serviced.rate * Flow(d, k).completed
            < dom[d].capacity * Wrapped(TotalCompleted(d))
    ELSE EqualShareBelow(d, k)

\* The participants that evaluate_fairness calls starved.
Starved(d) ==
    {k \in Live(d) : /\ dom[d].capacity # NoBound /\ dom[d].capacity > 0
                     /\ dom[d].serviced.rate > 0
                     /\ ObservedShareBelow(d, k)}

-----------------------------------------------------------------------------
(* Properties.                                                             *)

\* The engine as a whole implements the flow table: whatever evidence and
\* classification do, every step is a step of FlowTable or leaves the table alone.
ImplementsFlowTable == F!FlowSpec

\* It implements DomainEvidence as well: the traffic that aggregate_domain derives
\* from real flows, and the flow operations that touch a domain, are among what
\* DomainEvidence leaves open.
ImplementsEvidence == E!EvidenceSpec

QueueStates == {"QUEUEING", "CONGESTED", "SEVERELY_CONGESTED"}

\* "stale traffic evidence cannot remain authoritative" (README), for the queue: when
\* recompute_domain reports a backlog, a flow of this domain is waiting in the queue
\* whose worker and source have not been fenced since they declared it.
BacklogIsLive ==
    [][\A d \in DOMAIN dom \cap DOMAIN dom' :
          dom'[d].state \in QueueStates /\ dom'[d].state # dom[d].state =>
              \E i \in DOMAIN flows :
                  /\ flows[i].domain = d /\ flows[i].state = "QUEUED"
                  /\ \A pb \in fenced : pb[2] < MaxU64 => ~F!OwnedBy(i, pb[1], pb[2])
      ]_engineVars

\* eval_backpressure targets a contributor: with a restrictive intent that names a
\* flow, the reference is current, the flow belongs to this domain, has not ended and
\* is not stale, and no such flow of the domain has more bytes in flight; with an
\* intent that names none, no such flow has any.
IntentTargetsContributor ==
    \A d \in DOMAIN dom :
        LET action == EvalBackpressure(d)
            eligible == {i \in DOMAIN flows : /\ flows[i].domain = d /\ flows[i].in_flight > 0
                                              /\ flows[i].state \notin Terminal \cup {"STALE"}
                                              /\ \E k \in DOMAIN members[d] :
                                                    /\ members[d][k].id = i
                                                    /\ F!Resolves(members[d][k])}
        IN  action.intent # "NO_ACTION" =>
              IF action.target = 0 THEN eligible = {}
              ELSE LET i == members[d][action.target].id
                   IN  /\ i \in eligible
                       /\ \A j \in eligible : flows[j].in_flight <= flows[i].in_flight

\* The two definitions of starvation agree: a flow for which classify reports
\* starvation is one that evaluate_fairness calls starved, as long as the domain
\* services anything and the completed bytes fit into their 64-bit sum.
StarvationAgrees ==
    \A d \in DOMAIN dom : \A k \in Live(d) :
        /\ Starving(d, k)
        /\ dom[d].capacity # NoBound /\ dom[d].capacity > 0 /\ dom[d].serviced.rate > 0
        /\ TotalCompleted(d) <= MaxU64
        => k \in Starved(d)

\* A snapshot does not contradict itself: what it says is left of the capacity is
\* something when the domain is idle or healthy and nothing when it is saturated,
\* and a target of backpressure is in flight for the snapshot as well.
SnapshotConsistent ==
    \A d \in DOMAIN dom :
        LET s == Snapshot(d)
        IN  /\ /\ s.state \in {"IDLE", "HEALTHY"}
               /\ dom[d].capacity > 0 /\ dom[d].offered.rate >= 0
               => s.residual > 0
            /\ s.state = "SATURATED" => s.residual = 0
            /\ EvalBackpressure(d).target # 0 =>
                  /\ s.dominant_contributor # 0
                  /\ Flow(d, s.dominant_contributor).in_flight
                        >= Flow(d, EvalBackpressure(d).target).in_flight

\* The effective capacity that classification uses is right for the profile of the
\* domain: it is there exactly when some layer has a bound, every bound still has
\* room for it and the reservation, and no larger rate has that room.
EffectiveIsLargest ==
    \A d \in DOMAIN dom :
        LET p == profile[d]
            reserved == IF p["reserved"] = Unknown THEN 0 ELSE p["reserved"]
        IN  /\ dom[d].capacity = NoBound <=> \A l \in Layers : p[l] = Unknown
            /\ dom[d].capacity # NoBound =>
                  /\ \A l \in Layers : p[l] # Unknown => dom[d].capacity + reserved <= p[l]
                  /\ \E l \in Layers : dom[d].capacity + reserved = p[l]
=============================================================================
