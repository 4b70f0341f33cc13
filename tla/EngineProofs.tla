---------------------------- MODULE EngineProofs ----------------------------
(***************************************************************************)
(* The engine implements FlowTable and DomainEvidence, so what is proved   *)
(* of each holds of the whole.  The queries and recompute_domain, which    *)
(* read the table and the evidence together, rely on what is proved of the *)
(* table (FlowTableProofs): backpressure, snapshots, fairness and backlogs *)
(* are right for every number of workers, domains and flows and all rates. *)
(***************************************************************************)
EXTENDS Engine, TLAPS

-----------------------------------------------------------------------------
(* The flow table.                                                         *)

\* Every step of the engine is a step of the flow table or leaves it alone.
LEMMA TableStep == [EngineNext]_engineVars => [F!FlowNext]_(F!flowVars)
<1>1. CASE UNCHANGED engineVars
  BY <1>1, Zenon DEF engineVars, table, F!flowVars
<1>2. CASE EngineNext
  <2>1. ASSUME NEW w \in Workers, NEW b \in RegisteredBoots, RegisterWorker(w, b)
        PROVE  F!FlowNext
    BY <2>1, EngineAssumption, Zenon DEF RegisterWorker, F!FlowNext, F!Boots
  <2>2. ASSUME NEW w \in Workers, NEW b \in F!Boots, FenceWorker(w, b)
        PROVE  F!FlowNext
    BY <2>2, Zenon DEF FenceWorker, F!FlowNext
  <2>3. ASSUME NEW p \in Profiles, CreateDomain(p)
        PROVE  F!FlowNext
    BY <2>3, Zenon DEF CreateDomain, F!FlowNext
  <2>4. ASSUME NEW d \in 1..MaxDomainId, RemoveDomain(d)
        PROVE  F!FlowNext
    BY <2>4, Zenon DEF RemoveDomain, F!FlowNext
  <2>5. ASSUME NEW d \in 1..MaxDomainId,
               \/ RecomputeDomain(d)
               \/ \E p \in E!Publishers : p[1] \in Publishing /\ PublishedBy(d, p)
        PROVE  UNCHANGED F!flowVars
    BY <2>5, Zenon DEF RecomputeDomain, PublishedBy, table, F!flowVars
  <2>6. ASSUME NEW ref \in F!FlowRef, NEW b \in F!Boots, StartFlow(ref, b)
        PROVE  F!FlowNext
    BY <2>6, Zenon DEF StartFlow, F!FlowNext
  <2>7. CASE FlowOperation
    BY <2>7, EngineAssumption, Zenon DEF FlowOperation, F!FlowNext, F!Boots
  <2>8. CASE RecoverDynamicEvidence
    BY <2>8, Zenon DEF RecoverDynamicEvidence, F!FlowNext
  <2> QED
    BY <1>2, <2>1, <2>2, <2>3, <2>4, <2>5, <2>6, <2>7, <2>8, Zenon DEF EngineNext
<1> QED
  BY <1>1, <1>2, Zenon

\* The engine implements the flow table.
THEOREM EngineImplementsFlowTable == EngineSpec => ImplementsFlowTable
<1>1. EngineInit => F!FlowInit
  BY Zenon DEF EngineInit
<1> QED
  BY <1>1, TableStep, PTL DEF EngineSpec, ImplementsFlowTable, F!FlowSpec

-----------------------------------------------------------------------------
(* The evidence.                                                           *)

\* Domain ids stay within the bound on the domains ever created.
IdsBounded == next_domain \in Nat \ {0} /\ DOMAIN dom \subseteq 1..MaxDomainId

\* Initially there are no ids.
LEMMA IdsInit == EngineInit => IdsBounded
BY DEF EngineInit, E!EvidenceInit, IdsBounded

\* Ids stay bounded.
LEMMA IdsStep == IdsBounded /\ [E!EvidenceNext]_(E!evidenceVars) => IdsBounded'
<1> SUFFICES ASSUME IdsBounded, [E!EvidenceNext]_(E!evidenceVars) PROVE IdsBounded'
  OBVIOUS
<1>1. CASE UNCHANGED E!evidenceVars
  BY <1>1, Zenon DEF E!evidenceVars, IdsBounded
<1>2. ASSUME NEW c, E!CreateDomain(c) PROVE IdsBounded'
  BY <1>2, EngineAssumption DEF E!CreateDomain, IdsBounded
<1>3. ASSUME NEW d \in 1..MaxDomainId,
             \/ E!RemoveDomain(d)
             \/ E!StartFlowIn(d)
             \/ \E t \in E!Traffic : E!RecomputeDomain(d, t)
             \/ \E p \in E!Publishers, r \in Rates :
                   E!PublishOffered(d, r, p[1], p[2]) \/ E!PublishServiced(d, r, p[1], p[2])
             \/ \E p \in E!Publishers, l \in Latencies : E!PublishLatency(d, l, p[1], p[2])
      PROVE  IdsBounded'
  BY <1>3, ZenonT(60) DEF E!RemoveDomain, E!StartFlowIn, E!RecomputeDomain, E!PublishOffered,
              E!PublishServiced, E!PublishLatency, IdsBounded
<1>4. ASSUME NEW w \in Workers, NEW b \in E!Boots, E!RegisterWorker(w, b) \/ E!FenceWorker(w, b)
      PROVE  IdsBounded'
  BY <1>4, Zenon DEF E!RegisterWorker, E!FenceWorker, IdsBounded
<1>5. CASE E!RecoverEvidence
  BY <1>5, Zenon DEF E!RecoverEvidence, IdsBounded
<1> QED
  BY <1>1, <1>2, <1>3, <1>4, <1>5, Zenon DEF E!EvidenceNext

\* Whatever the flows of a domain are, aggregate_domain reports one of the kinds of
\* traffic that DomainEvidence allows.
LEMMA TrafficKind == \A d : TrafficOf(d) \in E!Traffic
BY Zenon DEF TrafficOf, E!Traffic

\* Every step of the engine is a step of DomainEvidence or leaves the evidence alone.
LEMMA EvidenceStep ==
  IdsBounded /\ [EngineNext]_engineVars => [E!EvidenceNext]_(E!evidenceVars)
<1> SUFFICES ASSUME IdsBounded, [EngineNext]_engineVars
             PROVE  [E!EvidenceNext]_(E!evidenceVars)
  OBVIOUS
<1>1. CASE UNCHANGED engineVars
  BY <1>1, Zenon DEF engineVars, table, evidence, E!evidenceVars
<1>2. CASE EngineNext
  <2>1. ASSUME NEW w \in Workers, NEW b \in RegisteredBoots, RegisterWorker(w, b)
        PROVE  E!EvidenceNext
    BY <2>1, EngineAssumption, Zenon DEF RegisterWorker, E!EvidenceNext, E!Boots
  <2>2. ASSUME NEW w \in Workers, NEW b \in F!Boots, FenceWorker(w, b)
        PROVE  E!EvidenceNext
    BY <2>2, Zenon DEF FenceWorker, E!EvidenceNext, E!Boots, F!Boots
  <2>3. ASSUME NEW p \in Profiles, CreateDomain(p)
        PROVE  E!EvidenceNext
    BY <2>3, Zenon DEF CreateDomain, E!EvidenceNext
  <2>4. ASSUME NEW d \in 1..MaxDomainId, RemoveDomain(d)
        PROVE  E!EvidenceNext
    BY <2>4, Zenon DEF RemoveDomain, E!EvidenceNext
  <2>5. ASSUME NEW d \in 1..MaxDomainId, RecomputeDomain(d)
        PROVE  E!EvidenceNext
    BY <2>5, TrafficKind, Zenon DEF RecomputeDomain, E!EvidenceNext
  <2>6. ASSUME NEW d \in 1..MaxDomainId, NEW p \in E!Publishers, PublishedBy(d, p)
        PROVE  E!EvidenceNext
    BY <2>6, Zenon DEF PublishedBy, E!EvidenceNext
  <2>7. ASSUME NEW ref \in F!FlowRef, NEW b \in F!Boots, StartFlow(ref, b)
        PROVE  [E!EvidenceNext]_(E!evidenceVars)
    <3>1. CASE UNCHANGED evidence
      BY <2>7, <3>1, Zenon DEF StartFlow, F!StartFlow, F!ReplaceFlow, evidence, E!evidenceVars
    <3>2. CASE ~UNCHANGED evidence
      <4>1. flows[ref.id].domain \in DOMAIN dom /\ E!StartFlowIn(flows[ref.id].domain)
        BY <2>7, <3>2, Zenon DEF StartFlow
      <4> QED
        BY <4>1, Zenon DEF IdsBounded, E!EvidenceNext
    <3> QED
      BY <3>1, <3>2, Zenon
  <2>8. CASE FlowOperation
    <3>1. UNCHANGED evidence
      BY <2>8, Zenon DEF FlowOperation
    <3>2. UNCHANGED <<worker_boot, next_domain, {pb \in fenced : pb[1] \in Workers}>>
      <4>1. ASSUME NEW s \in Sources, NEW b \in F!Boots, F!FenceSource(s, b)
            PROVE  UNCHANGED <<worker_boot, next_domain, {pb \in fenced : pb[1] \in Workers}>>
        BY <4>1, EngineAssumption DEF F!FenceSource
      <4> DEFINE Untouched == UNCHANGED <<worker_boot, next_domain, fenced>>
      <4>2. ASSUME NEW s, NEW b, F!RegisterSource(s, b) PROVE Untouched
        BY <4>2, Zenon DEF F!RegisterSource
      <4>3. ASSUME NEW w, NEW s, NEW wb, NEW sb, NEW d, NEW n,
                   F!DeclareFlow(w, wb, s, sb, d, n)
            PROVE  Untouched
        BY <4>3, Zenon DEF F!DeclareFlow
      <4>4. ASSUME NEW ref, F!AdmitFlow(ref) \/ F!QueueFlow(ref) PROVE Untouched
        BY <4>4, Zenon DEF F!AdmitFlow, F!QueueFlow, F!ReplaceFlow
      <4>5. ASSUME NEW ref, NEW b,
                   F!FlowComplete(ref, b) \/ F!FlowFail(ref, b) \/ F!RevalidateFlow(ref, b)
            PROVE  Untouched
        BY <4>5, Zenon DEF F!FlowComplete, F!FlowFail, F!RevalidateFlow, F!ReplaceFlow
      <4>6. ASSUME NEW ref, NEW b, NEW n, F!FlowProgress(ref, b, n) \/ F!FlowCancel(ref, b, n)
            PROVE  Untouched
        BY <4>6, Zenon DEF F!FlowProgress, F!FlowCancel, F!ReplaceFlow
      <4>7. ASSUME NEW id, NEW g, F!AdvanceFlowGeneration(id, g) PROVE Untouched
        BY <4>7, Zenon DEF F!AdvanceFlowGeneration, F!ReplaceFlow
      <4>8. Untouched \/ \E s \in Sources, b \in F!Boots : F!FenceSource(s, b)
        <5> HIDE DEF Untouched
        <5> QED
          BY <2>8, <4>2, <4>3, <4>4, <4>5, <4>6, <4>7, Zenon DEF FlowOperation
      <4> QED
        BY <4>1, <4>8, Zenon
    <3> QED
      BY <3>1, <3>2, Zenon DEF evidence, E!evidenceVars
  <2>9. CASE RecoverDynamicEvidence
    BY <2>9, Zenon DEF RecoverDynamicEvidence, E!EvidenceNext
  <2> QED
    BY <1>2, <2>1, <2>2, <2>3, <2>4, <2>5, <2>6, <2>7, <2>8, <2>9, Zenon DEF EngineNext
<1> QED
  BY <1>1, <1>2, Zenon

\* The engine implements DomainEvidence: nothing that real flows report or do to a
\* domain is outside what DomainEvidence allows.
THEOREM EngineImplementsEvidence == EngineSpec => ImplementsEvidence
<1>1. EngineInit => E!EvidenceInit
  BY Zenon DEF EngineInit
<1> QED
  BY <1>1, IdsInit, IdsStep, EvidenceStep, PTL
  DEF EngineSpec, ImplementsEvidence, E!EvidenceSpec
-----------------------------------------------------------------------------
(* Capacity.                                                               *)

\* What a set of rates of at most three elements has: a least one.
LEMMA LeastOfThree ==
  ASSUME NEW a, NEW b, NEW c, NEW S, S = {a, b, c} \cap Nat, S # {}
  PROVE  Least(S) \in S /\ \A y \in S : Least(S) <= y
<1>1. \E x \in S : \A y \in S : x <= y
  OBVIOUS
<1> QED
  BY <1>1, Zenon DEF Least

\* The effective capacity of a valid profile is the largest rate that fits with the
\* reservation under every bound.
EffectiveFits(p, eff) ==
    LET reserved == IF p["reserved"] = Unknown THEN 0 ELSE p["reserved"]
    IN  /\ eff = NoBound <=> \A l \in Layers : p[l] = Unknown
        /\ eff # NoBound =>
              /\ \A l \in Layers : p[l] # Unknown => eff + reserved <= p[l]
              /\ \E l \in Layers : eff + reserved = p[l]

\* The effective capacity of a valid profile is the largest rate its bounds leave room for.
LEMMA EffectiveRight ==
  ASSUME NEW p \in Profile, ProfileValid(p)
  PROVE  EffectiveFits(p, Effective(p))
<1> DEFINE S == Bounds(p)
           known == {l \in Layers : p[l] # Unknown}
<1>1. \A k \in DOMAIN p : p[k] \in Nat \cup {Unknown}
  BY Zenon DEF Profile, Rate, ProfileValid
<1>2. DOMAIN p = Layers \cup {"reserved"}
  BY Zenon DEF Profile
<1>3. \A l \in Layers : p[l] # Unknown => p[l] \in S
  BY <1>1, <1>2, Zenon DEF Bounds
<1>4. \A x \in S : x \in Nat /\ \E l \in Layers : x = p[l]
  BY Zenon DEF Bounds
<1>5. S = {p["theoretical"], p["configured"], p["measured_service"]} \cap Nat
  BY Zenon DEF Bounds, Layers
<1>6. NoBound \notin Int /\ Unknown \notin Int
  BY RateAssumption, Zenon
<1>7. CASE S = {}
  <2>1. \A l \in Layers : p[l] = Unknown
    BY <1>3, <1>7, Zenon
  <2>2. Effective(p) = NoBound
    BY <1>7, Zenon DEF Effective, EffectiveBeforeReservation
  <2> QED
    BY <2>1, <2>2, Zenon DEF EffectiveFits
<1>8. CASE S # {}
  <2> DEFINE least == Least(S)
  <2>1. least \in S /\ \A y \in S : least <= y
    BY <1>5, <1>8, LeastOfThree, Zenon
  <2>2. EffectiveBeforeReservation(p) = least /\ least # NoBound /\ least \in Nat
    BY <1>4, <1>6, <1>8, <2>1 DEF EffectiveBeforeReservation
  <2>3. PICK l0 \in Layers : least = p[l0]
    BY <1>4, <2>1, Zenon
  <2>4. p[l0] # Unknown
    BY <1>6, <2>2, <2>3
  <2> HIDE DEF least, S
  <2>5. CASE p["reserved"] = Unknown
    <3>1. Effective(p) = least
      BY <1>6, <2>2, <2>5 DEF Effective
    <3>2. \A l \in Layers : p[l] # Unknown => Effective(p) + 0 <= p[l]
      <4>1. \A l \in Layers : p[l] # Unknown => least <= p[l]
        BY <1>3, <2>1, Zenon
      <4>2. Effective(p) + 0 = least
        BY <2>2, <3>1
      <4> QED
        BY <4>1, <4>2, Zenon
    <3>3. Effective(p) + 0 = p[l0] /\ Effective(p) # NoBound
      BY <2>2, <2>3, <3>1
    <3> QED
      BY <2>4, <2>5, <3>2, <3>3, Zenon DEF EffectiveFits
  <2>6. CASE p["reserved"] # Unknown
    <3>1. p["reserved"] \in Nat /\ p["reserved"] <= least
      BY <2>2, <2>6, Zenon DEF ProfileValid, ReservationIsConsistent
    <3>2. Effective(p) = least - p["reserved"]
      BY <2>2, <3>1 DEF Effective
    <3>3. Effective(p) # NoBound /\ Effective(p) + p["reserved"] = least
      BY <1>6, <2>2, <3>1, <3>2
    <3>4. \A l \in Layers : p[l] # Unknown => Effective(p) + p["reserved"] <= p[l]
      BY <1>3, <2>1, <3>3, Zenon
    <3>5. Effective(p) + p["reserved"] = p[l0]
      BY <2>3, <3>3, Zenon
    <3> QED
      BY <2>4, <2>6, <3>3, <3>4, <3>5, Zenon DEF EffectiveFits
  <2> QED
    BY <2>5, <2>6, Zenon
<1> QED
  BY <1>7, <1>8, Zenon

\* Every domain keeps the effective capacity of the valid profile it was created with.
ProfilesMatch ==
    /\ DOMAIN profile = DOMAIN dom
    /\ \A d \in DOMAIN dom :
          /\ profile[d] \in Profile /\ ProfileValid(profile[d])
          /\ "capacity" \in DOMAIN dom[d]
          /\ dom[d].capacity = Effective(profile[d])
\* Initially there are no domains.
LEMMA ProfilesInit == EngineInit => ProfilesMatch
BY DEF EngineInit, E!EvidenceInit, ProfilesMatch

\* A step that keeps domains, capacities and profiles keeps them matched.
LEMMA KeepsProfiles ==
  ASSUME ProfilesMatch, UNCHANGED profile, DOMAIN dom' = DOMAIN dom,
         \A d \in DOMAIN dom : /\ "capacity" \in DOMAIN dom'[d]
                               /\ dom'[d].capacity = dom[d].capacity
  PROVE  ProfilesMatch'
BY Zenon DEF ProfilesMatch

\* Every step keeps profiles and capacities matched.
LEMMA ProfilesStep == ProfilesMatch /\ [EngineNext]_engineVars => ProfilesMatch'
<1> SUFFICES ASSUME ProfilesMatch, [EngineNext]_engineVars PROVE ProfilesMatch'
  OBVIOUS
<1> DEFINE Keeps == /\ UNCHANGED profile /\ DOMAIN dom' = DOMAIN dom
                    /\ \A d \in DOMAIN dom : /\ "capacity" \in DOMAIN dom'[d]
                                             /\ dom'[d].capacity = dom[d].capacity
<1>0. ASSUME UNCHANGED <<dom, profile>> PROVE Keeps
  BY <1>0, Zenon DEF ProfilesMatch
<1>1. CASE UNCHANGED engineVars
  BY <1>0, <1>1, KeepsProfiles, Zenon DEF engineVars, evidence
<1>2. CASE EngineNext
  <2>0. Keeps => ProfilesMatch'
    BY KeepsProfiles, Zenon
  <2>1. ASSUME NEW w, NEW b, RegisterWorker(w, b) PROVE Keeps
    BY <1>0, <2>1, Zenon DEF RegisterWorker, E!RegisterWorker
  <2>2. ASSUME NEW w, NEW b, FenceWorker(w, b) PROVE Keeps
    <3>1. UNCHANGED profile /\ E!FenceWorker(w, b)
      BY <2>2, Zenon DEF FenceWorker
    <3>2. PICK spared : dom' = [d \in DOMAIN dom |->
               IF d \in spared THEN dom[d]
               ELSE E!Marked([dom[d] EXCEPT !.offered = E!Withdrawn(@, w, b),
                                            !.serviced = E!Withdrawn(@, w, b)])]
      BY <3>1, Zenon DEF E!FenceWorker
    <3>3. ASSUME NEW d \in DOMAIN dom
          PROVE  "capacity" \in DOMAIN dom'[d] /\ dom'[d].capacity = dom[d].capacity
      <4>1. "capacity" \in DOMAIN dom[d]
        BY Zenon DEF ProfilesMatch
      <4>2. CASE d \in spared
        BY <3>2, <4>1, <4>2, Zenon
      <4>3. CASE d \notin spared
        <5>1. dom'[d] = E!Marked([dom[d] EXCEPT !.offered = E!Withdrawn(dom[d].offered, w, b),
                                                !.serviced = E!Withdrawn(dom[d].serviced, w, b)])
          BY <3>2, <4>3, ZenonT(60)
        <5> QED
          BY <4>1, <5>1, Zenon DEF E!Marked
      <4> QED
        BY <4>2, <4>3, Zenon
    <3> QED
      BY <3>1, <3>2, <3>3, Zenon
  <2>3. ASSUME NEW p \in Profiles, CreateDomain(p) PROVE ProfilesMatch'
    <3>1. p \in Profile
      BY EngineAssumption, Zenon
    <3> QED
      BY <2>3, <3>1, Zenon DEF CreateDomain, E!CreateDomain, ProfilesMatch
  <2>4. ASSUME NEW d, RemoveDomain(d) PROVE ProfilesMatch'
    BY <2>4, Zenon DEF RemoveDomain, E!RemoveDomain, Restrict, ProfilesMatch
  <2>5. ASSUME NEW d, RecomputeDomain(d) PROVE Keeps
    BY <2>5, SMTT(60) DEF RecomputeDomain, E!RecomputeDomain, ProfilesMatch
  <2>6. ASSUME NEW d, NEW p, PublishedBy(d, p) PROVE Keeps
    <3>0. \A c \in DOMAIN dom : "capacity" \in DOMAIN dom[c]
      BY Zenon DEF ProfilesMatch
    <3>1. ASSUME NEW r, E!PublishOffered(d, r, p[1], p[2]), UNCHANGED profile PROVE Keeps
      BY <3>0, <3>1, Zenon DEF E!PublishOffered, E!Lifted
    <3>2. ASSUME NEW r, E!PublishServiced(d, r, p[1], p[2]), UNCHANGED profile PROVE Keeps
      BY <3>0, <3>2, Zenon DEF E!PublishServiced, E!Lifted
    <3>3. ASSUME NEW l, E!PublishLatency(d, l, p[1], p[2]), UNCHANGED profile PROVE Keeps
      BY <3>0, <3>3, Zenon DEF E!PublishLatency, E!Lifted
    <3> HIDE DEF Keeps
    <3> QED
      BY <2>6, <3>1, <3>2, <3>3, Zenon DEF PublishedBy
  <2>7. ASSUME NEW ref, NEW b, StartFlow(ref, b) PROVE Keeps
    BY <2>7 DEF StartFlow, E!StartFlowIn, E!Lifted, evidence, ProfilesMatch
  <2>8. CASE FlowOperation
    BY <1>0, <2>0, <2>8, Zenon DEF FlowOperation, evidence
  <2>9. CASE RecoverDynamicEvidence
    BY <2>0, <2>9, Zenon DEF RecoverDynamicEvidence, E!RecoverEvidence, E!Marked, ProfilesMatch
  <2> HIDE DEF Keeps
  <2> QED
    BY <1>2, <2>1, <2>2, <2>3, <2>4, <2>5, <2>6, <2>7, <2>8, <2>9, <2>0, Zenon DEF EngineNext
<1> QED
  BY <1>1, <1>2, Zenon

\* For every profile that create_domain accepts, the capacity that classification
\* works with is the largest rate that fits under every bound with the reservation.
THEOREM EngineCapacity == EngineSpec => []EffectiveIsLargest
<1>1. ProfilesMatch => EffectiveIsLargest
  <2> SUFFICES ASSUME ProfilesMatch, NEW d \in DOMAIN dom
               PROVE  EffectiveFits(profile[d], dom[d].capacity)
    BY Zenon DEF EffectiveIsLargest, EffectiveFits
  <2> QED
    BY EffectiveRight, Zenon DEF ProfilesMatch
<1> QED
  BY <1>1, ProfilesInit, ProfilesStep, PTL DEF EngineSpec

-----------------------------------------------------------------------------
(* The queries, over the flows and the evidence of a domain.               *)

\* A domain has an effective capacity, two rates and a latency, of the kinds that
\* profiles and publications give them.
Measured(x) ==
    /\ {"capacity", "state", "offered", "serviced", "latency"} \subseteq DOMAIN x
    /\ x.capacity \in {Effective(p) : p \in Profiles}
    /\ x.offered.rate \in Rates /\ x.serviced.rate \in Rates
    /\ x.latency \in Latencies

\* What the queries rely on: the table and the evidence are well formed and list the
\* same domains, the lists are in order, fenced flows are dead, and no flow is ever
\* superseded.
QueryFacts ==
    /\ F!FlowTypeOK /\ F!BoundExactlyOnce /\ F!FencedStaysDead
    /\ \A i \in DOMAIN flows : flows[i].state # "SUPERSEDED"
    /\ \A d \in DOMAIN dom : Measured(dom[d])
    /\ DOMAIN members = DOMAIN dom

\* The table and the evidence always have the same domains.
LEMMA SameDomains == EngineSpec => [](DOMAIN members = DOMAIN dom)
<1> DEFINE Same == DOMAIN members = DOMAIN dom
           Kept == DOMAIN members' = DOMAIN members /\ DOMAIN dom' = DOMAIN dom
<1>1. EngineInit => Same
  BY Zenon DEF EngineInit, F!FlowInit, E!EvidenceInit
<1>2. ASSUME Same, [EngineNext]_engineVars PROVE Same'
  <2>1. CASE UNCHANGED engineVars
    BY <1>2, <2>1, Zenon DEF engineVars, table, evidence
  <2>2. ASSUME NEW w, NEW b, RegisterWorker(w, b) \/ FenceWorker(w, b) PROVE Kept
    BY <2>2, Zenon DEF RegisterWorker, FenceWorker, F!RegisterWorker, F!FenceWorker,
       E!RegisterWorker, E!FenceWorker
  <2>3. ASSUME NEW p, CreateDomain(p) PROVE Same'
    BY <1>2, <2>3, Zenon DEF CreateDomain, F!CreateDomain, E!CreateDomain
  <2>4. ASSUME NEW d, RemoveDomain(d) PROVE Same'
    BY <1>2, <2>4, Zenon DEF RemoveDomain, F!RemoveDomain, E!RemoveDomain
  <2>5. ASSUME NEW d, RecomputeDomain(d) PROVE Kept
    BY <2>5, Zenon DEF RecomputeDomain, E!RecomputeDomain, table
  <2>6. ASSUME NEW d, NEW p, PublishedBy(d, p) PROVE Kept
    BY <2>6, Zenon DEF PublishedBy, E!PublishOffered, E!PublishServiced, E!PublishLatency, table
  <2>7. ASSUME NEW ref, NEW b, StartFlow(ref, b) PROVE Kept
    BY <2>7, Zenon DEF StartFlow, F!StartFlow, E!StartFlowIn, evidence
  <2>8. ASSUME FlowOperation PROVE Kept
    <3>1. DOMAIN dom' = DOMAIN dom
      BY <2>8, Zenon DEF FlowOperation, evidence
    <3>2. DOMAIN members' = DOMAIN members
      <4>1. ASSUME NEW ref, F!AdmitFlow(ref) PROVE DOMAIN members' = DOMAIN members
        BY <4>1, Zenon DEF F!AdmitFlow
      <4> QED
        BY <2>8, <4>1, ZenonT(60) DEF FlowOperation, F!RegisterSource, F!FenceSource, F!DeclareFlow,
           F!QueueFlow, F!FlowComplete, F!FlowFail, F!RevalidateFlow, F!FlowProgress,
           F!FlowCancel, F!AdvanceFlowGeneration
    <3> QED
      BY <3>1, <3>2, Zenon
  <2>9. ASSUME RecoverDynamicEvidence PROVE Kept
    BY <2>9, Zenon DEF RecoverDynamicEvidence, F!RecoverFlows, E!RecoverEvidence
  <2>10. Kept => Same'
    BY <1>2, Zenon
  <2> HIDE DEF Same, Kept
  <2> QED
    BY <1>2, <2>1, <2>2, <2>3, <2>4, <2>5, <2>6, <2>7, <2>8, <2>9, <2>10, Zenon DEF EngineNext
<1> HIDE DEF Same
<1>3. EngineSpec => []Same
  BY <1>1, <1>2, PTL DEF EngineSpec
<1> QED
  BY <1>3, Zenon DEF Same

\* The evidence is always made of such values.
LEMMA EvidenceMeasured == EngineSpec => [](\A d \in DOMAIN dom : Measured(dom[d]))
<1> DEFINE Inv == \A d \in DOMAIN dom : Measured(dom[d])
<1>1. E!EvidenceInit => Inv
  BY DEF E!EvidenceInit
<1>2. ASSUME Inv, [E!EvidenceNext]_(E!evidenceVars) PROVE Inv'
  <2>1. ASSUME NEW x, Measured(x) PROVE Measured(E!Marked(x)) /\ Measured(E!Lifted(x))
    BY <2>1, Zenon DEF Measured, E!Marked, E!Lifted
  <2>2. CASE UNCHANGED dom
    BY <1>2, <2>2, Zenon
  <2>3. ASSUME NEW w, NEW b, E!FenceWorker(w, b) PROVE Inv'
    <3>1. PICK spared : dom' = [d \in DOMAIN dom |->
               IF d \in spared THEN dom[d]
               ELSE E!Marked([dom[d] EXCEPT !.offered = E!Withdrawn(@, w, b),
                                            !.serviced = E!Withdrawn(@, w, b)])]
      BY <2>3, Zenon DEF E!FenceWorker
    <3> SUFFICES ASSUME NEW d \in DOMAIN dom PROVE Measured(dom'[d])
      BY <3>1, Zenon
    <3> DEFINE y == [dom[d] EXCEPT !.offered = E!Withdrawn(dom[d].offered, w, b),
                                   !.serviced = E!Withdrawn(dom[d].serviced, w, b)]
    <3>2. dom'[d] = dom[d] \/ dom'[d] = E!Marked(y)
      BY <3>1, ZenonT(60)
    <3>3. Measured(dom[d])
      BY <1>2, Zenon
    <3>4. ASSUME NEW ev, ev.rate \in Rates PROVE E!Withdrawn(ev, w, b).rate \in Rates
      BY <3>4, EngineAssumption, Zenon DEF E!Withdrawn, E!NoEvidence
    <3>5. Measured(y)
      <4> HIDE DEF E!Withdrawn
      <4> QED
        BY <3>3, <3>4, Zenon DEF Measured
    <3> QED
      BY <2>1, <3>2, <3>3, <3>5
  <2>4. ASSUME NEW c \in {Effective(p) : p \in Profiles}, E!CreateDomain(c) PROVE Inv'
    <3> DEFINE new == [capacity |-> c, state |-> "UNKNOWN", offered |-> E!NoEvidence,
                       serviced |-> E!NoEvidence, latency |-> 0,
                       current_episode |-> 0, episodes |-> << >>]
    <3>1. Measured(new)
      BY EngineAssumption, Zenon DEF Measured, E!NoEvidence
    <3>2. dom' = [d \in DOMAIN dom \cup {next_domain} |-> IF d # next_domain THEN dom[d] ELSE new]
      BY <2>4, Zenon DEF E!CreateDomain
    <3> HIDE DEF new
    <3> QED
      BY <1>2, <3>1, <3>2, Zenon
  <2>5. CASE E!RecoverEvidence
    BY <1>2, <2>1, <2>5, Zenon DEF E!RecoverEvidence
  <2>6. ASSUME NEW d, E!RemoveDomain(d) PROVE Inv'
    BY <1>2, <2>6 DEF E!RemoveDomain
  <2>7. ASSUME NEW d \in DOMAIN dom, NEW x, Measured(x), dom' = [dom EXCEPT ![d] = x] PROVE Inv'
    BY <1>2, <2>7, Zenon
  <2>8. ASSUME NEW d, E!StartFlowIn(d) PROVE Inv'
    BY <1>2, <2>1, <2>7, <2>8, Zenon DEF E!StartFlowIn
  <2>9. ASSUME NEW d, NEW t, E!RecomputeDomain(d, t) PROVE Inv'
    <3>1. \A s, e, h : Measured([dom[d] EXCEPT !.state = s, !.current_episode = e, !.episodes = h])
      BY <1>2, <2>9, Zenon DEF E!RecomputeDomain, Measured
    <3>2. d \in DOMAIN dom
      BY <2>9, Zenon DEF E!RecomputeDomain
    <3>3. \E s, e, h : dom' = [dom EXCEPT ![d] =
                              [dom[d] EXCEPT !.state = s, !.current_episode = e, !.episodes = h]]
      BY <2>9, Zenon DEF E!RecomputeDomain
    <3> QED
      BY <2>7, <3>1, <3>2, <3>3, Zenon
  <2>10. ASSUME NEW d, NEW r \in Rates, NEW w, NEW b,
                E!PublishOffered(d, r, w, b) \/ E!PublishServiced(d, r, w, b)
         PROVE  Inv'
    <3>1. d \in DOMAIN dom /\ Measured(E!Lifted(dom[d]))
      BY <1>2, <2>1, <2>10, Zenon DEF E!PublishOffered, E!PublishServiced
    <3>2. ASSUME NEW x, Measured(x)
          PROVE  /\ Measured([x EXCEPT !.offered = [rate |-> r, owner |-> w, boot |-> b]])
                 /\ Measured([x EXCEPT !.serviced = [rate |-> r, owner |-> w, boot |-> b]])
      BY <3>2, Zenon DEF Measured
    <3> QED
      BY <2>7, <2>10, <3>1, <3>2, Zenon DEF E!PublishOffered, E!PublishServiced
  <2>11. ASSUME NEW d, NEW l \in Latencies, NEW w, NEW b, E!PublishLatency(d, l, w, b) PROVE Inv'
    <3>1. d \in DOMAIN dom /\ Measured(E!Lifted(dom[d]))
      BY <1>2, <2>1, <2>11, Zenon DEF E!PublishLatency
    <3>2. ASSUME NEW x, Measured(x) PROVE Measured([x EXCEPT !.latency = l])
      BY <3>2, Zenon DEF Measured
    <3> QED
      BY <2>7, <2>11, <3>1, <3>2, Zenon DEF E!PublishLatency
  <2> HIDE DEF Inv
  <2>12. ASSUME NEW w, NEW b, E!RegisterWorker(w, b) PROVE Inv'
    BY <2>2, <2>12, Zenon DEF E!RegisterWorker
  <2>13. CASE UNCHANGED E!evidenceVars
    BY <2>2, <2>13, Zenon DEF E!evidenceVars
  <2> QED
    BY <1>2, <2>3, <2>4, <2>5, <2>6, <2>8, <2>9, <2>10, <2>11, <2>12, <2>13, Zenon
    DEF E!EvidenceNext
<1> HIDE DEF Inv
<1>3. EngineSpec => []Inv
  BY <1>1, <1>2, EngineImplementsEvidence, PTL DEF ImplementsEvidence, E!EvidenceSpec
<1> QED
  BY <1>3, Zenon DEF Inv

\* What a domain lists are flows of the domain, with counters of 64 bits.
LEMMA ListedFlow ==
  ASSUME QueryFacts, NEW d \in DOMAIN dom, NEW k \in DOMAIN members[d]
  PROVE  /\ k \in Nat \ {0}
         /\ members[d][k].id \in DOMAIN flows
         /\ Flow(d, k).domain = d
         /\ Flow(d, k).in_flight \in 0..MaxU64 /\ Flow(d, k).completed \in 0..MaxU64
         /\ Flow(d, k).admitted \in 0..MaxU64
<1>1. members[d] \in Seq(F!FlowRef)
  BY Zenon DEF QueryFacts, F!FlowTypeOK
<1>2. members[d][k].id \in DOMAIN flows /\ flows[members[d][k].id].domain = d
  BY Zenon DEF QueryFacts, F!BoundExactlyOnce
<1>3. flows[members[d][k].id] \in F!Flow
  BY <1>2, Zenon DEF QueryFacts, F!FlowTypeOK
<1>4. ASSUME NEW f \in F!Flow
      PROVE  f.in_flight \in 0..MaxU64 /\ f.completed \in 0..MaxU64 /\ f.admitted \in 0..MaxU64
  BY Zenon DEF F!Flow, F!U64
<1> QED
  BY <1>1, <1>2, <1>3, <1>4 DEF Flow

\* The effective capacity of a profile is a rate, or there is none.
LEMMA EffectiveNat ==
  ASSUME NEW p \in Profile
  PROVE  Effective(p) \in Nat \cup {NoBound}
<1> DEFINE S == Bounds(p)
<1>1. S = {p["theoretical"], p["configured"], p["measured_service"]} \cap Nat
  BY Zenon DEF Bounds, Layers
<1>2. S # {} => Least(S) \in S
  BY <1>1, LeastOfThree, Zenon
<1>3. EffectiveBeforeReservation(p) \in Nat \cup {NoBound}
  BY <1>1, <1>2, Zenon DEF EffectiveBeforeReservation
<1> QED
  BY <1>3 DEF Effective

\* The evidence of a domain is made of rates.
LEMMA EvidenceRates ==
  ASSUME QueryFacts, NEW d \in DOMAIN dom
  PROVE  /\ dom[d].capacity \in Nat \cup {NoBound}
         /\ dom[d].offered.rate \in Int /\ dom[d].serviced.rate \in Int
         /\ dom[d].latency \in Nat
<1>1. Measured(dom[d])
  BY Zenon DEF QueryFacts
<1>2. ASSUME NEW p \in Profiles PROVE Effective(p) \in Nat \cup {NoBound}
  BY EngineAssumption, EffectiveNat, Zenon
<1> QED
  BY <1>1, <1>2, EngineAssumption, Zenon DEF Measured

\* What the ladder says about the rates, when no bytes are queued.
LEMMA LadderRates ==
  ASSUME NEW x, x.capacity \in Nat, x.offered.rate \in Int, x.serviced.rate \in Int,
         x.latency \in Nat, NEW t \in E!Traffic
  PROVE  /\ E!Ladder(x, t) = "HEALTHY" /\ x.capacity > 0
              => 10 * x.offered.rate < 8 * x.capacity
         /\ E!Ladder(x, t) = "SATURATED" => x.capacity > 0 /\ x.offered.rate > x.capacity
         /\ E!Ladder(x, t) # "IDLE"
         /\ E!Ladder(x, t) \in {"QUEUEING", "CONGESTED", "SEVERELY_CONGESTED"}
              => t \in {"backlog", "starving"}
<1> DEFINE eff == x.capacity
           offered == x.offered.rate
           serviced == x.serviced.rate
           deficit == offered - serviced
           queue == t \in {"backlog", "starving"}
           severe == t = "starving" \/ x.latency * eff > 2
           over == eff > 0 /\ offered > eff
           full == eff > 0 /\ 10 * offered >= 9 * eff /\ 20 * serviced >= 19 * eff
           busy == eff > 0 /\ 10 * offered >= 8 * eff
<1>1. deficit \in Int
  OBVIOUS
<1>2. CASE queue
  <2>1. E!Ladder(x, t) \in {"SEVERELY_CONGESTED", "CONGESTED", "QUEUEING", "RECOVERING"}
    BY <1>1, <1>2 DEF E!Ladder
  <2> QED
    BY <1>2, <2>1, Zenon
<1>3. CASE ~queue
  <2>1. CASE over
    <3>1. E!Ladder(x, t) = "SATURATED"
      BY <1>3, <2>1, Zenon DEF E!Ladder
    <3> QED
      BY <2>1, <3>1, Zenon
  <2>2. CASE ~over /\ full
    <3>1. E!Ladder(x, t) = "APPROACHING_SATURATION"
      BY <1>3, <2>2 DEF E!Ladder
    <3> QED
      BY <3>1, Zenon
  <2>3. CASE ~over /\ ~full /\ busy
    <3>1. E!Ladder(x, t) = "BUSY"
      BY <1>3, <2>3, Zenon DEF E!Ladder
    <3> QED
      BY <3>1, Zenon
  <2>4. CASE ~over /\ ~full /\ ~busy
    <3>1. E!Ladder(x, t) = "HEALTHY"
      BY <1>3, <2>4, Zenon DEF E!Ladder
    <3> QED
      BY <2>4, <3>1
  <2> QED
    BY <2>1, <2>2, <2>3, <2>4, Zenon
<1> QED
  BY <1>2, <1>3, Zenon

-----------------------------------------------------------------------------
(* Backlogs.                                                               *)

Chosen(s) == CHOOSE x \in s : TRUE

\* g[s] is the sum of f over s as the recursion defines it.
Summed(f, g, s) == g[s] = IF s = {} THEN 0 ELSE f[Chosen(s)] + g[s \ {Chosen(s)}]

\* g is the table of sums that SumFunctionOnSet looks S up in.
SumTable(f, g, S) ==
    g = [s \in SUBSET S |-> IF s = {} THEN 0 ELSE f[Chosen(s)] + g[s \ {Chosen(s)}]]

\* No bytes are queued where no flow is.
LEMMA SumOfNone ==
  ASSUME NEW f
  PROVE  SumFunctionOnSet(f, {}) = 0
<1> DEFINE iter == CHOOSE g : SumTable(f, g, {})
<1>1. SumFunctionOnSet(f, {}) = iter[{}]
  BY Zenon DEF SumFunctionOnSet, FoldFunctionOnSet, MapThenFoldSet, SumTable, Chosen
<1>2. SumTable(f, [s \in SUBSET {} |-> 0], {})
  BY Zenon DEF SumTable
<1>3. SumTable(f, iter, {})
  BY <1>2, Zenon
<1> HIDE DEF iter
<1> QED
  BY <1>1, <1>3, Zenon DEF SumTable

\* A recomputation that finds queued bytes finds a flow that is queued.
LEMMA BacklogHasFlow ==
  ASSUME QueryFacts, NEW d \in DOMAIN dom, TrafficOf(d) \in {"backlog", "starving"}
  PROVE  \E i \in DOMAIN flows : /\ flows[i].domain = d /\ flows[i].state = "QUEUED"
<1>1. QueuedBytes(d) > 0
  BY Zenon DEF TrafficOf
<1>2. Queued(d) # {}
  <2> SUFFICES ASSUME Queued(d) = {} PROVE FALSE
    OBVIOUS
  <2>1. QueuedBytes(d) = Wrapped(0)
    BY SumOfNone, Zenon DEF QueuedBytes
  <2> QED
    BY <1>1, <2>1, WidthAssumption DEF Wrapped
<1>3. PICK k \in DOMAIN members[d] : Flow(d, k).state = "QUEUED"
  BY <1>2, Zenon DEF Queued, Seen
<1> QED
  BY <1>3, ListedFlow DEF Flow

\* Only a recomputation brings a domain into a state that reports a queue.
LEMMA OnlyRecomputeQueues ==
  ASSUME QueryFacts, [EngineNext]_engineVars, NEW d \in DOMAIN dom \cap DOMAIN dom',
         dom'[d].state \in QueueStates, dom'[d].state # dom[d].state
  PROVE  TrafficOf(d) \in {"backlog", "starving"}
<1> DEFINE Fine == dom'[d].state = dom[d].state \/ dom'[d].state \notin QueueStates
<1>0. \A e \in DOMAIN dom : "state" \in DOMAIN dom[e]
  BY Zenon DEF QueryFacts, Measured
<1>1. ASSUME NEW x, "state" \in DOMAIN x
      PROVE  /\ E!Marked(x).state = x.state \/ E!Marked(x).state \notin QueueStates
             /\ E!Lifted(x).state = x.state \/ E!Lifted(x).state \notin QueueStates
             /\ "state" \in DOMAIN E!Lifted(x)
  BY <1>1, Zenon DEF E!Marked, E!Lifted, QueueStates
<1>2. ASSUME UNCHANGED dom PROVE Fine
  BY <1>2, Zenon
<1>3. ASSUME NEW w, NEW b, FenceWorker(w, b) PROVE Fine
  <2>1. PICK spared : dom' = [e \in DOMAIN dom |->
               IF e \in spared THEN dom[e]
               ELSE E!Marked([dom[e] EXCEPT !.offered = E!Withdrawn(@, w, b),
                                            !.serviced = E!Withdrawn(@, w, b)])]
    BY <1>3, Zenon DEF FenceWorker, E!FenceWorker
  <2> DEFINE y == [dom[d] EXCEPT !.offered = E!Withdrawn(dom[d].offered, w, b),
                                 !.serviced = E!Withdrawn(dom[d].serviced, w, b)]
  <2>2. dom'[d] = dom[d] \/ dom'[d] = E!Marked(y)
    BY <2>1, ZenonT(60)
  <2>3. y.state = dom[d].state /\ "state" \in DOMAIN y
    BY <1>0, Zenon
  <2> HIDE DEF y
  <2> QED
    BY <2>2, <2>3, Zenon DEF E!Marked, QueueStates
<1>4. ASSUME NEW p, CreateDomain(p) PROVE Fine
  BY <1>4, Zenon DEF CreateDomain, E!CreateDomain, QueueStates
<1>5. ASSUME NEW e, RemoveDomain(e) PROVE Fine
  BY <1>5, Zenon DEF RemoveDomain, E!RemoveDomain
<1>6. ASSUME NEW e, NEW p, PublishedBy(e, p) PROVE Fine
  <2>1. ASSUME NEW r, E!PublishOffered(e, r, p[1], p[2]) PROVE Fine
    BY <1>0, <1>1, <2>1, Zenon DEF E!PublishOffered
  <2>2. ASSUME NEW r, E!PublishServiced(e, r, p[1], p[2]) PROVE Fine
    BY <1>0, <1>1, <2>2, Zenon DEF E!PublishServiced
  <2>3. ASSUME NEW l, E!PublishLatency(e, l, p[1], p[2]) PROVE Fine
    BY SMTT(20), <1>0, <1>1, <2>3 DEF E!PublishLatency
  <2> HIDE DEF Fine
  <2> QED
    BY <1>6, <2>1, <2>2, <2>3, Zenon DEF PublishedBy
<1>7. ASSUME NEW ref, NEW b, StartFlow(ref, b) PROVE Fine
  BY SMTT(20), <1>0, <1>1, <1>7 DEF StartFlow, E!StartFlowIn, evidence
<1>8. ASSUME RecoverDynamicEvidence PROVE Fine
  BY <1>0, <1>1, <1>8, Zenon DEF RecoverDynamicEvidence, E!RecoverEvidence
<1>9. ASSUME NEW e, RecomputeDomain(e), e # d PROVE Fine
  BY <1>9, Zenon DEF RecomputeDomain, E!RecomputeDomain
<1>10. ASSUME RecomputeDomain(d) PROVE TrafficOf(d) \in {"backlog", "starving"}
  <2>1. dom'[d].state = E!Classify(dom[d], TrafficOf(d))
    BY <1>0, <1>10, Zenon DEF RecomputeDomain, E!RecomputeDomain
  <2>2. /\ dom[d].capacity \in Nat \cup {NoBound}
        /\ dom[d].offered.rate \in Int /\ dom[d].serviced.rate \in Int /\ dom[d].latency \in Nat
        /\ TrafficOf(d) \in E!Traffic
    BY EvidenceRates, TrafficKind, Zenon
  <2>3. dom[d].capacity \in Nat /\ E!Ladder(dom[d], TrafficOf(d)) \in QueueStates
    BY <2>1, <2>2, Zenon DEF E!Classify, QueueStates
  <2> QED
    BY <2>2, <2>3, LadderRates, Zenon DEF QueueStates
<1>11. ~Fine
  OBVIOUS
<1>12. \E e : RecomputeDomain(e)
  <2>1. CASE \E w, b : RegisterWorker(w, b)
    BY <1>2, <1>11, <2>1, Zenon DEF RegisterWorker, E!RegisterWorker
  <2>2. CASE FlowOperation
    BY <1>2, <1>11, <2>2, Zenon DEF FlowOperation, evidence
  <2>3. CASE UNCHANGED engineVars
    BY <1>2, <1>11, <2>3, Zenon DEF engineVars, evidence
  <2> HIDE DEF Fine
  <2> QED
    BY <1>3, <1>4, <1>5, <1>6, <1>7, <1>8, <1>11, <2>1, <2>2, <2>3, Zenon DEF EngineNext
<1> QED
  BY <1>9, <1>10, <1>11, <1>12, Zenon

\* When recompute_domain reports a backlog, a flow that no fencing has touched waits.
LEMMA QueryBacklog ==
  ASSUME QueryFacts, [EngineNext]_engineVars, NEW d \in DOMAIN dom \cap DOMAIN dom',
         dom'[d].state \in QueueStates, dom'[d].state # dom[d].state
  PROVE  \E i \in DOMAIN flows :
            /\ flows[i].domain = d /\ flows[i].state = "QUEUED"
            /\ \A pb \in fenced : pb[2] < MaxU64 => ~F!OwnedBy(i, pb[1], pb[2])
<1>1. PICK i \in DOMAIN flows : flows[i].domain = d /\ flows[i].state = "QUEUED"
  BY OnlyRecomputeQueues, BacklogHasFlow, Zenon
<1>2. ASSUME NEW pb \in fenced, pb[2] < MaxU64, F!OwnedBy(i, pb[1], pb[2]) PROVE FALSE
  <2>1. flows[i].state \in F!Terminal \cup F!OutOfService
    BY <1>2, Zenon DEF QueryFacts, F!FencedStaysDead
  <2> QED
    BY <1>1, <2>1, Zenon DEF F!Terminal, F!OutOfService
<1> QED
  BY <1>1, <1>2, Zenon

-----------------------------------------------------------------------------
(* What backpressure, snapshots and fairness report.                       *)

\* The dominant contributor of a set of listed flows has bytes in flight, and no other
\* more of them; there is none when no flow of the set has bytes in flight.
DominantIs(d, S) ==
    \/ /\ Dominant(d, S) = 0
       /\ \A k \in S : ~(Flow(d, k).in_flight > 0)
    \/ /\ Dominant(d, S) \in S /\ Dominant(d, S) # 0
       /\ Flow(d, Dominant(d, S)).in_flight > 0
       /\ \A k \in S : Flow(d, k).in_flight <= Flow(d, Dominant(d, S)).in_flight

\* The total that shares are taken of is a number that no flow exceeds.
TotalIs(d) ==
    /\ TotalCompleted(d) \in Nat
    /\ \A k \in Live(d) : Flow(d, k).completed <= TotalCompleted(d)

\* The choice and the sum that the queries make give what they are meant to.
ComputedFacts ==
    \A d \in DOMAIN dom : DominantIs(d, Live(d)) /\ DominantIs(d, LiveOrStale(d)) /\ TotalIs(d)

\* An intent names nobody, or the dominant one of the live flows.
LEMMA IntentTarget ==
  ASSUME NEW d
  PROVE  /\ \/ EvalBackpressure(d).target = 0
            \/ EvalBackpressure(d).target = Dominant(d, Live(d))
         /\ EvalBackpressure(d).intent # "NO_ACTION"
              => EvalBackpressure(d).target = Dominant(d, Live(d))
BY Zenon DEF EvalBackpressure, Contributors

\* eval_backpressure targets a contributor of the domain that no other exceeds.
LEMMA QueryIntent == QueryFacts /\ ComputedFacts => IntentTargetsContributor
<1> SUFFICES ASSUME QueryFacts, ComputedFacts, NEW d \in DOMAIN dom,
                    EvalBackpressure(d).intent # "NO_ACTION"
             PROVE  LET eligible == {i \in DOMAIN flows :
                                       /\ flows[i].domain = d /\ flows[i].in_flight > 0
                                       /\ flows[i].state \notin Terminal \cup {"STALE"}
                                       /\ \E k \in DOMAIN members[d] :
                                             /\ members[d][k].id = i
                                             /\ F!Resolves(members[d][k])}
                        target == EvalBackpressure(d).target
                    IN  IF target = 0 THEN eligible = {}
                        ELSE LET i == members[d][target].id
                             IN  /\ i \in eligible
                                 /\ \A j \in eligible : flows[j].in_flight <= flows[i].in_flight
  BY Zenon DEF IntentTargetsContributor
<1> DEFINE eligible == {i \in DOMAIN flows :
                          /\ flows[i].domain = d /\ flows[i].in_flight > 0
                          /\ flows[i].state \notin Terminal \cup {"STALE"}
                          /\ \E k \in DOMAIN members[d] :
                                members[d][k].id = i /\ F!Resolves(members[d][k])}
           t == Dominant(d, Live(d))
<1>1. EvalBackpressure(d).target = t
  BY IntentTarget, Zenon
<1>7. DominantIs(d, Live(d))
  BY Zenon DEF ComputedFacts
<1>2. Live(d) \subseteq DOMAIN members[d]
  BY Zenon DEF Live, Seen
<1>3. ASSUME NEW i \in eligible
      PROVE  \E k \in Live(d) : members[d][k].id = i /\ Flow(d, k).in_flight = flows[i].in_flight
  <2>1. PICK k \in DOMAIN members[d] : members[d][k].id = i /\ F!Resolves(members[d][k])
    OBVIOUS
  <2>2. flows[i].state # "SUPERSEDED" /\ flows[i].state \notin {"STALE", "RETIRED"}
    BY SMTT(20) DEF QueryFacts, Terminal
  <2>3. k \in Live(d)
    BY SMTT(20), <2>1, <2>2
    DEF Live, Seen, F!IsStale, F!IsTerminal, F!StaleOrSuperseded, F!Terminal, Terminal
  <2> QED
    BY <2>1, <2>3, Zenon DEF Flow
<1>4. ASSUME NEW k \in Live(d), Flow(d, k).in_flight > 0
      PROVE  members[d][k].id \in eligible
  <2>1. members[d][k].id \in DOMAIN flows /\ Flow(d, k).domain = d
    BY SMTT(20), <1>2, ListedFlow
  <2> QED
    BY <1>2, <1>4, <2>1, Zenon
    DEF Flow, Live, Seen, F!IsStale, F!IsTerminal, F!StaleOrSuperseded, F!Terminal, Terminal
<1>5. CASE t = 0
  <2>1. \A k \in Live(d) : ~(Flow(d, k).in_flight > 0)
    BY <1>5, <1>7, Zenon DEF DominantIs
  <2>2. eligible = {}
    BY SMTT(20), <1>3, <2>1
  <2> QED
    BY <1>1, <1>5, <2>2, Zenon
<1>6. CASE t # 0
  <2>1. /\ t \in Live(d) /\ Flow(d, t).in_flight > 0
        /\ \A k \in Live(d) : Flow(d, k).in_flight <= Flow(d, t).in_flight
    BY SMTT(20), <1>6, <1>7 DEF DominantIs
  <2>2. members[d][t].id \in eligible
    BY <1>4, <2>1, Zenon
  <2>3. \A j \in eligible : flows[j].in_flight <= flows[members[d][t].id].in_flight
    BY <1>3, <2>1, Zenon DEF Flow
  <2> HIDE DEF eligible, t
  <2> QED
    BY <1>1, <1>6, <2>2, <2>3, Zenon DEF eligible
<1> QED
  BY <1>5, <1>6, ZenonT(60)

\* A snapshot does not contradict itself.
LEMMA QuerySnapshot == QueryFacts /\ ComputedFacts => SnapshotConsistent
<1> SUFFICES ASSUME QueryFacts, ComputedFacts, NEW d \in DOMAIN dom
             PROVE  LET s == Snapshot(d)
                    IN  /\ /\ s.state \in {"IDLE", "HEALTHY"}
                           /\ dom[d].capacity > 0 /\ dom[d].offered.rate >= 0
                           => s.residual > 0
                        /\ s.state = "SATURATED" => s.residual = 0
                        /\ EvalBackpressure(d).target # 0 =>
                              /\ s.dominant_contributor # 0
                              /\ Flow(d, s.dominant_contributor).in_flight
                                    >= Flow(d, EvalBackpressure(d).target).in_flight
  BY Zenon DEF SnapshotConsistent
<1> DEFINE s == Snapshot(d)
           x == dom[d]
           left == Residual(x.capacity, x.offered.rate)
<1>1. /\ s.state = E!Classify(x, TrafficOf(d))
      /\ s.residual = IF left = NoBound THEN 0 ELSE left
      /\ s.dominant_contributor = Dominant(d, LiveOrStale(d))
  BY Zenon DEF Snapshot
<1>2. /\ x.capacity \in Nat \cup {NoBound}
      /\ x.offered.rate \in Int /\ x.serviced.rate \in Int /\ x.latency \in Nat
      /\ NoBound \notin Int /\ TrafficOf(d) \in E!Traffic
  BY EvidenceRates, RateAssumption, TrafficKind, Zenon
<1>3. ASSUME s.state \in {"IDLE", "HEALTHY"}, x.capacity > 0, x.offered.rate >= 0
      PROVE  s.residual > 0
  <2>1. x.capacity \in Nat
    BY <1>1, <1>2, <1>3, Zenon DEF E!Classify
  <2>2. x.offered.rate < x.capacity
    <3>1. CASE s.state = "IDLE"
      <4>1. x.offered.rate <= 0
        BY <1>1, <1>2, <2>1, <3>1, LadderRates, Zenon DEF E!Classify
      <4> QED
        BY SMTT(20), <1>2, <1>3, <2>1, <4>1
    <3>2. CASE s.state = "HEALTHY"
      <4>1. E!Ladder(x, TrafficOf(d)) = "HEALTHY"
        BY <1>1, <3>2, Zenon DEF E!Classify
      <4> QED
        BY SMTT(20), <1>2, <1>3, <2>1, <4>1, LadderRates
    <3> QED
      BY <1>3, <3>1, <3>2, Zenon
  <2> QED
    BY <1>1, <1>2, <1>3, <2>1, <2>2 DEF Residual
<1>4. ASSUME s.state = "SATURATED" PROVE s.residual = 0
  <2>1. x.capacity \in Nat /\ E!Ladder(x, TrafficOf(d)) = "SATURATED"
    BY <1>1, <1>2, <1>4, Zenon DEF E!Classify
  <2>2. x.capacity > 0 /\ x.offered.rate > x.capacity
    BY SMTT(20), <1>2, <2>1, LadderRates
  <2> QED
    BY <1>1, <1>2, <2>1, <2>2, Zenon DEF Residual
<1>5. ASSUME EvalBackpressure(d).target # 0
      PROVE  /\ s.dominant_contributor # 0
             /\ Flow(d, s.dominant_contributor).in_flight
                   >= Flow(d, EvalBackpressure(d).target).in_flight
  <2> DEFINE t == Dominant(d, Live(d))
  <2>1. EvalBackpressure(d).target = t
    BY <1>5, IntentTarget, Zenon
  <2>2. Live(d) \subseteq LiveOrStale(d) /\ LiveOrStale(d) \subseteq DOMAIN members[d]
    BY Zenon DEF Live, Seen, LiveOrStale
  <2>3. DominantIs(d, Live(d)) /\ DominantIs(d, LiveOrStale(d))
    BY Zenon DEF ComputedFacts
  <2>4. t \in Live(d) /\ Flow(d, t).in_flight > 0
    BY <1>5, <2>1, <2>3, Zenon DEF DominantIs
  <2> QED
    BY <1>1, <2>1, <2>2, <2>3, <2>4, Zenon DEF DominantIs
<1> HIDE DEF s, x
<1> QED
  BY <1>3, <1>4, <1>5, Zenon DEF s, x

\* A 64-bit value is its own remainder.
LEMMA WrappedSame ==
  ASSUME NEW n \in Nat, n <= MaxU64
  PROVE  Wrapped(n) = n
BY WidthAssumption DEF Wrapped

\* A flow that starves for the classification is starved for the fairness report.
LEMMA QueryStarvation == QueryFacts /\ ComputedFacts => StarvationAgrees
<1> SUFFICES ASSUME QueryFacts, ComputedFacts, NEW d \in DOMAIN dom,
                    NEW k \in Live(d), Starving(d, k),
                    dom[d].capacity # NoBound, dom[d].capacity > 0, dom[d].serviced.rate > 0,
                    TotalCompleted(d) <= MaxU64
             PROVE  k \in Starved(d)
  BY Zenon DEF StarvationAgrees
<1> DEFINE total == TotalCompleted(d)
<1>1. \A j \in Live(d) : Flow(d, j).completed \in Nat
  BY ListedFlow DEF Live, Seen
<1>2. total \in Nat /\ \A j \in Live(d) : Flow(d, j).completed <= total
  BY Zenon DEF ComputedFacts, TotalIs
<1>3. PICK j \in Live(d) : Flow(d, j).completed > 0
  BY Zenon DEF Starving
<1>4. total > 0 /\ Wrapped(total) = total
  BY <1>1, <1>2, <1>3, WrappedSame
<1>5. dom[d].capacity \in Nat /\ dom[d].serviced.rate \in Int
  BY EvidenceRates, Zenon
<1>6. dom[d].capacity * total > 0
  BY <1>2, <1>4, <1>5
<1>7. 20 * dom[d].serviced.rate * Flow(d, k).completed = 0
  <2>1. Flow(d, k).completed = 0
    BY Zenon DEF Starving
  <2> QED
    BY <1>5, <2>1
<1>8. ObservedShareBelow(d, k)
  BY SMTT(20), <1>4, <1>6, <1>7 DEF ObservedShareBelow
<1> QED
  BY <1>8, Zenon DEF Starved

-----------------------------------------------------------------------------
(* Finite sets, dominant contributors and sums.                             *)

FS == INSTANCE FiniteSetTheorems

\* Every set of naturals that is not empty has a least element.
LEMMA LeastNatural ==
  ASSUME NEW S, S \subseteq Nat, S # {}
  PROVE  \E m \in S : \A x \in S : m <= x
<1>1. PICK m \in S : \A x \in S : <<x, m>> \notin FS!OpToRel(<, Nat)
  BY FS!NatLessThanWellFounded, FS!WFMin, Zenon
<1>2. \A x \in S : ~(x < m)
  BY <1>1, Zenon DEF FS!OpToRel
<1> QED
  BY <1>2

\* Subsets of a finite set, and what is left of one without an element.
LEMMA SubsetSizes ==
  ASSUME NEW S, FS!IsFiniteSet(S), NEW s \in SUBSET S
  PROVE  /\ FS!Cardinality(s) \in Nat /\ FS!Cardinality(s) <= FS!Cardinality(S)
         /\ FS!Cardinality(S) \in Nat
         /\ FS!Cardinality(s) = 0 <=> s = {}
         /\ \A x \in s : s \ {x} \in SUBSET S /\ FS!Cardinality(s \ {x}) = FS!Cardinality(s) - 1
BY SMTT(20), FS!FS_CardinalityType, FS!FS_Subset, FS!FS_RemoveElement, FS!FS_EmptySet

\* The recursion over a finite set has a solution.
LEMMA SumExists ==
  ASSUME NEW S, FS!IsFiniteSet(S), NEW f
  PROVE  \E g : SumTable(f, g, S)
<1> DEFINE size(s) == FS!Cardinality(s)
           UpTo(n, g) == /\ g = [s \in SUBSET S |-> g[s]]
                         /\ \A s \in SUBSET S : size(s) <= n => Summed(f, g, s)
           Without == {n \in Nat : \A g : ~UpTo(n, g)}
<1>0. \A s : s # {} => Chosen(s) \in s
  BY DEF Chosen
<1>1. Without = {}
  <2>0. Without \subseteq Nat
    OBVIOUS
  <2> SUFFICES ASSUME Without # {} PROVE FALSE
    BY Zenon
  <2>1. PICK n \in Without : \A m \in Without : n <= m
    BY <2>0, LeastNatural, Zenon
  <2>2. CASE n = 0
    <3> DEFINE g == [s \in SUBSET S |-> 0]
    <3>1. UpTo(0, g)
      BY SubsetSizes DEF Summed
    <3> QED
      BY <2>1, <2>2, <3>1, Zenon
  <2>3. CASE n # 0
    <3>1. n - 1 \in Nat /\ n - 1 \notin Without
      <4> HIDE DEF Without
      <4> QED
        BY SMTT(20), <2>0, <2>1, <2>3
    <3>2. PICK g : \A s \in SUBSET S : size(s) <= n - 1 => Summed(f, g, s)
      <4>1. \E g : UpTo(n - 1, g)
        <5> HIDE DEF UpTo
        <5> QED
          BY <3>1, Zenon
      <4> QED
        BY <4>1, Zenon
    <3>n. n \in Nat
      BY <2>0, <2>1, Zenon
    <3> DEFINE h == [s \in SUBSET S |-> IF size(s) = n THEN f[Chosen(s)] + g[s \ {Chosen(s)}]
                                        ELSE g[s]]
    <3>3. ASSUME NEW s \in SUBSET S, size(s) <= n PROVE Summed(f, h, s)
      <4>1. CASE s = {}
        <5>1. size(s) = 0 /\ 0 <= n - 1 /\ h[s] = g[s]
          BY SMTT(20), <2>3, <3>n, <4>1, SubsetSizes
        <5>2. Summed(f, g, s)
          BY SMTT(20), <3>2, <5>1
        <5> QED
          BY SMTT(20), <4>1, <5>1, <5>2 DEF Summed
      <4>2. CASE s # {}
        <5> DEFINE r == s \ {Chosen(s)}
        <5>1. r \in SUBSET S /\ size(r) = size(s) - 1 /\ size(s) \in Nat
          BY SMTT(20), <1>0, <4>2, SubsetSizes
        <5>2. h[r] = g[r]
          BY SMTT(20), <3>n, <3>3, <5>1
        <5>3. h[s] = f[Chosen(s)] + g[r]
          BY SMTT(20), <3>n, <3>2, <3>3, <4>2, <5>1 DEF Summed
        <5> QED
          BY SMTT(20), <4>2, <5>2, <5>3 DEF Summed
      <4> QED
        BY SMTT(20), <4>1, <4>2
    <3>4. UpTo(n, h)
      BY <3>3, Zenon
    <3> QED
      BY <2>1, <3>4, Zenon
  <2> QED
    BY SMTT(20), <2>2, <2>3
<1>2. size(S) \in Nat
  BY SubsetSizes
<1>3. PICK g : UpTo(size(S), g)
  BY <1>1, <1>2, Zenon
<1>4. \A s \in SUBSET S : Summed(f, g, s)
  BY <1>3, SubsetSizes, Zenon
<1> QED
  BY <1>3, <1>4, Zenon DEF Summed, SumTable

\* A sum of naturals over a finite set is a natural, no smaller than any of them.
LEMMA SumAtLeast ==
  ASSUME NEW S, FS!IsFiniteSet(S), NEW f, \A k \in S : f[k] \in Nat
  PROVE  SumFunctionOnSet(f, S) \in Nat /\ \A k \in S : f[k] <= SumFunctionOnSet(f, S)
<1> DEFINE size(s) == FS!Cardinality(s)
           g == CHOOSE h : SumTable(f, h, S)
           Right(s) == g[s] \in Nat /\ \A k \in s : f[k] <= g[s]
           Wrong == {n \in Nat : \E s \in SUBSET S : size(s) = n /\ ~Right(s)}
<1>1. SumFunctionOnSet(f, S) = g[S]
  BY Zenon DEF SumFunctionOnSet, FoldFunctionOnSet, MapThenFoldSet, Chosen, SumTable
<1>2. SumTable(f, g, S)
  <2>1. \E h : SumTable(f, h, S)
    BY SMTT(20), SumExists
  <2> QED
    BY <2>1, Zenon
<1>3. \A s \in SUBSET S : g[s] = IF s = {} THEN 0 ELSE f[Chosen(s)] + g[s \ {Chosen(s)}]
  BY <1>2, Zenon DEF SumTable
<1>4. \A s : s # {} => Chosen(s) \in s
  BY DEF Chosen
<1> HIDE DEF g
<1>5. Wrong = {}
  <2> SUFFICES ASSUME Wrong # {} PROVE FALSE
    OBVIOUS
  <2>0. Wrong \subseteq Nat
    OBVIOUS
  <2>1. PICK n \in Wrong : \A m \in Wrong : n <= m
    BY <2>0, LeastNatural, Zenon
  <2>2. PICK s \in SUBSET S : size(s) = n /\ ~Right(s)
    <3> HIDE DEF Right
    <3> QED
      BY Zenon
  <2>3. s # {}
    <3>1. g[{}] = 0
      BY <1>3, Zenon
    <3> QED
      BY SMTT(20), <2>2, <3>1
  <2> DEFINE r == s \ {Chosen(s)}
  <2>4. r \in SUBSET S /\ size(r) = n - 1 /\ n - 1 \in Nat /\ Chosen(s) \in S
    BY SMTT(20), <1>4, <2>2, <2>3, SubsetSizes
  <2>5. n - 1 \notin Wrong
    <3> HIDE DEF Wrong
    <3> QED
      BY SMTT(20), <2>0, <2>1, <2>4
  <2>6. Right(r)
    <3> HIDE DEF Right, r
    <3> QED
      BY <2>4, <2>5, Zenon
  <2>7. g[s] = f[Chosen(s)] + g[r] /\ f[Chosen(s)] \in Nat
    BY SMTT(20), <1>3, <2>3, <2>4
  <2>8. g[s] \in Nat
    BY SMTT(20), <2>6, <2>7
  <2>9. ASSUME NEW k \in s PROVE f[k] <= g[s]
    <3>1. f[k] \in Nat /\ (k = Chosen(s) \/ k \in r)
      OBVIOUS
    <3> HIDE DEF r
    <3> QED
      BY SMTT(20), <2>6, <2>7, <3>1
  <2> QED
    BY SMTT(20), <2>2, <2>8, <2>9
<1>6. size(S) \in Nat
  BY SubsetSizes, Zenon
<1>7. Right(S)
  <2> HIDE DEF Right
  <2> QED
    BY <1>5, <1>6, Zenon
<1> QED
  BY SMTT(20), <1>1, <1>7

\* With a finite number of flows there is a dominant one among those in flight.
LEMMA DominantRight ==
  ASSUME QueryFacts, NEW d \in DOMAIN dom, NEW S, S \subseteq DOMAIN members[d]
  PROVE  DominantIs(d, S)
<1> DEFINE fly(k) == Flow(d, k).in_flight
           carrying == {k \in S : fly(k) > 0}
           precedes(j, k) == \/ fly(j) > fly(k)
                             \/ fly(j) = fly(k) /\ j <= k
<1>1. \A k \in S : k \in Nat \ {0} /\ fly(k) \in 0..MaxU64
  BY ListedFlow
<1>2. Dominant(d, S) = IF carrying = {} THEN 0
                       ELSE CHOOSE j \in carrying : \A k \in carrying : precedes(j, k)
  BY Zenon DEF Dominant
<1> HIDE DEF fly
<1>3. CASE carrying = {}
  BY SMTT(20), <1>2, <1>3 DEF fly, DominantIs
<1>4. CASE carrying # {}
  <2> DEFINE W == {MaxU64 - fly(k) : k \in carrying}
  <2>1. W \subseteq Nat /\ W # {}
    BY SMTT(20), <1>1, <1>4, WidthAssumption
  <2>2. PICK m \in W : \A x \in W : m <= x
    BY <2>1, LeastNatural, Zenon
  <2> DEFINE heavy == {k \in carrying : MaxU64 - fly(k) = m}
  <2>3. heavy \subseteq Nat /\ heavy # {}
    BY <1>1, <2>2
  <2>4. PICK j \in heavy : \A k \in heavy : j <= k
    BY <2>3, LeastNatural, Zenon
  <2>5. ASSUME NEW k \in carrying PROVE precedes(j, k)
    <3>1. MaxU64 - fly(j) <= MaxU64 - fly(k)
      BY SMTT(20), <2>2, <2>4
    <3>2. fly(k) \in 0..MaxU64 /\ fly(j) \in 0..MaxU64 /\ k \in Nat /\ j \in Nat
      BY SMTT(20), <1>1, <2>4
    <3>3. CASE fly(k) = fly(j)
      BY <2>4, <3>2, <3>3, Zenon
    <3> QED
      BY SMTT(20), <3>1, <3>2, <3>3, WidthAssumption
  <2>6. PICK i \in carrying : Dominant(d, S) = i /\ \A k \in carrying : precedes(i, k)
    <3>1. \E i \in carrying : \A k \in carrying : precedes(i, k)
      BY SMTT(20), <2>4, <2>5
    <3> HIDE DEF carrying, precedes
    <3> QED
      BY <1>2, <1>4, <3>1, Zenon
  <2>7. ASSUME NEW k \in S PROVE fly(k) <= fly(i)
    BY <1>1, <2>6
  <2> QED
    BY SMTT(20), <1>1, <2>6, <2>7 DEF fly, DominantIs
<1> QED
  BY SMTT(20), <1>3, <1>4

\* A domain lists finitely many flows.
LEMMA ListFinite ==
  ASSUME QueryFacts, NEW d \in DOMAIN dom
  PROVE  FS!IsFiniteSet(Live(d))
<1>1. members[d] \in Seq(F!FlowRef)
  BY DEF QueryFacts, F!FlowTypeOK
<1>2. Live(d) \subseteq 1..Len(members[d]) /\ Len(members[d]) \in Int
  BY <1>1 DEF Live, Seen
<1>3. FS!IsFiniteSet(1..Len(members[d]))
  BY SMTT(20), <1>2, FS!FS_Interval
<1> QED
  BY SMTT(20), <1>2, <1>3, FS!FS_Subset

\* The total of a domain's list is no smaller than what any flow on it completed.
LEMMA TotalRight ==
  ASSUME QueryFacts, NEW d \in DOMAIN dom
  PROVE  TotalIs(d)
<1> DEFINE f == [j \in Live(d) |-> Flow(d, j).completed]
<1>1. \A j \in Live(d) : Flow(d, j).completed \in Nat
  BY ListedFlow DEF Live, Seen
<1>2. TotalCompleted(d) = SumFunctionOnSet(f, Live(d))
  BY Zenon DEF TotalCompleted
<1>3. \A j \in Live(d) : f[j] \in Nat /\ f[j] = Flow(d, j).completed
  BY <1>1, Zenon
<1> HIDE DEF f
<1> QED
  BY SMTT(20), <1>2, <1>3, ListFinite, SumAtLeast DEF TotalIs

\* So the queries compute what they are meant to.
LEMMA Computed == QueryFacts => ComputedFacts
<1> SUFFICES ASSUME QueryFacts, NEW d \in DOMAIN dom
             PROVE  DominantIs(d, Live(d)) /\ DominantIs(d, LiveOrStale(d)) /\ TotalIs(d)
  BY Zenon DEF ComputedFacts
<1>1. Live(d) \subseteq DOMAIN members[d] /\ LiveOrStale(d) \subseteq DOMAIN members[d]
  BY SMTT(20) DEF Live, Seen, LiveOrStale
<1> QED
  BY SMTT(20), <1>1, DominantRight, TotalRight

-----------------------------------------------------------------------------
(* The table of the engine.                                                *)

FP == INSTANCE FlowTableProofs

\* The table that the engine composes is the one that FlowTableProofs is about.
LEMMA SameTable == F!FlowNext => FP!FlowNext
BY Zenon DEF F!FlowNext, FP!FlowNext, F!RegisterWorker, FP!RegisterWorker,
    F!FenceWorker, FP!FenceWorker, F!RegisterSource, FP!RegisterSource,
    F!FenceSource, FP!FenceSource, F!CreateDomain, FP!CreateDomain,
    F!RemoveDomain, FP!RemoveDomain, F!DeclareFlow, FP!DeclareFlow,
    F!AdmitFlow, FP!AdmitFlow, F!QueueFlow, FP!QueueFlow, F!StartFlow, FP!StartFlow,
    F!FlowComplete, FP!FlowComplete, F!FlowFail, FP!FlowFail,
    F!RevalidateFlow, FP!RevalidateFlow, F!FlowProgress, FP!FlowProgress,
    F!FlowCancel, FP!FlowCancel, F!AdvanceFlowGeneration, FP!AdvanceFlowGeneration,
    F!RecoverFlows, FP!RecoverFlows, F!ReplaceFlow, FP!ReplaceFlow, F!Resolves, FP!Resolves,
    F!IsTerminal, FP!IsTerminal, F!IsStale, FP!IsStale, F!MarkLive, FP!MarkLive,
    F!QueuedRefs, FP!QueuedRefs, F!QueueHasRoom, FP!QueueHasRoom,
    F!Decremented, FP!Decremented, F!Remaining, FP!Remaining, F!Boots, FP!Boots,
    F!Generations, FP!Generations, F!FlowRef, FP!FlowRef,
    F!NextGeneration, FP!NextGeneration, F!SmallerOf, FP!SmallerOf, F!WrapAdd, FP!WrapAdd,
    F!WrapSub, FP!WrapSub, F!AddFits, FP!AddFits,
    F!FlowTransitionAllowed, FP!FlowTransitionAllowed,
    F!FlowTransitions, FP!FlowTransitions, F!Terminal, FP!Terminal,
    F!StaleOrSuperseded, FP!StaleOrSuperseded, F!CanProgress, FP!CanProgress, F!U64, FP!U64,
    F!Cardinality, FP!Cardinality, F!IsFiniteSet, FP!IsFiniteSet

\* What is proved of the flow table holds of the table inside the engine.
LEMMA TableHolds ==
  EngineSpec => [](F!FlowTypeOK /\ F!BoundExactlyOnce /\ F!FencedStaysDead /\ FP!AccountingInv)
<1>1. /\ FP!FlowSpec => []FP!FlowTypeOK
      /\ FP!FlowSpec => []FP!BoundExactlyOnce
      /\ FP!FlowSpec => []FP!FencedStaysDead
      /\ FP!FlowSpec => []FP!AccountingInv
  BY SMTT(20), FP!FlowTypeCorrect, FP!BoundCorrect, FP!FencingCorrect, FP!LedgersCorrect,
     EngineAssumption, WidthAssumption DEF FP!U64, U64
<1>2. F!FlowInit => FP!FlowInit
  BY Zenon DEF F!FlowInit, FP!FlowInit
<1>3. [F!FlowNext]_(F!flowVars) => [FP!FlowNext]_(FP!flowVars)
  BY SameTable, Zenon DEF F!flowVars, FP!flowVars
<1>4. FP!FlowTypeOK => F!FlowTypeOK
  BY Zenon DEF F!FlowTypeOK, FP!FlowTypeOK, F!Flow, FP!Flow, F!FlowRef, FP!FlowRef,
     F!Generations, FP!Generations, F!Boots, FP!Boots, F!U64, FP!U64, F!FlowStates, FP!FlowStates,
     F!CanProgress, FP!CanProgress, F!Terminal, FP!Terminal,
     F!StaleOrSuperseded, FP!StaleOrSuperseded
<1>5. FP!BoundExactlyOnce => F!BoundExactlyOnce
  BY Zenon DEF F!BoundExactlyOnce, FP!BoundExactlyOnce
<1>6. FP!FencedStaysDead => F!FencedStaysDead
  BY Zenon DEF F!FencedStaysDead, FP!FencedStaysDead, F!BootOf, FP!BootOf, F!OwnedBy, FP!OwnedBy,
     F!Terminal, FP!Terminal, F!OutOfService, FP!OutOfService
<1>7. EngineSpec => FP!FlowSpec
  BY <1>2, <1>3, EngineImplementsFlowTable, PTL
  DEF ImplementsFlowTable, F!FlowSpec, FP!FlowSpec
<1> QED
  BY <1>1, <1>4, <1>5, <1>6, <1>7, PTL

\* The queries can rely on their facts in every reachable state.
LEMMA QueryFactsHold == EngineSpec => []QueryFacts
<1>1. FP!AccountingInv => \A i \in DOMAIN flows : flows[i].state # "SUPERSEDED"
  BY Zenon DEF FP!AccountingInv, FP!LedgerOK, FP!ReachedStates
<1>2. /\ F!FlowTypeOK /\ F!BoundExactlyOnce /\ F!FencedStaysDead
      /\ \A i \in DOMAIN flows : flows[i].state # "SUPERSEDED"
      /\ \A d \in DOMAIN dom : Measured(dom[d])
      /\ DOMAIN members = DOMAIN dom
      => QueryFacts
  BY Zenon DEF QueryFacts
<1> QED
  BY <1>1, <1>2, TableHolds, EvidenceMeasured, SameDomains, PTL

\* eval_backpressure targets a contributor, for any number of flows and any lists.
THEOREM EngineIntent == EngineSpec => []IntentTargetsContributor
BY QueryIntent, Computed, QueryFactsHold, PTL

\* A snapshot never contradicts itself, for any rates and any number of flows.
THEOREM EngineSnapshot == EngineSpec => []SnapshotConsistent
BY QuerySnapshot, Computed, QueryFactsHold, PTL

\* The two definitions of starvation agree, for any number of flows in a domain.
THEOREM EngineStarvation == EngineSpec => []StarvationAgrees
BY QueryStarvation, Computed, QueryFactsHold, PTL

\* A backlog is reported only while a flow waits that no fencing has touched.
THEOREM EngineBacklog == EngineSpec => BacklogIsLive
<1>1. QueryFacts /\ [EngineNext]_engineVars =>
        [\A d \in DOMAIN dom \cap DOMAIN dom' :
           dom'[d].state \in QueueStates /\ dom'[d].state # dom[d].state =>
              \E i \in DOMAIN flows :
                  /\ flows[i].domain = d /\ flows[i].state = "QUEUED"
                  /\ \A pb \in fenced : pb[2] < MaxU64 => ~F!OwnedBy(i, pb[1], pb[2])
        ]_engineVars
  BY QueryBacklog, Zenon
<1> QED
  BY <1>1, QueryFactsHold, PTL DEF EngineSpec, BacklogIsLive
=============================================================================
