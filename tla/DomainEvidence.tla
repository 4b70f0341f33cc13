--------------------------- MODULE DomainEvidence ---------------------------
(***************************************************************************)
(* The evidence a congestion domain holds: the offered and serviced rates  *)
(* and who published them, the congestion state derived from them, and the *)
(* episodes that the state opens and closes (engine.cpp, domain.hpp,       *)
(* episode.hpp).                                                           *)
(*                                                                         *)
(* Flows enter only as the traffic that aggregate_domain reports, which is *)
(* a free choice of every recomputation here: all that the flow table can  *)
(* report is allowed.  Rates are integers in one unit; provenance, scores, *)
(* times and the rates that no decision reads (admitted, utilisation,      *)
(* published effective bandwidth) are left out.  So is the queue           *)
(* generation, which is advanced and saved but never compared.             *)
(***************************************************************************)
EXTENDS FlowLifecycle, Sequences, FiniteSets

CONSTANTS
    Workers,
    NoWorker,             \* the invalid WorkerId of unowned evidence
    MaxDomains,           \* EngineLimits::max_domains
    MaxEpisodeHistory,    \* EngineLimits::max_episode_history_per_domain
    Capacities,           \* effective capacities of the domains created
    NoBound,              \* a capacity profile without any valid bound
    Rates,                \* the rates that are published
    Latencies,            \* the service latencies that are published
    MaxDomainId,          \* bound: domains ever created
    MaxEventId            \* bound: episodes ever opened

ASSUME EvidenceAssumption ==
    /\ NoWorker \notin Workers
    /\ MaxDomains \in Nat /\ MaxEpisodeHistory \in Nat
    /\ MaxDomainId \in Nat /\ MaxEventId \in Nat
    /\ NoBound \notin Nat /\ Capacities \subseteq Nat \cup {NoBound}
    /\ Rates \subseteq Int /\ 0 \in Rates
    /\ Latencies \subseteq Nat /\ 0 \in Latencies

VARIABLES
    worker_boot,    \* current boot of each worker, 0 when not registered
    dom,            \* the existing domains
    next_domain,
    next_event,     \* the next CongestionEventId
    fenced,         \* history: the <<worker, boot>> pairs fenced so far
    awaiting        \* history: domains whose evidence fencing withdrew or recovery
                    \* called in question, and no publication has replaced since

evidenceVars == <<worker_boot, dom, next_domain, next_event, fenced, awaiting>>

Boots == 1..MaxU64
Owners == Workers \cup {NoWorker}

\* A session publishes as its worker and boot, the engine's own API as no worker.
Publishers == (Workers \X Boots) \cup {<<NoWorker, 0>>}

\* The states for which recompute_domain keeps an episode open.
CongestedStates ==
    {"APPROACHING_SATURATION", "SATURATED", "QUEUEING", "CONGESTED", "SEVERELY_CONGESTED"}

\* The states classify derives from evidence; it calls these authoritative.
AssertedStates == {"IDLE", "HEALTHY", "BUSY", "RECOVERING"} \cup CongestedStates

DomainStates == {"UNKNOWN", "REVALIDATION_REQUIRED"} \cup AssertedStates

\* What aggregate_domain and the starvation scan report of a domain's flows: no
\* queued or running operation; operations but no queued bytes; queued bytes;
\* queued bytes while a flow starves.
Traffic == {"none", "active", "backlog", "starving"}

Evidence == [rate : Rates, owner : Owners, boot : U64]
NoEvidence == [rate |-> 0, owner |-> NoWorker, boot |-> 0]

Closed == [event_id : 1..MaxEventId, outcome : DomainStates]

\* current_episode: the id of the open episode, 0 when none is open.
Domain == [capacity : Capacities, state : DomainStates,
           offered : Evidence, serviced : Evidence, latency : Latencies,
           current_episode : 0..MaxEventId, episodes : Seq(Closed)]

EvidenceInit ==
    /\ worker_boot = [w \in Workers |-> 0]
    /\ dom = << >>
    /\ next_domain = 1
    /\ next_event = 1
    /\ fenced = {}
    /\ awaiting = {}

-----------------------------------------------------------------------------
(* Classification.                                                         *)

\* The ladder at the end of classify.  A domain of zero capacity has saturation
\* zero; thresholds 0.9, 0.95, 0.8 and 0.2 are cross-multiplied.
Ladder(d, traffic) ==
    LET eff      == d.capacity
        offered  == d.offered.rate
        serviced == d.serviced.rate
        deficit  == offered - serviced
        queue    == traffic \in {"backlog", "starving"}
        severe   == traffic = "starving" \/ d.latency * eff > 2
        over     == eff > 0 /\ offered > eff
        full     == eff > 0 /\ 10 * offered >= 9 * eff /\ 20 * serviced >= 19 * eff
        busy     == eff > 0 /\ 10 * offered >= 8 * eff
    IN  CASE queue /\ deficit > 0 /\ severe                       -> "SEVERELY_CONGESTED"
          [] queue /\ deficit > 0 /\ ~severe /\ 5 * deficit > eff -> "CONGESTED"
          [] queue /\ deficit > 0 /\ ~severe /\ 5 * deficit <= eff -> "QUEUEING"
          [] queue /\ deficit < 0                                 -> "RECOVERING"
          [] queue /\ deficit = 0                                 -> "QUEUEING"
          [] ~queue /\ over                                       -> "SATURATED"
          [] ~queue /\ ~over /\ full                              -> "APPROACHING_SATURATION"
          [] ~queue /\ ~over /\ ~full /\ busy                     -> "BUSY"
          [] ~queue /\ ~over /\ ~full /\ ~busy                    -> "HEALTHY"

Classify(d, traffic) ==
    IF d.state = "REVALIDATION_REQUIRED" THEN "REVALIDATION_REQUIRED"
    ELSE IF d.capacity = NoBound THEN "UNKNOWN"
    ELSE IF d.offered.rate <= 0 /\ d.serviced.rate <= 0 /\ traffic = "none" THEN "IDLE"
    ELSE Ladder(d, traffic)

-----------------------------------------------------------------------------
(* Operations.                                                             *)

RegisterWorker(w, boot) ==
    /\ worker_boot[w] < boot
    /\ worker_boot' = [worker_boot EXCEPT ![w] = boot]
    /\ UNCHANGED <<dom, next_domain, next_event, fenced, awaiting>>

OwnedBy(ev, w, boot) == ev.owner = w /\ ev.boot = boot

\* The domains whose offered or serviced rate the boot owns.
Holders(w, boot) ==
    {d \in DOMAIN dom : OwnedBy(dom[d].offered, w, boot) \/ OwnedBy(dom[d].serviced, w, boot)}

\* The evidence of a boot is withdrawn.  (The code leaves the boot where it is;
\* without a valid owner nothing reads it.)
Withdrawn(ev, w, boot) == IF OwnedBy(ev, w, boot) THEN NoEvidence ELSE ev

\* Mutant: the domain goes stale instead.
MarkedStale(d) == [d EXCEPT !.state = IF @ = "UNKNOWN" THEN @ ELSE "STALE"]

\* A domain that is not "UNKNOWN" has to be revalidated.
Marked(d) == [d EXCEPT !.state = IF @ = "UNKNOWN" THEN @ ELSE "REVALIDATION_REQUIRED"]

\* The loop of fence_worker sets any_invalidated at the first domain that holds
\* evidence of the boot and never clears it: of the other domains, those visited
\* earlier are spared and all later ones are marked.  The order is that of a hash
\* table, so any set of them can be spared.
FenceWorker(w, dead_boot) ==
    /\ worker_boot[w] = dead_boot
    /\ worker_boot' = [worker_boot EXCEPT ![w] = NextGeneration(@)]
    /\ \E spared \in SUBSET (DOMAIN dom \ Holders(w, dead_boot)) :
         /\ Holders(w, dead_boot) = {} => spared = DOMAIN dom
         /\ dom' = [d \in DOMAIN dom |->
               IF d \in spared THEN dom[d]
               ELSE Marked([dom[d] EXCEPT !.offered = Withdrawn(@, w, dead_boot),
                                          !.serviced = Withdrawn(@, w, dead_boot)])]
    /\ fenced' = fenced \cup {<<w, dead_boot>>}
    /\ awaiting' = awaiting \cup Holders(w, dead_boot)
    /\ UNCHANGED <<next_domain, next_event>>

CreateDomain(capacity) ==
    /\ Cardinality(DOMAIN dom) < MaxDomains
    /\ next_domain <= MaxDomainId
    /\ dom' = [d \in DOMAIN dom \cup {next_domain} |->
                  IF d # next_domain THEN dom[d] ELSE
                  [capacity |-> capacity, state |-> "UNKNOWN",
                   offered |-> NoEvidence, serviced |-> NoEvidence, latency |-> 0,
                   current_episode |-> 0, episodes |-> << >>]]
    /\ next_domain' = next_domain + 1
    /\ UNCHANGED <<worker_boot, next_event, fenced, awaiting>>

RemoveDomain(d) ==
    /\ d \in DOMAIN dom
    /\ dom' = [e \in DOMAIN dom \ {d} |-> dom[e]]
    /\ awaiting' = awaiting \ {d}
    /\ UNCHANGED <<worker_boot, next_domain, next_event, fenced>>

\* Mutant: the domain is taken to be healthy again at once.
LiftedToHealthy(d) ==
    [d EXCEPT !.state = IF @ = "REVALIDATION_REQUIRED" THEN "HEALTHY" ELSE @]

\* Publication and start_flow alike lift the revalidation requirement.
Lifted(d) == [d EXCEPT !.state = IF @ = "REVALIDATION_REQUIRED" THEN "UNKNOWN" ELSE @]

\* Mutant: any registered worker may publish, whatever its boot.
MayPublishIfKnown(w, boot) == w \in Workers => worker_boot[w] > 0

\* The authority gate of publish_measurement: owned evidence comes from the
\* current boot of its worker; NoWorker publishes unowned evidence.
MayPublish(w, boot) == w \in Workers => worker_boot[w] = boot

PublishOffered(d, rate, w, boot) ==
    /\ d \in DOMAIN dom
    /\ MayPublish(w, boot)
    /\ dom' = [dom EXCEPT ![d] =
                 [Lifted(@) EXCEPT !.offered = [rate |-> rate, owner |-> w, boot |-> boot]]]
    /\ awaiting' = awaiting \ {d}
    /\ UNCHANGED <<worker_boot, next_domain, next_event, fenced>>

PublishServiced(d, rate, w, boot) ==
    /\ d \in DOMAIN dom
    /\ MayPublish(w, boot)
    /\ dom' = [dom EXCEPT ![d] =
                 [Lifted(@) EXCEPT !.serviced = [rate |-> rate, owner |-> w, boot |-> boot]]]
    /\ awaiting' = awaiting \ {d}
    /\ UNCHANGED <<worker_boot, next_domain, next_event, fenced>>

\* SERVICE_LATENCY has no owner.  With the latency as it was, this is also the
\* publication of any of the kinds that the model leaves out.
PublishLatency(d, latency, w, boot) ==
    /\ d \in DOMAIN dom
    /\ MayPublish(w, boot)
    /\ dom' = [dom EXCEPT ![d] = [Lifted(@) EXCEPT !.latency = latency]]
    /\ awaiting' = awaiting \ {d}
    /\ UNCHANGED <<worker_boot, next_domain, next_event, fenced>>

\* start_flow of some flow of the domain.
StartFlowIn(d) ==
    /\ d \in DOMAIN dom
    /\ dom' = [dom EXCEPT ![d] = Lifted(@)]
    /\ UNCHANGED <<worker_boot, next_domain, next_event, fenced, awaiting>>

\* Appends to a bounded history, which drops its oldest entry when it is full.
Remember(history, e) ==
    LET h == Append(history, e)
    IN  IF Len(h) > MaxEpisodeHistory THEN Tail(h) ELSE h

Opens(d, state) == state \in CongestedStates /\ d.current_episode = 0
Closes(d, state) == state \notin CongestedStates /\ d.current_episode # 0

\* Mutant: the closed episode is not reset.
EpisodeNotReset(d, state) == IF Opens(d, state) THEN next_event ELSE d.current_episode

\* The current episode once the domain is in this state.
EpisodeAfter(d, state) ==
    IF Opens(d, state) THEN next_event ELSE IF Closes(d, state) THEN 0 ELSE d.current_episode

RecomputeDomain(d, traffic) ==
    LET was   == dom[d]
        state == Classify(was, traffic)
        ended == [event_id |-> was.current_episode, outcome |-> state]
    IN  /\ d \in DOMAIN dom
        /\ Opens(was, state) => next_event <= MaxEventId
        /\ next_event' = IF Opens(was, state) THEN next_event + 1 ELSE next_event
        /\ dom' = [dom EXCEPT ![d] =
             [was EXCEPT !.state = state,
                         !.current_episode = EpisodeAfter(was, state),
                         !.episodes = IF Closes(was, state) THEN Remember(@, ended) ELSE @]]
        /\ UNCHANGED <<worker_boot, next_domain, fenced, awaiting>>

\* recover_dynamic_evidence, as far as domains are concerned.
RecoverEvidence ==
    /\ dom' = [d \in DOMAIN dom |-> Marked(dom[d])]
    /\ awaiting' = awaiting \cup {d \in DOMAIN dom : \/ dom[d].offered # NoEvidence
                                                     \/ dom[d].serviced # NoEvidence}
    /\ UNCHANGED <<worker_boot, next_domain, next_event, fenced>>

-----------------------------------------------------------------------------
EvidenceNext ==
    \/ \E w \in Workers, b \in Boots : RegisterWorker(w, b) \/ FenceWorker(w, b)
    \/ \E c \in Capacities : CreateDomain(c)
    \/ RecoverEvidence
    \/ \E d \in 1..MaxDomainId :
          \/ RemoveDomain(d)
          \/ StartFlowIn(d)
          \/ \E t \in Traffic : RecomputeDomain(d, t)
          \/ \E p \in Publishers, r \in Rates :
                PublishOffered(d, r, p[1], p[2]) \/ PublishServiced(d, r, p[1], p[2])
          \/ \E p \in Publishers, l \in Latencies : PublishLatency(d, l, p[1], p[2])

EvidenceSpec == EvidenceInit /\ [][EvidenceNext]_evidenceVars

-----------------------------------------------------------------------------
(* Invariants.                                                             *)

\* Every domain is well formed; event ids are handed out consecutively.
EvidenceTypeOK ==
    /\ worker_boot \in [Workers -> U64]
    /\ next_domain \in 1..(MaxDomainId + 1)
    /\ next_event \in 1..(MaxEventId + 1)
    /\ DOMAIN dom \subseteq 1..(next_domain - 1)
    /\ dom \in [DOMAIN dom -> Domain]
    /\ fenced \subseteq Workers \X Boots
    /\ awaiting \subseteq DOMAIN dom

\* fence_worker: "the dead worker's offered/serviced evidence cannot remain
\* authoritative".  Once a boot has been fenced, no domain ever holds a rate it
\* published, neither left behind by fencing nor replayed through the authority
\* gate.  (The largest boot cannot be fenced: next() saturates.)
FencedEvidenceGone ==
    \A wb \in fenced : wb[2] < MaxU64 =>
        /\ worker_boot[wb[1]] > wb[2]
        /\ \A d \in DOMAIN dom : /\ ~OwnedBy(dom[d].offered, wb[1], wb[2])
                                 /\ ~OwnedBy(dom[d].serviced, wb[1], wb[2])

\* recompute_domain keeps episodes and the cached state in step with all the
\* operations that overwrite that state: a domain that shows a congested state
\* has an open episode, and an episode stays open only while the state is
\* congested or the evidence for it has been called in question.
EpisodeTracksState ==
    \A d \in DOMAIN dom :
        /\ dom[d].state \in CongestedStates => dom[d].current_episode # 0
        /\ dom[d].current_episode # 0 =>
              dom[d].state \in CongestedStates \cup {"UNKNOWN", "REVALIDATION_REQUIRED"}

EventIds(d) ==
    {dom[d].episodes[k].event_id : k \in DOMAIN dom[d].episodes}
        \cup ({dom[d].current_episode} \ {0})

\* "A later episode is never confused with an older one" (episode.hpp): in every
\* domain the remembered episodes have increasing ids, all smaller than that of
\* the open one, two domains never share an id, no id was not handed out, and
\* the history respects its bound.
EpisodesDistinct ==
    /\ \A d \in DOMAIN dom :
          LET h == dom[d].episodes
          IN  /\ Len(h) <= MaxEpisodeHistory
              /\ \A j, k \in DOMAIN h : j < k => h[j].event_id < h[k].event_id
              /\ \A k \in DOMAIN h : dom[d].current_episode # 0
                                       => h[k].event_id < dom[d].current_episode
              /\ \A id \in EventIds(d) : id < next_event
    /\ \A d, e \in DOMAIN dom : d # e => EventIds(d) \cap EventIds(e) = {}

-----------------------------------------------------------------------------
(* Action properties.                                                      *)

\* "never silently healthy" (fence_worker): no single step, and in particular no
\* recomputation or second fencing, takes a domain from "REVALIDATION_REQUIRED"
\* to a state that asserts anything about its congestion; and no step but a
\* recomputation lets a domain assert something new.
NeverSilentlyHealthy ==
    [][\A d \in DOMAIN dom \cap DOMAIN dom' :
          dom'[d].state \in AssertedStates /\ dom'[d].state # dom[d].state
            => /\ dom[d].state # "REVALIDATION_REQUIRED"
               /\ dom'[d].offered = dom[d].offered /\ dom'[d].serviced = dom[d].serviced
      ]_evidenceVars
=============================================================================
