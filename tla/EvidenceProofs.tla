--------------------------- MODULE EvidenceProofs ---------------------------
(***************************************************************************)
(* Proofs about the evidence of congestion domains, for every number of    *)
(* workers and domains and every length of history: types, fenced evidence *)
(* and the agreement of episodes and states in DomainEvidence, and what    *)
(* holds of episodes and of fenced evidence across restarts in             *)
(* EvidenceRestart.                                                        *)
(***************************************************************************)
EXTENDS EvidenceRestart, TLAPS

-----------------------------------------------------------------------------
(* The pure operators.                                                     *)

\* Where there is a capacity bound, the ladder always yields a state: its rungs
\* leave no gap, whatever the rates, the latency and the traffic are.
LEMMA LadderType ==
  ASSUME NEW d, d.capacity \in Nat, d.offered.rate \in Int, d.serviced.rate \in Int,
         d.latency \in Nat, NEW t \in Traffic
  PROVE  Ladder(d, t) \in AssertedStates
<1> DEFINE eff      == d.capacity
           deficit  == d.offered.rate - d.serviced.rate
           queue    == t \in {"backlog", "starving"}
           severe   == t = "starving" \/ d.latency * eff > 2
<1>1. deficit \in Int
  OBVIOUS
<1>2. deficit > 0 \/ deficit < 0 \/ deficit = 0
  BY <1>1
<1>3. 5 * deficit > eff \/ 5 * deficit <= eff
  BY <1>1
<1> QED
  BY <1>2, <1>3, Zenon DEF Ladder, AssertedStates, CongestedStates

\* The fields of a domain.
LEMMA DomainFields ==
  ASSUME NEW d \in Domain
  PROVE  /\ d.capacity \in Nat \cup {NoBound} /\ d.state \in DomainStates
         /\ d.offered \in Evidence /\ d.serviced \in Evidence
         /\ d.offered.rate \in Int /\ d.serviced.rate \in Int /\ d.latency \in Nat
         /\ d.current_episode \in 0..MaxEventId /\ d.episodes \in Seq(Closed)
BY EvidenceAssumption, Zenon DEF Domain, Evidence

\* Classification of a domain yields a state.
LEMMA ClassifyType ==
  ASSUME NEW d \in Domain, NEW t \in Traffic
  PROVE  Classify(d, t) \in DomainStates
<1>1. CASE d.capacity = NoBound
  BY <1>1, DomainFields, Zenon DEF Classify, DomainStates, AssertedStates
<1>2. CASE d.capacity \in Nat
  <2>1. Ladder(d, t) \in AssertedStates
    BY <1>2, DomainFields, LadderType, Zenon
  <2> QED
    BY <2>1, DomainFields, <1>2, EvidenceAssumption, Zenon
    DEF Classify, DomainStates, AssertedStates
<1> QED
  BY <1>1, <1>2, DomainFields, Zenon

\* What marking and lifting change, and what not.
LEMMA MarkedType ==
  ASSUME NEW d \in Domain
  PROVE  /\ Marked(d) \in Domain /\ Lifted(d) \in Domain
         /\ Marked(d).offered = d.offered /\ Marked(d).serviced = d.serviced
         /\ Lifted(d).offered = d.offered /\ Lifted(d).serviced = d.serviced
         /\ Marked(d).current_episode = d.current_episode
         /\ Lifted(d).current_episode = d.current_episode
         /\ Marked(d).state = IF d.state = "UNKNOWN" THEN "UNKNOWN"
                              ELSE "REVALIDATION_REQUIRED"
         /\ Lifted(d).state = IF d.state = "REVALIDATION_REQUIRED" THEN "UNKNOWN"
                              ELSE d.state
BY Zenon DEF Marked, Lifted, Domain, DomainStates

\* Withdrawn evidence is evidence.
LEMMA EvidenceFacts ==
  /\ NoEvidence \in Evidence
  /\ \A ev \in Evidence : \A w, b : Withdrawn(ev, w, b) \in Evidence
BY EvidenceAssumption, WidthAssumption DEF NoEvidence, Evidence, Withdrawn, Owners, U64

\* A history stays a history.
LEMMA RememberType ==
  ASSUME NEW h \in Seq(Closed), NEW e \in Closed
  PROVE  Remember(h, e) \in Seq(Closed)
<1>1. Append(h, e) \in Seq(Closed) /\ Append(h, e) # << >>
  BY SMTT(30)
<1>2. Tail(Append(h, e)) \in Seq(Closed)
  BY <1>1
<1> QED
  BY <1>1, <1>2, Zenon DEF Remember

-----------------------------------------------------------------------------
(* Type correctness.                                                       *)

\* Initially there are no domains.
LEMMA TypeInit == EvidenceInit => EvidenceTypeOK
BY WidthAssumption, EvidenceAssumption DEF EvidenceInit, EvidenceTypeOK, U64

\* Replacing one domain by a domain keeps the type.
LEMMA ReplaceDomainType ==
  ASSUME EvidenceTypeOK, NEW d \in DOMAIN dom, NEW e \in Domain,
         dom' = [dom EXCEPT ![d] = e], next_event' \in 1..(MaxEventId + 1),
         UNCHANGED <<worker_boot, next_domain, fenced>>, awaiting' \subseteq awaiting
  PROVE  EvidenceTypeOK'
<1>1. DOMAIN dom' = DOMAIN dom /\ dom' \in [DOMAIN dom -> Domain]
  BY Zenon DEF EvidenceTypeOK
<1> QED
  BY <1>1, Zenon DEF EvidenceTypeOK

\* Publications keep the type.
LEMMA PublishType ==
  ASSUME EvidenceTypeOK, NEW d, NEW p \in Publishers,
         \/ \E r \in Rates : PublishOffered(d, r, p[1], p[2])
         \/ \E r \in Rates : PublishServiced(d, r, p[1], p[2])
         \/ \E l \in Latencies : PublishLatency(d, l, p[1], p[2])
  PROVE  EvidenceTypeOK'
<1>1. d \in DOMAIN dom /\ dom[d] \in Domain
  BY Zenon DEF PublishOffered, PublishServiced, PublishLatency, EvidenceTypeOK
<1>2. Lifted(dom[d]) \in Domain
  BY <1>1, MarkedType, Zenon
<1>3. next_event' \in 1..(MaxEventId + 1) /\ awaiting' \subseteq awaiting
      /\ UNCHANGED <<worker_boot, next_domain, fenced>>
  BY Zenon DEF PublishOffered, PublishServiced, PublishLatency, EvidenceTypeOK
<1>4. p[1] \in Owners /\ p[2] \in U64
  BY WidthAssumption DEF Publishers, Owners, Boots, U64
<1>5. ASSUME NEW r \in Rates, PublishOffered(d, r, p[1], p[2])
      PROVE  EvidenceTypeOK'
  <2> DEFINE e == [Lifted(dom[d]) EXCEPT
                     !.offered = [rate |-> r, owner |-> p[1], boot |-> p[2]]]
  <2>1. e \in Domain
    BY <1>2, <1>4, Zenon DEF Domain, Evidence
  <2> QED
    BY <1>1, <1>3, <1>5, <2>1, ReplaceDomainType, Zenon DEF PublishOffered
<1>6. ASSUME NEW r \in Rates, PublishServiced(d, r, p[1], p[2])
      PROVE  EvidenceTypeOK'
  <2> DEFINE e == [Lifted(dom[d]) EXCEPT
                     !.serviced = [rate |-> r, owner |-> p[1], boot |-> p[2]]]
  <2>1. e \in Domain
    BY <1>2, <1>4, Zenon DEF Domain, Evidence
  <2> QED
    BY <1>1, <1>3, <1>6, <2>1, ReplaceDomainType, Zenon DEF PublishServiced
<1>7. ASSUME NEW l \in Latencies, PublishLatency(d, l, p[1], p[2])
      PROVE  EvidenceTypeOK'
  <2>1. [Lifted(dom[d]) EXCEPT !.latency = l] \in Domain
    BY <1>2, Zenon DEF Domain
  <2> QED
    BY <1>1, <1>3, <1>7, <2>1, ReplaceDomainType, Zenon DEF PublishLatency
<1> QED
  BY <1>5, <1>6, <1>7, Zenon

\* Recomputation keeps the type.
LEMMA RecomputeType ==
  ASSUME EvidenceTypeOK, NEW d, NEW t \in Traffic, RecomputeDomain(d, t)
  PROVE  EvidenceTypeOK'
<1> DEFINE was   == dom[d]
           state == Classify(was, t)
           ended == [event_id |-> was.current_episode, outcome |-> state]
           hist  == IF Closes(was, state) THEN Remember(was.episodes, ended)
                    ELSE was.episodes
           e     == [was EXCEPT !.state = state,
                                !.current_episode = EpisodeAfter(was, state),
                                !.episodes = hist]
<1>1. d \in DOMAIN dom /\ was \in Domain /\ state \in DomainStates
  BY ClassifyType, Zenon DEF RecomputeDomain, EvidenceTypeOK
<1>2. /\ Opens(was, state) => next_event \in 1..MaxEventId
      /\ next_event' \in 1..(MaxEventId + 1)
  BY EvidenceAssumption DEF RecomputeDomain, EvidenceTypeOK
<1>3. EpisodeAfter(was, state) \in 0..MaxEventId
  BY <1>1, <1>2, DomainFields, EvidenceAssumption DEF EpisodeAfter
<1>4. hist \in Seq(Closed)
  <2>1. CASE Closes(was, state)
    <3>1. ended \in Closed
      BY <1>1, <2>1, DomainFields, EvidenceAssumption DEF Closes, Closed
    <3> QED
      BY <1>1, <2>1, <3>1, DomainFields, RememberType, Zenon
  <2>2. CASE ~Closes(was, state)
    BY <1>1, <2>2, DomainFields, Zenon
  <2> QED
    BY <2>1, <2>2, Zenon
<1>5. e \in Domain
  <2> HIDE DEF state, hist
  <2> QED
    BY <1>1, <1>3, <1>4, Zenon DEF Domain
<1> QED
  BY <1>1, <1>2, <1>5, ReplaceDomainType, Zenon DEF RecomputeDomain

\* Fencing keeps the type.
LEMMA FenceType ==
  ASSUME EvidenceTypeOK, NEW w \in Workers, NEW b \in Boots, FenceWorker(w, b)
  PROVE  EvidenceTypeOK'
<1>1. DOMAIN dom' = DOMAIN dom
  BY Zenon DEF FenceWorker
<1>2. ASSUME NEW d \in DOMAIN dom PROVE dom'[d] \in Domain
  <2> DEFINE e == [dom[d] EXCEPT !.offered = Withdrawn(@, w, b),
                                 !.serviced = Withdrawn(@, w, b)]
  <2>1. dom[d] \in Domain
    BY <1>2, Zenon DEF EvidenceTypeOK
  <2>2. /\ Withdrawn(dom[d].offered, w, b) \in Evidence
        /\ Withdrawn(dom[d].serviced, w, b) \in Evidence
    BY <2>1, DomainFields, EvidenceFacts, Zenon
  <2>3. e \in Domain
    BY <2>1, <2>2, Zenon DEF Domain
  <2>4. dom'[d] = dom[d] \/ dom'[d] = Marked(e)
    BY <1>2, Zenon DEF FenceWorker
  <2> QED
    BY <2>1, <2>3, <2>4, MarkedType, Zenon
<1>3. worker_boot' \in [Workers -> U64]
  <2>1. worker_boot' = [worker_boot EXCEPT ![w] = NextGeneration(worker_boot[w])]
    BY Zenon DEF FenceWorker
  <2>2. NextGeneration(worker_boot[w]) \in U64
    BY WidthAssumption DEF EvidenceTypeOK, NextGeneration, U64
  <2> QED
    BY <2>1, <2>2, Zenon DEF EvidenceTypeOK
<1>4. dom' \in [DOMAIN dom -> Domain]
  BY <1>1, <1>2, Zenon DEF FenceWorker
<1>5. fenced' \subseteq Workers \X Boots /\ awaiting' \subseteq DOMAIN dom
      /\ UNCHANGED <<next_domain, next_event>>
  <2>1. fenced' = fenced \cup {<<w, b>>} /\ awaiting' = awaiting \cup Holders(w, b)
        /\ UNCHANGED <<next_domain, next_event>>
    BY Zenon DEF FenceWorker
  <2>2. Holders(w, b) \subseteq DOMAIN dom
    BY Zenon DEF Holders
  <2>3. fenced \subseteq Workers \X Boots /\ awaiting \subseteq DOMAIN dom
    BY Zenon DEF EvidenceTypeOK
  <2> QED
    BY <2>1, <2>2, <2>3
<1> QED
  BY <1>1, <1>3, <1>4, <1>5, Zenon DEF EvidenceTypeOK

\* A new domain is well formed.
LEMMA CreateType ==
  ASSUME EvidenceTypeOK, NEW c \in Capacities, CreateDomain(c)
  PROVE  EvidenceTypeOK'
<1> DEFINE e == [capacity |-> c, state |-> "UNKNOWN",
                 offered |-> NoEvidence, serviced |-> NoEvidence, latency |-> 0,
                 current_episode |-> 0, episodes |-> << >>]
<1>1. e \in Domain
  <2>1. << >> \in Seq(Closed) /\ 0 \in 0..MaxEventId /\ 0 \in Latencies
        /\ "UNKNOWN" \in DomainStates /\ NoEvidence \in Evidence
    BY EvidenceAssumption, EvidenceFacts DEF DomainStates
  <2> QED
    BY <2>1, Zenon DEF Domain
<1>2. dom' = [d \in DOMAIN dom \cup {next_domain} |-> IF d # next_domain THEN dom[d] ELSE e]
  BY Zenon DEF CreateDomain
<1>3. dom' \in [DOMAIN dom \cup {next_domain} -> Domain]
  <2> HIDE DEF e
  <2> QED
    BY <1>1, <1>2, Zenon DEF EvidenceTypeOK
<1>4. /\ next_domain \in 1..MaxDomainId /\ next_domain' = next_domain + 1
      /\ DOMAIN dom \subseteq 1..(next_domain - 1)
  BY EvidenceAssumption DEF CreateDomain, EvidenceTypeOK
<1>5. DOMAIN dom' \subseteq 1..(next_domain' - 1)
  BY <1>3, <1>4
<1> QED
  BY SMTT(20), <1>3, <1>4, <1>5, EvidenceAssumption DEF EvidenceTypeOK, CreateDomain

\* Every step keeps the type.
LEMMA TypeStep == EvidenceTypeOK /\ [EvidenceNext]_evidenceVars => EvidenceTypeOK'
<1> SUFFICES ASSUME EvidenceTypeOK, [EvidenceNext]_evidenceVars PROVE EvidenceTypeOK'
  OBVIOUS
<1>1. ASSUME NEW w \in Workers, NEW b \in Boots, RegisterWorker(w, b)
      PROVE  EvidenceTypeOK'
  <2>1. worker_boot' \in [Workers -> U64]
    BY <1>1, WidthAssumption DEF RegisterWorker, EvidenceTypeOK, Boots, U64
  <2> QED
    BY <1>1, <2>1, Zenon DEF RegisterWorker, EvidenceTypeOK
<1>2. ASSUME NEW d, RemoveDomain(d)
      PROVE  EvidenceTypeOK'
  <2>1. DOMAIN dom' = DOMAIN dom \ {d} /\ dom' \in [DOMAIN dom \ {d} -> Domain]
    BY <1>2, Zenon DEF RemoveDomain, EvidenceTypeOK
  <2> QED
    BY <1>2, <2>1, Zenon DEF RemoveDomain, EvidenceTypeOK
<1>3. ASSUME NEW d, StartFlowIn(d)
      PROVE  EvidenceTypeOK'
  <2>1. d \in DOMAIN dom /\ dom[d] \in Domain
    BY <1>3, Zenon DEF StartFlowIn, EvidenceTypeOK
  <2>2. Lifted(dom[d]) \in Domain
    BY <2>1, MarkedType, Zenon
  <2>3. next_event' \in 1..(MaxEventId + 1)
    BY <1>3, Zenon DEF StartFlowIn, EvidenceTypeOK
  <2> QED
    BY <1>3, <2>1, <2>2, <2>3, ReplaceDomainType, Zenon DEF StartFlowIn
<1>4. CASE RecoverEvidence
  <2>1. \A d \in DOMAIN dom : Marked(dom[d]) \in Domain
    BY MarkedType, Zenon DEF EvidenceTypeOK
  <2>2. DOMAIN dom' = DOMAIN dom /\ dom' \in [DOMAIN dom -> Domain]
    BY <1>4, <2>1, Zenon DEF RecoverEvidence
  <2> QED
    BY <1>4, <2>2, Zenon DEF RecoverEvidence, EvidenceTypeOK
<1>5. CASE UNCHANGED evidenceVars
  BY <1>5, Zenon DEF evidenceVars, EvidenceTypeOK
<1> QED
  BY <1>1, <1>2, <1>3, <1>4, <1>5, FenceType, CreateType, RecomputeType, PublishType, Zenon
  DEF EvidenceNext

\* Every domain is well formed in every reachable state: in particular classify
\* always yields a state, and event ids stay within those handed out.
THEOREM EvidenceTypeCorrect == EvidenceSpec => []EvidenceTypeOK
<1>1. EvidenceInit => EvidenceTypeOK
  BY TypeInit, Zenon
<1>2. EvidenceTypeOK /\ [EvidenceNext]_evidenceVars => EvidenceTypeOK'
  BY TypeStep, Zenon
<1> QED
  BY <1>1, <1>2, PTL DEF EvidenceSpec

-----------------------------------------------------------------------------
(* Episodes and states.                                                    *)

Tracks(d) ==
    /\ d.state \in CongestedStates => d.current_episode # 0
    /\ d.current_episode # 0 =>
          d.state \in CongestedStates \cup {"UNKNOWN", "REVALIDATION_REQUIRED"}

\* Overwriting the state as fencing, recovery, publication and start_flow do
\* never breaks the agreement: the states they write agree with any episode.
LEMMA MarkedTracks ==
  ASSUME NEW d \in Domain, Tracks(d)
  PROVE  Tracks(Marked(d)) /\ Tracks(Lifted(d))
BY MarkedType, Zenon DEF Tracks, CongestedStates

\* A recomputed domain has an episode exactly when it is congested.
LEMMA RecomputeTracks ==
  ASSUME EvidenceTypeOK, NEW d, NEW t \in Traffic, RecomputeDomain(d, t)
  PROVE  Tracks(dom'[d])
<1> DEFINE was == dom[d]
           state == Classify(was, t)
<1>1. d \in DOMAIN dom /\ was \in Domain
  BY Zenon DEF RecomputeDomain, EvidenceTypeOK
<1>2. dom'[d].state = state /\ dom'[d].current_episode = EpisodeAfter(was, state)
  <2> HIDE DEF state
  <2>1. \E h : dom' = [dom EXCEPT ![d] =
           [was EXCEPT !.state = state, !.current_episode = EpisodeAfter(was, state),
                       !.episodes = h]]
    BY Zenon DEF RecomputeDomain, state
  <2> QED
    BY <1>1, <2>1, Zenon DEF Domain
<1>3. next_event # 0
  BY EvidenceAssumption DEF EvidenceTypeOK
<1> QED
  BY <1>2, <1>3, Zenon DEF Tracks, EpisodeAfter, Opens, Closes

\* Every step keeps episodes and states in agreement.
LEMMA TracksStep ==
  ASSUME EvidenceTypeOK, EpisodeTracksState, [EvidenceNext]_evidenceVars
  PROVE  EpisodeTracksState'
<1>0. \A d \in DOMAIN dom : Tracks(dom[d]) /\ dom[d] \in Domain
  BY Zenon DEF EpisodeTracksState, Tracks, EvidenceTypeOK
<1> SUFFICES ASSUME NEW d \in DOMAIN dom' PROVE Tracks(dom'[d])
  BY Zenon DEF EpisodeTracksState, Tracks
<1>1. CASE UNCHANGED dom
  BY <1>0, <1>1, Zenon
<1>2. ASSUME NEW w \in Workers, NEW b \in Boots, FenceWorker(w, b)
      PROVE  Tracks(dom'[d])
  <2> DEFINE e == [dom[d] EXCEPT !.offered = Withdrawn(@, w, b),
                                 !.serviced = Withdrawn(@, w, b)]
  <2>1. d \in DOMAIN dom /\ (dom'[d] = dom[d] \/ dom'[d] = Marked(e))
    BY <1>2, Zenon DEF FenceWorker
  <2>2. e \in Domain /\ Tracks(e)
    <3>1. /\ Withdrawn(dom[d].offered, w, b) \in Evidence
          /\ Withdrawn(dom[d].serviced, w, b) \in Evidence
      BY <1>0, <2>1, DomainFields, EvidenceFacts, Zenon
    <3> QED
      BY <1>0, <2>1, <3>1, Zenon DEF Domain, Tracks
  <2> QED
    BY <1>0, <2>1, <2>2, MarkedTracks, Zenon
<1>3. ASSUME NEW c \in Capacities, CreateDomain(c)
      PROVE  Tracks(dom'[d])
  <2>1. CASE d = next_domain
    BY <1>3, <2>1, Zenon DEF CreateDomain, Tracks, CongestedStates
  <2>2. CASE d # next_domain
    BY <1>0, <1>3, <2>2, Zenon DEF CreateDomain
  <2> QED
    BY <2>1, <2>2, Zenon
<1>4. ASSUME NEW x, RemoveDomain(x)
      PROVE  Tracks(dom'[d])
  BY <1>0, <1>4, Zenon DEF RemoveDomain
<1>5. CASE RecoverEvidence
  BY <1>0, <1>5, MarkedTracks, Zenon DEF RecoverEvidence
<1>6. ASSUME NEW x, NEW t \in Traffic, RecomputeDomain(x, t)
      PROVE  Tracks(dom'[d])
  <2>1. CASE d = x
    BY <1>6, <2>1, RecomputeTracks, Zenon
  <2>2. CASE d # x
    BY <1>0, <1>6, <2>2, Zenon DEF RecomputeDomain, EvidenceTypeOK
  <2> QED
    BY <2>1, <2>2, Zenon
<1>7. ASSUME NEW x, NEW p, NEW r,
             \/ PublishOffered(x, r, p[1], p[2]) \/ PublishServiced(x, r, p[1], p[2])
             \/ PublishLatency(x, r, p[1], p[2]) \/ StartFlowIn(x)
      PROVE  Tracks(dom'[d])
  <2>1. d \in DOMAIN dom /\ x \in DOMAIN dom
    BY <1>7, Zenon DEF PublishOffered, PublishServiced, PublishLatency, StartFlowIn
  <2>2. Lifted(dom[d]) \in Domain /\ Tracks(Lifted(dom[d]))
    BY <1>0, <2>1, MarkedType, MarkedTracks, Zenon
  <2>3. \/ dom'[d] = dom[d] \/ dom'[d] = Lifted(dom[d])
        \/ \E v : \/ dom'[d] = [Lifted(dom[d]) EXCEPT !.offered = v]
                  \/ dom'[d] = [Lifted(dom[d]) EXCEPT !.serviced = v]
                  \/ dom'[d] = [Lifted(dom[d]) EXCEPT !.latency = v]
    BY <1>7, <2>1 DEF PublishOffered, PublishServiced, PublishLatency, StartFlowIn,
                      EvidenceTypeOK
  <2> QED
    BY <1>0, <2>1, <2>2, <2>3, Zenon DEF Tracks, Domain
<1>8. ASSUME NEW w, NEW b, RegisterWorker(w, b) \/ UNCHANGED evidenceVars
      PROVE  UNCHANGED dom
  BY <1>8, Zenon DEF RegisterWorker, evidenceVars
<1> QED
  BY <1>1, <1>2, <1>3, <1>4, <1>5, <1>6, <1>7, <1>8, Zenon DEF EvidenceNext

\* A congested state always has an open episode, and an open episode always a
\* state that is congested or in question, for any number of domains and workers
\* and whatever the flows report.
THEOREM EpisodesTrackStates == EvidenceSpec => []EpisodeTracksState
<1>1. EvidenceInit => EpisodeTracksState
  BY DEF EvidenceInit, EpisodeTracksState
<1>2. EvidenceTypeOK /\ EpisodeTracksState /\ [EvidenceNext]_evidenceVars
        => EpisodeTracksState'
  BY TracksStep, Zenon
<1> QED
  BY <1>1, <1>2, EvidenceTypeCorrect, PTL DEF EvidenceSpec

-----------------------------------------------------------------------------
(* Fenced evidence.                                                        *)

\* The domain holds no evidence of this boot.
Free(d, w, b) == ~OwnedBy(d.offered, w, b) /\ ~OwnedBy(d.serviced, w, b)

\* Withdrawing evidence of a boot leaves none of it and adds none of another.
LEMMA WithdrawnFree ==
  ASSUME NEW ev, NEW w \in Workers, NEW b, NEW v \in Workers, NEW c
  PROVE  /\ ~OwnedBy(Withdrawn(ev, w, b), w, b)
         /\ ~OwnedBy(ev, v, c) => ~OwnedBy(Withdrawn(ev, w, b), v, c)
BY EvidenceAssumption, Zenon DEF OwnedBy, Withdrawn, NoEvidence

\* Fencing withdraws the evidence of the fenced boot everywhere and creates none.
LEMMA FenceFrees ==
  ASSUME EvidenceTypeOK, NEW w \in Workers, NEW b \in Boots, FenceWorker(w, b),
         NEW d \in DOMAIN dom
  PROVE  /\ Free(dom'[d], w, b)
         /\ \A v \in Workers, c \in Boots : Free(dom[d], v, c) => Free(dom'[d], v, c)
<1> DEFINE e == [dom[d] EXCEPT !.offered = Withdrawn(@, w, b),
                               !.serviced = Withdrawn(@, w, b)]
<1>1. dom[d] \in Domain
  BY Zenon DEF EvidenceTypeOK
<1>2. /\ Withdrawn(dom[d].offered, w, b) \in Evidence
      /\ Withdrawn(dom[d].serviced, w, b) \in Evidence
  BY <1>1, DomainFields, EvidenceFacts
<1>3. /\ e \in Domain /\ e.offered = Withdrawn(dom[d].offered, w, b)
      /\ e.serviced = Withdrawn(dom[d].serviced, w, b)
  BY <1>1, <1>2, Zenon DEF Domain
<1>4. \/ dom'[d] = dom[d] /\ d \notin Holders(w, b)
      \/ dom'[d] = Marked(e)
  BY Zenon DEF FenceWorker
<1>5. CASE dom'[d] = dom[d] /\ d \notin Holders(w, b)
  BY <1>5, Zenon DEF Holders, Free
<1>6. CASE dom'[d] = Marked(e)
  <2>1. dom'[d].offered = e.offered /\ dom'[d].serviced = e.serviced
    BY <1>3, <1>6, MarkedType, Zenon
  <2> QED
    BY <1>3, <2>1, WithdrawnFree DEF Free
<1> QED
  BY <1>4, <1>5, <1>6, Zenon

\* Only a publication of a boot gives a domain evidence of it, and only the
\* current boot publishes.
LEMMA OnlyCurrentPublishes ==
  ASSUME EvidenceTypeOK, NEW x, NEW p \in Publishers, NEW r, NEW d \in DOMAIN dom,
         \/ PublishOffered(x, r, p[1], p[2]) \/ PublishServiced(x, r, p[1], p[2])
         \/ PublishLatency(x, r, p[1], p[2]) \/ StartFlowIn(x)
  PROVE  \A v \in Workers, c \in Boots :
           Free(dom[d], v, c) /\ worker_boot[v] # c => Free(dom'[d], v, c)
<1> DEFINE l == Lifted(dom[d])
           ev == [rate |-> r, owner |-> p[1], boot |-> p[2]]
<1>1. dom[d] \in Domain
  BY Zenon DEF EvidenceTypeOK
<1>2. l \in Domain /\ l.offered = dom[d].offered /\ l.serviced = dom[d].serviced
  BY <1>1, MarkedType, Zenon
<1>3. \/ dom'[d] = dom[d] \/ dom'[d] = l \/ dom'[d] = [l EXCEPT !.latency = r]
      \/ MayPublish(p[1], p[2]) /\ dom'[d] = [l EXCEPT !.offered = ev]
      \/ MayPublish(p[1], p[2]) /\ dom'[d] = [l EXCEPT !.serviced = ev]
  BY DEF PublishOffered, PublishServiced, PublishLatency, StartFlowIn, EvidenceTypeOK
<1>4. MayPublish(p[1], p[2]) =>
        \A v \in Workers, c \in Boots : worker_boot[v] # c => ~OwnedBy(ev, v, c)
  BY Zenon DEF MayPublish, OwnedBy
<1>5. /\ [l EXCEPT !.latency = r].offered = l.offered
      /\ [l EXCEPT !.latency = r].serviced = l.serviced
      /\ [l EXCEPT !.offered = ev].offered = ev
      /\ [l EXCEPT !.offered = ev].serviced = l.serviced
      /\ [l EXCEPT !.serviced = ev].offered = l.offered
      /\ [l EXCEPT !.serviced = ev].serviced = ev
  BY <1>2, Zenon DEF Domain
<1> HIDE DEF l, ev
<1> SUFFICES ASSUME NEW v \in Workers, NEW c \in Boots, Free(dom[d], v, c), worker_boot[v] # c
             PROVE  Free(dom'[d], v, c)
  OBVIOUS
<1>6. ~OwnedBy(l.offered, v, c) /\ ~OwnedBy(l.serviced, v, c)
  BY <1>2, Zenon DEF Free
<1>7. CASE dom'[d] = dom[d] \/ dom'[d] = l \/ dom'[d] = [l EXCEPT !.latency = r]
  BY <1>5, <1>6, <1>7, Zenon DEF Free
<1>8. CASE MayPublish(p[1], p[2]) /\ dom'[d] = [l EXCEPT !.offered = ev]
  BY <1>4, <1>5, <1>6, <1>8 DEF Free
<1>9. CASE MayPublish(p[1], p[2]) /\ dom'[d] = [l EXCEPT !.serviced = ev]
  BY <1>4, <1>5, <1>6, <1>9 DEF Free
<1> QED
  BY <1>3, <1>7, <1>8, <1>9, Zenon

\* No step but a publication gives any domain new evidence.
LEMMA FreeStays ==
  ASSUME EvidenceTypeOK, [EvidenceNext]_evidenceVars, NEW v \in Workers, NEW c \in Boots,
         worker_boot[v] # c, \A d \in DOMAIN dom : Free(dom[d], v, c),
         NEW d \in DOMAIN dom'
  PROVE  Free(dom'[d], v, c)
<1>1. ASSUME NEW w \in Workers, NEW b \in Boots, RegisterWorker(w, b) \/ FenceWorker(w, b)
      PROVE  Free(dom'[d], v, c)
  <2>1. d \in DOMAIN dom
    BY <1>1, Zenon DEF RegisterWorker, FenceWorker
  <2> QED
    BY <1>1, <2>1, FenceFrees, Zenon DEF RegisterWorker
<1>2. ASSUME NEW k \in Capacities, CreateDomain(k)
      PROVE  Free(dom'[d], v, c)
  <2>1. CASE d = next_domain
    BY <1>2, <2>1, EvidenceAssumption, Zenon DEF CreateDomain, Free, OwnedBy, NoEvidence
  <2>2. CASE d # next_domain
    BY <1>2, <2>2, Zenon DEF CreateDomain
  <2> QED
    BY <2>1, <2>2, Zenon
<1>3. ASSUME NEW x, RemoveDomain(x)
      PROVE  Free(dom'[d], v, c)
  BY <1>3, Zenon DEF RemoveDomain
<1>4. CASE RecoverEvidence
  <2>1. d \in DOMAIN dom /\ dom'[d] = Marked(dom[d]) /\ dom[d] \in Domain
    BY <1>4, Zenon DEF RecoverEvidence, EvidenceTypeOK
  <2> QED
    BY <2>1, MarkedType DEF Free
<1>5. ASSUME NEW x, NEW t \in Traffic, RecomputeDomain(x, t)
      PROVE  Free(dom'[d], v, c)
  <2>1. d \in DOMAIN dom /\ dom[d] \in Domain
    BY <1>5, Zenon DEF RecomputeDomain, EvidenceTypeOK
  <2>2. \/ dom'[d] = dom[d]
        \/ \E s, n, h : dom'[d] = [dom[d] EXCEPT !.state = s, !.current_episode = n,
                                                 !.episodes = h]
    BY <1>5, <2>1, ZenonT(60) DEF RecomputeDomain, EvidenceTypeOK
  <2>3. dom'[d].offered = dom[d].offered /\ dom'[d].serviced = dom[d].serviced
    BY <2>1, <2>2, Zenon DEF Domain
  <2> QED
    BY <2>1, <2>3, Zenon DEF Free
<1>6. ASSUME NEW x, NEW p \in Publishers, NEW r,
             \/ PublishOffered(x, r, p[1], p[2]) \/ PublishServiced(x, r, p[1], p[2])
             \/ PublishLatency(x, r, p[1], p[2]) \/ StartFlowIn(x)
      PROVE  Free(dom'[d], v, c)
  <2>1. d \in DOMAIN dom
    BY <1>6, Zenon DEF PublishOffered, PublishServiced, PublishLatency, StartFlowIn
  <2> QED
    BY <1>6, <2>1, OnlyCurrentPublishes, ZenonT(60)
<1>7. CASE UNCHANGED evidenceVars
  BY <1>7, Zenon DEF evidenceVars
<1>8. <<NoWorker, 0>> \in Publishers
  BY Zenon DEF Publishers
<1> QED
  BY <1>1, <1>2, <1>3, <1>4, <1>5, <1>6, <1>7, <1>8, Zenon DEF EvidenceNext

\* Registration and fencing are the only steps on boots, and both only raise them.
LEMMA BootsStep ==
  ASSUME EvidenceTypeOK, [EvidenceNext]_evidenceVars
  PROVE  /\ \A v \in Workers : worker_boot'[v] >= worker_boot[v]
         /\ \/ \E w \in Workers, b \in Boots : FenceWorker(w, b)
            \/ UNCHANGED fenced
<1>1. worker_boot \in [Workers -> 0..MaxU64] /\ MaxU64 \in Nat
  BY WidthAssumption, Zenon DEF EvidenceTypeOK, U64
<1>2. ASSUME NEW w \in Workers, NEW b \in Boots, RegisterWorker(w, b)
      PROVE  (\A v \in Workers : worker_boot'[v] >= worker_boot[v]) /\ UNCHANGED fenced
  BY <1>1, <1>2 DEF RegisterWorker, Boots
<1>3. ASSUME NEW w \in Workers, NEW b \in Boots, FenceWorker(w, b)
      PROVE  \A v \in Workers : worker_boot'[v] >= worker_boot[v]
  <2>1. worker_boot' = [worker_boot EXCEPT ![w] = NextGeneration(worker_boot[w])]
    BY <1>3, Zenon DEF FenceWorker
  <2> QED
    BY <1>1, <2>1 DEF NextGeneration
<1>4. \/ \E w \in Workers, b \in Boots : RegisterWorker(w, b) \/ FenceWorker(w, b)
      \/ UNCHANGED <<worker_boot, fenced>>
  BY ZenonT(60) DEF EvidenceNext, CreateDomain, RemoveDomain, RecoverEvidence, StartFlowIn,
         RecomputeDomain, PublishOffered, PublishServiced, PublishLatency, evidenceVars
<1>5. CASE UNCHANGED <<worker_boot, fenced>>
  BY <1>1, <1>5
<1> QED
  BY <1>2, <1>3, <1>4, <1>5, Zenon

\* Every step keeps fenced evidence out.
LEMMA FencedStep ==
  ASSUME EvidenceTypeOK, EvidenceTypeOK', FencedEvidenceGone, [EvidenceNext]_evidenceVars
  PROVE  FencedEvidenceGone'
<1> SUFFICES ASSUME NEW wb \in fenced', wb[2] < MaxU64
             PROVE  /\ worker_boot'[wb[1]] > wb[2]
                    /\ \A d \in DOMAIN dom' : Free(dom'[d], wb[1], wb[2])
  BY Zenon DEF FencedEvidenceGone, Free
<1>1. wb[1] \in Workers /\ wb[2] \in Boots /\ wb = <<wb[1], wb[2]>>
  BY DEF EvidenceTypeOK
<1>2. worker_boot[wb[1]] \in 0..MaxU64 /\ worker_boot'[wb[1]] \in 0..MaxU64
      /\ wb[2] \in 1..MaxU64 /\ MaxU64 \in Nat
  BY <1>1, WidthAssumption, Zenon DEF EvidenceTypeOK, U64, Boots
<1>3. CASE wb \in fenced
  <2>1. worker_boot[wb[1]] > wb[2] /\ \A d \in DOMAIN dom : Free(dom[d], wb[1], wb[2])
    BY <1>3, Zenon DEF FencedEvidenceGone, Free
  <2>2. worker_boot'[wb[1]] > wb[2]
    BY <1>1, <1>2, <2>1, BootsStep
  <2>3. worker_boot[wb[1]] # wb[2]
    BY <1>2, <2>1
  <2> QED
    BY <1>1, <2>1, <2>2, <2>3, FreeStays, Zenon
<1>4. CASE wb \notin fenced
  <2>1. PICK w \in Workers, b \in Boots : FenceWorker(w, b)
    BY <1>4, BootsStep, Zenon
  <2>2. w = wb[1] /\ b = wb[2] /\ worker_boot' = [worker_boot EXCEPT ![w] = NextGeneration(b)]
    <3>1. fenced' = fenced \cup {<<w, b>>} /\ worker_boot[w] = b
          /\ worker_boot' = [worker_boot EXCEPT ![w] = NextGeneration(worker_boot[w])]
      BY <2>1, Zenon DEF FenceWorker
    <3> QED
      BY <1>4, <3>1
  <2>3. worker_boot'[w] > b
    <3>1. worker_boot'[w] = NextGeneration(b)
      BY <2>2, Zenon DEF EvidenceTypeOK
    <3> QED
      BY <1>2, <2>2, <3>1 DEF NextGeneration
  <2>4. DOMAIN dom' = DOMAIN dom
    BY <2>1, Zenon DEF FenceWorker
  <2> QED
    BY <2>1, <2>2, <2>3, <2>4, FenceFrees, Zenon
<1> QED
  BY <1>3, <1>4, Zenon

\* Fencing a boot removes its evidence for good, for any number of workers,
\* domains and boots: it is not current again and none of its rates comes back.
THEOREM FencedEvidenceCorrect == EvidenceSpec => []FencedEvidenceGone
<1>1. EvidenceInit => FencedEvidenceGone
  BY Zenon DEF EvidenceInit, FencedEvidenceGone
<1>2. EvidenceTypeOK /\ EvidenceTypeOK' /\ FencedEvidenceGone /\ [EvidenceNext]_evidenceVars
        => FencedEvidenceGone'
  BY FencedStep, Zenon
<1> QED
  BY <1>1, <1>2, EvidenceTypeCorrect, PTL DEF EvidenceSpec

-----------------------------------------------------------------------------
(* What a step may let a domain assert.                                    *)

\* The step lets this domain assert nothing new, or only what it derives from rates that
\* were there and not in question.
Quiet(d) ==
    dom'[d].state \in AssertedStates /\ dom'[d].state # dom[d].state
      => /\ dom[d].state # "REVALIDATION_REQUIRED"
         /\ dom'[d].offered = dom[d].offered /\ dom'[d].serviced = dom[d].serviced

\* The states that fencing, recovery, publication and start_flow write assert nothing.
LEMMA WrittenStatesAssertNothing ==
  "UNKNOWN" \notin AssertedStates /\ "REVALIDATION_REQUIRED" \notin AssertedStates
BY Zenon DEF AssertedStates, CongestedStates

\* A recomputation leaves the rates alone and a domain in question where it is.
LEMMA RecomputeQuiet ==
  ASSUME EvidenceTypeOK, NEW x, NEW t \in Traffic, RecomputeDomain(x, t), NEW d \in DOMAIN dom
  PROVE  Quiet(d)
<1>1. dom[d] \in Domain
  BY Zenon DEF EvidenceTypeOK
<1>2. \/ dom'[d] = dom[d]
      \/ \E n, h : dom'[d] = [dom[d] EXCEPT !.state = Classify(dom[d], t),
                                            !.current_episode = n, !.episodes = h]
  BY Zenon DEF RecomputeDomain, EvidenceTypeOK
<1>3. \/ dom'[d] = dom[d]
      \/ /\ dom'[d].state = Classify(dom[d], t)
         /\ dom'[d].offered = dom[d].offered /\ dom'[d].serviced = dom[d].serviced
  <2> DEFINE s == Classify(dom[d], t)
  <2> HIDE DEF s
  <2>1. \/ dom'[d] = dom[d]
        \/ \E n, h : dom'[d] = [dom[d] EXCEPT !.state = s, !.current_episode = n, !.episodes = h]
    BY <1>2, ZenonT(60) DEF s
  <2>2. \/ dom'[d] = dom[d]
        \/ /\ dom'[d].state = s
           /\ dom'[d].offered = dom[d].offered /\ dom'[d].serviced = dom[d].serviced
    BY <1>1, <2>1, Zenon DEF Domain
  <2> QED
    BY <2>2, Zenon DEF s
<1>4. dom[d].state = "REVALIDATION_REQUIRED" => Classify(dom[d], t) = dom[d].state
  BY Zenon DEF Classify
<1> QED
  BY <1>3, <1>4, Zenon DEF Quiet

\* No step of the evidence lets a domain assert more than Quiet allows.
LEMMA StepQuiet ==
  ASSUME EvidenceTypeOK, [EvidenceNext]_evidenceVars, NEW d \in DOMAIN dom, d \in DOMAIN dom'
  PROVE  Quiet(d)
<1>0. dom[d] \in Domain
  BY Zenon DEF EvidenceTypeOK
<1>1. CASE dom'[d] = dom[d]
  BY <1>1, Zenon DEF Quiet
<1>2. CASE dom'[d].state = dom[d].state \/ dom'[d].state \in {"UNKNOWN", "REVALIDATION_REQUIRED"}
  BY <1>2, WrittenStatesAssertNothing, Zenon DEF Quiet
<1>3. ASSUME NEW w \in Workers, NEW b \in Boots, FenceWorker(w, b)
      PROVE  dom'[d] = dom[d] \/ dom'[d].state \in {"UNKNOWN", "REVALIDATION_REQUIRED"}
  <2> DEFINE e == [dom[d] EXCEPT !.offered = Withdrawn(@, w, b),
                                 !.serviced = Withdrawn(@, w, b)]
  <2>1. dom'[d] = dom[d] \/ dom'[d] = Marked(e)
    BY <1>3, Zenon DEF FenceWorker
  <2>2. e \in Domain
    <3>1. /\ Withdrawn(dom[d].offered, w, b) \in Evidence
          /\ Withdrawn(dom[d].serviced, w, b) \in Evidence
      BY <1>0, DomainFields, EvidenceFacts, Zenon
    <3> QED
      BY <1>0, <3>1, Zenon DEF Domain
  <2> HIDE DEF e
  <2>3. Marked(e).state \in {"UNKNOWN", "REVALIDATION_REQUIRED"}
    BY <2>2, MarkedType, Zenon
  <2> QED
    BY <2>1, <2>3, Zenon
<1>4. ASSUME RecoverEvidence
      PROVE  dom'[d].state \in {"UNKNOWN", "REVALIDATION_REQUIRED"}
  BY <1>0, <1>4, MarkedType, Zenon DEF RecoverEvidence
<1>5. ASSUME NEW x, NEW p, NEW r,
             \/ PublishOffered(x, r, p[1], p[2]) \/ PublishServiced(x, r, p[1], p[2])
             \/ PublishLatency(x, r, p[1], p[2]) \/ StartFlowIn(x)
      PROVE  dom'[d].state = dom[d].state \/ dom'[d].state = "UNKNOWN"
  <2> DEFINE l == Lifted(dom[d])
  <2>1. l \in Domain /\ (l.state = dom[d].state \/ l.state = "UNKNOWN")
    BY <1>0, MarkedType, Zenon
  <2>2. \/ dom'[d] = dom[d] \/ dom'[d] = l
        \/ \E v : \/ dom'[d] = [l EXCEPT !.offered = v] \/ dom'[d] = [l EXCEPT !.serviced = v]
                  \/ dom'[d] = [l EXCEPT !.latency = v]
    BY <1>5 DEF PublishOffered, PublishServiced, PublishLatency, StartFlowIn, EvidenceTypeOK
  <2> HIDE DEF l
  <2> QED
    BY <2>1, <2>2, Zenon DEF Domain
<1>6. ASSUME NEW w, NEW b, NEW c, NEW x,
             \/ RegisterWorker(w, b) \/ UNCHANGED evidenceVars \/ CreateDomain(c)
             \/ RemoveDomain(x)
      PROVE  dom'[d] = dom[d]
  <2>1. d # next_domain
    BY EvidenceAssumption DEF EvidenceTypeOK
  <2> QED
    BY <1>6, <2>1, Zenon DEF RegisterWorker, CreateDomain, RemoveDomain, evidenceVars
<1> QED
  BY <1>1, <1>2, <1>3, <1>4, <1>5, <1>6, RecomputeQuiet, Zenon DEF EvidenceNext

\* "never silently healthy", for any number of domains and workers: a domain asserts
\* something new only by a recomputation, and never one that is to be revalidated.
THEOREM NeverSilent == EvidenceSpec => NeverSilentlyHealthy
<1>1. EvidenceTypeOK /\ [EvidenceNext]_evidenceVars =>
        [\A d \in DOMAIN dom \cap DOMAIN dom' :
            dom'[d].state \in AssertedStates /\ dom'[d].state # dom[d].state
              => /\ dom[d].state # "REVALIDATION_REQUIRED"
                 /\ dom'[d].offered = dom[d].offered /\ dom'[d].serviced = dom[d].serviced
        ]_evidenceVars
  BY StepQuiet, Zenon DEF Quiet
<1> QED
  BY <1>1, EvidenceTypeCorrect, PTL DEF EvidenceSpec, NeverSilentlyHealthy

-----------------------------------------------------------------------------
(* Episodes have distinct, increasing ids.                                 *)

\* A bounded history is the old one, shifted by at most one, with the new entry last.
Shifted(new, h, e, S) ==
    \E s \in {0, 1} :
        /\ new \in Seq(S) /\ Len(new) = Len(h) + 1 - s /\ Len(new) <= MaxEpisodeHistory
        /\ \A k \in 1..(Len(h) + 1 - s) : new[k] = IF k + s <= Len(h) THEN h[k + s] ELSE e

LEMMA RememberEntries ==
  ASSUME NEW S, NEW h \in Seq(S), NEW e \in S, Len(h) <= MaxEpisodeHistory
  PROVE  Shifted(Remember(h, e), h, e, S)
<1> DEFINE a == Append(h, e)
<1>1. /\ a \in Seq(S) /\ Len(a) = Len(h) + 1 /\ Len(h) \in Nat
      /\ \A k \in 1..(Len(h) + 1) : a[k] = IF k <= Len(h) THEN h[k] ELSE e
  OBVIOUS
<1>2. MaxEpisodeHistory \in Nat
  BY EvidenceAssumption, Zenon
<1> HIDE DEF a
<1>3. CASE Len(a) > MaxEpisodeHistory
  <2>1. Remember(h, e) = Tail(a)
    BY <1>3, Zenon DEF Remember, a
  <2>2. a # << >>
    BY <1>1
  <2>3. Tail(a) \in Seq(S) /\ Len(Tail(a)) = Len(h)
    BY <1>1, <2>2
  <2>4. \A k \in 1..Len(h) : Tail(a)[k] = a[k + 1]
    BY <1>1, <2>2, <2>3
  <2>5. \A k \in 1..Len(h) : a[k + 1] = IF k + 1 <= Len(h) THEN h[k + 1] ELSE e
    BY <1>1
  <2> QED
    BY <1>1, <1>2, <2>1, <2>3, <2>4, <2>5 DEF Shifted
<1>4. CASE ~(Len(a) > MaxEpisodeHistory)
  <2>1. Remember(h, e) = a
    BY <1>4, Zenon DEF Remember, a
  <2> QED
    BY <1>1, <1>2, <1>4, <2>1 DEF Shifted
<1> QED
  BY <1>3, <1>4, Zenon

\* What a step other than a recomputation does to episodes: nothing, except that a
\* domain may come without any or go with all of them.
KeepsEpisodes ==
    /\ UNCHANGED next_event
    /\ \A d \in DOMAIN dom' :
          IF d \in DOMAIN dom
          THEN /\ dom'[d].current_episode = dom[d].current_episode
               /\ dom'[d].episodes = dom[d].episodes
          ELSE dom'[d].current_episode = 0 /\ dom'[d].episodes = << >>

\* Every step but a recomputation keeps the episodes and their counter.
LEMMA OnlyRecomputeTouchesEpisodes ==
  ASSUME EvidenceTypeOK, [EvidenceNext]_evidenceVars
  PROVE  \/ KeepsEpisodes
         \/ \E d \in 1..MaxDomainId, t \in Traffic : RecomputeDomain(d, t)
<1>0. \A d \in DOMAIN dom : dom[d] \in Domain
  BY Zenon DEF EvidenceTypeOK
<1>1. ASSUME NEW w \in Workers, NEW b \in Boots, RegisterWorker(w, b) PROVE KeepsEpisodes
  BY <1>1, Zenon DEF RegisterWorker, KeepsEpisodes
<1>2. ASSUME NEW w \in Workers, NEW b \in Boots, FenceWorker(w, b) PROVE KeepsEpisodes
  <2>1. UNCHANGED next_event /\ DOMAIN dom' = DOMAIN dom
    BY <1>2, Zenon DEF FenceWorker
  <2>2. ASSUME NEW d \in DOMAIN dom
        PROVE  /\ dom'[d].current_episode = dom[d].current_episode
               /\ dom'[d].episodes = dom[d].episodes
    <3>1. \/ dom'[d] = dom[d]
          \/ dom'[d] = Marked([dom[d] EXCEPT !.offered = Withdrawn(dom[d].offered, w, b),
                                             !.serviced = Withdrawn(dom[d].serviced, w, b)])
      BY <1>2, Zenon DEF FenceWorker
    <3> QED
      BY <1>0, <3>1, Zenon DEF Marked, Domain
  <2> QED
    BY <2>1, <2>2, Zenon DEF KeepsEpisodes
<1>3. ASSUME NEW c \in Capacities, CreateDomain(c) PROVE KeepsEpisodes
  BY <1>3 DEF CreateDomain, KeepsEpisodes, EvidenceTypeOK
<1>4. ASSUME NEW d, RemoveDomain(d) PROVE KeepsEpisodes
  BY <1>4, Zenon DEF RemoveDomain, KeepsEpisodes
<1>5. CASE RecoverEvidence
  BY <1>0, <1>5, Zenon DEF RecoverEvidence, Marked, Domain, KeepsEpisodes
<1>6. ASSUME NEW x, NEW p, NEW r,
             \/ PublishOffered(x, r, p[1], p[2]) \/ PublishServiced(x, r, p[1], p[2])
             \/ PublishLatency(x, r, p[1], p[2]) \/ StartFlowIn(x)
      PROVE  KeepsEpisodes
  <2>1. UNCHANGED next_event /\ DOMAIN dom' = DOMAIN dom
    BY <1>6, Zenon DEF PublishOffered, PublishServiced, PublishLatency, StartFlowIn
  <2>2. ASSUME NEW d \in DOMAIN dom
        PROVE  /\ dom'[d].current_episode = dom[d].current_episode
               /\ dom'[d].episodes = dom[d].episodes
    <3>1. \/ dom'[d] = dom[d] \/ dom'[d] = Lifted(dom[d])
          \/ \E v : \/ dom'[d] = [Lifted(dom[d]) EXCEPT !.offered = v]
                    \/ dom'[d] = [Lifted(dom[d]) EXCEPT !.serviced = v]
                    \/ dom'[d] = [Lifted(dom[d]) EXCEPT !.latency = v]
      BY <1>6, Zenon DEF PublishOffered, PublishServiced, PublishLatency, StartFlowIn,
                         EvidenceTypeOK
    <3> QED
      BY <1>0, <3>1, Zenon DEF Lifted, Domain
  <2> QED
    BY <2>1, <2>2, Zenon DEF KeepsEpisodes
<1>7. CASE UNCHANGED evidenceVars
  BY <1>7, Zenon DEF evidenceVars, KeepsEpisodes
<1> HIDE DEF KeepsEpisodes
<1> QED
  BY <1>1, <1>2, <1>3, <1>4, <1>5, <1>6, <1>7, Zenon DEF EvidenceNext

\* A step that keeps the episodes keeps their ids apart.
LEMMA KeptStayDistinct ==
  ASSUME EpisodesDistinct, KeepsEpisodes
  PROVE  EpisodesDistinct'
<1>1. \A d \in DOMAIN dom' : EventIds(d)' = IF d \in DOMAIN dom THEN EventIds(d) ELSE {}
  BY DEF EventIds, KeepsEpisodes
<1>2. ASSUME NEW d \in DOMAIN dom'
      PROVE  LET h == dom'[d].episodes
             IN  /\ Len(h) <= MaxEpisodeHistory
                 /\ \A j, k \in DOMAIN h : j < k => h[j].event_id < h[k].event_id
                 /\ \A k \in DOMAIN h : dom'[d].current_episode # 0
                                          => h[k].event_id < dom'[d].current_episode
                 /\ \A id \in EventIds(d)' : id < next_event'
  <2>1. CASE d \in DOMAIN dom
    BY <1>1, <2>1, Zenon DEF EpisodesDistinct, KeepsEpisodes
  <2>2. CASE d \notin DOMAIN dom
    BY <1>1, <2>2, EvidenceAssumption DEF KeepsEpisodes
  <2> QED
    BY <2>1, <2>2, Zenon
<1>3. ASSUME NEW d \in DOMAIN dom', NEW e \in DOMAIN dom', d # e
      PROVE  EventIds(d)' \cap EventIds(e)' = {}
  BY <1>1, <1>3, Zenon DEF EpisodesDistinct
<1> QED
  BY <1>2, <1>3, Zenon DEF EpisodesDistinct

\* The ids of a domain once its open episode has been closed and remembered are some
\* of those it had before, in the same order.
LEMMA CloseKeepsOrder ==
  ASSUME NEW d \in Domain, NEW o \in DomainStates, d.current_episode # 0,
         Len(d.episodes) <= MaxEpisodeHistory,
         \A j, k \in DOMAIN d.episodes :
            j < k => d.episodes[j].event_id < d.episodes[k].event_id,
         \A k \in DOMAIN d.episodes : d.episodes[k].event_id < d.current_episode
  PROVE  LET h == Remember(d.episodes, [event_id |-> d.current_episode, outcome |-> o])
         IN  /\ Len(h) <= MaxEpisodeHistory
             /\ \A j, k \in DOMAIN h : j < k => h[j].event_id < h[k].event_id
             /\ \A k \in DOMAIN h :
                   \/ h[k].event_id = d.current_episode
                   \/ \E j \in DOMAIN d.episodes : h[k].event_id = d.episodes[j].event_id
<1> DEFINE old == d.episodes
           e   == [event_id |-> d.current_episode, outcome |-> o]
           h   == Remember(old, e)
<1>1. old \in Seq(Closed) /\ e \in Closed
  <2>1. old \in Seq(Closed)
    BY DomainFields, Zenon
  <2>2. d.current_episode \in 1..MaxEventId
    BY DomainFields, EvidenceAssumption
  <2> QED
    BY <2>1, <2>2, Zenon DEF Closed
<1>2. e.event_id = d.current_episode
  OBVIOUS
<1>3. PICK s \in {0, 1} :
         /\ h \in Seq(Closed) /\ Len(h) = Len(old) + 1 - s /\ Len(h) <= MaxEpisodeHistory
         /\ \A k \in 1..(Len(old) + 1 - s) :
               h[k] = IF k + s <= Len(old) THEN old[k + s] ELSE e
  <2> HIDE DEF e, old
  <2>1. Len(old) <= MaxEpisodeHistory
    BY Zenon DEF old
  <2>2. Shifted(h, old, e, Closed)
    BY <1>1, <2>1, RememberEntries, Zenon
  <2> QED
    BY <2>2, Zenon DEF Shifted
<1> HIDE DEF e, h
<1>4. DOMAIN h = 1..(Len(old) + 1 - s) /\ DOMAIN old = 1..Len(old) /\ Len(old) \in Nat
  BY <1>1, <1>3
<1>5. ASSUME NEW k \in DOMAIN h
      PROVE  \/ k + s \in DOMAIN old /\ h[k].event_id = old[k + s].event_id
             \/ k + s = Len(old) + 1 /\ h[k].event_id = d.current_episode
  BY SMTT(20), <1>2, <1>3, <1>4, <1>5
<1>6. ASSUME NEW j \in DOMAIN h, NEW k \in DOMAIN h, j < k
      PROVE  h[j].event_id < h[k].event_id
  <2>1. j + s \in DOMAIN old /\ h[j].event_id = old[j + s].event_id
    BY <1>4, <1>5, <1>6
  <2>2. CASE k + s \in DOMAIN old /\ h[k].event_id = old[k + s].event_id
    <3>1. j + s < k + s
      BY <1>4, <1>6
    <3> QED
      BY <2>1, <2>2, <3>1, Zenon
  <2>3. CASE h[k].event_id = d.current_episode
    BY <2>1, <2>3, Zenon
  <2> QED
    BY <1>5, <2>2, <2>3, Zenon
<1> QED
  BY <1>3, <1>5, <1>6, Zenon DEF h, e

\* Event ids are numbers.
LEMMA EventIdsNat ==
  ASSUME EvidenceTypeOK, NEW d \in DOMAIN dom
  PROVE  EventIds(d) \subseteq Nat
<1>1. dom[d].episodes \in Seq(Closed) /\ dom[d].current_episode \in Nat
  BY DomainFields, EvidenceAssumption DEF EvidenceTypeOK
<1>2. \A k \in DOMAIN dom[d].episodes : dom[d].episodes[k] \in Closed
  BY <1>1
<1>3. \A c \in Closed : c.event_id \in Nat
  BY EvidenceAssumption DEF Closed
<1> QED
  BY <1>1, <1>2, <1>3, Zenon DEF EventIds

\* A recomputation takes a fresh id or closes the newest one.
LEMMA RecomputeStaysDistinct ==
  ASSUME EvidenceTypeOK, EpisodesDistinct,
         NEW x, NEW t \in Traffic, RecomputeDomain(x, t)
  PROVE  EpisodesDistinct'
<1> DEFINE was   == dom[x]
           state == Classify(was, t)
           ended == [event_id |-> was.current_episode, outcome |-> state]
           hist  == IF Closes(was, state) THEN Remember(was.episodes, ended)
                    ELSE was.episodes
           cur   == EpisodeAfter(was, state)
<1>1. /\ x \in DOMAIN dom /\ was \in Domain /\ state \in DomainStates
      /\ next_event \in Nat /\ next_event > 0
  BY ClassifyType, EvidenceAssumption DEF RecomputeDomain, EvidenceTypeOK
<1>2. /\ next_event' = IF Opens(was, state) THEN next_event + 1 ELSE next_event
      /\ DOMAIN dom' = DOMAIN dom
      /\ \A d \in DOMAIN dom : d # x => dom'[d] = dom[d]
      /\ dom'[x] = [was EXCEPT !.state = state, !.current_episode = cur, !.episodes = hist]
  BY Zenon DEF RecomputeDomain, EvidenceTypeOK
<1> HIDE DEF state
<1>3. dom'[x].current_episode = cur /\ dom'[x].episodes = hist
  <2> HIDE DEF cur, hist
  <2> QED
    BY <1>1, <1>2, Zenon DEF Domain
<1>4. /\ Len(was.episodes) <= MaxEpisodeHistory
      /\ \A j, k \in DOMAIN was.episodes :
            j < k => was.episodes[j].event_id < was.episodes[k].event_id
      /\ \A k \in DOMAIN was.episodes : was.current_episode # 0
                                  => was.episodes[k].event_id < was.current_episode
      /\ \A id \in EventIds(x) : id < next_event
  BY SMTT(20), <1>1 DEF EpisodesDistinct
<1>5. /\ Len(hist) <= MaxEpisodeHistory
      /\ \A j, k \in DOMAIN hist : j < k => hist[j].event_id < hist[k].event_id
      /\ \A k \in DOMAIN hist : hist[k].event_id \in EventIds(x)
  <2>1. CASE Closes(was, state)
    <3>1. was.current_episode # 0
      BY SMTT(20), <2>1 DEF Closes
    <3>2. LET h == Remember(was.episodes, ended)
          IN  /\ Len(h) <= MaxEpisodeHistory
              /\ \A j, k \in DOMAIN h : j < k => h[j].event_id < h[k].event_id
              /\ \A k \in DOMAIN h :
                    \/ h[k].event_id = was.current_episode
                    \/ \E j \in DOMAIN was.episodes :
                          h[k].event_id = was.episodes[j].event_id
      BY SMTT(20), <1>1, <1>4, <3>1, CloseKeepsOrder
    <3>3. hist = Remember(was.episodes, ended)
      BY <2>1, Zenon
    <3> HIDE DEF hist, ended
    <3> QED
      BY <3>1, <3>2, <3>3, Zenon DEF EventIds
  <2>2. CASE ~Closes(was, state)
    <3>1. hist = was.episodes
      BY <2>2, Zenon
    <3> HIDE DEF hist
    <3> QED
      BY <1>4, <3>1, Zenon DEF EventIds
  <2> QED
    BY <2>1, <2>2, ZenonT(60)
<1> HIDE DEF hist
<1>6. \/ Opens(was, state) /\ cur = next_event /\ was.current_episode = 0
      \/ ~Opens(was, state) /\ cur = 0
      \/ ~Opens(was, state) /\ cur = was.current_episode /\ hist = was.episodes
  BY Zenon DEF EpisodeAfter, hist, Opens, Closes
<1> HIDE DEF cur
<1>7. EventIds(x)' = {hist[k].event_id : k \in DOMAIN hist} \cup ({cur} \ {0})
  BY <1>3, Zenon DEF EventIds
<1>8. \A id \in EventIds(x)' : id \in EventIds(x) \/ (id = next_event /\ Opens(was, state))
  <2>1. was.current_episode # 0 => was.current_episode \in EventIds(x)
    BY Zenon DEF EventIds
  <2>2. ASSUME NEW k \in DOMAIN hist PROVE hist[k].event_id \in EventIds(x)
    BY <1>5, Zenon
  <2>3. cur # 0 => cur \in EventIds(x) \/ (cur = next_event /\ Opens(was, state))
    BY <1>6, <2>1, Zenon
  <2>4. ASSUME NEW id \in EventIds(x)'
        PROVE  (\E k \in DOMAIN hist : id = hist[k].event_id) \/ (id = cur /\ cur # 0)
    BY <1>7, Zenon
  <2> HIDE DEF was
  <2> QED
    BY <2>2, <2>3, <2>4, Zenon
<1>9. \A id \in EventIds(x)' : id < next_event'
  <2>1. \A id \in EventIds(x) : id \in Nat
    BY <1>1, EventIdsNat, Zenon
  <2> QED
    BY <1>1, <1>2, <1>4, <1>8, <2>1
<1>10. \A k \in DOMAIN hist : cur # 0 => hist[k].event_id < cur
  BY <1>1, <1>4, <1>5, <1>6, Zenon
<1>11. \A d \in DOMAIN dom : d # x =>
          EventIds(d)' = EventIds(d) /\ \A id \in EventIds(d) : id < next_event
  BY <1>2 DEF EventIds, EpisodesDistinct
<1>12. ASSUME NEW d \in DOMAIN dom, d # x
       PROVE  EventIds(d)' \cap EventIds(x)' = {}
  <2>1. EventIds(d) \cap EventIds(x) = {}
    BY <1>1, <1>12, Zenon DEF EpisodesDistinct
  <2>2. next_event \notin EventIds(d)
    BY <1>1, <1>11, <1>12
  <2> QED
    BY <1>8, <1>11, <1>12, <2>1, <2>2, Zenon
<1>13. ASSUME NEW d \in DOMAIN dom, d # x
       PROVE  /\ Len(dom'[d].episodes) <= MaxEpisodeHistory
              /\ \A j, k \in DOMAIN dom'[d].episodes :
                    j < k => dom'[d].episodes[j].event_id < dom'[d].episodes[k].event_id
              /\ \A k \in DOMAIN dom'[d].episodes : dom'[d].current_episode # 0
                    => dom'[d].episodes[k].event_id < dom'[d].current_episode
              /\ \A id \in EventIds(d)' : id < next_event'
  <2>1. \A id \in EventIds(d)' : id < next_event'
    <3>1. \A id \in EventIds(d)' : id \in Nat /\ id < next_event
      BY <1>11, <1>13, EventIdsNat, Zenon
    <3> QED
      BY <1>1, <1>2, <3>1
  <2> QED
    BY <1>2, <1>13, <2>1, Zenon DEF EpisodesDistinct
<1>14. ASSUME NEW d \in DOMAIN dom, NEW e \in DOMAIN dom, d # e
       PROVE  EventIds(d)' \cap EventIds(e)' = {}
  <2>1. CASE d = x
    BY <1>12, <1>14, <2>1, Zenon
  <2>2. CASE e = x
    BY <1>12, <1>14, <2>2, Zenon
  <2>3. CASE d # x /\ e # x
    BY <1>11, <1>14, <2>3, Zenon DEF EpisodesDistinct
  <2> QED
    BY <2>1, <2>2, <2>3, Zenon
<1> QED
  BY <1>2, <1>3, <1>5, <1>9, <1>10, <1>13, <1>14, ZenonT(60) DEF EpisodesDistinct

-----------------------------------------------------------------------------
(* Restarts.                                                               *)

\* What load makes of a domain: the same rates without owners, the same episodes.
LEMMA LoadedDomain ==
  ASSUME EvidenceTypeOK, NEW reboot \in BOOLEAN, RestartLoaded(reboot), NEW d \in DOMAIN dom
  PROVE  /\ dom'[d] \in Domain
         /\ dom'[d].current_episode = dom[d].current_episode
         /\ dom'[d].episodes = dom[d].episodes
         /\ dom'[d].offered.owner = NoWorker /\ dom'[d].serviced.owner = NoWorker
         /\ Tracks(dom[d]) => Tracks(dom'[d])
         /\ dom'[d].state \in {"UNKNOWN", "REVALIDATION_REQUIRED"}
<1> DEFINE off == Loaded(dom[d].offered)
           ser == Loaded(dom[d].serviced)
           e   == [dom[d] EXCEPT !.offered = off, !.serviced = ser, !.latency = 0]
<1>1. dom[d] \in Domain
  BY Zenon DEF EvidenceTypeOK
<1>2. off \in Evidence /\ ser \in Evidence /\ off.owner = NoWorker /\ ser.owner = NoWorker
  <2>1. ASSUME NEW ev \in Evidence
        PROVE  Loaded(ev) \in Evidence /\ Loaded(ev).owner = NoWorker
    <3>1. NoWorker \in Owners /\ 0 \in U64
      BY WidthAssumption DEF Owners, U64
    <3> QED
      BY <3>1, Zenon DEF Loaded, Evidence
  <2> QED
    BY <1>1, <2>1, DomainFields, Zenon
<1>3. dom'[d] = Marked(e)
  BY Zenon DEF RestartLoaded
<1> HIDE DEF off, ser
<1>4. /\ e \in Domain /\ e.offered = off /\ e.serviced = ser
      /\ e.current_episode = dom[d].current_episode /\ e.episodes = dom[d].episodes
      /\ e.state = dom[d].state
  BY <1>1, <1>2, EvidenceAssumption, Zenon DEF Domain
<1> HIDE DEF e
<1>5. Marked(e).episodes = e.episodes
  BY <1>4, Zenon DEF Marked, Domain
<1>6. Tracks(dom[d]) => Tracks(e)
  BY <1>4, Zenon DEF Tracks
<1> QED
  BY <1>2, <1>3, <1>4, <1>5, <1>6, MarkedType, MarkedTracks

\* What load makes of the domains satisfies the invariants again.
LEMMA LoadedStep ==
  ASSUME EvidenceTypeOK, EpisodesDistinct, FencedEvidenceGone, EpisodeTracksState,
         NEW reboot \in BOOLEAN, RestartLoaded(reboot)
  PROVE  EvidenceTypeOK' /\ EpisodesDistinct' /\ FencedEvidenceGone' /\ EpisodeTracksState'
<1>1. /\ DOMAIN dom' = DOMAIN dom /\ next_event' = next_event
      /\ UNCHANGED <<worker_boot, next_domain, fenced>> /\ awaiting' \subseteq DOMAIN dom
  BY Zenon DEF RestartLoaded, SavedNextEvent, EvidenceTypeOK
<1>2. EvidenceTypeOK'
  <2>1. dom' \in [DOMAIN dom -> Domain]
    BY LoadedDomain, Zenon DEF RestartLoaded
  <2> QED
    BY <1>1, <2>1, Zenon DEF EvidenceTypeOK
<1>3. EpisodesDistinct'
  <2>1. KeepsEpisodes
    BY <1>1, LoadedDomain, Zenon DEF KeepsEpisodes
  <2> QED
    BY <2>1, KeptStayDistinct, Zenon
<1>4. FencedEvidenceGone'
  <2>1. \A d \in DOMAIN dom' : \A w \in Workers : \A b :
           ~OwnedBy(dom'[d].offered, w, b) /\ ~OwnedBy(dom'[d].serviced, w, b)
    BY <1>1, LoadedDomain, EvidenceAssumption, Zenon DEF OwnedBy
  <2>2. \A wb \in fenced : wb[1] \in Workers
    BY Zenon DEF EvidenceTypeOK
  <2> QED
    BY <1>1, <2>1, <2>2, Zenon DEF FencedEvidenceGone
<1>5. EpisodeTracksState'
  BY <1>1, LoadedDomain, Zenon DEF EpisodeTracksState, Tracks
<1> QED
  BY <1>2, <1>3, <1>4, <1>5, Zenon

\* So does an engine without any domain.
LEMMA EmptyHolds ==
  ASSUME worker_boot = [w \in Workers |-> 0], dom = << >>, next_domain = 1, next_event = 1,
         fenced = {}, awaiting = {}
  PROVE  EvidenceTypeOK /\ EpisodesDistinct /\ FencedEvidenceGone /\ EpisodeTracksState
<1>1. EvidenceTypeOK
  BY TypeInit, Zenon DEF EvidenceInit
<1>2. DOMAIN dom = {}
  OBVIOUS
<1> QED
  BY <1>1, <1>2, Zenon DEF EpisodesDistinct, FencedEvidenceGone, EpisodeTracksState

\* The evidence is right in the same sense before and after any number of restarts.
EvidenceInv == EvidenceTypeOK /\ EpisodesDistinct /\ FencedEvidenceGone /\ EpisodeTracksState

\* Operations, ticks and both kinds of restart keep the invariant.
LEMMA EvidenceInvStep ==
  ASSUME EvidenceInv, [RestartNext]_restartVars
  PROVE  EvidenceInv'
<1>1. ASSUME [EvidenceNext]_evidenceVars PROVE EvidenceInv'
  <2>1. EvidenceTypeOK' /\ EpisodeTracksState'
    BY <1>1, TypeStep, TracksStep, Zenon DEF EvidenceInv
  <2>2. FencedEvidenceGone'
    BY <1>1, <2>1, FencedStep, Zenon DEF EvidenceInv
  <2>3. EpisodesDistinct'
    BY <1>1, OnlyRecomputeTouchesEpisodes, KeptStayDistinct, RecomputeStaysDistinct, Zenon
    DEF EvidenceInv
  <2> QED
    BY <2>1, <2>2, <2>3, Zenon DEF EvidenceInv
<1>2. ASSUME NEW reboot \in BOOLEAN, RestartLoaded(reboot) PROVE EvidenceInv'
  BY <1>2, LoadedStep, Zenon DEF EvidenceInv
<1>3. ASSUME NEW reboot \in BOOLEAN, RestartEmpty(reboot) PROVE EvidenceInv'
  <2>1. /\ worker_boot' = [w \in Workers |-> 0] /\ dom' = << >> /\ next_domain' = 1
        /\ next_event' = 1 /\ fenced' = {} /\ awaiting' = {}
    BY <1>3, Zenon DEF RestartEmpty
  <2>2. EvidenceTypeOK'
    BY <2>1, WidthAssumption, EvidenceAssumption DEF EvidenceTypeOK, U64
  <2>3. DOMAIN dom' = {}
    BY <2>1
  <2> QED
    BY <2>1, <2>2, <2>3, Zenon
    DEF EvidenceInv, EpisodesDistinct, FencedEvidenceGone, EpisodeTracksState
<1>4. \/ [EvidenceNext]_evidenceVars
      \/ \E reboot \in BOOLEAN : RestartLoaded(reboot) \/ RestartEmpty(reboot)
  BY Zenon DEF RestartNext, Operation, Tick, restartVars, evidenceVars
<1> QED
  BY <1>1, <1>2, <1>3, <1>4, Zenon

\* The invariant holds throughout.
LEMMA EvidenceInvHolds == RestartSpec => []EvidenceInv
<1>1. RestartInit => EvidenceInv
  BY EmptyHolds, Zenon DEF RestartInit, EvidenceInit, EvidenceInv
<1>2. EvidenceInv /\ [RestartNext]_restartVars => EvidenceInv'
  BY EvidenceInvStep, Zenon
<1> QED
  BY <1>1, <1>2, PTL DEF RestartSpec

\* Episodes keep distinct, increasing ids across restarts, in any number of domains.
THEOREM EpisodesStayDistinct == RestartSpec => []EpisodesDistinct
<1>1. EvidenceInv => EpisodesDistinct
  BY Zenon DEF EvidenceInv
<1> QED
  BY <1>1, EvidenceInvHolds, PTL

\* No restart brings the evidence of a fenced boot back: it comes back unowned, and the
\* boot stays fenced.
THEOREM FencedStaysGone == RestartSpec => []FencedEvidenceGone
<1>1. EvidenceInv => FencedEvidenceGone
  BY Zenon DEF EvidenceInv
<1> QED
  BY <1>1, EvidenceInvHolds, PTL

\* "never silently healthy" holds across restarts too: load asserts nothing, and what it
\* brings back is asserted by a recomputation after new evidence only.
THEOREM RestartsAssertNothing == RestartSpec => NeverSilentlyHealthy
<1>1. EvidenceInv /\ [RestartNext]_restartVars =>
        [\A d \in DOMAIN dom \cap DOMAIN dom' :
            dom'[d].state \in AssertedStates /\ dom'[d].state # dom[d].state
              => /\ dom[d].state # "REVALIDATION_REQUIRED"
                 /\ dom'[d].offered = dom[d].offered /\ dom'[d].serviced = dom[d].serviced
        ]_evidenceVars
  <2> SUFFICES ASSUME EvidenceInv, [RestartNext]_restartVars,
                      NEW d \in DOMAIN dom, d \in DOMAIN dom'
               PROVE  Quiet(d)
    BY Zenon DEF Quiet
  <2>1. ASSUME [EvidenceNext]_evidenceVars PROVE Quiet(d)
    BY <2>1, StepQuiet, Zenon DEF EvidenceInv
  <2>2. ASSUME NEW reboot \in BOOLEAN, RestartLoaded(reboot) PROVE Quiet(d)
    BY <2>2, LoadedDomain, WrittenStatesAssertNothing, Zenon DEF EvidenceInv, Quiet
  <2>3. ASSUME NEW reboot \in BOOLEAN, RestartEmpty(reboot) PROVE FALSE
    BY <2>3 DEF RestartEmpty
  <2>4. \/ [EvidenceNext]_evidenceVars
        \/ \E reboot \in BOOLEAN : RestartLoaded(reboot) \/ RestartEmpty(reboot)
    BY Zenon DEF RestartNext, Operation, Tick, restartVars, evidenceVars
  <2> QED
    BY <2>1, <2>2, <2>3, <2>4, Zenon
<1> QED
  BY <1>1, EvidenceInvHolds, PTL DEF RestartSpec, NeverSilentlyHealthy

-----------------------------------------------------------------------------
(* The times of episodes.                                                  *)

\* A remembered episode ends no earlier than it starts, or was open during a reboot.
Spans == {s \in [start : Nat, end : Nat, rebooted : BOOLEAN] : s.rebooted \/ s.start <= s.end}

\* The open episodes that no reboot interrupted started in the past.
TimesInv ==
    /\ now \in Nat
    /\ start_ms \in [DOMAIN dom -> Nat]
    /\ spans \in [DOMAIN dom -> Seq(Spans)]
    /\ \A d \in DOMAIN dom :
          dom[d].current_episode # 0 /\ d \notin outlived => start_ms[d] <= now

\* A bounded history of things of one kind is one.
LEMMA RememberKind ==
  ASSUME NEW S, NEW h \in Seq(S), NEW e \in S
  PROVE  Remember(h, e) \in Seq(S)
<1> DEFINE a == Append(h, e)
<1>1. a \in Seq(S) /\ Len(a) = Len(h) + 1 /\ Len(h) \in Nat
  OBVIOUS
<1> HIDE DEF a
<1>2. a # << >>
  BY <1>1
<1>3. Tail(a) \in Seq(S)
  BY <1>1, <1>2
<1> QED
  BY <1>1, <1>3, Zenon DEF Remember, a

\* Operations stamp episodes in order.
LEMMA OperationTimes ==
  ASSUME TimesInv, Operation
  PROVE  TimesInv'
<1>1. Stamps /\ now' = now
  BY Zenon DEF Operation
<1>2. start_ms' \in [DOMAIN dom' -> Nat]
  BY <1>1, Zenon DEF Stamps, TimesInv
<1>3. ASSUME NEW d \in DOMAIN dom' PROVE spans'[d] \in Seq(Spans)
  <2>1. spans'[d] = IF d \notin DOMAIN dom THEN << >>
                    ELSE IF Ended(d) THEN Remember(spans[d], Stamped(d)) ELSE spans[d]
    BY <1>1, Zenon DEF Stamps
  <2>2. << >> \in Seq(Spans)
    OBVIOUS
  <2>3. d \in DOMAIN dom => spans[d] \in Seq(Spans)
    BY Zenon DEF TimesInv
  <2>4. CASE d \in DOMAIN dom /\ Ended(d)
    <3>1. start_ms[d] \in Nat /\ now \in Nat /\ (d \in outlived \/ start_ms[d] <= now)
      BY <2>4, Zenon DEF TimesInv, Ended
    <3>2. Stamped(d) \in Spans
      <4> DEFINE r == d \in outlived
      <4>1. r \in BOOLEAN
        OBVIOUS
      <4>2. /\ r \/ start_ms[d] <= now
            /\ Stamped(d) = [start |-> start_ms[d], end |-> now, rebooted |-> r]
        BY <3>1, Zenon DEF Stamped
      <4> HIDE DEF r
      <4> QED
        BY <3>1, <4>1, <4>2 DEF Spans
    <3> QED
      BY <2>1, <2>3, <2>4, <3>2, RememberKind, Zenon
  <2> QED
    BY <2>1, <2>2, <2>3, <2>4, Zenon
<1>4. spans' \in [DOMAIN dom' -> Seq(Spans)]
  BY <1>1, <1>3, Zenon DEF Stamps
<1>5. ASSUME NEW d \in DOMAIN dom', dom'[d].current_episode # 0, d \notin outlived'
      PROVE  start_ms'[d] <= now'
  <2>1. start_ms'[d] = IF Opened(d) THEN now
                       ELSE IF d \notin DOMAIN dom \/ Ended(d) THEN 0 ELSE start_ms[d]
    BY <1>1, Zenon DEF Stamps
  <2>2. CASE Opened(d) \/ d \notin DOMAIN dom \/ Ended(d)
    BY <1>1, <2>1, <2>2 DEF TimesInv
  <2>3. CASE ~Opened(d) /\ d \in DOMAIN dom /\ ~Ended(d)
    <3>1. dom[d].current_episode # 0
      BY <1>5, <2>3, Zenon DEF Opened
    <3>2. d \notin outlived
      BY <1>1, <1>5, <2>3, Zenon DEF Stamps
    <3> QED
      BY <1>1, <2>1, <2>3, <3>1, <3>2, Zenon DEF TimesInv
  <2> QED
    BY <2>2, <2>3, Zenon
<1> QED
  BY <1>1, <1>2, <1>4, <1>5, Zenon DEF TimesInv

\* Clocks, restarts and reboots keep the order of the times.
LEMMA TimesStep ==
  ASSUME EvidenceInv, TimesInv, [RestartNext]_restartVars
  PROVE  TimesInv'
<1>1. CASE Operation
  BY <1>1, OperationTimes, Zenon
<1>2. CASE Tick
  <2>1. now' = now + 1 /\ UNCHANGED <<dom, start_ms, spans, outlived>>
    BY <1>2, Zenon DEF Tick, evidenceVars
  <2> QED
    BY <2>1 DEF TimesInv
<1>3. ASSUME NEW reboot \in BOOLEAN, RestartLoaded(reboot) PROVE TimesInv'
  <2>1. /\ UNCHANGED <<start_ms, spans>> /\ DOMAIN dom' = DOMAIN dom
        /\ now' = IF reboot THEN 0 ELSE now
        /\ outlived' = IF reboot THEN {d \in DOMAIN dom : dom[d].current_episode # 0} ELSE outlived
    BY <1>3, Zenon DEF RestartLoaded
  <2>2. \A d \in DOMAIN dom : dom'[d].current_episode = dom[d].current_episode
    BY <1>3, LoadedDomain, Zenon DEF EvidenceInv
  <2>3. ASSUME NEW d \in DOMAIN dom', dom'[d].current_episode # 0, d \notin outlived'
        PROVE  start_ms'[d] <= now'
    BY <2>1, <2>2, <2>3, Zenon DEF TimesInv
  <2>4. now' \in Nat
    BY <2>1, Zenon DEF TimesInv
  <2> QED
    BY <2>1, <2>3, <2>4, Zenon DEF TimesInv
<1>4. ASSUME NEW reboot \in BOOLEAN, RestartEmpty(reboot) PROVE TimesInv'
  <2>1. dom' = << >> /\ start_ms' = << >> /\ spans' = << >> /\ now' \in Nat
    BY <1>4, Zenon DEF RestartEmpty, TimesInv
  <2>2. \A S : << >> \in [{} -> S]
    OBVIOUS
  <2>3. DOMAIN dom' = {}
    BY <2>1
  <2> QED
    BY <2>1, <2>2, <2>3, Zenon DEF TimesInv
<1>5. CASE UNCHANGED restartVars
  BY <1>5, Zenon DEF restartVars, evidenceVars, TimesInv
<1> QED
  BY <1>1, <1>2, <1>3, <1>4, <1>5, Zenon DEF RestartNext

\* As long as no reboot interrupts an episode, every remembered episode ends no earlier
\* than it starts, so that no save makes a file that load refuses for its times.
THEOREM TimesInOrder == RestartSpec => []OnlyRebootsReorder
<1>1. RestartInit => TimesInv
  <2>1. \A S : << >> \in [{} -> S]
    OBVIOUS
  <2> QED
    BY <2>1 DEF RestartInit, EvidenceInit, TimesInv
<1>2. EvidenceInv /\ TimesInv /\ [RestartNext]_restartVars => TimesInv'
  BY TimesStep
<1>3. TimesInv => OnlyRebootsReorder
  <2> SUFFICES ASSUME TimesInv, NEW d \in DOMAIN dom, NEW k \in DOMAIN spans[d]
               PROVE  spans[d][k].rebooted \/ spans[d][k].start <= spans[d][k].end
    BY Zenon DEF OnlyRebootsReorder
  <2>1. spans[d] \in Seq(Spans)
    BY Zenon DEF TimesInv
  <2>2. spans[d][k] \in Spans
    BY <2>1
  <2> QED
    BY <2>2, Zenon DEF Spans
<1> QED
  BY <1>1, <1>2, <1>3, EvidenceInvHolds, PTL DEF RestartSpec
=============================================================================
