--------------------------- MODULE EvidenceRestart ---------------------------
(***************************************************************************)
(* The evidence of domains across restarts of the coordinator: save and    *)
(* load of engine.cpp around the operations of DomainEvidence, and the     *)
(* times of episodes, which load checks.                                   *)
(*                                                                         *)
(* A restart is one action that saves what there is and loads it.  Nothing *)
(* is lost by that: a crash that falls back to an older file behaves like  *)
(* a restart when that file was written, and what came in between is gone. *)
(* now_ms reads std::chrono::steady_clock, which survives a restart of the *)
(* process but begins again when the machine reboots.                      *)
(***************************************************************************)
EXTENDS DomainEvidence

CONSTANT MaxTime        \* bound: the clock

ASSUME ClockAssumption == MaxTime \in Nat

VARIABLES
    now,            \* now_ms
    start_ms,       \* of each domain's current episode, 0 when none is open
    spans,          \* start_ms and end_ms of the episodes in each domain's history
    outlived        \* history: the domains whose episode was open during a reboot

restartVars == <<evidenceVars, now, start_ms, spans, outlived>>

RestartInit ==
    /\ EvidenceInit
    /\ now = 0
    /\ start_ms = << >> /\ spans = << >>
    /\ outlived = {}

-----------------------------------------------------------------------------
(* The operations, which stamp the episodes they open and close.           *)

Opened(d) ==
    /\ dom'[d].current_episode # 0
    /\ d \in DOMAIN dom => dom'[d].current_episode # dom[d].current_episode

Ended(d) == d \in DOMAIN dom /\ dom[d].current_episode # 0 /\ dom'[d].current_episode = 0

\* Mutant: the two times are swapped.
StampedBackwards(d) == [start |-> now, end |-> start_ms[d], rebooted |-> d \in outlived]

Stamped(d) == [start |-> start_ms[d], end |-> now, rebooted |-> d \in outlived]

Stamps ==
    /\ start_ms' = [d \in DOMAIN dom' |->
          IF Opened(d) THEN now ELSE IF d \notin DOMAIN dom \/ Ended(d) THEN 0 ELSE start_ms[d]]
    /\ spans' = [d \in DOMAIN dom' |->
          IF d \notin DOMAIN dom THEN << >>
          ELSE IF Ended(d) THEN Remember(spans[d], Stamped(d)) ELSE spans[d]]
    /\ outlived' = {d \in outlived \cap DOMAIN dom' : ~Ended(d)}

Operation == EvidenceNext /\ Stamps /\ UNCHANGED now

Tick ==
    /\ now < MaxTime
    /\ now' = now + 1
    /\ UNCHANGED <<evidenceVars, start_ms, spans, outlived>>

-----------------------------------------------------------------------------
(* Restarts.                                                               *)

\* CongestionEpisode::valid of the episodes in the history; the current episode is
\* not checked.
Loadable == \A d \in DOMAIN dom : \A k \in DOMAIN spans[d] : spans[d][k].start <= spans[d][k].end

\* A rate is saved without its owner.
Loaded(ev) == [ev EXCEPT !.owner = NoWorker, !.boot = 0]

\* Mutant: next_event is not saved.
EventsRestart == 1

SavedNextEvent == next_event

\* load marks the domains as recover_dynamic_evidence does; latencies are not saved.
\* With a reboot of the machine the clock begins again.
RestartLoaded(reboot) ==
    /\ Loadable
    /\ dom' = [d \in DOMAIN dom |->
          Marked([dom[d] EXCEPT !.offered = Loaded(@), !.serviced = Loaded(@), !.latency = 0])]
    /\ next_event' = SavedNextEvent
    /\ awaiting' = awaiting \cup {d \in DOMAIN dom : \/ dom[d].offered # NoEvidence
                                                     \/ dom[d].serviced # NoEvidence}
    /\ now' = IF reboot THEN 0 ELSE now
    /\ outlived' = IF reboot THEN {d \in DOMAIN dom : dom[d].current_episode # 0} ELSE outlived
    /\ UNCHANGED <<worker_boot, next_domain, fenced, start_ms, spans>>

\* A file that load refuses leaves the engine empty, and is overwritten later.
RestartEmpty(reboot) ==
    /\ ~Loadable
    /\ worker_boot' = [w \in Workers |-> 0]
    /\ dom' = << >> /\ next_domain' = 1 /\ next_event' = 1
    /\ fenced' = {} /\ awaiting' = {}
    /\ start_ms' = << >> /\ spans' = << >> /\ outlived' = {}
    /\ now' = IF reboot THEN 0 ELSE now

RestartNext ==
    \/ Operation
    \/ Tick
    \/ \E reboot \in BOOLEAN : RestartLoaded(reboot) \/ RestartEmpty(reboot)

RestartSpec == RestartInit /\ [][RestartNext]_restartVars
-----------------------------------------------------------------------------
(* Properties.                                                             *)

\* "A closed episode must have a non-decreasing boundary" (episode.hpp), or load refuses
\* the whole file: as long as the machine does not reboot under an open episode, no
\* interleaving of operations, ticks and restarts of the process makes one that has not.
OnlyRebootsReorder ==
    \A d \in DOMAIN dom : \A k \in DOMAIN spans[d] :
        spans[d][k].rebooted \/ spans[d][k].start <= spans[d][k].end
=============================================================================
