# Congestion Fabric in TLA+

Specifications of Congestion Fabric (C++20): the engine that keeps flows and
the evidence of congestion, its persistence, the coordinator process that
serves it over TCP, and the workers that talk to it. TLC checks the models on
small instances, TLAPS proves the central properties for every instance.

## The system and its parts

`CongestionFabric` (`src/src/engine.cpp`, `include/congestion_fabric/*.hpp`) is
one object with one `shared_mutex`. Workers and sources register with a *boot*
(an incarnation number that only grows). A worker declares *flows* in a
*congestion domain*, has them admitted, queued and started, and reports
progress until they complete, are cancelled or fail. Workers also publish
measured rates. From these, the flows and the domain's capacity the engine
classifies each domain and opens and closes *episodes* of congestion; queries
derive bottlenecks, shares and backpressure from them. When a worker dies it is
*fenced*: its boot is retired, its flows become stale and its rates are
withdrawn. The state can be saved to a file and loaded conservatively, so that
nothing dynamic is believed after a restart.

`cfcoordinator` (`src/src/coordinator.cpp`) holds one engine. It has a thread
per connection, and fences the worker of a connection that drops. `cfworker`
and the CUDA worker are processes that run a scenario: one request after the
other over one connection.

| Part | Source | Module | State |
| --- | --- | --- | --- |
| identities, generations, checked bytes | `identities.hpp`, `checked.hpp`, `types.hpp` | `FlowLifecycle` | partly |
| flow states and transitions | `flow.hpp`, `enums.hpp` | `FlowLifecycle` | modelled |
| authority, domains, flows | `engine.cpp` 294–650, 1198–1213 | `FlowTable` | modelled |
| evidence, classification | `engine.cpp` 663–933, `domain.hpp` | `DomainEvidence` | modelled |
| episodes | `engine.cpp` 891–933, `episode.hpp` | `DomainEvidence`, `EvidenceRestart` | modelled |
| capacity profile | `capacity.hpp` | `Capacity` | modelled |
| the engine as a whole | `engine.cpp` | `Engine` | modelled |
| bottleneck, fairness, snapshot | `engine.cpp` 935–1062, 1134–1181 | `Engine`, `Control` | partly |
| backpressure and shaping | `engine.cpp` 1064–1132, `shaping.hpp` | `Engine`, `Control` | partly |
| persistence | `engine.cpp` 116–252, 1218–1527 | `FlowRestart`, `EvidenceRestart` | all but the byte format |
| framing and sockets | `protocol.hpp`, `net.hpp`, `recv_frame` | `Frames`, `Exchange` | modelled |
| coordinator | `coordinator.cpp` | `Coordinator`, `Deployment` | partly |
| workers | `cfworker.cpp`, `cu_worker.cu` | `Deployment` | scenarios of several requests |
| epoch | `engine.cpp` | – | compared and stored, read by no decision |
| command line, CUDA proof, examples, benchmarks | `tools/`, `cuda/`, `examples/`, `benchmarks/` | – | sequential drivers |

`PROJECT.json` has the same list with reasons, the definitions with the lines
they translate, and the hazards with the properties that cover them.

## Modules

```
FlowLifecycle ─┬─ FlowTable ─┬─ FlowRestart
               │             ├─ Deployment
               │             └─ Engine: instances of FlowTable and DomainEvidence
               ├─ DomainEvidence ── EvidenceRestart
               └─ Coordinator
Capacity ── Control, Engine          Exchange ── Frames
```

**FlowLifecycle** – constants only: the flow states, their predicates, the
transition table of `flow_transition_allowed`, and the arithmetic. The width of
a 64-bit integer is the constant `MaxU64` (the largest value). Checked additions
fail beyond it (`AddFits`), unchecked ones wrap (`WrapAdd`, `WrapSub`), and
`next()` of a generation saturates (`NextGeneration`).

**FlowTable** – `worker_boot_`, `source_boot_`, the domains with the flow
references they list (`members`), `flows_`, `active_flows_` and the id
counters. Every public method holds the lock for its whole body, so each is one
action. A refused call changes nothing and is a stuttering step. Calls come with
any boot, id and generation, so replays and late messages are included.
Half-applied operations are modelled as the code does them: `admit_flow` and
`flow_cancel` add before their last check, `start_flow` sets the state before an
addition that may be refused. `fenced` is a history variable.

**DomainEvidence** – the rates of a domain with owner and boot, its cached
state, episodes, and the operations on them. `Ladder` is the decision ladder of
`classify`, with floating-point thresholds cross-multiplied to integers.
Traffic of the flows is a free choice at each recomputation. The loop of
`fence_worker` runs in the order of a hash table: the action chooses which
domains are visited before the first one that sets `any_invalidated`.
`fenced` and `awaiting` are history variables.

**Capacity** – `CapacityProfile` as operators: `Effective` (the least bound of
the known layers, less the reservation), `Residual`, `ProfileValid`.

**Engine** – `FlowTable` and `DomainEvidence` over one state. Operations that
concern both parts are joint actions (register, fence, create, remove, start,
recover); a recomputation no longer chooses the traffic but derives it from the
flows that the domain refers to (`TrafficOf`, from `aggregate_domain` and the
starvation test of `classify`, 64-bit sums wrapping). The queries
`eval_backpressure`, `snapshot` and the starvation part of `evaluate_fairness`
are operators of that state.

**FlowRestart** – FlowTable plus a process that is up, saving or down, and a
file that is absent, torn or holds an image. `save` opens (and truncates) the
file, then writes; either can be the last thing a process does. `load` accepts
an image whose flows satisfy `accounting_valid`, restores boots, domains and
flows, takes running flows out of service, and does not restore `active_flows_`.
Fields that `declare_flow` stores unchecked (traffic class, provenance,
fairness) are taken to be valid.

**EvidenceRestart** – DomainEvidence plus a clock, the times of episodes, and
restarts of the process or the machine. Rates are saved without their owners,
latencies not at all; `load` refuses a history with an episode that ends before
it begins, and the engine is then empty. A restart saves and loads in one step:
falling back to an older file is a restart at the time that file was written.

**Control** – what is done about congestion: `apply_local_shaping`, a sender
that copies a domain's token bucket, refills and consumes it, and
`identify_bottleneck` as a fold over a path. The rates and backlogs of the
domains change freely.

**Coordinator** – the main thread (`main`), one thread per session (`pc`),
`g_stop`, the listener, `g_socks`, each session's identity (`ctx`), the boots,
and the owner of one published rate. Handlers that make several engine calls, or
block, take several steps: REGISTER is two calls, SHUTDOWN is reply, flag,
listener, other sockets. `recv` waits for the client and `send` waits for it to
read; a closed socket ends both, as `closesocket` does for blocked calls on
Winsock. Requests that touch neither boots nor the owner are `OtherRequest`.

**Deployment** – worker processes with a scenario (`Scenarios`: the sequence of
requests, and in `Stops` which answers end it early), their sessions, and the
flow table behind them, with the owners of the published rates. A process may be
killed between any two steps, also with a request on its way, or after the
coordinator created a domain and before the id file was written. A worker that
restarts is another process with another boot. (`mortal` says which processes
may be killed.)

**Exchange**, **Frames** – `Exchange` is what a connection promises: requests
are handled once and in order and answered. `Frames` is one connection as
`send_frame`, `recv_frame`, `read_exact` and `write_all` drive it: a stream that
takes and gives as few bytes as it likes, the header, the body and the checksum
as separate reads, the checks that differ between the two ends, and a loss of
the connection at any byte. One byte stands for each header field.

**…Proofs** – theorems. **MC…** – modules for TLC. **EvidenceClaims**,
**RestartClaims** – statements of the repository that the code does not keep.

## Runs

Passing runs:

| Run | Question | Distinct states |
| --- | --- | --- |
| `flow_accounting` | byte accounting at the width limit, fencing, frozen flows | 457 410 |
| `flow_slots` | slot count and queue bound, domains created and removed | 286 611 |
| `flow_restarts` | save, crash and load of flows at any point | 704 025 |
| `evidence_restarts` | evidence and episodes through restarts and reboots | 680 813 |
| `engine_fencing` | the whole engine implements both of its parts; backlog; capacity | 205 696 |
| `engine_shares` | two flows in a domain: starvation, intents, snapshots | 483 216 |
| `control` | token bucket, shaping, bottleneck | 395 072 |
| `coordinator_sessions` | two sessions and main; safety and liveness | 225 823 |
| `deployment` | a worker, its successor and a replay; kills at any point | 80 821 |
| `frames` | four calls over a connection, byte by byte | 40 443 |

What they show:

- *Accounting* (`AccountingSound`): completed, cancelled and failed bytes never
  exceed the admitted ones, in spite of unchecked additions and subtractions,
  and nothing is in flight before the start or after the end.
- *Slots and queue* (`ActiveCountExact`, `ResolvedQueueBounded`): the cached
  count always equals the flows that have not ended; the queue limit holds among
  references that resolve.
- *Binding* (`BoundExactlyOnce`): the unscanned append of `admit_flow` never
  lists a flow twice, whatever fencing, generation changes and restarts do.
- *Fencing* (`FencedStaysDead`, `FencedEvidenceGone`, `FencesSurvive`,
  `EndedIsFenced`): a fenced boot is never current again, its flows are never
  live and its rates never present again; fences in a file hold after loading;
  the boot that a connection claimed last is dead once the connection has ended.
- *Frozen flows* (`OutOfServiceIsFrozen`, `LoadedStaysOut`): ended and stale
  flows never change their bytes or come back, and neither do loaded ones.
- *Persistence* (`SavedIsLoadable`, `OnlyRebootsReorder`): no sequence of calls
  leads to byte counts that `load` would refuse, and only a reboot under an open
  episode leads to episode times that it would.
- *Episodes* (`EpisodeTracksState`, `EpisodesDistinct`,
  `NeverSilentlyHealthy`): the open episode agrees with the cached state
  although five operations overwrite that state; event ids stay distinct across
  restarts; what must be revalidated asserts nothing in one step.
- *Composition* (`ImplementsFlowTable`, `ImplementsEvidence`): every step of
  the engine is a step of each part, so what is shown of the parts holds of the
  whole. `BacklogIsLive`: a domain becomes queueing or congested only over flows
  whose worker and source have not been fenced.
- *Capacity* (`EffectiveIsLargest`): what classification uses is the largest
  rate that, with the reservation, every known layer has room for.
- *Queries* (`StarvationAgrees`, `IntentTargetsContributor`,
  `SnapshotConsistent`, `BottleneckIsWorst`): the two definitions of starvation
  agree, an intent names the live flow with most in flight, the parts of a
  snapshot do not contradict each other, and a bottleneck is under the highest
  pressure of its path.
- *Shaping* (`NeverCreatesBandwidth`, `EnvelopeFits`): a bucket that is refilled
  before it is used never releases more than burst and rate allow, and shaping
  stays within the capacity however old the action is.
- *Coordinator* (`RegistryExact`, `FinalSaveComplete`, `ShutdownCompletes`,
  `DeathIsFenced`): a shutdown always completes, also with silent clients,
  clients that do not read replies, and clients accepted at that moment. The
  reason is an order: `g_stop` is set before `close_other_socks`, and a session
  registers its socket before it looks at `g_stop`.
- *Deployment* (`ReplayRejected`, `LiveIsServed`, `GoodStandingServed`,
  `AllSettle`): a replayed boot is refused whatever it asks; live flows and
  rates of a current boot have a connected session; the newest boot is served
  and its flow runs, whatever older sessions end late; no process waits for ever.
- *Connection* (`ImplementsExchange`, `NothingRefused`, `CallsReturn`): pieces
  of any size and breaks at any byte never make a frame half handled, handled
  twice or refused, and every call returns.

### Divergences

Two statements of the repository are refuted by a run, which stops at a
counterexample; the quotations are in `PROJECT.json` under `findings`:

- `claim_holders` – fencing marks domains that hold no evidence of the worker
  (`any_invalidated` is not reset).
- `claim_active_limit` – loaded flows hold no slots, so the limit on live flows
  does not hold after a restart.

Others follow from the models as directly, and the properties are stated so that
they do not hide them:

- Progress reported while a flow is queued is counted again as in flight when
  the flow starts; `flow.hpp` promises exact accounting. `AccountingSound` bounds
  each count by the admitted bytes, not their sum.
- A boot replaced by a newer registration, and not fenced, goes on changing its
  flows, since operations compare with the flow's own boot; `flow.hpp`: "a stale
  worker can never mutate current accounting".
- A domain that was UNKNOWN when its publisher was fenced is not marked, and the
  next recomputation asserts a state; `engine.cpp` 330.
- A session whose REGISTER was refused publishes under the identity it asked
  for, if that boot is current; `coordinator.cpp` 214.
- The owner of a flow is checked by its boot alone, so workers that happen to
  have the same boot number can change each other's flows; `engine.cpp` 533.
- A fence makes the next boot current, so a worker that restarts with its boot
  plus one is refused, and its session then fences that boot as well.
- An episode open across a reboot of the machine ends before it began, and the
  whole file is refused at the next load, with every fence in it.
- `TokenBucket` starts full and last refilled at zero: consuming before the
  first refill releases two bursts.
- A domain of capacity zero has saturation zero, and is reported HEALTHY under any
  load without backlog.
- When every domain of a path is below its serviced rate, `identify_bottleneck`
  names the last of them and explains that there is no bottleneck.

### Bounds

`MaxU64` of 1 to 3 lets every boot sequence (register, fence, replay,
supersede, saturate) and every overflow of two byte amounts occur; the code
compares boots and generations and computes nothing else with them. One flow
suffices for accounting, since no operation reads two flows except the queue
scan, the slot count and the queries, which `flow_slots` checks with three flows
for two slots and `engine_shares` with two in one domain.

In `evidence_restarts` the rates 0 and 10 against the capacities 8, 10 and none
reach every state of the ladder; only the latency is always low, and matters to
the proofs alone. The history holds one of two episodes, so that the oldest is
dropped, and the clock has two values: enough for an episode to end later than,
at or, after a reboot, before its start. `engine_fencing` has one flow and one
profile with a reservation; other profiles are covered by the proof of
`EffectiveIsLargest`.

`flow_restarts` has one slot and one flow id, and any number of saves, crashes
and starts. Two sessions suffice for the races of a shutdown: one asks for it,
the other is anywhere. `deployment` has the three processes that the
repository's tests start after each other (`drive`, the CUDA worker's
`resurrect` with a newer boot, `replay` of the first boot), here in every
interleaving, the first one killed at any moment or not at all; the other
scenarios are prefixes of these or differ by a query.
`frames` has requests and replies with bodies of 0, 1 and 2 bytes and a network
that holds fewer bytes than the longest frame, so writes are partial too.

The bounds `MaxDomainId`, `MaxFlowId`, `MaxEventId`, `MaxTime`, `MaxCalls`,
`MaxGeneration`, `RegisteredBoots`, `Publishing` and `Sessions` end the creation
of new things and are conjuncts of the actions. They are constants in the proofs
as well, which hold for every value of them.

The engine and control runs check for deadlock: some operation is always
possible. Coordinator, deployment and connection stop by design, so those runs
do not.

### Fairness

- `CoordinatorSpec`: weak fairness of the main thread and of each session
  thread, for the steps they take by themselves. It stands for an operating
  system that schedules threads and a mutex that is granted eventually. Clients
  get none: they may never send, never read a reply, never disconnect.
- `DeploymentSpec`: weak fairness of each started process together with its
  session, which take turns. Processes need not be started or killed.
- `FramesSpec`: weak fairness of each end for its next send or receive, which
  assumes that the network delivers what it accepted, or drops the connection.
  The client need not make a call.

## Proofs

All for arbitrary constants that satisfy the named assumptions
(`WidthAssumption`, `PartiesAssumption`, `LimitsAssumption`,
`EvidenceAssumption`, `FileAssumption`, `ClockAssumption`, `RateAssumption`,
`EngineAssumption`, `ControlAssumption`, `SessionAssumption`,
`OptionsAssumption`, `FramesAssumption`; they state the types of constants, that
profiles are valid, that messages fit a frame and that model values differ from
data): any width, any number of parties, connections, processes, domains, flows
and episodes, any profiles, rates, paths, messages and times. Each component has
a module of theorems; `EvidenceProofs` also covers its restarts,
`FlowRestartProofs` the count of live flows and the queues, `ServiceProofs` the
coordinator and its connections, and `StandingProofs`, after `DeploymentProofs`,
the service that a process in good standing gets. A leaf names its prover:
Zenon where there is no arithmetic, which spares the SMT solver a translation
that takes longer the more a module contains; `StandingProofs` takes in the
library on finite sets only where it begins to count, for the same reason.

| Theorem | States |
| --- | --- |
| `FlowTypeCorrect` | the flow table is well formed |
| `AccountingCorrect` | `AccountingSound` always |
| `FrozenCorrect` | `OutOfServiceIsFrozen` |
| `FencingCorrect` | `FencedStaysDead` always |
| `BoundCorrect`, `RestartBoundCorrect` | `BoundExactlyOnce` always, and across restarts |
| `CountCorrect` | `ActiveCountExact` always |
| `QueueBoundCorrect` | `ResolvedQueueBounded` always |
| `SavedCorrect` | `SavedIsLoadable` always |
| `LoadedCorrect` | `LoadedStaysOut` always |
| `FencesCorrect` | `FencesSurvive` always |
| `RestartAccountingCorrect` | `AccountingSound` across restarts |
| `EvidenceTypeCorrect` | every domain is well formed, classification is total |
| `EpisodesTrackStates` | `EpisodeTracksState` always |
| `FencedEvidenceCorrect` | `FencedEvidenceGone` always |
| `NeverSilent` | `NeverSilentlyHealthy` |
| `EpisodesStayDistinct` | `EpisodesDistinct` across restarts |
| `FencedStaysGone` | `FencedEvidenceGone` across restarts |
| `RestartsAssertNothing` | `NeverSilentlyHealthy` across restarts |
| `TimesInOrder` | `OnlyRebootsReorder` always |
| `EngineImplementsFlowTable` | the engine implements `FlowTable` |
| `EngineImplementsEvidence` | the engine implements `DomainEvidence` |
| `EngineCapacity` | `EffectiveIsLargest` always |
| `EngineBacklog` | `BacklogIsLive` |
| `EngineIntent` | `IntentTargetsContributor` always |
| `EngineSnapshot` | `SnapshotConsistent` always |
| `EngineStarvation` | `StarvationAgrees` always |
| `BandwidthBounded` | `NeverCreatesBandwidth` always |
| `ShapingFits` | `EnvelopeFits` always |
| `BottleneckRight` | `BottleneckIsWorst` always |
| `DeploymentImplementsFlowTable` | processes and their sessions implement `FlowTable` |
| `ServedCorrect` | `LiveIsServed` always |
| `ReplayCorrect` | `ReplayRejected` always, if boots tell workers apart |
| `StandingCorrect` | `GoodStandingServed` always, if boots and sources tell workers apart and the tables have room |
| `CoordinatorTypeCorrect` | `CoordinatorTypeOK` always |
| `RegistryCorrect` | `RegistryExact` always |
| `EndedCorrect` | `EndedIsFenced` always |
| `FinalSaveCorrect` | `FinalSaveComplete` always |
| `FramesNeverRefused` | `NothingRefused` always |
| `FramesImplementCalls` | the bytes of a connection implement `Exchange` |

*Accounting.* `AccountingSound` is not inductive: it does not say that failed
and cancelled bytes are zero while a flow lives, which the two sums need when
progress is added, nor that a declared flow has admitted nothing, which
`admit_flow` needs. The inductive invariant `AccountingInv` says per flow
(`LedgerOK`) which counters may be non-zero in which state; from it follows that
the unchecked operations never wrap, and `AccountingSound`. Operations replace
one flow or mark several, so there is one lemma for each kind and one for each
operation.

*Fencing.* Boots never decrease (`BootsGrow`), fencing moves the boot and marks
all of its flows (`FenceKills`), flows change only as `MayBecome` allows, and a
new flow carries a current boot, which a fenced one is not. The same argument
serves evidence (`FencedEvidenceCorrect`): the gate admits only current boots
(`OnlyCurrentPublishes`), and what is free of a boot stays free of it
(`FreeStays`).

*Lists, slots and queues.* As the lists and the cached count see it, a step
declares, admits, queues or ends one flow, adds or removes a domain, or is quiet
(`StepKinds`, proved once from the operations). The lists
need more than `BoundExactlyOnce`: `BoundInv` adds that what is listed belongs to
the domain, is no longer declared, and was listed in a generation no later than
the flow's. That last part is why the queue bound holds: a reference that has
stopped to resolve never resolves again, so no step but `queue_flow` lengthens a
queue (`QueueKept`). `RestartBoundCorrect` says the same of the image in the
file.

*Restarts of flows.* The steps of the engine are those of FlowTable, so its
lemmas are reused. The inductive invariant `RestartInv` says of the image in the
file what it says of the table: types, ledgers, and that what was fenced when it
was written is dead in it. Writing copies the table; `Restored` changes nothing
but the state, to one that any ledger allows (`RestoredFlow`). `LoadedStaysOut`
is kept by `MayBecome`, which lets no flow leave `Terminal` or `OutOfService`.

*Restarts of evidence.* Only a recomputation touches episodes
(`OnlyRecomputeTouchesEpisodes`), one domain at a time; it opens with the next
event id, which is above all others, and closes by appending what was open,
which is above the history. `EvidenceInv` joins this with types, fencing and
`EpisodeTracksState`, which tells an open episode from none. For the times,
`TimesInv` says that an episode that is open began no later than now unless a
reboot came in between, which is what closing it then needs.

*The engine.* Refinement goes action by action: each is an action of the part
or leaves its variables alone (`TableStep`, `EvidenceStep`). For evidence the
traffic that is derived must be one that `DomainEvidence` allows
(`TrafficKind`), the flows' domains must be ids that its actions range over
(`IdsBounded`), and fences of sources must not count as fences of workers, which
the mapping of `fenced` sees to. For capacity the invariant `ProfilesMatch` ties
the cached number to the profile, and `EffectiveRight` compares the definition
with what it is to compute.

*The queries.* They read the table and the evidence together and rely on facts
about both (`QueryFacts`): the theorems about `FlowTable`, which hold inside the
engine because it implements `FlowTable`, that both parts have the same domains,
and that rates and capacities are of the kinds published and configured. What a
query computes by a choice or a sum is stated apart (`ComputedFacts`): the
dominant flow is one that no other exceeds, a total is at least each of its
terms. A sum over any finite set is shown to be the last entry of a table of
partial sums, and a statement about every entry is proved by taking the least
one for which it fails.

*The bottleneck.* The fold over a path is a table in the same way
(`WalkTable`): after each step the best so far is the worst of the part walked
(`WalkRight`).

*The token bucket.* `released <= capacity + elapsed * rate` is not inductive:
the tokens left have to be counted. `ControlInv` keeps, of the time of the last
refill, that what was released and what is left add up to no more than the bound
at that time; multiplication by the rate is split over two intervals (`Splits`).

*The coordinator.* `RegistryExact` is inductive given the types. `EndedIsFenced`
is not: the fence of a session that ends retires a boot only if it is the
current one, so the invariant adds that no session claims a boot still to come
(`ClaimsMet`): REGISTER makes a newer boot current in the step in which the
session claims it. Boots never decrease (`BootsNeverDecrease`), so what is dead
stays dead. For the last save `SaveInv` says that a session which never
connected claims nobody and that after the joins every session has ended;
`AfterJoin` shows that then only a client's socket can still change.

*The deployment.* Each request of a process is an operation of `FlowTable`, with
references and boots that its actions range over, so the theorems about
`FlowTable` hold behind sessions too. `LiveIsServed` is not inductive: a
session that ends fences what it has claimed, which must be all that its process
created. `ProcessInv` says that a session has its process's identity from the
answer to the first request on, and every scenario begins with REGISTER
(`RegisterFirst`). `OwnersKnown` says that no flow and no rate belongs to a boot
still to come, so that a registration makes nothing current that has no session.
For replays `LateInv` says that a process whose boot was fenced before it
connected has been refused everything that it has asked for; its flows are dead
by `FencedStaysDead`. This needs `BootsTellApart`: the engine compares the boot
of a flow's owner and not the worker (`engine.cpp` 533, 557, 577, 597, 617, 645),
so another worker's flow with the same boot would answer to the replay, and the
largest boot cannot be fenced.

*Good standing.* `GoodStandingServed` looks at the end of a scenario; why it
holds is spread over all of the steps before. Four invariants carry it.
`PlaceInv` says where in its scenario a process can be, and `Placed` which
request is in which place. `ToldInv` says that what a process was told, or has
read from the id file, exists. `RoomInv` bounds the domains by the processes
whose CREATE was answered and the live flows by those whose DECLARE was; as
every process asks once (`AskedOnce`), a request that arrives finds room
(`RoomFound`). `StandingInv` is the strengthening itself: from the answer to
REGISTER on, the process's boot and source boot are current (`HasBoots`), none
of its requests was refused if it has a domain (`NotRefused`), and its flow is
in the state that its place in the scenario calls for (`FlowAt`). A step of
another process keeps this because a fence names a boot: an older one of the
same worker is no longer current (`BootsKept`), and flows of the newest boot
answer to no other (`FlowKept`).

Besides `BootsTellApart` this needs `SourcesFollow`, that sources are not shared
by workers and newer boots of a worker come with newer boots of its source, as
`register_source` has a boot of its own; and `RoomForAll`, that `MaxDomains` and
`MaxActiveFlows` cover the processes that create domains and declare flows:
domains are never removed, and the flows of a superseded boot keep their slots.
A replay is left out because it asks for a flow of another process, whatever its
boot. The processes of the deployment run meet all three.

*The connection.* In each direction there is nothing, or one frame (`Link`):
some parts read, the beginning of the next part, the bytes in the network, and
what is yet to be written, which are consecutive pieces of the encoded message
and together all of it while the connection stands (`Carries`). `FramesInv` ties
this to the calls: a request is on its way until it is handled, a reply until
the client has it. Pieces can be cut and joined (`SliceCut`, `SliceJoin`), a
complete part is the header, the body or the checksum (`PartIs`), so nothing is
refused and what arrives is the message that was sent. Each step is then one of
`Exchange` or leaves it alone (`FramesStep`).

Model-checked only: liveness under fairness (`ShutdownCompletes`,
`DeathIsFenced`, `AllSettle`, `CallsReturn`), which is outside what TLAPS proves.
Every other property of the passing runs has a theorem.

## Not modelled

- The epoch is compared, stored, saved and printed; no decision reads it. The
  backpressure intent carries it to callers that never look at it.
- `query_residual_capacity` returns what `Capacity` computes. The target shares
  of `evaluate_fairness` are arithmetic on weights that no decision reads.
  `snapshot` searches `upstream_domains`, which nothing fills.
- `BackpressureAction::is_current`, `WeightedByteBudget`, `DomainInfluence` and
  `decode_frame` have no caller outside tests and benchmarks.
- The byte format of the file (`persistence.hpp`): a file is refused by its
  checksums or holds what was saved. Framing, where partial reads matter, is
  modelled.
- Provenance, scores, explanations and other fields that no decision reads.
- Pointers that `domain()`, `flow()` and `current_episode()` return are used
  after the lock is released; the models copy at the moment of the call.
- Requests of a single kind from the command line, the CUDA transfers
  themselves, the examples and the benchmarks: sequential drivers without state
  of their own.
