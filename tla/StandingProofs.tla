---------------------------- MODULE StandingProofs ----------------------------
(***************************************************************************)
(* A process in good standing is served, for every set of processes whose  *)
(* boots and sources the engine can tell apart and whose domains and flows *)
(* fit its limits.                                                         *)
(***************************************************************************)
EXTENDS DeploymentProofs

-----------------------------------------------------------------------------
(* The tables have room for what the processes ask for.                    *)

\* The limits of the engine are not below what the scenarios can use.
RoomForAll ==
    /\ IsFiniteSet(Processes)
    /\ Cardinality({p \in Processes : Creates(p)}) <= MaxDomains
    /\ Cardinality({p \in Processes : Declares(p)}) <= MaxActiveFlows

\* The request in this place has been answered.
Past(p, k) == at[p] > k \/ (at[p] = k /\ wire[p] # "request")

Created == {p \in Processes : Creates(p) /\ Past(p, 2)}
Declared == {p \in Processes : Declares(p) /\ Past(p, First(p))}

\* There are no more domains and live flows than requests for them that were answered.
RoomInv ==
    /\ Cardinality(DOMAIN members) <= Cardinality(Created)
    /\ active_flows <= Cardinality(Declared)

\* If the process asks for a domain or a flow in this step, there is room for it.
HasRoom(q) ==
    /\ Create(q) => ~(Cardinality(DOMAIN members) >= MaxDomains)
    /\ Declare(q) => ~(active_flows >= MaxActiveFlows)

\* What has been answered has been answered for good.
LEMMA PastStays ==
  ASSUME ProcessInv, ClientInv, NEW p \in Processes, NEW k \in Nat, k >= 1,
         [DeploymentNext]_deploymentVars, Past(p, k)
  PROVE  Past(p, k)'
<1>0. at \in [Processes -> Nat] /\ p \in DOMAIN wire /\ at[p] \in Nat
  BY Zenon DEF ProcessInv
<1>1. ASSUME at'[p] = at[p], wire'[p] = wire[p] \/ wire'[p] # "request" PROVE Past(p, k)'
  BY <1>1, Zenon DEF Past
<1>2. CASE UNCHANGED deploymentVars
  BY <1>1, <1>2, Zenon DEF deploymentVars, processVars
<1>3. CASE Start(p)
  <2>1. at[p] = 0
    BY <1>3, Zenon DEF Start, ClientInv
  <2>2. ~Past(p, k)
    BY <2>1 DEF Past
  <2> QED
    BY <2>2, Zenon
<1>4. CASE Continue(p)
  <2>1. \/ at'[p] = at[p] /\ wire'[p] = "none"
        \/ at'[p] = at[p] + 1
    BY <1>0, <1>4, Zenon DEF Continue
  <2>2. CASE at'[p] = at[p] + 1
    <3>1. at[p] >= k
      BY <1>0 DEF Past
    <3>2. at'[p] > k
      BY <1>0, <2>2, <3>1
    <3> QED
      BY <3>2, Zenon DEF Past
  <2> QED
    BY <1>1, <2>1, <2>2, Zenon
<1>5. CASE Kill(p) \/ Register(p) \/ EndSession(p)
  BY <1>1, <1>5, Zenon DEF Kill, Register, EndSession
<1>6. ASSUME NEW a \in {"yes", "no"}, Answered(p, a) PROVE Past(p, k)'
  BY <1>0, <1>1, <1>6, Zenon DEF Answered
<1>7. CASE RegisterItsSource(p)
  BY <1>6, <1>7, Zenon DEF RegisterItsSource
<1>8. CASE SessionStep(p)
  BY <1>5, <1>6, <1>7, <1>8, SessionKinds, Zenon
<1>9. ASSUME NEW q \in Processes, q # p, Start(q) \/ Kill(q) \/ Continue(q) \/ SessionStep(q)
      PROVE  Past(p, k)'
  BY <1>1, <1>9, OthersSame, Zenon DEF Own
<1> QED
  BY <1>2, <1>3, <1>4, <1>5, <1>8, <1>9, Zenon DEF DeploymentNext

\* Where a request is received, its place has not been answered, and then it has.
LEMMA ReceivedAt ==
  ASSUME ProcessInv, ClientInv, PlaceInv, NEW p \in Processes, NEW r, Receives(p, r),
         r # "REGISTER",
         \/ Options[p].scenario # "replay"
         \/ r \in {"CREATE", "DECLARE", "ADMIT", "START"}
  PROVE  /\ Options[p].scenario # "replay" /\ Declares(p)
         /\ at[p] \in 1..Len(Requests[p]) /\ Placed(p, at[p], r)
         /\ ~Past(p, at[p])
         /\ \A a \in {"yes", "no"} : Answered(p, a) => Past(p, at[p])'
<1>1. /\ session[p] = "serving" /\ wire[p] = "request" /\ r = Requests[p][at[p]]
      /\ at[p] \in Nat /\ p \in DOMAIN wire
  BY Zenon DEF Receives, Request, ProcessInv
<1>2. at[p] >= 1 /\ at[p] <= Len(Requests[p]) /\ Len(Requests[p]) \in Nat
  BY <1>1, RegisterOnce, Zenon DEF PlaceInv, InPlace, ProcessInv
<1>3. PICK n : n = Len(Requests[p])
  BY Zenon
<1>4. at[p] \in 1..n
  BY <1>1, <1>2, <1>3
<1>5. Options[p].scenario # "replay"
  <2> SUFFICES ASSUME Options[p].scenario = "replay" PROVE FALSE
    OBVIOUS
  <2>1. n = 4 /\ Requests[p][1] = "REGISTER" /\ Requests[p][2] = "OFFERED"
        /\ Requests[p][3] = "PROGRESS" /\ Requests[p][4] = "COMPLETE"
    BY <1>3, ReplayRequests, Zenon
  <2>2. at[p] = 1 \/ at[p] = 2 \/ at[p] = 3 \/ at[p] = 4
    BY <1>4, <2>1
  <2> QED
    BY <1>1, <2>1, <2>2, Zenon
<1>6. Placed(p, at[p], r)
  BY <1>1, <1>3, <1>4, <1>5, PlaceOf, Zenon
<1>7. Declares(p)
  BY <1>6, Zenon DEF Placed
<1>8. ~Past(p, at[p])
  BY <1>1 DEF Past
<1>9. ASSUME NEW a \in {"yes", "no"}, Answered(p, a) PROVE Past(p, at[p])'
  BY <1>1, <1>9, Zenon DEF Answered, Past
<1> QED
  BY <1>3, <1>4, <1>5, <1>6, <1>7, <1>8, <1>9, Zenon

\* Only CREATE adds a domain, and only DECLARE a live flow.
LEMMA OnlyAsked ==
  ASSUME FlowTypeOK, NEW q \in Processes,
         Start(q) \/ Kill(q) \/ Continue(q) \/ SessionStep(q)
  PROVE  /\ \/ DOMAIN members' = DOMAIN members
            \/ Create(q) /\ DOMAIN members' = DOMAIN members \cup {next_domain}
         /\ \/ active_flows' = active_flows \/ active_flows' = Decremented
            \/ Declare(q) /\ active_flows' = active_flows + 1
<1> DEFINE Domains == \/ DOMAIN members' = DOMAIN members
                      \/ Create(q) /\ DOMAIN members' = DOMAIN members \cup {next_domain}
           Actives == \/ active_flows' = active_flows \/ active_flows' = Decremented
                      \/ Declare(q) /\ active_flows' = active_flows + 1
<1>1. CASE UNCHANGED flowVars
  BY <1>1, Zenon DEF flowVars
<1>2. CASE Register(q) \/ RegisterItsSource(q)
  BY <1>2, Zenon DEF Register, RegisterItsSource, RegisterWorker, RegisterSource, flowVars
<1>3. CASE Create(q)
  BY <1>3, Zenon DEF Create, CreateDomain, flowVars
<1>4. CASE Declare(q)
  BY <1>4, Zenon DEF Declare, DeclareFlow, flowVars
<1>5. CASE Admit(q) \/ StartIt(q) \/ Progress(q) \/ Complete(q)
  <2>1. Domains
    BY <1>5, CallsKeepIds, Zenon
  <2>2. CASE AdmitFlow(Ref(q)) \/ StartFlow(Ref(q), Options[q].boot)
    BY <2>1, <2>2, Zenon DEF AdmitFlow, StartFlow
  <2>3. CASE FlowProgress(Ref(q), Options[q].boot, Options[q].bytes)
    BY <2>1, <2>3, Zenon DEF FlowProgress
  <2>4. CASE FlowComplete(Ref(q), Options[q].boot)
    BY <2>1, <2>4, Zenon DEF FlowComplete
  <2> QED
    BY <1>1, <1>5, <2>2, <2>3, <2>4, Zenon DEF Admit, StartIt, Progress, Complete, FlowCall
<1>6. CASE EndSession(q)
  BY <1>6, Zenon DEF EndSession, FenceBoot, FenceWorker, flowVars
<1>7. CASE Start(q) \/ Kill(q) \/ Continue(q)
  BY <1>1, <1>7, Zenon DEF Start, Kill, Continue
<1>8. CASE Query(q) \/ Publish(q, "OFFERED", "offered") \/ Publish(q, "SERVICED", "serviced")
  BY <1>1, <1>8, Zenon DEF Query, Publish
<1> HIDE DEF Domains, Actives
<1>9. Domains /\ Actives
  BY <1>2, <1>3, <1>4, <1>5, <1>6, <1>7, <1>8, Zenon DEF SessionStep, Domains, Actives
<1> QED
  BY <1>9, Zenon DEF Domains, Actives

\* A request for a domain or a flow has not been answered when it is received, and is
\* among the answered ones afterwards.
LEMMA AskedOnce ==
  ASSUME ProcessInv, ClientInv, PlaceInv, NEW q \in Processes
  PROVE  /\ Create(q) => q \notin Created /\ q \in Created'
         /\ Declare(q) => q \notin Declared /\ q \in Declared'
<1>1. ASSUME Create(q) PROVE q \notin Created /\ q \in Created'
  <2>1. Receives(q, "CREATE") /\ \E a \in {"yes", "no"} : Answered(q, a)
    BY <1>1, Zenon DEF Create
  <2>2. /\ Placed(q, at[q], "CREATE") /\ ~Past(q, at[q]) /\ Past(q, at[q])'
    BY <2>1, ReceivedAt, Zenon
  <2>3. at[q] = 2 /\ Creates(q)
    BY <2>2, Zenon DEF Placed
  <2>4. at'[q] = at[q]
    BY <2>1, Zenon DEF Answered
  <2> QED
    BY <2>2, <2>3, <2>4, Zenon DEF Created, Past, Creates
<1>2. ASSUME Declare(q) PROVE q \notin Declared /\ q \in Declared'
  <2>1. Receives(q, "DECLARE") /\ \E a \in {"yes", "no"} : Answered(q, a)
    BY <1>2, Zenon DEF Declare
  <2>2. /\ Placed(q, at[q], "DECLARE") /\ ~Past(q, at[q]) /\ Past(q, at[q])' /\ Declares(q)
    BY <2>1, ReceivedAt, Zenon
  <2>3. at[q] = First(q)
    BY <2>2, Zenon DEF Placed
  <2>4. at'[q] = at[q]
    BY <2>1, Zenon DEF Answered
  <2> QED
    BY <2>2, <2>3, <2>4, Zenon DEF Declared, Past, Declares, First, Creates
<1> QED
  BY <1>1, <1>2, Zenon

-----------------------------------------------------------------------------
(* A process in good standing is served.                                   *)

\* Sources are not shared by workers, and go with the boots of their worker.
SourcesFollow ==
    \A p, q \in Processes : p # q /\ Options[p].source = Options[q].source =>
        /\ Options[p].worker = Options[q].worker
        /\ Options[q].boot < Options[p].boot => Options[q].sboot < Options[p].sboot

\* No process of the same worker with the same or a newer boot has started.
Newest(p) ==
    \A q \in Processes \ {p} :
        Options[q].worker = Options[p].worker /\ at[q] > 0 => Options[q].boot < Options[p].boot

Standing(p) == Options[p].scenario # "replay" /\ session[p] # "ended" /\ Newest(p)

\* REGISTER was granted.
Accepted(p) == /\ at[p] > 1 \/ (at[p] = 1 /\ wire[p] = "yes")
               /\ "REGISTER" \notin refused[p]

\* The engine has the boots of the process as current.
HasBoots(p) ==
    /\ agreed[p] => worker_boot[Options[p].worker] = Options[p].boot
    /\ Accepted(p) => agreed[p] /\ source_boot[Options[p].source] = Options[p].sboot

\* Nothing was refused, unless there is no domain to declare a flow in.
NotRefused(p) ==
    Accepted(p) /\ at[p] > 1 =>
        /\ did[p] # 0 \/ Creates(p) => refused[p] = {} /\ wire[p] # "no"
        /\ did[p] = 0 => at[p] = 2 /\ wire[p] # "yes" /\ client[p] # "stays"

\* The flow of the process is as far as the process has come.
FlowAt(p, f) ==
    LET o == Options[p]
        admitted == Past(p, First(p) + 1)
        started == Past(p, First(p) + 2)
    IN  /\ f.generation = 1 /\ f.owner_worker = o.worker /\ f.owner_boot = o.boot
        /\ f.domain = did[p] /\ f.submitted = o.bytes
        /\ f.state = IF started THEN "ACTIVE" ELSE IF admitted THEN "ADMITTED" ELSE "DECLARED"
        /\ f.admitted = IF admitted THEN o.bytes ELSE 0
        /\ f.in_flight = IF started THEN o.bytes ELSE 0

HasFlow(p) ==
    Accepted(p) /\ did[p] # 0 /\ Past(p, First(p)) => fid[p] # 0 /\ FlowAt(p, flows[fid[p]])

InService(p) == HasBoots(p) /\ NotRefused(p) /\ HasFlow(p)

StandingInv == \A p \in Processes : Standing(p) => InService(p)

\* Good standing is lost for good.
LEMMA StandingBefore ==
  ASSUME ProcessInv, ClientInv, NEW p \in Processes, Standing(p)',
         [DeploymentNext]_deploymentVars
  PROVE  Standing(p)
<1>0. /\ at \in [Processes -> Nat] /\ DOMAIN session = Processes
  BY Zenon DEF ProcessInv
<1>1. ASSUME NEW q \in Processes
      PROVE  (at[q] > 0 => at'[q] > 0) /\ (session[q] = "ended" => session'[q] = "ended")
  <2>1. CASE UNCHANGED deploymentVars
    BY <2>1, Zenon DEF deploymentVars, processVars
  <2>2. CASE Start(q)
    <3>1. at[q] = 0 /\ session[q] = "none"
      BY <2>2, Zenon DEF Start, ClientInv
    <3> QED
      BY <3>1
  <2>3. CASE Continue(q)
    <3>1. (at'[q] = at[q] \/ at'[q] = at[q] + 1) /\ UNCHANGED session
      BY <1>0, <2>3, Zenon DEF Continue
    <3>2. at[q] \in Nat
      BY <1>0, Zenon
    <3>3. at[q] > 0 => at'[q] > 0
      BY <3>1, <3>2
    <3> QED
      BY <3>1, <3>3, Zenon
  <2>4. CASE Kill(q) \/ EndSession(q)
    BY <1>0, <2>4, Zenon DEF Kill, EndSession
  <2>5. CASE Register(q) \/ RegisterItsSource(q)
    <3>1. session[q] # "ended" /\ UNCHANGED at
      BY <2>5, Zenon DEF Register, RegisterItsSource, Receives, Answered
    <3> QED
      BY <3>1, Zenon
  <2>6. CASE SessionStep(q)
    BY <2>4, <2>5, <2>6, SessionKinds, Zenon DEF Answered
  <2>7. ASSUME NEW r \in Processes, r # q, Start(r) \/ Kill(r) \/ Continue(r) \/ SessionStep(r)
        PROVE  at'[q] = at[q] /\ session'[q] = session[q]
    BY <2>7, OthersSame, Zenon DEF Own
  <2> QED
    BY <2>1, <2>2, <2>3, <2>4, <2>6, <2>7, Zenon DEF DeploymentNext
<1> QED
  BY <1>1, Zenon DEF Standing, Newest

\* A session that takes a step beside one in good standing has an older boot.
LEMMA OlderSteps ==
  ASSUME ProcessInv, NEW p \in Processes, Standing(p), NEW q \in Processes, q # p,
         SessionStep(q), Options[q].worker = Options[p].worker
  PROVE  Options[q].boot < Options[p].boot
<1>1. session[q] \in {"serving", "register_source"}
  BY SessionKinds, Zenon DEF Register, RegisterItsSource, EndSession, Receives
<1>2. at[q] >= 1 /\ at[q] \in Nat
  BY <1>1, Zenon DEF ProcessInv
<1>3. at[q] > 0
  BY <1>2
<1> QED
  BY <1>3, Zenon DEF Standing, Newest

\* Two processes with the same boot are of the same worker, so none of the other processes
\* that takes a step has the boot of one in good standing.
LEMMA OtherBoots ==
  ASSUME BootsTellApart, ProcessInv, NEW p \in Processes, Standing(p), NEW q \in Processes,
         q # p, SessionStep(q)
  PROVE  Options[q].boot # Options[p].boot
<1>1. Options[q].boot \in Nat /\ Options[p].boot \in Nat
  BY OptionFields DEF Boots
<1>2. Options[q].boot = Options[p].boot => Options[q].boot < Options[p].boot
  BY OlderSteps, Zenon DEF BootsTellApart
<1> QED
  BY <1>1, <1>2

\* Only these requests and the end of a session change what the engine has as current.
LEMMA BootsChange ==
  ASSUME NEW q \in Processes, Start(q) \/ Kill(q) \/ Continue(q) \/ SessionStep(q)
  PROVE  \/ UNCHANGED <<worker_boot, source_boot>>
         \/ SessionStep(q) /\ (Register(q) \/ RegisterItsSource(q) \/ EndSession(q))
<1>1. CASE UNCHANGED flowVars
  BY <1>1, Zenon DEF flowVars
<1>2. CASE Start(q) \/ Kill(q) \/ Continue(q)
  BY <1>1, <1>2, Zenon DEF Start, Kill, Continue
<1>3. CASE Query(q) \/ Publish(q, "OFFERED", "offered") \/ Publish(q, "SERVICED", "serviced")
  BY <1>1, <1>3, Zenon DEF Query, Publish
<1>4. CASE Create(q) \/ Declare(q)
  BY <1>4, Zenon DEF Create, Declare, CreateDomain, DeclareFlow, flowVars
<1>5. CASE Admit(q) \/ StartIt(q) \/ Progress(q) \/ Complete(q)
  <2>1. (\E id, f : ReplaceFlow(id, f)) \/ UNCHANGED flowVars
    BY <1>5, OperationsReplace, Zenon DEF Admit, StartIt, Progress, Complete, FlowCall
  <2> QED
    BY <2>1, Zenon DEF ReplaceFlow, flowVars
<1> QED
  BY <1>2, <1>3, <1>4, <1>5, Zenon DEF SessionStep

\* The boots of a process in good standing stay current whatever the others do: what
\* registers beside it is older, and a session that ends late has an older boot to fence.
LEMMA BootsKept ==
  ASSUME SourcesFollow, FlowTypeOK, ProcessInv, NEW p \in Processes, Standing(p),
         NEW q \in Processes, q # p, Start(q) \/ Kill(q) \/ Continue(q) \/ SessionStep(q),
         worker_boot[Options[p].worker] = Options[p].boot
  PROVE  /\ worker_boot'[Options[p].worker] = Options[p].boot
         /\ source_boot[Options[p].source] = Options[p].sboot
              => source_boot'[Options[p].source] = Options[p].sboot
<1> DEFINE o == Options[p]
           e == Options[q]
<1>0. /\ o.boot \in Nat /\ e.boot \in Nat /\ o.sboot \in Nat /\ e.sboot \in Nat
      /\ o.worker \in Workers /\ e.worker \in Workers
      /\ o.source \in Sources /\ e.source \in Sources
      /\ DOMAIN worker_boot = Workers /\ DOMAIN source_boot = Sources
  <2>1. o.boot \in Boots /\ e.boot \in Boots /\ o.sboot \in Boots /\ e.sboot \in Boots
    BY OptionFields, Zenon
  <2>2. Boots \subseteq Nat
    BY DEF Boots
  <2> QED
    BY <2>1, <2>2, OptionFields, Zenon DEF FlowTypeOK
<1>1. ASSUME SessionStep(q), e.worker = o.worker PROVE e.boot < o.boot
  BY <1>1, OlderSteps, Zenon
<1>2. CASE SessionStep(q) /\ Register(q)
  <2>1. CASE RegisterWorker(e.worker, e.boot)
    <3>1. e.worker # o.worker
      <4>1. worker_boot[e.worker] < e.boot
        BY <2>1, Zenon DEF RegisterWorker
      <4> QED
        BY <1>0, <1>1, <1>2, <4>1
    <3> QED
      BY <1>0, <2>1, <3>1, Zenon DEF RegisterWorker
  <2> QED
    BY <1>2, <2>1, Zenon DEF Register, flowVars
<1>3. CASE SessionStep(q) /\ RegisterItsSource(q)
  <2>1. CASE RegisterSource(e.source, e.sboot)
    <3>1. source_boot[o.source] = o.sboot => e.source # o.source
      <4>1. source_boot[e.source] < e.sboot
        BY <2>1, Zenon DEF RegisterSource
      <4>2. e.source = o.source => e.sboot < o.sboot
        BY <1>1, <1>3, Zenon DEF SourcesFollow
      <4> QED
        BY <1>0, <4>1, <4>2
    <3> QED
      BY <1>0, <2>1, <3>1, Zenon DEF RegisterSource
  <2> QED
    BY <1>3, <2>1, Zenon DEF RegisterItsSource, flowVars
<1>4. CASE SessionStep(q) /\ EndSession(q)
  <2>1. CASE Current(ctx[q]) /\ FenceWorker(ctx[q][1], ctx[q][2])
    <3>1. ctx[q] = Identity(q)
      BY <2>1, Zenon DEF Current, ProcessInv
    <3>2. FenceWorker(e.worker, e.boot)
      <4>1. ctx[q][1] = e.worker /\ ctx[q][2] = e.boot
        BY <3>1 DEF Identity
      <4> QED
        BY <2>1, <4>1, Zenon
    <3>3. worker_boot[e.worker] = e.boot
      BY <3>2, Zenon DEF FenceWorker
    <3>4. e.worker # o.worker
      BY <1>0, <1>1, <1>4, <3>3
    <3> QED
      BY <1>0, <3>2, <3>4, Zenon DEF FenceWorker
  <2> QED
    BY <1>4, <2>1, Zenon DEF EndSession, FenceBoot, flowVars
<1> QED
  BY <1>2, <1>3, <1>4, BootsChange, Zenon

\* The flow of a process in good standing is touched by no other: the others name flows
\* of their own, a replay has another boot than the owner of the flow it names, and so has
\* a session that ends.
LEMMA FlowKept ==
  ASSUME BootsTellApart, FlowTypeOK, ProcessInv, ClientInv, PlaceInv, ToldInv,
         NEW p \in Processes, Standing(p), NEW q \in Processes, q # p,
         Start(q) \/ Kill(q) \/ Continue(q) \/ SessionStep(q),
         fid[p] # 0, flows[fid[p]].owner_boot = Options[p].boot
  PROVE  flows'[fid[p]] = flows[fid[p]]
<1> DEFINE i == fid[p]
<1>0. i \in DOMAIN flows /\ (SessionStep(q) => Options[q].boot # Options[p].boot)
  BY OtherBoots, Zenon DEF ToldInv
<1>1. CASE UNCHANGED flowVars
  BY <1>1, Zenon DEF flowVars
<1>2. CASE Start(q) \/ Kill(q) \/ Continue(q)
  BY <1>1, <1>2, Zenon DEF Start, Kill, Continue
<1>3. CASE Query(q) \/ Publish(q, "OFFERED", "offered") \/ Publish(q, "SERVICED", "serviced")
  BY <1>1, <1>3, Zenon DEF Query, Publish
<1>4. CASE Register(q) \/ RegisterItsSource(q)
  BY <1>4, Zenon DEF Register, RegisterItsSource, RegisterWorker, RegisterSource, flowVars
<1>5. CASE Create(q)
  BY <1>5, Zenon DEF Create, CreateDomain, flowVars
<1>6. CASE Declare(q)
  <2>1. i # next_flow
    BY <1>0, LimitsAssumption DEF FlowTypeOK
  <2> QED
    BY <1>0, <1>6, <2>1, Zenon DEF Declare, DeclareFlow, flowVars
<1>7. ASSUME NEW id, NEW f, ReplaceFlow(id, f), id # i PROVE flows'[i] = flows[i]
  BY <1>0, <1>7, Zenon DEF ReplaceFlow
<1>8. ASSUME Options[q].scenario # "replay" PROVE Ref(q).id # i
  <2>1. Ref(q).id = fid[q]
    BY <1>8, Zenon DEF Ref
  <2> QED
    BY <2>1, Zenon DEF ToldInv
<1>9. CASE Admit(q)
  <2>1. Options[q].scenario # "replay"
    BY <1>9, ReceivedAt, Zenon DEF Admit
  <2>2. CASE AdmitFlow(Ref(q))
    BY <1>7, <1>8, <2>1, <2>2, Zenon DEF AdmitFlow
  <2> QED
    BY <1>1, <1>9, <2>2, Zenon DEF Admit, FlowCall
<1>10. ASSUME SessionStep(q), StartIt(q) \/ Progress(q) \/ Complete(q)
       PROVE  flows'[i] = flows[i]
  <2>1. flows[Ref(q).id].owner_boot = Options[q].boot => Ref(q).id # i
    BY <1>0, <1>10, Zenon
  <2>2. CASE StartFlow(Ref(q), Options[q].boot)
    BY <1>7, <2>1, <2>2, Zenon DEF StartFlow
  <2>3. CASE FlowProgress(Ref(q), Options[q].boot, Options[q].bytes)
    BY <1>7, <2>1, <2>3, Zenon DEF FlowProgress
  <2>4. CASE FlowComplete(Ref(q), Options[q].boot)
    BY <1>7, <2>1, <2>4, Zenon DEF FlowComplete
  <2> QED
    BY <1>1, <1>10, <2>2, <2>3, <2>4, Zenon DEF StartIt, Progress, Complete, FlowCall
<1>11. ASSUME SessionStep(q), EndSession(q) PROVE flows'[i] = flows[i]
  <2>1. CASE Current(ctx[q]) /\ FenceWorker(ctx[q][1], ctx[q][2])
    <3>1. ctx[q][2] = Options[q].boot
      <4>1. ctx[q] = Identity(q)
        BY <2>1, Zenon DEF Current, ProcessInv
      <4> QED
        BY <4>1 DEF Identity
    <3>2. flows[i].owner_boot # ctx[q][2]
      BY <1>0, <1>11, <3>1, Zenon
    <3> QED
      BY <1>0, <2>1, <3>2, Zenon DEF FenceWorker, MarkLive
  <2> QED
    BY <1>1, <1>11, <2>1, Zenon DEF EndSession, FenceBoot
<1> QED
  BY <1>2, <1>3, <1>4, <1>5, <1>6, <1>9, <1>10, <1>11, Zenon DEF SessionStep

\* What a process was told is its own.
LEMMA OthersTold ==
  ASSUME ToldInv, NEW p \in Processes, NEW q \in Processes, q # p,
         Start(q) \/ Kill(q) \/ Continue(q) \/ SessionStep(q)
  PROVE  did'[p] = did[p] /\ fid'[p] = fid[p]
<1>0. DOMAIN did = Processes /\ DOMAIN fid = Processes
  BY Zenon DEF ToldInv
<1>1. CASE Start(q) \/ Kill(q) \/ Query(q) \/ Register(q) \/ RegisterItsSource(q) \/ EndSession(q)
  BY <1>1, Zenon DEF Start, Kill, Query, Register, RegisterItsSource, EndSession
<1>2. CASE Continue(q)
  BY <1>0, <1>2, Zenon DEF Continue
<1>3. CASE Create(q)
  BY <1>0, <1>3, Zenon DEF Create
<1>4. CASE Declare(q)
  BY <1>0, <1>4, Zenon DEF Declare
<1>5. CASE Admit(q) \/ StartIt(q) \/ Progress(q) \/ Complete(q)
  BY <1>5, Zenon DEF Admit, StartIt, Progress, Complete, FlowCall
<1>6. CASE Publish(q, "OFFERED", "offered") \/ Publish(q, "SERVICED", "serviced")
  BY <1>6, Zenon DEF Publish
<1> QED
  BY <1>1, <1>2, <1>3, <1>4, <1>5, <1>6, Zenon DEF SessionStep

\* A step of another process keeps one in good standing as it is.
LEMMA StandingOthers ==
  ASSUME BootsTellApart, SourcesFollow, FlowTypeOK, ProcessInv, ClientInv, PlaceInv, ToldInv,
         NEW p \in Processes, Standing(p), InService(p), NEW q \in Processes, q # p,
         Start(q) \/ Kill(q) \/ Continue(q) \/ SessionStep(q)
  PROVE  InService(p)'
<1>1. /\ at'[p] = at[p] /\ client'[p] = client[p] /\ wire'[p] = wire[p]
      /\ agreed'[p] = agreed[p] /\ refused'[p] = refused[p]
      /\ did'[p] = did[p] /\ fid'[p] = fid[p]
  BY OthersSame, OthersTold, Zenon DEF Own
<1>2. Accepted(p)' <=> Accepted(p)
  BY <1>1, Zenon DEF Accepted
<1>3. HasBoots(p)'
  BY <1>1, <1>2, BootsKept, Zenon DEF InService, HasBoots
<1>4. NotRefused(p)'
  BY <1>1, <1>2, Zenon DEF InService, NotRefused
<1>5. HasFlow(p)'
  <2>1. \A k : Past(p, k)' <=> Past(p, k)
    BY <1>1, Zenon DEF Past
  <2>2. ASSUME NEW f PROVE FlowAt(p, f)' <=> FlowAt(p, f)
    BY <1>1, <2>1, Zenon DEF FlowAt
  <2>3. ASSUME fid[p] # 0, FlowAt(p, flows[fid[p]]) PROVE flows'[fid[p]] = flows[fid[p]]
    <3>1. flows[fid[p]].owner_boot = Options[p].boot
      BY <2>3, Zenon DEF FlowAt
    <3> QED
      BY <2>3, <3>1, FlowKept, Zenon
  <2> QED
    BY <1>1, <1>2, <2>1, <2>2, <2>3, Zenon DEF InService, HasFlow
<1> QED
  BY <1>3, <1>4, <1>5, Zenon DEF InService

\* The process starts, is killed, or its session registers it.
LEMMA StandingRegister ==
  ASSUME FlowTypeOK, ProcessInv, ClientInv, PlaceInv, NEW p \in Processes, InService(p),
         Start(p) \/ Kill(p) \/ Register(p) \/ RegisterItsSource(p)
  PROVE  InService(p)'
<1> DEFINE o == Options[p]
<1>0. /\ DOMAIN at = Processes /\ DOMAIN wire = Processes /\ DOMAIN client = Processes
      /\ DOMAIN agreed = Processes /\ at[p] \in Nat
      /\ o.worker \in DOMAIN worker_boot /\ o.source \in DOMAIN source_boot
  BY OptionFields, Zenon DEF ProcessInv, ClientInv, FlowTypeOK
<1>1. ASSUME at'[p] = 1, wire'[p] # "yes", agreed'[p] => worker_boot'[o.worker] = o.boot
      PROVE  InService(p)'
  <2>1. ~Accepted(p)'
    BY <1>1 DEF Accepted
  <2> QED
    BY <1>1, <2>1, Zenon DEF InService, HasBoots, NotRefused, HasFlow
<1>2. CASE Start(p)
  BY <1>0, <1>1, <1>2, Zenon DEF Start, ClientInv
<1>3. CASE Kill(p)
  <2>1. /\ UNCHANGED <<at, wire, agreed, refused, did, fid, worker_boot, source_boot, flows>>
        /\ client'[p] = "killed"
    BY <1>0, <1>3, Zenon DEF Kill, flowVars
  <2>2. HasBoots(p)' /\ NotRefused(p)'
    BY <2>1, Zenon DEF InService, HasBoots, NotRefused, Accepted
  <2>3. HasFlow(p)'
    BY <2>1, Zenon DEF InService, HasFlow, Accepted, FlowAt, Past
  <2> QED
    BY <2>2, <2>3, Zenon DEF InService
<1>4. CASE Register(p)
  <2>1. InPlace(p)' /\ session'[p] = "register_source"
    BY <1>4, PlaceOwnStep, Zenon DEF PlaceInv, Register, ProcessInv, SessionStep
  <2>2. at'[p] = 1 /\ wire'[p] = "request"
    BY <2>1, Zenon DEF InPlace
  <2>3. agreed'[p] => worker_boot'[o.worker] = o.boot
    <3>1. CASE RegisterWorker(o.worker, o.boot)
      BY <1>0, <3>1, Zenon DEF RegisterWorker
    <3>2. CASE UNCHANGED <<flowVars, agreed>>
      BY <3>2, Zenon DEF flowVars, InService, HasBoots
    <3> QED
      BY <1>4, <3>1, <3>2, Zenon DEF Register
  <2> QED
    BY <1>1, <2>2, <2>3, Zenon
<1>5. CASE RegisterItsSource(p)
  <2>1. at[p] = 1 /\ UNCHANGED <<at, agreed, worker_boot>>
    BY <1>5, Zenon
    DEF PlaceInv, InPlace, RegisterItsSource, Answered, RegisterSource, flowVars
  <2>2. agreed'[p] => worker_boot'[o.worker] = o.boot
    BY <2>1, Zenon DEF InService, HasBoots
  <2>3. CASE Answered(p, "no")
    BY <1>0, <1>1, <2>1, <2>2, <2>3, Zenon DEF Answered
  <2>4. CASE RegisterSource(o.source, o.sboot) /\ agreed[p]
    <3>1. HasBoots(p)'
      BY <1>0, <2>1, <2>2, <2>4, Zenon DEF RegisterSource, HasBoots
    <3>2. ~(at'[p] > 1) /\ ~Past(p, First(p))'
      BY <2>1 DEF Past, First, Creates
    <3> QED
      BY <3>1, <3>2, Zenon DEF InService, NotRefused, HasFlow
  <2> QED
    BY <1>5, <2>3, <2>4, Zenon DEF RegisterItsSource
<1> QED
  BY <1>2, <1>3, <1>4, <1>5, Zenon

\* The process reads an answer.
LEMMA StandingContinue ==
  ASSUME FlowTypeOK, ProcessInv, ClientInv, PlaceInv, ToldInv, NEW p \in Processes,
         Standing(p), InService(p), Continue(p)
  PROVE  InService(p)'
<1>1. PICK n : n = Len(Requests[p]) /\ n \in Nat
  BY RegisterOnce, Zenon
<1> DEFINE over == Stops(p) \/ at[p] = n
<1>2. /\ DOMAIN at = Processes /\ DOMAIN wire = Processes /\ DOMAIN client = Processes
      /\ DOMAIN refused = Processes /\ DOMAIN did = Processes /\ at[p] \in Nat
  BY Zenon DEF ProcessInv, ClientInv, ToldInv
<1>3. /\ client[p] = "waiting" /\ wire[p] \in {"yes", "no"}
      /\ at'[p] = IF over THEN at[p] ELSE at[p] + 1
      /\ wire'[p] = IF over THEN "none" ELSE "request"
      /\ client'[p] = IF ~over THEN "waiting" ELSE IF Stays(p) THEN "stays" ELSE "exited"
      /\ refused'[p] = IF wire[p] = "no" THEN refused[p] \cup {Request(p)} ELSE refused[p]
      /\ did'[p] = IF Request(p) = "REGISTER" /\ ~over THEN idfile ELSE did[p]
      /\ UNCHANGED <<worker_boot, source_boot, flows, agreed, fid>>
  BY <1>1, <1>2, Zenon DEF Continue, flowVars
<1>4. at[p] >= 1 /\ at[p] <= n /\ Options[p].scenario # "replay"
  BY <1>1, <1>3, Zenon DEF PlaceInv, InPlace, Standing
<1>5. at[p] \in 1..n /\ (at[p] = 1 \/ at[p] > 1)
  BY <1>1, <1>2, <1>4
<1>6. Placed(p, at[p], Request(p)) /\ First(p) \in {2, 3}
  BY <1>1, <1>4, <1>5, PlaceOf, Zenon DEF Request
<1>7. Request(p) = "REGISTER" <=> at[p] = 1
  BY <1>1, <1>5, RegisterFirst, RegisterOnce, Zenon DEF Request
<1>8. Accepted(p)' => Accepted(p)
  <2>1. CASE at[p] > 1
    BY <1>3, <2>1, Zenon DEF Accepted
  <2>2. CASE at[p] = 1
    BY <1>3, <1>7, <2>2, Zenon DEF Accepted
  <2> QED
    BY <1>5, <2>1, <2>2, Zenon
<1>9. HasBoots(p)'
  BY <1>3, <1>8, Zenon DEF InService, HasBoots
<1>10. CASE at[p] = 1
  <2>1. Accepted(p)' => wire[p] = "yes"
    BY <1>3, <1>7, <1>10, Zenon DEF Accepted
  <2>2. refused[p] = {}
    BY <1>3, <1>10, Zenon DEF PlaceInv, InPlace
  <2>3. at'[p] = 1 \/ (at'[p] = 2 /\ wire'[p] = "request" /\ client'[p] = "waiting")
    BY <1>3, <1>10
  <2>4. ~Past(p, First(p))'
    BY <1>6, <2>3 DEF Past, First, Creates
  <2>5. ~(1 > 1)
    OBVIOUS
  <2>6. NotRefused(p)'
    BY <1>3, <2>1, <2>2, <2>3, <2>5, Zenon DEF NotRefused
  <2> QED
    BY <1>9, <2>4, <2>6, Zenon DEF InService, HasFlow
<1>11. CASE at[p] > 1
  <2>1. did'[p] = did[p] /\ at[p] # 1
    BY <1>3, <1>7, <1>11
  <2>2. NotRefused(p)'
    <3>1. CASE did[p] # 0 \/ Creates(p)
      <4>1. Accepted(p) => wire[p] = "yes" /\ refused[p] = {} /\ did[p] # 0
        BY <1>3, <1>11, <3>1, Zenon DEF InService, NotRefused
      <4> QED
        BY <1>3, <1>8, <2>1, <4>1, Zenon DEF NotRefused
    <3>2. CASE did[p] = 0 /\ ~Creates(p)
      <4>1. Accepted(p) => at[p] = 2 /\ wire[p] = "no"
        BY <1>3, <1>11, <3>2, Zenon DEF InService, NotRefused
      <4>2. at[p] = 2 => Request(p) = "DECLARE"
        <5>1. First(p) = 2 /\ 2 # 2 + 1 /\ 2 # 2 + 2 /\ 2 # 2 + 3 /\ 2 # 2 + 4 /\ 2 # 2 + 5
          BY <3>2 DEF First
        <5> QED
          BY <1>6, <2>1, <3>2, <5>1, Zenon DEF Placed
      <4>3. Accepted(p) => Stops(p)
        BY <1>4, <4>1, <4>2, Zenon DEF Stops
      <4> QED
        BY <1>3, <1>8, <2>1, <3>2, <4>1, <4>3, Zenon DEF NotRefused, Stays, Creates
    <3> QED
      BY <3>1, <3>2, Zenon
  <2>3. ASSUME NEW k \in Nat PROVE Past(p, k)' <=> Past(p, k)
    BY <1>2, <1>3 DEF Past
  <2>4. First(p) \in Nat /\ First(p) + 1 \in Nat /\ First(p) + 2 \in Nat
    BY <1>6
  <2>5. FlowAt(p, flows[fid[p]]) => FlowAt(p, flows[fid[p]])'
    BY <1>3, <2>1, <2>3, <2>4, Zenon DEF FlowAt, First, Creates
  <2>6. HasFlow(p)'
    BY <1>3, <1>8, <2>1, <2>3, <2>4, <2>5, Zenon DEF InService, HasFlow, First, Creates
  <2> QED
    BY <1>9, <2>2, <2>6, Zenon DEF InService
<1> QED
  BY <1>5, <1>10, <1>11, Zenon

\* The session reads a request other than REGISTER: where in the scenario it is, and what
\* the answer changes.
LEMMA StandingAsks ==
  ASSUME ProcessInv, ClientInv, PlaceInv, NEW p \in Processes, Standing(p), InService(p),
         NEW r, Receives(p, r), r # "REGISTER", NEW a \in {"yes", "no"}, Answered(p, a)
  PROVE  /\ at[p] \in Nat /\ at[p] > 1 /\ Declares(p) /\ Placed(p, at[p], r)
         /\ First(p) \in {2, 3} /\ (Creates(p) => First(p) = 3)
         /\ Accepted(p) /\ at[p] # 2 => did[p] # 0
         /\ wire'[p] = a /\ Accepted(p)' = Accepted(p)
         /\ UNCHANGED <<at, client, agreed, refused>>
         /\ \A k \in Nat : (Past(p, k) <=> at[p] > k) /\ (Past(p, k)' <=> at[p] >= k)
<1>1. /\ session[p] = "serving" /\ wire[p] = "request" /\ Request(p) = r
      /\ at[p] \in Nat /\ p \in DOMAIN wire /\ Options[p].scenario # "replay"
  BY Zenon DEF Receives, ProcessInv, Standing
<1>2. /\ Declares(p) /\ Placed(p, at[p], r) /\ at[p] \in 1..Len(Requests[p])
      /\ First(p) \in {2, 3} /\ (Creates(p) => First(p) = 3)
  BY <1>1, ReceivedAt, PlaceOf, Zenon
<1>3. at[p] >= 1 /\ at[p] # 1
  BY <1>1, RegisterFirst, Zenon DEF PlaceInv, InPlace, ProcessInv, Request
<1>4. at[p] > 1
  BY <1>1, <1>3
<1>5. wire'[p] = a /\ UNCHANGED <<at, client, agreed, refused>>
  BY <1>1, Zenon DEF Answered
<1>6. Accepted(p)' = Accepted(p)
  BY <1>4, <1>5, Zenon DEF Accepted
<1>7. ASSUME NEW k \in Nat PROVE (Past(p, k) <=> at[p] > k) /\ (Past(p, k)' <=> at[p] >= k)
  <2>1. Past(p, k) <=> at[p] > k
    BY <1>1, Zenon DEF Past
  <2>2. Past(p, k)' <=> at[p] > k \/ at[p] = k
    BY <1>5, Zenon DEF Past
  <2> QED
    BY <1>1, <2>1, <2>2
<1>8. Accepted(p) /\ at[p] # 2 => did[p] # 0
  BY <1>4, Zenon DEF InService, NotRefused
<1> QED
  BY <1>1, <1>2, <1>4, <1>5, <1>6, <1>7, <1>8, Zenon

\* QUERY and the publications are answered with yes when the flow runs.
LEMMA StandingReports ==
  ASSUME FlowTypeOK, ProcessInv, ClientInv, PlaceInv, ToldInv, NEW p \in Processes,
         Standing(p), InService(p),
         \/ Query(p) \/ Publish(p, "OFFERED", "offered") \/ Publish(p, "SERVICED", "serviced")
  PROVE  InService(p)'
<1>1. PICK r \in {"QUERY", "OFFERED", "SERVICED"}, a \in {"yes", "no"} :
           /\ Receives(p, r) /\ Answered(p, a)
           /\ a = "no" => ~(Current(ctx[p]) /\ did[p] \in DOMAIN rates)
  <2>1. Options[p].scenario # "replay"
    BY Zenon DEF Standing
  <2>2. CASE Query(p)
    BY <2>2, Zenon DEF Query
  <2>3. ASSUME NEW x, NEW r \in {"OFFERED", "SERVICED"}, Publish(p, r, x)
        PROVE  \E a \in {"yes", "no"} :
                  /\ Receives(p, r) /\ Answered(p, a)
                  /\ a = "no" => ~(Current(ctx[p]) /\ did[p] \in DOMAIN rates)
    BY <2>1, <2>3, Zenon DEF Publish
  <2> QED
    BY <2>2, <2>3, Zenon
<1>2. UNCHANGED <<worker_boot, source_boot, flows, did, fid>>
  BY Zenon DEF Query, Publish, flowVars
<1>3. /\ at[p] \in Nat /\ at[p] > 1 /\ Placed(p, at[p], r) /\ First(p) \in {2, 3}
      /\ Accepted(p) /\ at[p] # 2 => did[p] # 0
      /\ wire'[p] = a /\ Accepted(p)' = Accepted(p)
      /\ UNCHANGED <<at, client, agreed, refused>>
      /\ \A k \in Nat : (Past(p, k) <=> at[p] > k) /\ (Past(p, k)' <=> at[p] >= k)
  BY <1>1, StandingAsks, Zenon
<1>4. at[p] = First(p) + 3 \/ at[p] = First(p) + 4 \/ at[p] = First(p) + 5
  BY <1>3, Zenon DEF Placed
<1>5. at[p] > First(p) + 2 /\ at[p] # 2
  BY <1>3, <1>4
<1>6. Accepted(p) => a = "yes"
  <2> SUFFICES ASSUME Accepted(p) PROVE Current(ctx[p]) /\ did[p] \in DOMAIN rates
    BY <1>1, Zenon
  <2>1. did[p] \in DOMAIN rates
    BY <1>3, <1>5, Zenon DEF ToldInv
  <2>2. ctx[p] = Identity(p) /\ worker_boot[Options[p].worker] = Options[p].boot
    BY <1>3, Zenon DEF ProcessInv, InService, HasBoots
  <2>3. Identity(p) # NoOwner /\ Identity(p)[1] = Options[p].worker
        /\ Identity(p)[2] = Options[p].boot
    BY IdentityKind DEF Identity
  <2> QED
    BY <2>1, <2>2, <2>3, Zenon DEF Current
<1>7. HasBoots(p)'
  BY <1>2, <1>3, Zenon DEF InService, HasBoots
<1>8. NotRefused(p)'
  BY <1>2, <1>3, <1>5, <1>6, Zenon DEF InService, NotRefused
<1>9. HasFlow(p)'
  <2>1. ASSUME NEW k \in {First(p), First(p) + 1, First(p) + 2} PROVE Past(p, k) /\ Past(p, k)'
    <3>1. k \in Nat /\ at[p] > k /\ at[p] >= k
      BY <1>3, <1>5
    <3> QED
      BY <1>3, <3>1, Zenon
  <2>2. FlowAt(p, flows[fid[p]]) => FlowAt(p, flows[fid[p]])'
    BY <1>2, <2>1, Zenon DEF FlowAt, First, Creates
  <2> QED
    BY <1>2, <1>3, <2>1, <2>2, Zenon DEF InService, HasFlow, First, Creates
<1> QED
  BY <1>7, <1>8, <1>9, Zenon DEF InService

\* CREATE is answered with yes.
LEMMA StandingCreate ==
  ASSUME FlowTypeOK, ProcessInv, ClientInv, PlaceInv, ToldInv,
         NEW p \in Processes, Standing(p), InService(p), Create(p), HasRoom(p)
  PROVE  InService(p)'
<1>1. CreateDomain /\ did' = [did EXCEPT ![p] = next_domain] /\ Answered(p, "yes")
  BY Zenon DEF HasRoom, Create
<1>2. Receives(p, "CREATE") /\ UNCHANGED <<worker_boot, source_boot>>
  BY <1>1, Zenon DEF Create, CreateDomain
<1>3. /\ at[p] \in Nat /\ at[p] > 1 /\ Placed(p, at[p], "CREATE")
      /\ wire'[p] = "yes" /\ Accepted(p)' = Accepted(p)
      /\ UNCHANGED <<at, client, agreed, refused>>
      /\ \A k \in Nat : (Past(p, k) <=> at[p] > k) /\ (Past(p, k)' <=> at[p] >= k)
  BY <1>1, <1>2, StandingAsks, Zenon
<1>4. at[p] = 2 /\ Creates(p) /\ First(p) = 3
  BY <1>3, Zenon DEF Placed, First
<1>5. did'[p] # 0
  <2>1. did'[p] = next_domain
    BY <1>1, Zenon DEF ToldInv
  <2> QED
    BY <2>1, LimitsAssumption DEF FlowTypeOK
<1>6. HasBoots(p)'
  BY <1>2, <1>3, Zenon DEF InService, HasBoots
<1>7. NotRefused(p)'
  BY <1>3, <1>4, <1>5, Zenon DEF InService, NotRefused
<1>8. ~Past(p, First(p))'
  <2>1. 3 \in Nat /\ ~(2 >= 3)
    OBVIOUS
  <2> QED
    BY <1>3, <1>4, <2>1, Zenon DEF First, Creates
<1> QED
  BY <1>6, <1>7, <1>8, Zenon DEF InService, HasFlow

\* DECLARE is answered with yes when there is a domain.
LEMMA StandingDeclare ==
  ASSUME FlowTypeOK, ProcessInv, ClientInv, PlaceInv, ToldInv,
         NEW p \in Processes, Standing(p), InService(p), Declare(p), HasRoom(p)
  PROVE  InService(p)'
<1> DEFINE o == Options[p]
           Granted == /\ DeclareFlow(o.worker, o.boot, o.source, o.sboot, did[p], o.bytes)
                      /\ fid' = [fid EXCEPT ![p] = next_flow]
                      /\ Answered(p, "yes")
           Denied == /\ \/ worker_boot[o.worker] # o.boot \/ source_boot[o.source] # o.sboot
                        \/ did[p] \notin DOMAIN members \/ active_flows >= MaxActiveFlows
                     /\ Answered(p, "no")
                     /\ UNCHANGED <<flowVars, fid>>
<1>1. Receives(p, "DECLARE") /\ (Granted \/ Denied) /\ UNCHANGED did
  BY Zenon DEF Declare
<1>2. PICK a \in {"yes", "no"} : Answered(p, a)
  BY <1>1, Zenon
<1>3. /\ at[p] \in Nat /\ at[p] > 1 /\ Placed(p, at[p], "DECLARE")
      /\ First(p) \in {2, 3} /\ (Creates(p) => First(p) = 3)
      /\ Accepted(p) /\ at[p] # 2 => did[p] # 0
      /\ wire'[p] = a /\ Accepted(p)' = Accepted(p)
      /\ UNCHANGED <<at, client, agreed, refused>>
      /\ \A k \in Nat : (Past(p, k) <=> at[p] > k) /\ (Past(p, k)' <=> at[p] >= k)
  BY <1>1, <1>2, StandingAsks, Zenon
<1>4. at[p] = First(p)
  BY <1>3, Zenon DEF Placed
<1>5. UNCHANGED <<worker_boot, source_boot>>
  BY <1>1, Zenon DEF DeclareFlow, flowVars
<1>6. HasBoots(p)'
  BY <1>3, <1>5, Zenon DEF InService, HasBoots
<1>7. CASE ~Accepted(p)
  BY <1>3, <1>6, <1>7, Zenon DEF InService, NotRefused, HasFlow
<1>8. CASE Accepted(p) /\ did[p] = 0
  <2>1. at[p] = 2 /\ ~Creates(p) /\ client[p] # "stays"
    BY SMTT(20), <1>3, <1>4, <1>8 DEF InService, NotRefused
  <2>2. 0 \notin DOMAIN members
    BY LimitsAssumption DEF FlowTypeOK
  <2>3. Answered(p, "no") /\ p \in DOMAIN wire
    BY <1>1, <1>8, <2>2, Zenon DEF DeclareFlow, ProcessInv
  <2>4. wire'[p] # "yes"
    BY <2>3, Zenon DEF Answered
  <2> QED
    BY <1>1, <1>3, <1>6, <1>8, <2>1, <2>4, Zenon DEF InService, NotRefused, HasFlow, Creates
<1>9. CASE Accepted(p) /\ did[p] # 0
  <2>1. /\ worker_boot[o.worker] = o.boot /\ source_boot[o.source] = o.sboot
        /\ did[p] \in DOMAIN members /\ refused[p] = {}
    BY <1>3, <1>9, Zenon DEF InService, HasBoots, NotRefused, ToldInv
  <2>2. ~(active_flows >= MaxActiveFlows)
    BY Zenon DEF HasRoom
  <2>3. Granted
    BY <1>1, <2>1, <2>2, Zenon
  <2>4. wire'[p] = "yes" /\ fid'[p] = next_flow
    BY <2>3, Zenon DEF Answered, ProcessInv, ToldInv
  <2>5. NotRefused(p)'
    BY <1>1, <1>3, <1>9, <2>1, <2>4, Zenon DEF NotRefused
  <2>6. ~Past(p, First(p) + 1)' /\ ~Past(p, First(p) + 2)'
    <3>1. /\ First(p) + 1 \in Nat /\ First(p) + 2 \in Nat
          /\ ~(at[p] >= First(p) + 1) /\ ~(at[p] >= First(p) + 2)
      BY <1>3, <1>4
    <3> QED
      BY <1>3, <3>1, Zenon
  <2>7. flows'[next_flow] =
           [generation |-> 1, owner_worker |-> o.worker, owner_boot |-> o.boot,
            source |-> o.source, source_boot |-> o.sboot, domain |-> did[p],
            state |-> "DECLARED", submitted |-> o.bytes, admitted |-> 0, in_flight |-> 0,
            completed |-> 0, failed |-> 0, cancelled |-> 0]
    BY <2>3, Zenon DEF DeclareFlow
  <2>8. FlowAt(p, flows[fid[p]])'
    <3>1. PICK f : f = flows'[next_flow]
      BY Zenon
    <3>2. /\ f.generation = 1 /\ f.owner_worker = o.worker /\ f.owner_boot = o.boot
          /\ f.domain = did[p] /\ f.submitted = o.bytes /\ f.state = "DECLARED"
          /\ f.admitted = 0 /\ f.in_flight = 0
      BY <2>7, <3>1
    <3>3. flows'[fid'[p]] = f
      BY <2>4, <3>1, Zenon
    <3> QED
      BY <1>1, <2>6, <3>2, <3>3, Zenon DEF FlowAt, First, Creates
  <2>9. next_flow # 0
    BY LimitsAssumption DEF FlowTypeOK
  <2> QED
    BY <1>6, <2>4, <2>5, <2>8, <2>9, Zenon DEF InService, HasFlow
<1> QED
  BY <1>7, <1>8, <1>9, Zenon

\* ADMIT and START are answered with yes, and the flow moves on.
LEMMA StandingFlow ==
  ASSUME FlowTypeOK, ProcessInv, ClientInv, PlaceInv, ToldInv,
         NEW p \in Processes, Standing(p), InService(p), Admit(p) \/ StartIt(p)
  PROVE  InService(p)'
<1> DEFINE o == Options[p]
           i == fid[p]
           f == flows[i]
<1>1. PICK r \in {"ADMIT", "START"}, a \in {"yes", "no"} : /\ Receives(p, r) /\ Answered(p, a)
                                                           /\ r = "ADMIT" => Admit(p)
                                                           /\ r = "START" => StartIt(p)
  BY Zenon DEF Admit, StartIt, FlowCall
<1>2. /\ at[p] \in Nat /\ at[p] > 1 /\ Placed(p, at[p], r) /\ First(p) \in {2, 3}
      /\ Accepted(p) /\ at[p] # 2 => did[p] # 0
      /\ wire'[p] = a /\ Accepted(p)' = Accepted(p)
      /\ UNCHANGED <<at, client, agreed, refused>>
      /\ \A k \in Nat : (Past(p, k) <=> at[p] > k) /\ (Past(p, k)' <=> at[p] >= k)
  BY <1>1, StandingAsks, Zenon
<1>3. /\ r = "ADMIT" => at[p] = First(p) + 1
      /\ r = "START" => at[p] = First(p) + 2
  BY <1>2, Zenon DEF Placed
<1>4. /\ First(p) \in Nat /\ First(p) + 1 \in Nat /\ First(p) + 2 \in Nat
      /\ at[p] # 2 /\ at[p] > First(p) /\ at[p] >= First(p)
      /\ r = "ADMIT" => /\ ~(at[p] > First(p) + 1) /\ at[p] >= First(p) + 1
                        /\ ~(at[p] > First(p) + 2) /\ ~(at[p] >= First(p) + 2)
      /\ r = "START" => /\ at[p] > First(p) + 1 /\ at[p] >= First(p) + 1
                        /\ ~(at[p] > First(p) + 2) /\ at[p] >= First(p) + 2
  BY <1>1, <1>2, <1>3
<1>5. /\ Past(p, First(p))
      /\ r = "ADMIT" => /\ ~Past(p, First(p) + 1) /\ Past(p, First(p) + 1)'
                        /\ ~Past(p, First(p) + 2) /\ ~Past(p, First(p) + 2)'
      /\ r = "START" => /\ Past(p, First(p) + 1) /\ Past(p, First(p) + 1)'
                        /\ ~Past(p, First(p) + 2) /\ Past(p, First(p) + 2)'
  BY <1>2, <1>4, Zenon
<1>6. UNCHANGED <<worker_boot, source_boot, did, fid>>
  BY Zenon DEF Admit, StartIt, FlowCall, AdmitFlow, StartFlow, ReplaceFlow, flowVars
<1>7. HasBoots(p)'
  BY <1>2, <1>6, Zenon DEF InService, HasBoots
<1>8. CASE ~Accepted(p)
  BY <1>2, <1>7, <1>8, Zenon DEF InService, NotRefused, HasFlow
<1>9. CASE Accepted(p)
  <2>1. did[p] # 0 /\ refused[p] = {} /\ i # 0 /\ FlowAt(p, f)
    BY <1>2, <1>4, <1>5, <1>9, Zenon DEF InService, NotRefused, HasFlow
  <2>2. /\ f.generation = 1 /\ f.owner_worker = o.worker /\ f.owner_boot = o.boot
        /\ f.domain = did[p] /\ f.submitted = o.bytes /\ f.in_flight = 0
        /\ r = "ADMIT" => f.state = "DECLARED" /\ f.admitted = 0
        /\ r = "START" => f.state = "ADMITTED" /\ f.admitted = o.bytes
    BY <1>1, <1>5, <2>1, Zenon DEF FlowAt
  <2>3. i \in DOMAIN flows /\ did[p] \in DOMAIN members /\ Ref(p).id = i /\ Ref(p).generation = 1
    BY <2>1, Zenon DEF ToldInv, Ref, Standing
  <2>4. Resolves(Ref(p))
    BY <2>2, <2>3, Zenon DEF Resolves
  <2>5. f \in Flow /\ o.bytes \in Nat /\ o.bytes \in U64
    <3>1. o.bytes \in U64
      BY OptionFields, LimitsAssumption, Zenon
    <3>2. f \in Flow
      BY <2>3, Zenon DEF FlowTypeOK
    <3> QED
      BY <3>1, <3>2, WidthAssumption DEF U64
  <2> DEFINE g == IF r = "ADMIT" THEN [f EXCEPT !.admitted = o.bytes, !.state = "ADMITTED"]
                                 ELSE [f EXCEPT !.state = "ACTIVE", !.in_flight = o.bytes]
  <2>6. a = "yes" /\ flows' = [flows EXCEPT ![i] = g]
    <3>1. CASE r = "ADMIT"
      <4>1. FlowTransitionAllowed("DECLARED", "ADMITTED")
        BY Zenon DEF FlowTransitionAllowed, FlowTransitions
      <4>2. AdmitFlow(Ref(p)) /\ Answered(p, "yes")
        BY <1>1, <2>2, <2>3, <2>4, <3>1, <4>1, Zenon DEF Admit, FlowCall
      <4>3. 0 + o.bytes = o.bytes /\ o.bytes <= o.bytes
        BY <2>5
      <4>4. flows' = [flows EXCEPT ![i] = [f EXCEPT !.admitted = o.bytes, !.state = "ADMITTED"]]
        <5>1. flows' = [flows EXCEPT ![i] =
                  [f EXCEPT !.admitted = f.admitted + f.submitted,
                            !.state = IF f.admitted + f.submitted <= f.submitted
                                      THEN "ADMITTED" ELSE f.state]]
          BY <2>3, <4>2, Zenon DEF AdmitFlow, ReplaceFlow
        <5>2. f.admitted + f.submitted = o.bytes /\ o.bytes <= f.submitted
          BY <2>2, <3>1, <4>3, Zenon
        <5> QED
          BY <5>1, <5>2, Zenon
      <4>5. a = "yes"
        BY <1>2, <4>2, Zenon DEF Answered, ProcessInv
      <4> QED
        BY <3>1, <4>4, <4>5, Zenon
    <3>2. CASE r = "START"
      <4>1. StartFlow(Ref(p), o.boot) /\ Answered(p, "yes")
        BY <1>1, <2>2, <2>3, <2>4, <3>2, Zenon DEF StartIt, FlowCall, OwnFlow
      <4>2. AddFits(0, o.bytes) /\ 0 + o.bytes = o.bytes
        BY <2>5, WidthAssumption DEF AddFits, U64
      <4>3. flows' = [flows EXCEPT ![i] = [f EXCEPT !.state = "ACTIVE", !.in_flight = o.bytes]]
        <5>1. flows' = [flows EXCEPT ![i] =
                  [f EXCEPT !.state = "ACTIVE",
                            !.in_flight = IF AddFits(f.in_flight, f.admitted)
                                          THEN f.in_flight + f.admitted ELSE f.in_flight]]
          BY <2>3, <4>1, Zenon DEF StartFlow, ReplaceFlow
        <5>2. AddFits(f.in_flight, f.admitted) /\ f.in_flight + f.admitted = o.bytes
          BY <2>2, <3>2, <4>2, Zenon
        <5> QED
          BY <5>1, <5>2, Zenon
      <4>4. a = "yes"
        BY <1>2, <4>1, Zenon DEF Answered, ProcessInv
      <4> QED
        BY <3>2, <4>3, <4>4, Zenon
    <3> QED
      BY <3>1, <3>2, Zenon
  <2>7. NotRefused(p)'
    BY <1>2, <1>6, <2>1, <2>6, Zenon DEF NotRefused
  <2>8. /\ g.generation = 1 /\ g.owner_worker = o.worker /\ g.owner_boot = o.boot
        /\ g.domain = did[p] /\ g.submitted = o.bytes
        /\ r = "ADMIT" => g.state = "ADMITTED" /\ g.admitted = o.bytes /\ g.in_flight = 0
        /\ r = "START" => g.state = "ACTIVE" /\ g.admitted = o.bytes /\ g.in_flight = o.bytes
    BY <1>1, <2>2, <2>5 DEF Flow
  <2>9. flows'[fid'[p]] = g
    BY <1>6, <2>3, <2>6, Zenon
  <2> HIDE DEF g
  <2>10. FlowAt(p, flows[fid[p]])'
    BY <1>1, <1>5, <1>6, <2>8, <2>9, Zenon DEF FlowAt, First, Creates
  <2> QED
    BY <1>6, <1>7, <2>1, <2>7, <2>10, Zenon DEF InService, HasFlow
<1> QED
  BY <1>8, <1>9, Zenon

\* A step of the process itself or of its session keeps it served.
LEMMA StandingOwn ==
  ASSUME FlowTypeOK, ProcessInv, ClientInv, PlaceInv, ToldInv,
         NEW p \in Processes, Standing(p), Standing(p)', InService(p), HasRoom(p),
         Start(p) \/ Kill(p) \/ Continue(p) \/ SessionStep(p)
  PROVE  InService(p)'
<1>1. CASE EndSession(p)
  BY <1>1, Zenon DEF EndSession, Standing, ProcessInv
<1>2. CASE Progress(p) \/ Complete(p)
  <2>1. PICK r \in {"PROGRESS", "COMPLETE"} : Receives(p, r)
    BY <1>2, Zenon DEF Progress, Complete
  <2>2. Placed(p, at[p], r)
    BY <2>1, ReceivedAt, Zenon DEF Standing
  <2> QED
    BY <2>2, Zenon DEF Placed
<1> QED
  BY <1>1, <1>2, StandingRegister, StandingContinue, StandingReports, StandingCreate,
     StandingDeclare, StandingFlow, Zenon DEF SessionStep

\* Every step keeps the processes in good standing served.
LEMMA StandingStep ==
  ASSUME BootsTellApart, SourcesFollow, FlowTypeOK, ProcessInv, ClientInv, PlaceInv, ToldInv,
         StandingInv, \A q \in Processes : HasRoom(q), [DeploymentNext]_deploymentVars
  PROVE  StandingInv'
<1>1. CASE UNCHANGED deploymentVars
  <2>1. UNCHANGED <<at, client, wire, session, agreed, did, fid, refused, worker_boot,
                    source_boot, flows>>
    BY <1>1, Zenon DEF deploymentVars, processVars, flowVars
  <2>2. ASSUME NEW p \in Processes, InService(p) PROVE InService(p)'
    BY <2>1, <2>2, Zenon DEF InService, HasBoots, NotRefused, HasFlow, FlowAt, Past, Accepted
  <2> QED
    BY <1>1, <2>2, StandingBefore, Zenon DEF StandingInv
<1>2. ASSUME NEW p \in Processes, Standing(p)', NEW q \in Processes,
             Start(q) \/ Kill(q) \/ Continue(q) \/ SessionStep(q)
      PROVE  InService(p)'
  <2>1. Standing(p) /\ InService(p)
    BY <1>2, StandingBefore, Zenon DEF StandingInv
  <2> QED
    BY <1>2, <2>1, StandingOwn, StandingOthers, Zenon
<1> QED
  BY <1>1, <1>2, Zenon DEF DeploymentNext, StandingInv

\* The invariant says that a process in good standing is served.
LEMMA StandingServed ==
  ASSUME FlowTypeOK, ProcessInv, PlaceInv, StandingInv
  PROVE  GoodStandingServed
<1> SUFFICES ASSUME NEW p \in Processes, Registered(p), Standing(p)
             PROVE  /\ did[p] # 0 \/ Request(p) = "CREATE" => refused[p] = {}
                    /\ client[p] = "stays" => /\ flows[fid[p]].state = "ACTIVE"
                                              /\ flows[fid[p]].in_flight = Options[p].bytes
  BY Zenon DEF GoodStandingServed, Standing, Newest
<1>1. InService(p) /\ Accepted(p) /\ at[p] > 1 /\ at[p] \in Nat
  BY Zenon DEF StandingInv, Registered, Accepted, ProcessInv
<1>2. Request(p) = "CREATE" => Creates(p)
  <2>1. PICK n : n = Len(Requests[p]) /\ n \in Nat
    BY RegisterOnce, Zenon
  <2>2. at[p] <= n
    BY <2>1, Zenon DEF PlaceInv, InPlace
  <2>3. at[p] \in 1..n
    BY <1>1, <2>1, <2>2
  <2>4. Placed(p, at[p], Request(p))
    BY <2>1, <2>3, PlaceOf, Zenon DEF Standing, Request
  <2> QED
    BY <2>4, Zenon DEF Placed
<1>3. did[p] # 0 \/ Request(p) = "CREATE" => refused[p] = {}
  BY <1>1, <1>2, Zenon DEF InService, NotRefused
<1>4. ASSUME client[p] = "stays"
      PROVE  flows[fid[p]].state = "ACTIVE" /\ flows[fid[p]].in_flight = Options[p].bytes
  <2>1. did[p] # 0 /\ at[p] > First(p) + 2
    BY <1>1, <1>4, Zenon DEF InService, NotRefused, PlaceInv, InPlace
  <2>2. Past(p, First(p)) /\ Past(p, First(p) + 2)
    <3>1. First(p) \in {2, 3}
      BY Zenon DEF First
    <3> QED
      BY <1>1, <2>1, <3>1 DEF Past
  <2> QED
    BY <1>1, <2>1, <2>2, Zenon DEF InService, HasFlow, FlowAt
<1> QED
  BY <1>3, <1>4, Zenon

-----------------------------------------------------------------------------
(* How many domains and flows there are.  The library comes last because   *)
(* every fact in scope slows the provers.                                  *)
INSTANCE FiniteSetTheorems

\* There are finitely many domains.
LEMMA FiniteTables ==
  ASSUME FlowTypeOK
  PROVE  /\ IsFiniteSet(DOMAIN members) /\ Cardinality(DOMAIN members) \in Nat
         /\ active_flows \in Nat
<1>1. next_domain \in 1..(MaxDomainId + 1) /\ DOMAIN members \subseteq 1..(next_domain - 1)
  BY Zenon DEF FlowTypeOK
<1>2. 1 \in Int /\ next_domain - 1 \in Int
  BY <1>1, LimitsAssumption
<1>3. IsFiniteSet(1..(next_domain - 1))
  BY <1>2, FS_Interval, Zenon
<1> QED
  BY <1>1, <1>3, FS_Subset, FS_CardinalityType, Zenon DEF FlowTypeOK

\* A finite set that grows, and by how much.
LEMMA Grows ==
  ASSUME NEW S, NEW T, IsFiniteSet(T), S \subseteq T
  PROVE  /\ Cardinality(S) \in Nat /\ Cardinality(T) \in Nat
         /\ Cardinality(S) <= Cardinality(T)
         /\ \A x \in T : x \notin S => Cardinality(S) + 1 <= Cardinality(T)
<1>1. /\ IsFiniteSet(S) /\ Cardinality(S) \in Nat /\ Cardinality(T) \in Nat
      /\ Cardinality(S) <= Cardinality(T)
  BY FS_Subset, FS_CardinalityType, Zenon
<1>2. ASSUME NEW x \in T, x \notin S PROVE Cardinality(S) + 1 <= Cardinality(T)
  <2>1. S \cup {x} \in SUBSET T
    BY <1>2, Zenon
  <2>2. Cardinality(S \cup {x}) <= Cardinality(T)
    BY <2>1, FS_Subset, Zenon
  <2>3. Cardinality(S \cup {x}) = Cardinality(S) + 1
    BY <1>1, <1>2, FS_AddElement, Zenon
  <2> QED
    BY <2>2, <2>3, Zenon
<1> QED
  BY <1>1, <1>2, Zenon

\* Every step keeps the tables within what was asked for.
LEMMA RoomStep ==
  ASSUME RoomForAll, FlowTypeOK, ProcessInv, ClientInv, PlaceInv, RoomInv,
         [DeploymentNext]_deploymentVars
  PROVE  RoomInv'
<1>1. Created \subseteq Created' /\ Declared \subseteq Declared'
  <2>1. ASSUME NEW p \in Processes PROVE First(p) \in Nat /\ First(p) >= 1 /\ 2 \in Nat /\ 2 >= 1
    BY DEF First
  <2>2. ASSUME NEW p \in Processes
        PROVE  (Past(p, 2) => Past(p, 2)') /\ (Past(p, First(p)) => Past(p, First(p))')
    BY <2>1, PastStays, Zenon
  <2> QED
    BY <2>2, Zenon DEF Created, Declared
<1>2. IsFiniteSet(Created') /\ IsFiniteSet(Declared')
  BY FS_Subset, Zenon DEF RoomForAll, Created, Declared
<1>3. CASE UNCHANGED deploymentVars
  BY <1>3, Zenon DEF deploymentVars, processVars, flowVars, RoomInv, Created, Declared, Past
<1>4. ASSUME NEW q \in Processes, Start(q) \/ Kill(q) \/ Continue(q) \/ SessionStep(q)
      PROVE  RoomInv'
  <2>1. Cardinality(DOMAIN members) \in Nat /\ IsFiniteSet(DOMAIN members) /\ active_flows \in Nat
    BY FiniteTables, Zenon
  <2>2. /\ Cardinality(Created) \in Nat /\ Cardinality(Created') \in Nat
        /\ Cardinality(Created) <= Cardinality(Created')
        /\ Create(q) => Cardinality(Created) + 1 <= Cardinality(Created')
    BY <1>1, <1>2, Grows, AskedOnce, Zenon
  <2>3. /\ Cardinality(Declared) \in Nat /\ Cardinality(Declared') \in Nat
        /\ Cardinality(Declared) <= Cardinality(Declared')
        /\ Declare(q) => Cardinality(Declared) + 1 <= Cardinality(Declared')
    BY <1>1, <1>2, Grows, AskedOnce, Zenon
  <2>4. \/ Cardinality(DOMAIN members') = Cardinality(DOMAIN members)
        \/ Create(q) /\ Cardinality(DOMAIN members') = Cardinality(DOMAIN members) + 1
    <3>1. CASE DOMAIN members' = DOMAIN members
      BY <3>1, Zenon
    <3>2. CASE Create(q) /\ DOMAIN members' = DOMAIN members \cup {next_domain}
      <4>1. next_domain \notin DOMAIN members
        BY LimitsAssumption DEF FlowTypeOK
      <4> QED
        BY <2>1, <3>2, <4>1, FS_AddElement, Zenon
    <3> QED
      BY <1>4, <3>1, <3>2, OnlyAsked, Zenon
  <2>5. Decremented <= active_flows /\ Decremented \in Nat
    BY <2>1 DEF Decremented
  <2>6. \/ active_flows' = active_flows \/ active_flows' = Decremented
        \/ Declare(q) /\ active_flows' = active_flows + 1
    BY <1>4, OnlyAsked, Zenon
  <2>7. Cardinality(DOMAIN members) <= Cardinality(Created) /\ active_flows <= Cardinality(Declared)
    BY Zenon DEF RoomInv
  <2>8. Cardinality(DOMAIN members') <= Cardinality(Created')
    BY SMTT(20), <2>1, <2>2, <2>4, <2>7
  <2>9. active_flows' <= Cardinality(Declared')
    BY SMTT(20), <2>1, <2>3, <2>5, <2>6, <2>7
  <2> QED
    BY <2>8, <2>9, Zenon DEF RoomInv
<1> QED
  BY <1>3, <1>4, Zenon DEF DeploymentNext

\* A request for a domain or a flow that is received finds room.
LEMMA RoomFound ==
  ASSUME RoomForAll, FlowTypeOK, ProcessInv, ClientInv, PlaceInv, RoomInv, NEW q \in Processes
  PROVE  HasRoom(q)
<1> DEFINE C == {p \in Processes : Creates(p)}
           D == {p \in Processes : Declares(p)}
<1>1. IsFiniteSet(C) /\ IsFiniteSet(D) /\ Cardinality(C) <= MaxDomains
      /\ Cardinality(D) <= MaxActiveFlows
  BY FS_Subset, Zenon DEF RoomForAll
<1>2. Created \subseteq C /\ Declared \subseteq D
  BY Zenon DEF Created, Declared
<1>3. Create(q) => q \in C /\ q \notin Created
  BY AskedOnce, Zenon DEF Created, Creates
<1>4. Declare(q) => q \in D /\ q \notin Declared
  BY AskedOnce, Zenon DEF Declared, Declares
<1> HIDE DEF C, D
<1>5. /\ Cardinality(C) \in Nat /\ Cardinality(Created) \in Nat
      /\ Create(q) => Cardinality(Created) + 1 <= Cardinality(C)
  BY <1>1, <1>2, <1>3, Grows, Zenon
<1>6. /\ Cardinality(D) \in Nat /\ Cardinality(Declared) \in Nat
      /\ Declare(q) => Cardinality(Declared) + 1 <= Cardinality(D)
  BY <1>1, <1>2, <1>4, Grows, Zenon
<1>7. IsFiniteSet(DOMAIN members) /\ Cardinality(DOMAIN members) \in Nat /\ active_flows \in Nat
  BY FiniteTables, Zenon
<1>8. Cardinality(DOMAIN members) <= Cardinality(Created) /\ active_flows <= Cardinality(Declared)
  BY Zenon DEF RoomInv
<1>9. Create(q) => ~(Cardinality(DOMAIN members) >= MaxDomains)
  BY SMTT(20), <1>1, <1>5, <1>7, <1>8, LimitsAssumption
<1>10. Declare(q) => ~(active_flows >= MaxActiveFlows)
  BY SMTT(20), <1>1, <1>6, <1>7, <1>8, LimitsAssumption
<1> QED
  BY <1>9, <1>10, Zenon DEF HasRoom

-----------------------------------------------------------------------------
\* A process in good standing is served: whatever older boots, replays and other workers
\* do, and whenever their sessions end, none of its requests is refused once there is a
\* domain for it, and when it is through its flow runs with all of its bytes.  It has to be
\* told apart from the others by its boots, and the tables must hold what is asked for.
THEOREM StandingCorrect ==
    BootsTellApart /\ SourcesFollow /\ RoomForAll => (DeploymentSpec => []GoodStandingServed)
<1> SUFFICES ASSUME BootsTellApart, SourcesFollow, RoomForAll
             PROVE  DeploymentSpec => []GoodStandingServed
  OBVIOUS
<1>1. DeploymentInit => ProcessInv /\ ClientInv
  BY DEF DeploymentInit, FlowInit, ProcessInv, ClientInv
<1>2. DeploymentInit => PlaceInv /\ ToldInv /\ RoomInv /\ StandingInv
  <2> SUFFICES ASSUME DeploymentInit PROVE PlaceInv /\ ToldInv /\ RoomInv /\ StandingInv
    OBVIOUS
  <2>1. ASSUME NEW p \in Processes PROVE InPlace(p)
    <3>1. /\ at[p] = 0 /\ client[p] = "off" /\ session[p] = "none"
          /\ Len(Requests[p]) \in Nat /\ Len(Requests[p]) >= 1
      BY RegisterOnce, Zenon DEF DeploymentInit
    <3>2. PICK n : n = Len(Requests[p])
      BY Zenon
    <3>3. 0 <= n /\ 0 # 1
      BY SMTT(20), <3>1, <3>2
    <3> QED
      BY <3>1, <3>2, <3>3, Zenon DEF InPlace
  <2>2. DOMAIN members = {} /\ DOMAIN rates = {} /\ DOMAIN flows = {}
    BY DEF DeploymentInit, FlowInit
  <2>3. 0 \in Nat /\ idfile = 0 /\ did = [p \in Processes |-> 0] /\ fid = [p \in Processes |-> 0]
    BY DEF DeploymentInit
  <2>4. ToldInv
    BY <2>2, <2>3, Zenon DEF ToldInv
  <2>5. RoomInv
    <3>1. IsFiniteSet(Created) /\ IsFiniteSet(Declared)
      BY FS_Subset, Zenon DEF RoomForAll, Created, Declared
    <3>2. Cardinality(Created) \in Nat /\ Cardinality(Declared) \in Nat
      BY <3>1, FS_CardinalityType, Zenon
    <3>3. Cardinality(DOMAIN members) = 0 /\ active_flows = 0
      BY <2>2, FS_EmptySet, Zenon DEF DeploymentInit, FlowInit
    <3>4. /\ Cardinality(DOMAIN members) <= Cardinality(Created)
          /\ active_flows <= Cardinality(Declared)
      BY SMTT(20), <3>2, <3>3
    <3> QED
      BY <3>4, Zenon DEF RoomInv
  <2>6. ASSUME NEW p \in Processes PROVE InService(p)
    <3>1. at[p] = 0 /\ ~agreed[p]
      BY Zenon DEF DeploymentInit
    <3>2. ~Accepted(p)
      BY <3>1 DEF Accepted
    <3> QED
      BY <3>1, <3>2, Zenon DEF InService, HasBoots, NotRefused, HasFlow
  <2> QED
    BY <2>1, <2>4, <2>5, <2>6, Zenon DEF PlaceInv, StandingInv
<1>3. ProcessInv /\ [DeploymentNext]_deploymentVars => ProcessInv'
  BY ProcessStep, Zenon
<1>4. FlowTypeOK /\ ProcessInv /\ ClientInv /\ [DeploymentNext]_deploymentVars => ClientInv'
  BY ClientStep, Zenon
<1>5. ProcessInv /\ ClientInv /\ PlaceInv /\ [DeploymentNext]_deploymentVars => PlaceInv'
  BY PlaceStep, Zenon
<1>6. FlowTypeOK /\ ProcessInv /\ ToldInv /\ [DeploymentNext]_deploymentVars => ToldInv'
  BY ToldStep, Zenon
<1>7. /\ FlowTypeOK /\ ProcessInv /\ ClientInv /\ PlaceInv /\ RoomInv
      /\ [DeploymentNext]_deploymentVars
      => RoomInv'
  BY RoomStep, Zenon
<1>8. /\ FlowTypeOK /\ ProcessInv /\ ClientInv /\ PlaceInv /\ ToldInv /\ RoomInv /\ StandingInv
      /\ [DeploymentNext]_deploymentVars
      => StandingInv'
  BY StandingStep, RoomFound, Zenon
<1>9. FlowTypeOK /\ ProcessInv /\ PlaceInv /\ StandingInv => GoodStandingServed
  BY StandingServed, Zenon
<1> QED
  BY <1>1, <1>2, <1>3, <1>4, <1>5, <1>6, <1>7, <1>8, <1>9, DeploymentImplementsFlowTable,
     FlowTypeCorrect, PTL DEF DeploymentSpec
=============================================================================
