--------------------------- MODULE DeploymentProofs ---------------------------
(***************************************************************************)
(* What holds of the deployment for every set of processes and whatever    *)
(* scenarios, workers and boots they run with.                             *)
(***************************************************************************)
EXTENDS Deployment, FlowTableProofs

-----------------------------------------------------------------------------
\* The options of a process.
LEMMA OptionFields ==
  ASSUME NEW p \in Processes
  PROVE  /\ Options[p].scenario \in DOMAIN Scenarios
         /\ Options[p].worker \in Workers /\ Options[p].boot \in Boots
         /\ Options[p].source \in Sources /\ Options[p].sboot \in Boots
         /\ Options[p].bytes \in ByteAmounts
BY OptionsAssumption, Zenon

\* A flow that a session names and that is found is one that clients can name.
LEMMA RefKind ==
  ASSUME FlowTypeOK, NEW p \in Processes, Resolves(Ref(p))
  PROVE  Ref(p) \in FlowRef
<1>1. Ref(p).id \in 1..MaxFlowId
  <2>1. Ref(p).id \in 1..(next_flow - 1) /\ next_flow \in 1..(MaxFlowId + 1)
    BY Zenon DEF FlowTypeOK, Resolves
  <2> QED
    BY <2>1, LimitsAssumption
<1>2. 1 \in Generations
  BY WidthAssumption DEF Generations
<1> QED
  BY <1>1, <1>2, Zenon DEF Ref, FlowRef

-----------------------------------------------------------------------------
(* Sessions have the identity of their process once it has registered.     *)

\* Every scenario begins with REGISTER.
LEMMA RegisterFirst == \A p \in Processes : Requests[p][1] = "REGISTER"
<1> DEFINE S == {"REGISTER", "CREATE", "DECLARE", "ADMIT", "START", "OFFERED",
                 "SERVICED", "QUERY"}
<1>1. RunFlow \in Seq(S) /\ Len(RunFlow) = 5
  BY DEF RunFlow
<1>2. /\ <<"REGISTER", "CREATE">> \in Seq(S) /\ Len(<<"REGISTER", "CREATE">>) = 2
      /\ <<"REGISTER">> \in Seq(S) /\ Len(<<"REGISTER">>) = 1
      /\ <<"QUERY">> \in Seq(S) /\ Len(<<"QUERY">>) = 1
  OBVIOUS
<1>3. ASSUME NEW s \in Seq(S), NEW t \in Seq(S), Len(s) > 0, s[1] = "REGISTER"
      PROVE  s \o t \in Seq(S) /\ Len(s \o t) > 0 /\ (s \o t)[1] = "REGISTER"
  BY <1>3, SMTT(30)
<1>4. \A x \in DOMAIN Scenarios : Scenarios[x][1] = "REGISTER"
  <2>1. /\ (<<"REGISTER", "CREATE">> \o RunFlow)[1] = "REGISTER"
        /\ (<<"REGISTER", "CREATE">> \o RunFlow \o <<"QUERY">>)[1] = "REGISTER"
        /\ (<<"REGISTER">> \o RunFlow)[1] = "REGISTER"
        /\ (<<"REGISTER">> \o RunFlow \o <<"QUERY">>)[1] = "REGISTER"
    BY <1>1, <1>2, <1>3
  <2> QED
    BY <2>1 DEF Scenarios
<1> QED
  BY <1>4, OptionFields, Zenon DEF Requests

\* A session takes on one identity only, that of its process, and has done so when it
\* has answered the first request.
ProcessInv ==
    /\ at \in [Processes -> Nat]
    /\ wire \in [Processes -> {"none", "request", "yes", "no"}]
    /\ session \in [Processes -> {"none", "serving", "register_source", "ended"}]
    /\ ctx \in [Processes -> {NoOwner} \cup Workers \X Boots]
    /\ \A p \in Processes :
          /\ ctx[p] \in {NoOwner, Identity(p)}
          /\ session[p] \in {"serving", "register_source"} => at[p] >= 1
          /\ at[p] > 1 \/ wire[p] \in {"yes", "no"} \/ session[p] = "register_source"
               => ctx[p] = Identity(p)

\* The handlers of requests other than REGISTER are called under that identity.
LEMMA OthersFollowRegister ==
  ASSUME ProcessInv, NEW p \in Processes, NEW r, Receives(p, r), r # "REGISTER"
  PROVE  ctx[p] = Identity(p)
<1>1. at[p] \in Nat /\ at[p] >= 1 /\ at[p] # 1
  BY RegisterFirst, Zenon DEF ProcessInv, Receives, Request
<1> QED
  BY <1>1 DEF ProcessInv

\* Identities are pairs of a worker and a boot.
LEMMA IdentityKind ==
  ASSUME NEW p \in Processes
  PROVE  Identity(p) \in Workers \X Boots /\ Identity(p) # NoOwner
BY OptionFields, WidthAssumption DEF Identity, NoOwner, Boots

\* Every step keeps the identities.
LEMMA ProcessStep == ProcessInv /\ [DeploymentNext]_deploymentVars => ProcessInv'
<1> SUFFICES ASSUME ProcessInv, [DeploymentNext]_deploymentVars PROVE ProcessInv'
  OBVIOUS
<1>1. CASE UNCHANGED deploymentVars
  BY <1>1, Zenon DEF deploymentVars, processVars, ProcessInv, Identity
<1>2. ASSUME NEW p \in Processes, Start(p) PROVE ProcessInv'
  BY <1>2 DEF Start, ProcessInv, Identity
<1>3. ASSUME NEW p \in Processes, Kill(p) PROVE ProcessInv'
  BY <1>3, Zenon DEF Kill, ProcessInv, Identity
<1>4. ASSUME NEW p \in Processes, Continue(p) PROVE ProcessInv'
  BY <1>4 DEF Continue, ProcessInv, Identity
<1>5. ASSUME NEW p \in Processes, Register(p) PROVE ProcessInv'
  BY <1>5, IdentityKind, Zenon DEF Register, Receives, ProcessInv, Identity
<1>6. ASSUME NEW p \in Processes, RegisterItsSource(p) PROVE ProcessInv'
  BY <1>6 DEF RegisterItsSource, Answered, ProcessInv, Identity
<1>7. ASSUME NEW p \in Processes, NEW r, NEW a \in {"yes", "no"}, Receives(p, r),
             r # "REGISTER", Answered(p, a), UNCHANGED <<session, ctx>>
      PROVE  ProcessInv'
  BY <1>7, OthersFollowRegister, Zenon DEF Answered, ProcessInv, Identity
<1>8. ASSUME NEW p \in Processes, EndSession(p) PROVE ProcessInv'
  BY <1>8, Zenon DEF EndSession, ProcessInv, Identity
<1>9. ASSUME NEW p \in Processes, SessionStep(p) PROVE ProcessInv'
  <2>1. CASE Query(p)
    BY <1>7, <2>1, Zenon DEF Query
  <2>2. CASE Create(p)
    BY <1>7, <2>2, Zenon DEF Create
  <2>3. CASE Declare(p)
    BY <1>7, <2>3, Zenon DEF Declare
  <2>4. CASE Admit(p) \/ StartIt(p) \/ Progress(p) \/ Complete(p)
    BY <1>7, <2>4, Zenon DEF Admit, StartIt, Progress, Complete, FlowCall
  <2>5. CASE Publish(p, "OFFERED", "offered") \/ Publish(p, "SERVICED", "serviced")
    BY <1>7, <2>5, Zenon DEF Publish
  <2> QED
    BY <1>5, <1>6, <1>8, <1>9, <2>1, <2>2, <2>3, <2>4, <2>5, Zenon DEF SessionStep
<1> QED
  BY <1>1, <1>2, <1>3, <1>4, <1>9, Zenon DEF DeploymentNext

-----------------------------------------------------------------------------
(* The deployment is a flow table whose callers are the sessions.          *)

\* Every step of a process or a session is a step of the flow table, or leaves it alone.
LEMMA FlowStep ==
    FlowTypeOK /\ ProcessInv /\ [DeploymentNext]_deploymentVars => [FlowNext]_flowVars
<1> SUFFICES ASSUME FlowTypeOK, ProcessInv, [DeploymentNext]_deploymentVars
             PROVE  [FlowNext]_flowVars
  OBVIOUS
<1>1. CASE UNCHANGED deploymentVars
  BY <1>1, Zenon DEF deploymentVars
<1>2. ASSUME NEW p \in Processes, Start(p) \/ Kill(p) \/ Continue(p) PROVE UNCHANGED flowVars
  BY <1>2, Zenon DEF Start, Kill, Continue
<1>3. ASSUME NEW p \in Processes, SessionStep(p) PROVE [FlowNext]_flowVars
  <2>1. ASSUME NEW r, NEW x, Query(p) \/ Publish(p, r, x) PROVE UNCHANGED flowVars
    BY <2>1, Zenon DEF Query, Publish
  <2>2. CASE Register(p)
    BY <2>2, OptionFields, Zenon DEF Register, FlowNext
  <2>3. CASE RegisterItsSource(p)
    BY <2>3, OptionFields, Zenon DEF RegisterItsSource, FlowNext
  <2>4. CASE Create(p)
    BY <2>4, Zenon DEF Create, FlowNext
  <2>5. CASE Declare(p)
    <3>1. did[p] \in DOMAIN members => did[p] \in 1..MaxDomainId
      BY SMTT(20), LimitsAssumption DEF FlowTypeOK
    <3>2. DeclareFlow(Options[p].worker, Options[p].boot, Options[p].source,
                      Options[p].sboot, did[p], Options[p].bytes) => FlowNext
      BY <3>1, OptionFields DEF FlowNext, DeclareFlow
    <3> QED
      BY <2>5, <3>2, Zenon DEF Declare
  <2>6. CASE Admit(p) \/ StartIt(p) \/ Progress(p) \/ Complete(p)
    <3> DEFINE Call == \/ AdmitFlow(Ref(p)) \/ StartFlow(Ref(p), Options[p].boot)
                       \/ FlowProgress(Ref(p), Options[p].boot, Options[p].bytes)
                       \/ FlowComplete(Ref(p), Options[p].boot)
    <3>1. Call \/ UNCHANGED flowVars
      BY <2>6, Zenon DEF Admit, StartIt, Progress, Complete, FlowCall
    <3>2. Call => Resolves(Ref(p))
      BY ZenonT(60) DEF AdmitFlow, StartFlow, FlowProgress, FlowComplete
    <3>3. Call => FlowNext
      BY <3>2, RefKind, OptionFields, Zenon DEF FlowNext
    <3> QED
      BY <3>1, <3>3, Zenon
  <2>7. CASE EndSession(p)
    <3>1. Current(ctx[p]) => ctx[p] = Identity(p)
      BY Zenon DEF Current, ProcessInv
    <3>2. Identity(p)[1] \in Workers /\ Identity(p)[2] \in Boots
      BY OptionFields, Zenon DEF Identity
    <3> QED
      BY <2>7, <3>1, <3>2, Zenon DEF EndSession, FenceBoot, FlowNext
  <2> QED
    BY <1>3, <2>1, <2>2, <2>3, <2>4, <2>5, <2>6, <2>7, Zenon DEF SessionStep
<1> QED
  BY <1>1, <1>2, <1>3, Zenon DEF DeploymentNext

\* The deployment implements the flow table: what is proved of FlowTable for arbitrary
\* callers holds of the table behind the sessions.
THEOREM DeploymentImplementsFlowTable == DeploymentSpec => FlowSpec
<1>1. DeploymentInit => FlowInit /\ ProcessInv
  BY DEF DeploymentInit, ProcessInv
<1>2. FlowInit => FlowTypeOK
  BY TypeInit, Zenon
<1>3. FlowTypeOK /\ ProcessInv /\ [DeploymentNext]_deploymentVars => [FlowNext]_flowVars
  BY FlowStep, Zenon
<1>4. FlowTypeOK /\ [FlowNext]_flowVars => FlowTypeOK'
  BY TypeStep, Zenon
<1>5. ProcessInv /\ [DeploymentNext]_deploymentVars => ProcessInv'
  BY ProcessStep
<1> QED
  BY <1>1, <1>2, <1>3, <1>4, <1>5, PTL DEF DeploymentSpec, FlowSpec

-----------------------------------------------------------------------------
(* Nothing current outlives its session.                                   *)

\* The identities of the connected sessions.
Served == {ctx[p] : p \in {q \in Processes : session[q] \notin {"none", "ended"}}}

Owner(i) == <<flows[i].owner_worker, flows[i].owner_boot>>

FlowsServed == \A i \in DOMAIN flows : Live(i) /\ Current(Owner(i)) => Owner(i) \in Served

RatesServed ==
    \A d \in DOMAIN rates : \A r \in DOMAIN rates[d] :
        Current(rates[d][r]) => rates[d][r] \in Served

\* No flow and no rate belongs to a boot that is still to come: a boot that becomes
\* current owns nothing yet.
NotYet(wb) == wb # NoOwner /\ wb[2] > worker_boot[wb[1]]

OwnersKnown ==
    /\ \A i \in DOMAIN flows : ~NotYet(Owner(i))
    /\ \A d \in DOMAIN rates : \A r \in DOMAIN rates[d] :
          /\ rates[d][r] \in {NoOwner} \cup Workers \X Boots
          /\ ~NotYet(rates[d][r])

ServedInv == FlowsServed /\ RatesServed /\ OwnersKnown

\* FlowsServed and RatesServed are the two halves of LiveIsServed.
LEMMA ServedInvImplies == ServedInv => LiveIsServed
BY Zenon DEF ServedInv, FlowsServed, RatesServed, LiveIsServed, Served, Owner

\* The owner of a flow is a worker's boot.
LEMMA OwnerKind ==
  ASSUME FlowTypeOK, NEW i \in DOMAIN flows
  PROVE  Owner(i) \in Workers \X Boots /\ Owner(i) # NoOwner
<1>1. flows[i] \in Flow
  BY Zenon DEF FlowTypeOK
<1>2. flows[i].owner_worker \in Workers /\ flows[i].owner_boot \in Boots
  BY <1>1, FlowFields, Zenon
<1> QED
  BY <1>2, WidthAssumption DEF Owner, Boots, NoOwner

\* A flow that lives has lived before, with the same owner.
LEMMA LiveBefore ==
  ASSUME AllMayBecome, NEW i \in DOMAIN flows
  PROVE  Owner(i)' = Owner(i) /\ (Live(i)' => Live(i))
BY Zenon DEF AllMayBecome, MayBecome, Owner, Live, Terminal, OutOfService

\* Steps that change no boot, add no flow, publish nothing and end no session.
LEMMA SteadyStep ==
  ASSUME FlowTypeOK, ServedInv, AllMayBecome, DOMAIN flows' = DOMAIN flows,
         UNCHANGED <<worker_boot, rates>>, Served \ {NoOwner} \subseteq Served'
  PROVE  ServedInv'
<1>1. \A i \in DOMAIN flows : Owner(i)' = Owner(i) /\ (Live(i)' => Live(i))
  BY LiveBefore, Zenon
<1>2. FlowsServed'
  BY <1>1, Zenon DEF ServedInv, FlowsServed, Current
<1>3. RatesServed'
  BY Zenon DEF ServedInv, RatesServed, Current
<1>4. OwnersKnown'
  BY <1>1, Zenon DEF ServedInv, OwnersKnown, NotYet
<1> QED
  BY <1>2, <1>3, <1>4, Zenon DEF ServedInv

\* A new boot owns nothing.
LEMMA RegisterServed ==
  ASSUME FlowTypeOK, ServedInv, NEW w \in Workers, NEW b \in Boots, RegisterWorker(w, b),
         UNCHANGED rates, Served \ {NoOwner} \subseteq Served'
  PROVE  ServedInv'
<1>1. UNCHANGED flows
  BY Zenon DEF RegisterWorker
<1>2. ASSUME NEW wb \in Workers \X Boots, ~NotYet(wb), wb # NoOwner
      PROVE  ~NotYet(wb)' /\ (Current(wb)' => Current(wb))
  <2>1. wb[1] \in Workers /\ wb[2] \in Nat /\ b \in Nat /\ MaxU64 \in Nat
    BY WidthAssumption DEF Boots
  <2>2. worker_boot[wb[1]] \in Nat /\ worker_boot[w] \in Nat
    BY <2>1, WidthAssumption DEF FlowTypeOK, U64
  <2> QED
    BY <1>2, <2>1, <2>2 DEF RegisterWorker, NotYet, Current, FlowTypeOK
<1>3. \A i \in DOMAIN flows : ~NotYet(Owner(i))' /\ (Current(Owner(i))' => Current(Owner(i)))
  BY <1>1, <1>2, OwnerKind, Zenon DEF ServedInv, OwnersKnown, Owner
<1>4. FlowsServed'
  BY <1>1, <1>3, OwnerKind, Zenon DEF ServedInv, FlowsServed, Owner, Live
<1>5. RatesServed' /\ OwnersKnown'
  <2>1. ASSUME NEW d \in DOMAIN rates, NEW r \in DOMAIN rates[d]
        PROVE  /\ Current(rates[d][r])' => rates[d][r] \in Served'
               /\ ~NotYet(rates[d][r])'
    <3>1. CASE rates[d][r] = NoOwner
      BY <3>1, Zenon DEF Current, NotYet
    <3>2. CASE rates[d][r] # NoOwner
      BY <1>2, <3>2, Zenon DEF ServedInv, RatesServed, OwnersKnown, Current, NotYet
    <3> QED
      BY <3>1, <3>2, Zenon
  <2> QED
    BY <1>1, <1>3, <2>1, Zenon DEF ServedInv, RatesServed, OwnersKnown, Owner
<1> QED
  BY <1>4, <1>5, Zenon DEF ServedInv

\* A flow is declared by a session that has its owner's identity.
LEMMA DeclareServed ==
  ASSUME FlowTypeOK, ProcessInv, ServedInv, NEW p \in Processes, Declare(p)
  PROVE  ServedInv'
<1> DEFINE o == Options[p]
<1>1. ctx[p] = Identity(p) /\ session[p] = "serving" /\ UNCHANGED <<rates, session, ctx>>
  BY OthersFollowRegister, Zenon DEF Declare, Receives
<1>2. Served' = Served /\ Identity(p) \in Served
  BY <1>1, Zenon DEF Served
<1>3. CASE UNCHANGED flowVars
  BY <1>1, <1>2, <1>3, Zenon
  DEF flowVars, ServedInv, FlowsServed, RatesServed, OwnersKnown, Current, NotYet, Owner, Live
<1>4. CASE DeclareFlow(o.worker, o.boot, o.source, o.sboot, did[p], o.bytes)
  <2>1. UNCHANGED worker_boot /\ worker_boot[o.worker] = o.boot
    BY <1>4, Zenon DEF DeclareFlow
  <2>2. ASSUME NEW i \in DOMAIN flows'
        PROVE  \/ i \in DOMAIN flows /\ flows'[i] = flows[i]
               \/ flows'[i].owner_worker = o.worker /\ flows'[i].owner_boot = o.boot
    BY <1>4, Zenon DEF DeclareFlow
  <2>3. FlowsServed'
    BY <1>2, <2>1, <2>2, Zenon DEF ServedInv, FlowsServed, Current, Owner, Live, Identity
  <2>4. RatesServed'
    BY <1>1, <1>2, <2>1, Zenon DEF ServedInv, RatesServed, Current
  <2>5. ASSUME NEW i \in DOMAIN flows' PROVE ~NotYet(Owner(i))'
    <3>1. CASE i \in DOMAIN flows /\ flows'[i] = flows[i]
      BY <2>1, <3>1, Zenon DEF ServedInv, OwnersKnown, NotYet, Owner
    <3>2. CASE flows'[i].owner_worker = o.worker /\ flows'[i].owner_boot = o.boot
      <4>1. o.boot \in Nat
        BY OptionFields DEF Boots
      <4> QED
        BY <2>1, <3>2, <4>1 DEF NotYet, Owner
    <3> QED
      BY <2>2, <3>1, <3>2, Zenon
  <2>6. OwnersKnown'
    BY <1>1, <2>1, <2>5, Zenon DEF ServedInv, OwnersKnown, NotYet
  <2> QED
    BY <2>3, <2>4, <2>6, Zenon DEF ServedInv
<1> QED
  BY <1>3, <1>4, Zenon DEF Declare

\* A rate that is published belongs to the session that publishes it.
LEMMA PublishServed ==
  ASSUME FlowTypeOK, ProcessInv, ServedInv, NEW p \in Processes, NEW q, NEW x,
         Publish(p, q, x)
  PROVE  ServedInv'
<1>1. session[p] = "serving" /\ UNCHANGED <<flowVars, session, ctx>>
  BY Zenon DEF Publish, Receives
<1>2. Served' = Served /\ ctx[p] \in Served
  BY <1>1, Zenon DEF Served
<1>3. FlowsServed' /\ UNCHANGED <<worker_boot, flows>>
  BY <1>1, <1>2, Zenon DEF flowVars, ServedInv, FlowsServed, Current, Owner, Live
<1>4. DOMAIN rates' = DOMAIN rates /\ \A d \in DOMAIN rates : DOMAIN rates'[d] = DOMAIN rates[d]
  BY Zenon DEF Publish
<1>5. ASSUME NEW d \in DOMAIN rates, NEW r \in DOMAIN rates[d]
      PROVE  rates'[d][r] = rates[d][r] \/ (rates'[d][r] = ctx[p] /\ Current(ctx[p]))
  BY Zenon DEF Publish
<1>6. /\ ctx[p] \in {NoOwner} \cup Workers \X Boots
      /\ Current(ctx[p]) => ~NotYet(ctx[p])
  <2>1. ctx[p] \in {NoOwner} \cup Workers \X Boots
    BY Zenon DEF ProcessInv
  <2> QED
    BY <2>1 DEF Current, NotYet, Boots
<1>7. RatesServed'
  BY <1>2, <1>3, <1>4, <1>5, Zenon DEF ServedInv, RatesServed, Current
<1>8. OwnersKnown'
  BY <1>3, <1>4, <1>5, <1>6 DEF ServedInv, OwnersKnown, NotYet, Owner
<1> QED
  BY <1>3, <1>7, <1>8, Zenon DEF ServedInv

\* The rates of a new domain have no owner.
LEMMA CreateServed ==
  ASSUME FlowTypeOK, ServedInv, NEW p \in Processes, Create(p)
  PROVE  ServedInv'
<1>1. UNCHANGED <<worker_boot, flows, session, ctx>>
  BY Zenon DEF Create, CreateDomain, flowVars
<1>2. Served' = Served
  BY <1>1, Zenon DEF Served
<1>3. FlowsServed'
  BY <1>1, <1>2, Zenon DEF ServedInv, FlowsServed, Current, Owner, Live
<1>4. ASSUME NEW d \in DOMAIN rates', NEW r \in DOMAIN rates'[d]
      PROVE  \/ d \in DOMAIN rates /\ r \in DOMAIN rates[d] /\ rates'[d][r] = rates[d][r]
             \/ rates'[d][r] = NoOwner
  BY <1>4 DEF Create
<1>5. RatesServed'
  BY <1>1, <1>2, <1>4, Zenon DEF ServedInv, RatesServed, Current
<1>6. OwnersKnown'
  BY <1>1, <1>4, Zenon DEF ServedInv, OwnersKnown, NotYet, Owner
<1> QED
  BY <1>3, <1>5, <1>6, Zenon DEF ServedInv

\* A session that ends takes what is current of its identity with it.
LEMMA EndServed ==
  ASSUME FlowTypeOK, AccountingInv, ProcessInv, ServedInv, NEW p \in Processes, EndSession(p)
  PROVE  ServedInv'
<1> DEFINE wb == ctx[p]
<1>1. Served \ {wb} \subseteq Served'
  BY Zenon DEF EndSession, ProcessInv, Served
<1>2. CASE ~Current(wb) /\ UNCHANGED <<flowVars, rates>>
  <2>1. UNCHANGED <<worker_boot, flows, rates>>
    BY <1>2, Zenon DEF flowVars
  <2>2. FlowsServed'
    BY <1>1, <1>2, <2>1, Zenon DEF ServedInv, FlowsServed, Current, Owner, Live
  <2>3. RatesServed'
    BY <1>1, <1>2, <2>1, Zenon DEF ServedInv, RatesServed, Current
  <2>4. OwnersKnown'
    BY <2>1, Zenon DEF ServedInv, OwnersKnown, NotYet, Owner
  <2> QED
    BY <2>2, <2>3, <2>4, Zenon DEF ServedInv
<1>3. CASE Current(wb) /\ FenceBoot(wb)
  <2>1. PICK w \in Workers, b \in Boots : wb = <<w, b>>
    BY <1>3, OptionFields, Zenon DEF Current, ProcessInv, Identity
  <2>2. FenceWorker(w, b) /\ worker_boot[w] = b
    BY <1>3, <2>1 DEF FenceBoot, Current
  <2>3. AllMayBecome /\ DOMAIN flows' = DOMAIN flows
    BY <2>2, MarkLiveMayBecome, Zenon DEF FenceWorker, MarkLive, OutOfService
  <2>4. ASSUME NEW x \in Workers \X Boots, ~NotYet(x), x # NoOwner
        PROVE  /\ ~(x[2] > worker_boot'[x[1]])
               /\ x # wb /\ worker_boot'[x[1]] = x[2] => Current(x)
    <3>1. x[1] \in Workers /\ x[2] \in Nat /\ b \in Nat /\ x = <<x[1], x[2]>>
      BY DEF Boots
    <3>2. CASE x[1] # w
      BY <2>2, <2>4, <3>1, <3>2, Zenon DEF FenceWorker, NotYet, Current, FlowTypeOK
    <3>3. CASE x[1] = w
      <4>1. x[2] <= b
        BY <2>2, <2>4, <3>1, <3>3 DEF NotYet
      <4>2. worker_boot'[w] = NextGeneration(b)
        BY <2>2, Zenon DEF FenceWorker, FlowTypeOK
      <4>3. worker_boot'[w] \in Nat /\ worker_boot'[w] >= b
        BY <3>1, <4>2 DEF NextGeneration
      <4>4. worker_boot'[w] = x[2] => x = wb
        BY <2>1, <3>1, <3>3, <4>1, <4>3
      <4> QED
        BY <3>1, <3>3, <4>1, <4>3, <4>4
    <3> QED
      BY <3>2, <3>3, Zenon
  <2>5. FlowsServed'
    <3>1. ASSUME NEW i \in DOMAIN flows, Live(i)', Current(Owner(i))' PROVE Owner(i)' \in Served'
      <4>1. Owner(i)' = Owner(i) /\ Live(i)
        BY <2>3, <3>1, LiveBefore, Zenon
      <4>2. ~OwnedBy(i, w, b)'
        BY <2>2, <2>3, <3>1, FenceKills, Zenon DEF Live
      <4>3. Owner(i) # wb
        BY <2>1, <4>1, <4>2 DEF Owner, OwnedBy
      <4>4. Owner(i) \in Workers \X Boots /\ Owner(i) # NoOwner /\ ~NotYet(Owner(i))
        BY OwnerKind, Zenon DEF ServedInv, OwnersKnown
      <4>5. worker_boot'[Owner(i)[1]] = Owner(i)[2]
        BY <3>1, <4>1, Zenon DEF Current
      <4>6. Current(Owner(i))
        BY <2>4, <4>3, <4>4, <4>5, Zenon
      <4> QED
        BY <1>1, <4>1, <4>3, <4>6, Zenon DEF ServedInv, FlowsServed
    <3> QED
      BY <2>3, <3>1, Zenon DEF FlowsServed
  <2>6. ASSUME NEW i \in DOMAIN flows' PROVE ~NotYet(Owner(i))'
    <3>1. i \in DOMAIN flows /\ Owner(i)' = Owner(i)
      BY <2>3, LiveBefore, Zenon
    <3>2. Owner(i) \in Workers \X Boots /\ Owner(i) # NoOwner /\ ~NotYet(Owner(i))
      BY <3>1, OwnerKind, Zenon DEF ServedInv, OwnersKnown
    <3>3. ~(Owner(i)[2] > worker_boot'[Owner(i)[1]])
      BY <2>4, <3>2, Zenon
    <3> QED
      BY <3>1, <3>3, Zenon DEF NotYet
  <2>7. ASSUME NEW d \in DOMAIN rates', NEW r \in DOMAIN rates'[d]
        PROVE  \/ rates'[d][r] = NoOwner
               \/ /\ d \in DOMAIN rates /\ r \in DOMAIN rates[d]
                  /\ rates'[d][r] = rates[d][r] /\ rates[d][r] # wb
    BY <1>3, <2>7 DEF FenceBoot
  <2>8. ASSUME NEW d \in DOMAIN rates', NEW r \in DOMAIN rates'[d], rates'[d][r] # NoOwner
        PROVE  /\ worker_boot'[rates'[d][r][1]] = rates'[d][r][2] => rates'[d][r] \in Served'
               /\ rates'[d][r] \in Workers \X Boots
               /\ ~(rates'[d][r][2] > worker_boot'[rates'[d][r][1]])
    <3>1. /\ d \in DOMAIN rates /\ r \in DOMAIN rates[d]
          /\ rates'[d][r] = rates[d][r] /\ rates[d][r] # wb /\ rates[d][r] # NoOwner
      BY <2>7, <2>8, Zenon
    <3>2. PICK x : x = rates[d][r]
      OBVIOUS
    <3>3. x \in Workers \X Boots /\ ~NotYet(x) /\ (Current(x) => x \in Served)
      BY <3>1, <3>2, Zenon DEF ServedInv, OwnersKnown, RatesServed
    <3> QED
      BY <1>1, <2>4, <3>1, <3>2, <3>3, Zenon
  <2>9. RatesServed'
    BY <2>8, Zenon DEF RatesServed, Current
  <2>10. OwnersKnown'
    BY <2>6, <2>8, Zenon DEF OwnersKnown, NotYet
  <2> QED
    BY <2>5, <2>9, <2>10, Zenon DEF ServedInv
<1> QED
  BY <1>2, <1>3, Zenon DEF EndSession, FenceBoot

\* Every step keeps what is current served.
LEMMA ServedStep ==
  FlowTypeOK /\ AccountingInv /\ ProcessInv /\ ServedInv /\ [DeploymentNext]_deploymentVars
    => ServedInv'
<1> SUFFICES ASSUME FlowTypeOK, AccountingInv, ProcessInv, ServedInv,
                    [DeploymentNext]_deploymentVars
             PROVE  ServedInv'
  OBVIOUS
<1>1. AllMayBecome
  BY FlowStep, StepMayBecome, Zenon
<1>2. ASSUME UNCHANGED <<flows, worker_boot, rates>>, Served \ {NoOwner} \subseteq Served'
      PROVE  ServedInv'
  BY <1>1, <1>2, SteadyStep, Zenon
<1>3. CASE UNCHANGED deploymentVars
  BY <1>2, <1>3, Zenon DEF deploymentVars, processVars, flowVars, Served
<1>4. ASSUME NEW p \in Processes, Start(p) PROVE ServedInv'
  <2>1. Served \subseteq Served'
    BY <1>4 DEF Start, Served, ProcessInv
  <2> QED
    BY <1>2, <1>4, <2>1, Zenon DEF Start, flowVars
<1>5. ASSUME NEW p \in Processes, Kill(p) \/ Continue(p) \/ Query(p) PROVE ServedInv'
  BY <1>2, <1>5, ZenonT(60) DEF Kill, Continue, Query, flowVars, Served
<1>6. ASSUME NEW p \in Processes, Register(p) PROVE ServedInv'
  <2>1. Served \ {NoOwner} \subseteq Served'
    BY <1>6, SMTT(30) DEF Register, Receives, Served, ProcessInv
  <2>2. CASE RegisterWorker(Options[p].worker, Options[p].boot)
    BY <1>6, <2>1, <2>2, RegisterServed, OptionFields, SMTT(30) DEF Register
  <2>3. CASE UNCHANGED flowVars
    BY <1>2, <1>6, <2>1, <2>3, ZenonT(60) DEF Register, flowVars
  <2> QED
    BY <1>6, <2>2, <2>3, ZenonT(60) DEF Register
<1>7. ASSUME NEW p \in Processes, RegisterItsSource(p) PROVE ServedInv'
  <2>1. Served \subseteq Served'
    BY <1>7 DEF RegisterItsSource, Served, ProcessInv
  <2> QED
    BY <1>2, <1>7, <2>1, Zenon DEF RegisterItsSource, RegisterSource, flowVars
<1>8. ASSUME NEW p \in Processes, Admit(p) \/ StartIt(p) \/ Progress(p) \/ Complete(p)
      PROVE  ServedInv'
  <2>1. UNCHANGED <<rates, session, ctx>>
    BY <1>8, Zenon DEF Admit, StartIt, Progress, Complete, FlowCall
  <2>2. (\E id, f : ReplaceFlow(id, f)) \/ UNCHANGED flowVars
    BY <1>8, OperationsReplace, Zenon DEF Admit, StartIt, Progress, Complete, FlowCall
  <2>3. DOMAIN flows' = DOMAIN flows /\ UNCHANGED worker_boot
    BY <2>2, Zenon DEF ReplaceFlow, flowVars
  <2> QED
    BY <1>1, <2>1, <2>3, SteadyStep, SMTT(30) DEF Served
<1> QED
  BY <1>3, <1>4, <1>5, <1>6, <1>7, <1>8, CreateServed, DeclareServed, PublishServed, EndServed,
     SMTT(30)
  DEF DeploymentNext, SessionStep

\* session: "Fence the worker so its exclusive flow evidence becomes STALE".  Whatever
\* processes there are, and whenever they are killed, a live flow and a published rate
\* of a current boot have a connected session behind them.
THEOREM ServedCorrect == DeploymentSpec => []LiveIsServed
<1>1. DeploymentInit => ProcessInv /\ ServedInv
  BY DEF DeploymentInit, FlowInit, ProcessInv, ServedInv, FlowsServed, RatesServed, OwnersKnown
<1>2. FlowInit => AccountingInv
  BY DEF FlowInit, AccountingInv
<1>3. FlowTypeOK /\ AccountingInv /\ [FlowNext]_flowVars => AccountingInv'
  BY AccountingStep, Zenon
<1>4. /\ FlowTypeOK /\ AccountingInv /\ ProcessInv /\ ServedInv
      /\ [DeploymentNext]_deploymentVars
      => ServedInv'
  BY ServedStep, Zenon
<1>5. ProcessInv /\ [DeploymentNext]_deploymentVars => ProcessInv'
  BY ProcessStep
<1> QED
  BY <1>1, <1>2, <1>3, <1>4, <1>5, DeploymentImplementsFlowTable, FlowTypeCorrect,
     ServedInvImplies, PTL DEF DeploymentSpec, FlowSpec

-----------------------------------------------------------------------------
(* A replay of a fenced boot is refused.                                   *)

\* What the engine can tell apart: it compares the boot of a flow's owner and not the
\* worker, so the boots of different workers have to differ; and the largest boot
\* cannot be fenced, because next() saturates.
BootsTellApart ==
    /\ \A p \in Processes : Options[p].boot < MaxU64
    /\ \A p, q \in Processes :
          Options[p].boot = Options[q].boot => Options[p].worker = Options[q].worker

\* A process that has not started has done nothing, and flows belong to processes.
ClientInv ==
    /\ client \in [Processes -> {"off", "waiting", "stays", "exited", "killed"}]
    /\ agreed \in [Processes -> BOOLEAN]
    /\ DOMAIN refused = Processes
    /\ late \subseteq Processes
    /\ \A p \in Processes :
          client[p] = "off" => /\ at[p] = 0 /\ refused[p] = {}
                               /\ ~agreed[p] /\ session[p] = "none"
    /\ \A i \in DOMAIN flows : \E q \in Processes : Owner(i) = Identity(q)

\* What has been asked for so far has been refused.
Asked(p) == {Requests[p][k] : k \in 1..(IF client[p] = "exited" THEN 4 ELSE at[p] - 1)}

LateRefused(p) ==
    /\ client[p] # "off" /\ ~agreed[p]
    /\ Identity(p) \in fenced
    /\ Options[p].scenario = "replay" =>
          /\ wire[p] # "yes"
          /\ at[p] \in 1..4
          /\ refused[p] = Asked(p)

LateInv == \A p \in late : LateRefused(p)

\* The requests of a replay.
LEMMA ReplayRequests ==
  ASSUME NEW p \in Processes, Options[p].scenario = "replay"
  PROVE  /\ Len(Requests[p]) = 4
         /\ Requests[p][1] = "REGISTER" /\ Requests[p][2] = "OFFERED"
         /\ Requests[p][3] = "PROGRESS" /\ Requests[p][4] = "COMPLETE"
<1>1. Requests[p] = Scenarios["replay"]
  BY Zenon DEF Requests
<1>2. Scenarios["replay"] = <<"REGISTER", "OFFERED", "PROGRESS", "COMPLETE">>
  BY Zenon DEF Scenarios
<1> QED
  BY <1>1, <1>2

\* The invariant says that a replay which is through was refused everything.
LEMMA LateInvImplies == ClientInv /\ LateInv => ReplayRejected
<1> SUFFICES ASSUME ClientInv, LateInv, NEW p \in late, Options[p].scenario = "replay",
                    client[p] = "exited"
             PROVE  refused[p] = {"REGISTER", "OFFERED", "PROGRESS", "COMPLETE"}
  BY Zenon DEF ReplayRejected
<1>1. p \in Processes /\ refused[p] = {Requests[p][k] : k \in 1..4}
  BY Zenon DEF ClientInv, LateInv, LateRefused, Asked
<1>2. 1..4 = {1, 2, 3, 4}
  OBVIOUS
<1> QED
  BY <1>1, <1>2, ReplayRequests

\* What is fenced stays fenced.
LEMMA FencedGrow ==
  ASSUME [FlowNext]_flowVars
  PROVE  fenced \subseteq fenced'
BY AuthoritySteps, Zenon DEF RegisterWorker, RegisterSource, FenceWorker, FenceSource

\* The boot of a late process is behind that of its worker, and what it owned is dead.
LEMMA LateBoot ==
  ASSUME BootsTellApart, FlowTypeOK, FencedStaysDead, ClientInv, NEW p \in Processes,
         Identity(p) \in fenced
  PROVE  /\ worker_boot[Options[p].worker] > Options[p].boot
         /\ \A i \in DOMAIN flows : flows[i].owner_boot = Options[p].boot =>
               flows[i].state \in Terminal \cup OutOfService
<1>1. /\ Identity(p)[1] = Options[p].worker /\ Identity(p)[2] = Options[p].boot
      /\ Options[p].worker \in Workers /\ Options[p].boot < MaxU64
  BY OptionFields, Zenon DEF Identity, BootsTellApart
<1>2. /\ BootOf(Options[p].worker) > Options[p].boot
      /\ \A i \in DOMAIN flows : OwnedBy(i, Options[p].worker, Options[p].boot) =>
            flows[i].state \in Terminal \cup OutOfService
  BY <1>1, Zenon DEF FencedStaysDead
<1>3. ASSUME NEW i \in DOMAIN flows, flows[i].owner_boot = Options[p].boot
      PROVE  OwnedBy(i, Options[p].worker, Options[p].boot)
  <2>1. PICK q \in Processes : Owner(i) = Identity(q)
    BY Zenon DEF ClientInv
  <2>2. flows[i].owner_worker = Options[q].worker /\ flows[i].owner_boot = Options[q].boot
    BY <2>1, Zenon DEF Owner, Identity
  <2> QED
    BY <1>3, <2>2, Zenon DEF BootsTellApart, OwnedBy
<1> QED
  BY <1>1, <1>2, <1>3, Zenon DEF BootOf

\* What a process sees of itself and of its session.
Own(p) == <<at[p], client[p], wire[p], session[p], agreed[p], refused[p]>>

\* A step of one process or its session is not seen by another.
LEMMA OthersSame ==
  ASSUME ProcessInv, ClientInv, NEW q \in Processes, NEW p \in Processes, p # q,
         Start(q) \/ Kill(q) \/ Continue(q) \/ SessionStep(q)
  PROVE  /\ UNCHANGED Own(p)
         /\ late' \ {q} = late \ {q}
<1>0. /\ DOMAIN at = Processes /\ DOMAIN client = Processes /\ DOMAIN wire = Processes
      /\ DOMAIN session = Processes /\ DOMAIN agreed = Processes /\ DOMAIN refused = Processes
  BY Zenon DEF ProcessInv, ClientInv
<1>1. CASE Start(q) \/ Kill(q)
  BY <1>0, <1>1, Zenon DEF Start, Kill, Own
<1>2. CASE Continue(q)
  BY <1>0, <1>2, Zenon DEF Continue, Own
<1>3. ASSUME NEW a, Answered(q, a),
             UNCHANGED session \/ session' = [session EXCEPT ![q] = "serving"]
      PROVE  UNCHANGED Own(p) /\ late' = late
  BY <1>0, <1>3, Zenon DEF Answered, Own
<1>4. CASE Register(q) \/ EndSession(q)
  BY <1>0, <1>4, Zenon DEF Register, EndSession, Own
<1>5. CASE SessionStep(q)
  <2>1. CASE Query(q) \/ Create(q) \/ Declare(q)
    BY <1>3, <2>1, Zenon DEF Query, Create, Declare
  <2>2. CASE Admit(q) \/ StartIt(q) \/ Progress(q) \/ Complete(q)
    BY <1>3, <2>2, Zenon DEF Admit, StartIt, Progress, Complete, FlowCall
  <2>3. CASE Publish(q, "OFFERED", "offered") \/ Publish(q, "SERVICED", "serviced")
    BY <1>3, <2>3, Zenon DEF Publish
  <2>4. CASE RegisterItsSource(q)
    BY <1>3, <2>4, Zenon DEF RegisterItsSource
  <2> QED
    BY <1>4, <1>5, <2>1, <2>2, <2>3, <2>4, Zenon DEF SessionStep
<1> QED
  BY <1>1, <1>2, <1>5, Zenon

\* Every step keeps the processes that have not started, and the owners, as they were.
LEMMA ClientStep ==
  ASSUME FlowTypeOK, ProcessInv, ClientInv, [DeploymentNext]_deploymentVars
  PROVE  ClientInv'
<1>1. CASE UNCHANGED deploymentVars
  BY <1>1, Zenon DEF deploymentVars, processVars, flowVars, ClientInv, Owner, Identity
<1>2. ASSUME NEW q \in Processes, Start(q) \/ Kill(q) \/ Continue(q) \/ SessionStep(q)
      PROVE  ClientInv'
  <2> DEFINE Kinds == /\ client' \in [Processes -> {"off", "waiting", "stays", "exited", "killed"}]
                      /\ agreed' \in [Processes -> BOOLEAN]
                      /\ DOMAIN refused' = Processes
                      /\ late' \subseteq Processes
             Begun == client'[q] # "off"
  <2>0. /\ client \in [Processes -> {"off", "waiting", "stays", "exited", "killed"}]
        /\ agreed \in [Processes -> BOOLEAN] /\ DOMAIN refused = Processes
        /\ late \subseteq Processes
        /\ session[q] # "none" => client[q] # "off"
        /\ session \in [Processes -> {"none", "serving", "register_source", "ended"}]
    BY Zenon DEF ClientInv, ProcessInv
  <2>1. ASSUME Start(q) \/ Kill(q) PROVE Kinds /\ Begun
    BY <2>0, <2>1 DEF Start, Kill
  <2>2. ASSUME Continue(q) PROVE Kinds /\ Begun
    BY <2>0, <2>2, Zenon DEF Continue
  <2>3. ASSUME NEW a, Answered(q, a), session[q] # "none" PROVE Kinds /\ Begun
    BY <2>0, <2>3, Zenon DEF Answered
  <2>4. ASSUME Register(q) \/ EndSession(q) PROVE Kinds /\ Begun
    BY <2>0, <2>4, ZenonT(60) DEF Register, EndSession, Receives
  <2>5. ASSUME SessionStep(q) PROVE Kinds /\ Begun
    <3>1. CASE Query(q) \/ Create(q) \/ Declare(q)
      BY <2>3, <3>1, Zenon DEF Query, Create, Declare, Receives
    <3>2. CASE Admit(q) \/ StartIt(q) \/ Progress(q) \/ Complete(q)
      BY <2>3, <3>2, Zenon DEF Admit, StartIt, Progress, Complete, FlowCall, Receives
    <3>3. CASE Publish(q, "OFFERED", "offered") \/ Publish(q, "SERVICED", "serviced")
      BY <2>3, <3>3, Zenon DEF Publish, Receives
    <3>4. CASE RegisterItsSource(q)
      BY <2>3, <3>4, Zenon DEF RegisterItsSource
    <3> HIDE DEF Kinds, Begun
    <3> QED
      BY <2>4, <2>5, <3>1, <3>2, <3>3, <3>4, Zenon DEF SessionStep
  <2>6. Kinds /\ Begun
    BY <1>2, <2>1, <2>2, <2>5, Zenon
  <2>7. \A i \in DOMAIN flows' : \E r \in Processes : Owner(i)' = Identity(r)
    <3>1. [FlowNext]_flowVars
      BY <1>2, FlowStep, Zenon DEF DeploymentNext
    <3>2. AllMayBecome
      BY <3>1, StepMayBecome, Zenon
    <3>3. CASE DOMAIN flows' = DOMAIN flows
      BY <3>2, <3>3, LiveBefore DEF ClientInv
    <3>4. CASE Declare(q) /\ DOMAIN flows' # DOMAIN flows
      <4> DEFINE o == Options[q]
      <4>1. DeclareFlow(o.worker, o.boot, o.source, o.sboot, did[q], o.bytes)
        BY <3>4, Zenon DEF Declare, flowVars
      <4>2. ASSUME NEW i \in DOMAIN flows'
            PROVE  \/ i \in DOMAIN flows
                   \/ flows'[i].owner_worker = o.worker /\ flows'[i].owner_boot = o.boot
        BY <4>1, Zenon DEF DeclareFlow
      <4>3. ASSUME NEW i \in DOMAIN flows' PROVE \E r \in Processes : Owner(i)' = Identity(r)
        <5>1. CASE i \in DOMAIN flows
          BY <3>2, <5>1, LiveBefore, Zenon DEF ClientInv
        <5>2. CASE flows'[i].owner_worker = o.worker /\ flows'[i].owner_boot = o.boot
          BY <5>2, Zenon DEF Owner, Identity
        <5> QED
          BY <4>2, <5>1, <5>2, Zenon
      <4> QED
        BY <4>3, Zenon
    <3>5. DOMAIN flows' = DOMAIN flows \/ Declare(q)
      <4>1. CASE Start(q) \/ Kill(q) \/ Continue(q)
        BY <4>1, Zenon DEF Start, Kill, Continue, flowVars
      <4>2. CASE Query(q) \/ Register(q) \/ RegisterItsSource(q) \/ Create(q)
        BY <4>2, Zenon DEF Query, Register, RegisterItsSource, Create, RegisterWorker,
                    RegisterSource, CreateDomain, flowVars
      <4>3. CASE Admit(q) \/ StartIt(q) \/ Progress(q) \/ Complete(q)
        <5>1. (\E id, f : ReplaceFlow(id, f)) \/ UNCHANGED flowVars
          BY <4>3, OperationsReplace, Zenon
          DEF Admit, StartIt, Progress, Complete, FlowCall
        <5> QED
          BY <5>1, Zenon DEF ReplaceFlow, flowVars
      <4>4. CASE Publish(q, "OFFERED", "offered") \/ Publish(q, "SERVICED", "serviced")
        BY <4>4, Zenon DEF Publish, flowVars
      <4>5. CASE EndSession(q)
        BY <4>5, Zenon DEF EndSession, FenceBoot, FenceWorker, MarkLive, flowVars
      <4> QED
        BY <1>2, <4>1, <4>2, <4>3, <4>4, <4>5, Zenon DEF SessionStep
    <3> QED
      BY <3>3, <3>4, <3>5, Zenon
  <2>8. ASSUME NEW p \in Processes, client'[p] = "off"
        PROVE  at'[p] = 0 /\ refused'[p] = {} /\ ~agreed'[p] /\ session'[p] = "none"
    <3>1. p # q
      BY <2>6, <2>8, Zenon
    <3>2. UNCHANGED Own(p)
      BY <1>2, <3>1, OthersSame, Zenon
    <3> QED
      BY <2>8, <3>2, Zenon DEF Own, ClientInv
  <2> QED
    BY <2>6, <2>7, <2>8, Zenon DEF ClientInv, Identity
<1> QED
  BY <1>1, <1>2, Zenon DEF DeploymentNext

\* A step of the process itself: whatever it asks for, the answer is no.
LEMMA LateOwnStep ==
  ASSUME BootsTellApart, FlowTypeOK, FencedStaysDead, ProcessInv, ClientInv,
         NEW p \in Processes, LateRefused(p), fenced \subseteq fenced',
         Start(p) \/ Kill(p) \/ Continue(p) \/ SessionStep(p)
  PROVE  LateRefused(p)'
<1> DEFINE w == Options[p].worker
           b == Options[p].boot
           Replays == Options[p].scenario = "replay"
<1>1. /\ worker_boot[w] > b /\ worker_boot[w] \in Nat /\ b \in Nat
      /\ \A i \in DOMAIN flows : flows[i].owner_boot = b =>
            flows[i].state \in Terminal \cup OutOfService
  BY SMTT(20), LateBoot, OptionFields, WidthAssumption DEF LateRefused, FlowTypeOK, U64, Boots
<1>2. /\ p \in DOMAIN at /\ p \in DOMAIN client /\ p \in DOMAIN wire /\ p \in DOMAIN session
      /\ p \in DOMAIN agreed /\ p \in DOMAIN refused
      /\ Identity(p)' = Identity(p) /\ Identity(p) \in fenced'
  BY Zenon DEF ProcessInv, ClientInv, LateRefused, Identity
<1>3. ASSUME at'[p] = at[p], refused'[p] = refused[p], agreed'[p] = agreed[p],
             client'[p] = client[p] \/ (client[p] # "exited" /\ client'[p] = "killed"),
             Replays => wire'[p] # "yes"
      PROVE  LateRefused(p)'
  <2>1. Replays => refused'[p] = Asked(p)'
    BY <1>3, Zenon DEF LateRefused, Asked
  <2> QED
    BY <1>2, <1>3, <2>1, Zenon DEF LateRefused
<1>4. CASE Start(p)
  BY <1>4, Zenon DEF Start, LateRefused
<1>5. CASE Kill(p)
  BY <1>2, <1>3, <1>5, Zenon DEF Kill, LateRefused
<1>6. CASE Continue(p)
  <2>1. ~agreed'[p] /\ client'[p] # "off" /\ client[p] = "waiting"
    BY <1>2, <1>6, Zenon DEF Continue, LateRefused
  <2>2. ASSUME Replays
        PROVE  wire'[p] # "yes" /\ at'[p] \in 1..4 /\ refused'[p] = Asked(p)'
    <3>1. ~Stops(p) /\ wire[p] = "no" /\ Len(Requests[p]) = 4 /\ at[p] \in 1..4
      BY <1>6, <2>2, ReplayRequests, Zenon DEF Stops, Continue, LateRefused
    <3>2. refused'[p] = refused[p] \cup {Requests[p][at[p]]} /\ wire'[p] # "yes"
      BY <1>2, <1>6, <3>1, Zenon DEF Continue, Request
    <3>3. refused[p] = {Requests[p][k] : k \in 1..(at[p] - 1)}
      BY <2>1, <2>2, Zenon DEF LateRefused, Asked
    <3>4. refused'[p] = {Requests[p][k] : k \in 1..at[p]}
      <4>1. 1..at[p] = (1..(at[p] - 1)) \cup {at[p]}
        BY SMTT(20), <3>1
      <4> QED
        BY <3>2, <3>3, <4>1, Zenon
    <3>5. CASE at[p] = 4
      <4>1. client'[p] = "exited" /\ at'[p] = 4
        BY <1>2, <1>6, <2>2, <3>1, <3>5, Zenon DEF Continue, Stays
      <4> QED
        BY <3>2, <3>4, <3>5, <4>1 DEF Asked
    <3>6. CASE at[p] # 4
      <4>1. client'[p] = client[p] /\ at'[p] = at[p] + 1
        BY <1>2, <1>6, <3>1, <3>6, Zenon DEF Continue
      <4>2. at'[p] - 1 = at[p] /\ at'[p] \in 1..4
        BY <3>1, <3>6, <4>1
      <4> QED
        BY <2>1, <3>2, <3>4, <4>1, <4>2, ZenonT(60) DEF Asked
    <3> QED
      BY <3>5, <3>6, Zenon
  <2> QED
    BY <1>2, <2>1, <2>2, Zenon DEF LateRefused
<1>7. ASSUME NEW a, Answered(p, a), Replays => a # "yes"
      PROVE  LateRefused(p)'
  BY <1>2, <1>3, <1>7, Zenon DEF Answered
<1>8. ASSUME NEW r, Receives(p, r), Replays
      PROVE  r \in {"REGISTER", "OFFERED", "PROGRESS", "COMPLETE"}
  <2>1. at[p] = 1 \/ at[p] = 2 \/ at[p] = 3 \/ at[p] = 4
    <3>1. at[p] \in 1..4
      BY <1>8, Zenon DEF LateRefused
    <3> QED
      BY <3>1
  <2>2. r = Requests[p][at[p]]
    BY <1>8, Zenon DEF Receives, Request
  <2> QED
    BY <1>8, <2>1, <2>2, ReplayRequests, Zenon
<1>9. CASE Query(p) \/ Create(p) \/ Declare(p) \/ Admit(p) \/ StartIt(p)
  <2>1. \E r \in {"QUERY", "CREATE", "DECLARE", "ADMIT", "START"} : Receives(p, r)
    BY <1>9, ZenonT(60) DEF Query, Create, Declare, Admit, StartIt
  <2>2. ~Replays
    BY <1>8, <2>1, Zenon
  <2>3. \E a : Answered(p, a)
    BY <1>9, Zenon DEF Query, Create, Declare, Admit, StartIt, FlowCall
  <2> QED
    BY <1>7, <2>2, <2>3, Zenon
<1>10. CASE Register(p)
  <2>1. ~RegisterWorker(w, b)
    BY <1>1 DEF RegisterWorker
  <2>2. UNCHANGED <<at, client, wire, refused, agreed>>
    BY <1>10, <2>1, Zenon DEF Register
  <2> QED
    BY <1>3, <2>2, Zenon DEF LateRefused
<1>11. CASE RegisterItsSource(p)
  BY <1>7, <1>11, ZenonT(60) DEF RegisterItsSource, LateRefused
<1>12. CASE Progress(p) \/ Complete(p)
  <2>1. ~FlowProgress(Ref(p), b, Options[p].bytes)
    BY <1>1, Zenon DEF FlowProgress, Resolves, CanProgress, Terminal, OutOfService
  <2>2. ~FlowComplete(Ref(p), b)
    BY <1>1
    DEF FlowComplete, Resolves, FlowTransitionAllowed, FlowTransitions, Terminal, OutOfService
  <2>3. Answered(p, "no")
    BY <1>12, <2>1, <2>2, Zenon DEF Progress, Complete, FlowCall
  <2> QED
    BY <1>7, <2>3, Zenon
<1>13. ASSUME NEW r, NEW x, Publish(p, r, x), r # "REGISTER" PROVE LateRefused(p)'
  <2>1. ctx[p] = Identity(p)
    <3>1. Receives(p, r)
      BY <1>13, Zenon DEF Publish
    <3> QED
      BY <1>13, <3>1, OthersFollowRegister, Zenon
  <2>2. ~Current(ctx[p])
    BY <1>1, <2>1 DEF Current, Identity
  <2>3. Answered(p, "no")
    BY <1>13, <2>2, Zenon DEF Publish
  <2> QED
    BY <1>7, <2>3
<1>14. CASE EndSession(p)
  BY <1>3, <1>14, Zenon DEF EndSession, LateRefused
<1>15. CASE SessionStep(p)
  BY <1>9, <1>10, <1>11, <1>12, <1>13, <1>14, <1>15, Zenon DEF SessionStep
<1> QED
  BY <1>4, <1>5, <1>6, <1>15, Zenon

\* Every step keeps what late processes asked for refused.
LEMMA LateStep ==
  ASSUME BootsTellApart, FlowTypeOK, FencedStaysDead, ProcessInv, ClientInv, LateInv,
         [DeploymentNext]_deploymentVars
  PROVE  LateInv'
<1>1. fenced \subseteq fenced'
  BY FlowStep, FencedGrow, Zenon
<1>2. ASSUME NEW p \in late, p \in Processes, UNCHANGED Own(p) PROVE LateRefused(p)'
  BY <1>1, <1>2, Zenon DEF LateInv, LateRefused, Own, Asked, Identity
<1>3. CASE UNCHANGED deploymentVars
  BY <1>2, <1>3, Zenon DEF deploymentVars, processVars, LateInv, ClientInv, Own
<1>4. ASSUME NEW q \in Processes, Start(q) \/ Kill(q) \/ Continue(q) \/ SessionStep(q),
             NEW p \in late'
      PROVE  LateRefused(p)'
  <2>1. CASE p \in late /\ p = q
    BY <1>1, <1>4, <2>1, LateOwnStep, Zenon DEF LateInv
  <2>2. CASE p \in late /\ p # q
    BY <1>2, <1>4, <2>2, OthersSame, Zenon DEF ClientInv
  <2>3. CASE p \notin late
    <3>1. Start(q) /\ p = q /\ Identity(p) \in fenced
      <4>1. ~Start(q) => late' = late
        BY <1>4, ZenonT(60)
        DEF Kill, Continue, SessionStep, Query, Register, RegisterItsSource, Create,
           Declare, Admit, StartIt, Progress, Complete, FlowCall, Publish, EndSession, Answered
      <4> QED
        BY <1>4, <2>3, <4>1 DEF Start
    <3>2. /\ at'[p] = 1 /\ client'[p] = "waiting" /\ wire'[p] = "request"
          /\ refused'[p] = {} /\ ~agreed'[p]
      BY <3>1, Zenon DEF Start, ClientInv, ProcessInv
    <3>3. Asked(p)' = {}
      BY <3>2 DEF Asked
    <3> QED
      BY <1>1, <3>1, <3>2, <3>3, Zenon DEF LateRefused, Identity
  <2> QED
    BY <2>1, <2>2, <2>3, Zenon
<1> QED
  BY <1>3, <1>4, Zenon DEF DeploymentNext, LateInv

\* replay: "Every operation must be rejected before touching current state".  Whatever
\* processes run, come and go meanwhile, a process that replays a boot which was fenced
\* before it connected is refused everything, provided that boots of different workers
\* differ and are not the largest number.
THEOREM ReplayCorrect == BootsTellApart => (DeploymentSpec => []ReplayRejected)
<1> SUFFICES ASSUME BootsTellApart PROVE DeploymentSpec => []ReplayRejected
  OBVIOUS
<1>1. DeploymentInit => ProcessInv /\ ClientInv /\ LateInv
  BY DEF DeploymentInit, FlowInit, ProcessInv, ClientInv, LateInv
<1>2. ProcessInv /\ [DeploymentNext]_deploymentVars => ProcessInv'
  BY ProcessStep, Zenon
<1>3. FlowTypeOK /\ ProcessInv /\ ClientInv /\ [DeploymentNext]_deploymentVars => ClientInv'
  BY ClientStep, Zenon
<1>4. /\ FlowTypeOK /\ FencedStaysDead /\ ProcessInv /\ ClientInv /\ LateInv
      /\ [DeploymentNext]_deploymentVars
      => LateInv'
  BY LateStep, Zenon
<1> QED
  BY <1>1, <1>2, <1>3, <1>4, DeploymentImplementsFlowTable, FlowTypeCorrect, FencingCorrect,
     LateInvImplies, PTL DEF DeploymentSpec

-----------------------------------------------------------------------------
(* Where a process is in its scenario.                                     *)

\* The scenarios that create a domain, those that declare a flow, and where they do.
Creates(p) == Options[p].scenario \in {"drive", "work"}
Declares(p) == Options[p].scenario \notin {"replay", "register"}
First(p) == IF Creates(p) THEN 3 ELSE 2

\* A request and its place in the scenarios other than replay.
Placed(p, k, r) ==
    \/ k = 1 /\ r = "REGISTER"
    \/ /\ Declares(p)
       /\ \/ k = 2 /\ r = "CREATE" /\ Creates(p)
          \/ k = First(p) /\ r = "DECLARE"
          \/ k = First(p) + 1 /\ r = "ADMIT"
          \/ k = First(p) + 2 /\ r = "START"
          \/ k = First(p) + 3 /\ r = "OFFERED"
          \/ k = First(p) + 4 /\ r = "SERVICED"
          \/ k = First(p) + 5 /\ r = "QUERY"

\* What is in a sequence that is put together of two.
Joins(c, s, t) ==
    /\ Len(c) = Len(s) + Len(t)
    /\ \A k \in 1..Len(s) : c[k] = s[k]
    /\ \A k \in (Len(s) + 1)..(Len(s) + Len(t)) : c[k] = t[k - Len(s)]

\* Two sequences put together are joined.
LEMMA Joined ==
  ASSUME NEW S, NEW s \in Seq(S), NEW t \in Seq(S)
  PROVE  s \o t \in Seq(S) /\ Joins(s \o t, s, t)
BY SMTT(30) DEF Joins

\* A flow is run from this place on.
RunsFrom(R, f) ==
    /\ R[f] = "DECLARE" /\ R[f + 1] = "ADMIT" /\ R[f + 2] = "START"
    /\ R[f + 3] = "OFFERED" /\ R[f + 4] = "SERVICED"

\* The scenarios that run a flow, spelled out.
LEMMA Spelled ==
  /\ \A x \in {"drive", "work"} :
        Scenarios[x][1] = "REGISTER" /\ Scenarios[x][2] = "CREATE" /\ RunsFrom(Scenarios[x], 3)
  /\ \A x \in {"compete", "resurrect", "reincarnate"} :
        Scenarios[x][1] = "REGISTER" /\ RunsFrom(Scenarios[x], 2)
  /\ Len(Scenarios["drive"]) = 7
  /\ Len(Scenarios["work"]) = 8 /\ Scenarios["work"][8] = "QUERY"
  /\ Len(Scenarios["resurrect"]) = 6
  /\ \A x \in {"compete", "reincarnate"} : Len(Scenarios[x]) = 7 /\ Scenarios[x][7] = "QUERY"
  /\ Len(Scenarios["register"]) = 1 /\ Scenarios["register"][1] = "REGISTER"
<1> DEFINE S == {"REGISTER", "CREATE", "DECLARE", "ADMIT", "START", "OFFERED",
                 "SERVICED", "QUERY"}
<1>1. PICK two, one, last : /\ two = <<"REGISTER", "CREATE">> /\ one = <<"REGISTER">>
                            /\ last = <<"QUERY">>
  BY Zenon
<1>2. /\ RunFlow \in Seq(S) /\ Len(RunFlow) = 5
      /\ RunFlow[1] = "DECLARE" /\ RunFlow[2] = "ADMIT" /\ RunFlow[3] = "START"
      /\ RunFlow[4] = "OFFERED" /\ RunFlow[5] = "SERVICED"
  BY DEF RunFlow
<1>3. /\ two \in Seq(S) /\ Len(two) = 2 /\ two[1] = "REGISTER" /\ two[2] = "CREATE"
      /\ one \in Seq(S) /\ Len(one) = 1 /\ one[1] = "REGISTER"
      /\ last \in Seq(S) /\ Len(last) = 1 /\ last[1] = "QUERY"
  BY <1>1
<1> HIDE DEF S
<1>4. PICK a : a = two \o RunFlow
  BY Zenon
<1>5. PICK b : b = one \o RunFlow
  BY Zenon
<1>6. PICK c : c = a \o last
  BY Zenon
<1>7. PICK d : d = b \o last
  BY Zenon
<1>8. a \in Seq(S) /\ Joins(a, two, RunFlow) /\ b \in Seq(S) /\ Joins(b, one, RunFlow)
  BY <1>2, <1>3, <1>4, <1>5, Joined, Zenon
<1>9. Joins(c, a, last) /\ Joins(d, b, last)
  BY <1>3, <1>6, <1>7, <1>8, Joined, Zenon
<1>10. /\ Len(a) = 7 /\ a[1] = "REGISTER" /\ a[2] = "CREATE" /\ RunsFrom(a, 3)
  BY <1>2, <1>3, <1>8 DEF Joins, RunsFrom
<1>11. /\ Len(b) = 6 /\ b[1] = "REGISTER" /\ RunsFrom(b, 2)
  BY <1>2, <1>3, <1>8 DEF Joins, RunsFrom
<1>12. /\ Len(c) = 8 /\ c[8] = "QUERY" /\ c[1] = "REGISTER" /\ c[2] = "CREATE" /\ RunsFrom(c, 3)
  BY <1>3, <1>9, <1>10 DEF Joins, RunsFrom
<1>13. /\ Len(d) = 7 /\ d[7] = "QUERY" /\ d[1] = "REGISTER" /\ RunsFrom(d, 2)
  BY <1>3, <1>9, <1>11 DEF Joins, RunsFrom
<1>14. /\ Scenarios["drive"] = a /\ Scenarios["work"] = c
       /\ Scenarios["compete"] = d /\ Scenarios["reincarnate"] = d
       /\ Scenarios["resurrect"] = b /\ Scenarios["register"] = one
  BY <1>1, <1>4, <1>5, <1>6, <1>7, Zenon DEF Scenarios
<1> QED
  BY <1>3, <1>10, <1>11, <1>12, <1>13, <1>14, ZenonT(30)

\* Every request has its place.
LEMMA PlaceOf ==
  ASSUME NEW p \in Processes, Options[p].scenario # "replay"
  PROVE  /\ \A k \in 1..Len(Requests[p]) : Placed(p, k, Requests[p][k])
         /\ Len(Requests[p]) \in Nat
         /\ Declares(p) => Len(Requests[p]) > First(p) + 3
         /\ First(p) \in {2, 3} /\ (Creates(p) => Declares(p) /\ First(p) = 3)
<1> DEFINE x == Options[p].scenario
<1>1. PICK R, n : R = Requests[p] /\ n = Len(R)
  BY Zenon
<1>2. R = Scenarios[x] /\ x \in DOMAIN Scenarios
  BY <1>1, OptionFields, Zenon DEF Requests
<1>3. x \in {"drive", "work", "compete", "resurrect", "reincarnate", "register"}
  BY <1>2, Zenon DEF Scenarios
<1>4. CASE x \in {"drive", "work"}
  <2>1. Creates(p) /\ Declares(p) /\ First(p) = 3
    BY <1>4, Zenon DEF Creates, Declares, First
  <2>2. R[1] = "REGISTER" /\ R[2] = "CREATE" /\ RunsFrom(R, 3)
    BY <1>2, <1>4, Spelled, Zenon
  <2>3. n = 7 \/ (n = 8 /\ R[8] = "QUERY")
    BY <1>1, <1>2, <1>4, Spelled, Zenon
  <2> HIDE DEF x
  <2>4. ASSUME NEW k \in 1..n PROVE Placed(p, k, R[k])
    <3>1. \/ k = 1 \/ k = 2 \/ k = 3 \/ k = 3 + 1 \/ k = 3 + 2 \/ k = 3 + 3 \/ k = 3 + 4
          \/ (k = 3 + 5 /\ R[k] = "QUERY")
      BY <2>3
    <3> QED
      BY <2>1, <2>2, <3>1, Zenon DEF Placed, RunsFrom
  <2>5. n \in Nat /\ n > First(p) + 3
    BY <2>1, <2>3
  <2> QED
    BY <1>1, <2>1, <2>4, <2>5, Zenon
<1>5. CASE x \in {"compete", "resurrect", "reincarnate"}
  <2>1. ~Creates(p) /\ Declares(p) /\ First(p) = 2
    BY <1>5, Zenon DEF Creates, Declares, First
  <2>2. R[1] = "REGISTER" /\ RunsFrom(R, 2)
    BY <1>2, <1>5, Spelled, Zenon
  <2>3. n = 6 \/ (n = 7 /\ R[7] = "QUERY")
    BY <1>1, <1>2, <1>5, Spelled, Zenon
  <2> HIDE DEF x
  <2>4. ASSUME NEW k \in 1..n PROVE Placed(p, k, R[k])
    <3>1. \/ k = 1 \/ k = 2 \/ k = 2 + 1 \/ k = 2 + 2 \/ k = 2 + 3 \/ k = 2 + 4
          \/ (k = 2 + 5 /\ R[k] = "QUERY")
      BY <2>3
    <3> QED
      BY <2>1, <2>2, <3>1, Zenon DEF Placed, RunsFrom
  <2>5. n \in Nat /\ n > First(p) + 3
    BY <2>1, <2>3
  <2> QED
    BY <1>1, <2>1, <2>4, <2>5, Zenon
<1>6. CASE x = "register"
  <2>1. ~Creates(p) /\ ~Declares(p) /\ First(p) = 2
    BY <1>6, Zenon DEF Creates, Declares, First
  <2>2. R[1] = "REGISTER" /\ Len(R) = 1
    BY <1>2, <1>6, Spelled, Zenon
  <2> HIDE DEF x
  <2>3. 1..1 = {1} /\ 1 \in Nat
    OBVIOUS
  <2> QED
    BY <1>1, <2>1, <2>2, <2>3, Zenon DEF Placed
<1> QED
  BY <1>3, <1>4, <1>5, <1>6, Zenon

\* Every scenario has a first request, and asks for REGISTER in no other.
LEMMA RegisterOnce ==
  ASSUME NEW p \in Processes
  PROVE  /\ Len(Requests[p]) \in Nat /\ Len(Requests[p]) >= 1
         /\ \A k \in 1..Len(Requests[p]) : Requests[p][k] = "REGISTER" => k = 1
<1>1. PICK R, n : R = Requests[p] /\ n = Len(R)
  BY Zenon
<1>2. CASE Options[p].scenario = "replay"
  <2>1. n = 4 /\ R[2] = "OFFERED" /\ R[3] = "PROGRESS" /\ R[4] = "COMPLETE"
    BY <1>1, <1>2, ReplayRequests, Zenon
  <2>2. ASSUME NEW k \in 1..n PROVE k = 1 \/ k = 2 \/ k = 3 \/ k = 4
    BY <2>1
  <2>3. n \in Nat /\ n >= 1
    BY <2>1
  <2> QED
    BY <1>1, <2>1, <2>2, <2>3, Zenon
<1>3. CASE Options[p].scenario # "replay"
  <2>1. \A k \in 1..n : Placed(p, k, R[k])
    BY <1>1, <1>3, PlaceOf, Zenon
  <2>2. \A k \in 1..n : R[k] = "REGISTER" => k = 1
    BY <2>1, Zenon DEF Placed
  <2>3. n \in Nat
    BY <1>1, <1>3, PlaceOf, Zenon
  <2>4. n # 0
    <3>1. Len(Scenarios["register"]) = 1 /\ R = Scenarios[Options[p].scenario]
      BY <1>1, Spelled, Zenon DEF Requests
    <3>2. Declares(p) \/ Options[p].scenario = "register"
      BY <1>3, Zenon DEF Declares
    <3>3. Declares(p) => n > First(p) + 3 /\ First(p) \in {2, 3}
      BY <1>1, <1>3, PlaceOf, Zenon
    <3>4. Declares(p) => n # 0
      BY <2>3, <3>3
    <3>5. Options[p].scenario = "register" => n = 1
      BY <1>1, <3>1, Zenon
    <3> QED
      BY <3>2, <3>4, <3>5
  <2>5. n >= 1
    BY <2>3, <2>4
  <2> QED
    BY <1>1, <2>2, <2>3, <2>5, Zenon
<1> QED
  BY <1>2, <1>3, Zenon

\* A session registers the worker, its source, ends, or answers another request.
LEMMA SessionKinds ==
  ASSUME NEW p \in Processes, SessionStep(p)
  PROVE  \/ Register(p) \/ RegisterItsSource(p) \/ EndSession(p)
         \/ \E r, a : /\ r # "REGISTER" /\ a \in {"yes", "no"}
                      /\ Receives(p, r) /\ Answered(p, a) /\ UNCHANGED <<session, ctx>>
<1> DEFINE Kind == \E r, a : /\ r # "REGISTER" /\ a \in {"yes", "no"} /\ Receives(p, r)
                             /\ Answered(p, a) /\ UNCHANGED <<session, ctx>>
<1>1. CASE Query(p)
  BY <1>1, Zenon DEF Query
<1>2. CASE Create(p)
  BY <1>2, Zenon DEF Create
<1>3. CASE Declare(p)
  BY <1>3, Zenon DEF Declare
<1>4. CASE Admit(p) \/ StartIt(p) \/ Progress(p) \/ Complete(p)
  BY <1>4, Zenon DEF Admit, StartIt, Progress, Complete, FlowCall
<1>5. CASE Publish(p, "OFFERED", "offered") \/ Publish(p, "SERVICED", "serviced")
  BY <1>5, Zenon DEF Publish
<1> HIDE DEF Kind
<1>6. \/ Register(p) \/ RegisterItsSource(p) \/ EndSession(p) \/ Query(p) \/ Create(p)
      \/ Declare(p) \/ Admit(p) \/ StartIt(p) \/ Progress(p) \/ Complete(p)
      \/ Publish(p, "OFFERED", "offered") \/ Publish(p, "SERVICED", "serviced")
  BY Zenon DEF SessionStep
<1> QED
  BY <1>1, <1>2, <1>3, <1>4, <1>5, <1>6, Zenon DEF Kind

-----------------------------------------------------------------------------
(* Where the processes are.                                                *)

\* A process has not gone past its scenario, registers in the first step of it, stays
\* only when its flow was started, and was refused nothing before its first answer.
InPlace(p) ==
    /\ at[p] <= Len(Requests[p])
    /\ client[p] # "off" => at[p] >= 1
    /\ session[p] = "register_source" => at[p] = 1 /\ wire[p] = "request"
    /\ client[p] = "stays" => at[p] > First(p) + 2
    /\ at[p] = 1 /\ wire[p] # "none" => refused[p] = {}

PlaceInv == \A p \in Processes : InPlace(p)

\* A process that takes a step stays in place.
LEMMA PlaceOwnStep ==
  ASSUME ProcessInv, ClientInv, NEW p \in Processes, InPlace(p),
         Start(p) \/ Kill(p) \/ Continue(p) \/ SessionStep(p)
  PROVE  InPlace(p)'
<1>0. /\ at \in [Processes -> Nat] /\ p \in DOMAIN client /\ p \in DOMAIN wire
      /\ p \in DOMAIN session /\ p \in DOMAIN refused /\ at[p] \in Nat
  BY Zenon DEF ProcessInv, ClientInv
<1>1. PICK n : n = Len(Requests[p]) /\ n \in Nat /\ n >= 1
  BY RegisterOnce, Zenon
<1>2. CASE Start(p)
  <2>1. at'[p] = 1 /\ client'[p] = "waiting" /\ session'[p] = "serving" /\ refused'[p] = {}
    BY <1>0, <1>2, Zenon DEF Start, ClientInv
  <2>2. at'[p] <= n /\ at'[p] >= 1
    BY <1>1, <2>1
  <2> QED
    BY <1>1, <2>1, <2>2, Zenon DEF InPlace
<1>3. CASE Kill(p)
  <2>1. client[p] # "off" /\ client'[p] = "killed" /\ UNCHANGED <<at, session, wire, refused>>
    BY <1>0, <1>3, Zenon DEF Kill
  <2> QED
    BY <2>1, Zenon DEF InPlace
<1>4. CASE Continue(p)
  <2> DEFINE over == Stops(p) \/ at[p] = n
  <2>1. /\ client[p] = "waiting" /\ wire[p] \in {"yes", "no"} /\ UNCHANGED session
        /\ at'[p] = IF over THEN at[p] ELSE at[p] + 1
        /\ wire'[p] = IF over THEN "none" ELSE "request"
        /\ client'[p] = IF ~over THEN "waiting" ELSE IF Stays(p) THEN "stays" ELSE "exited"
    BY <1>0, <1>1, <1>4, Zenon DEF Continue
  <2>2. at[p] >= 1 /\ at[p] <= n /\ session[p] # "register_source"
    BY <1>1, <2>1, Zenon DEF InPlace
  <2>3. at'[p] <= n /\ at'[p] >= 1 /\ (at'[p] = 1 => wire'[p] = "none")
    BY <1>0, <1>1, <2>1, <2>2
  <2>4. client'[p] = "stays" => at'[p] > First(p) + 2
    <3> SUFFICES ASSUME client'[p] = "stays" PROVE at'[p] > First(p) + 2
      OBVIOUS
    <3>1. over /\ Stays(p) /\ at'[p] = at[p]
      BY <2>1, Zenon
    <3>2. at[p] = n /\ Options[p].scenario # "replay" /\ Declares(p)
      BY <3>1, Zenon DEF Stays, Declares
    <3>3. n > First(p) + 3 /\ First(p) \in {2, 3}
      BY <1>1, <3>2, PlaceOf, Zenon
    <3> QED
      BY <1>1, <3>1, <3>2, <3>3
  <2> QED
    BY <1>1, <2>1, <2>2, <2>3, <2>4, Zenon DEF InPlace
<1>5. CASE Register(p)
  <2>1. /\ Receives(p, "REGISTER") /\ UNCHANGED <<at, client, wire, refused>>
        /\ wire[p] = "request" /\ Request(p) = "REGISTER" /\ session[p] = "serving"
    BY <1>5, Zenon DEF Register, Receives
  <2>2. at[p] >= 1 /\ at[p] <= n
    BY <1>1, <2>1, Zenon DEF InPlace, ProcessInv
  <2>3. at[p] \in 1..n
    BY <1>0, <1>1, <2>2
  <2>4. at[p] = 1
    BY <1>1, <2>1, <2>3, RegisterOnce, Zenon DEF Request
  <2> QED
    BY <2>1, <2>4, Zenon DEF InPlace
<1>6. ASSUME NEW a, Answered(p, a), wire[p] = "request", session'[p] # "register_source"
      PROVE  InPlace(p)'
  BY <1>6, Zenon DEF Answered, InPlace
<1>7. CASE RegisterItsSource(p)
  BY <1>0, <1>6, <1>7, Zenon DEF RegisterItsSource, InPlace
<1>8. CASE EndSession(p)
  BY <1>0, <1>8, Zenon DEF EndSession, InPlace
<1>9. ASSUME NEW r, NEW a, Receives(p, r), Answered(p, a), UNCHANGED session
      PROVE  InPlace(p)'
  BY <1>6, <1>9, Zenon DEF Receives
<1> QED
  BY <1>2, <1>3, <1>4, <1>5, <1>7, <1>8, <1>9, SessionKinds, Zenon

\* Every step keeps the processes in place.
LEMMA PlaceStep ==
  ASSUME ProcessInv, ClientInv, PlaceInv, [DeploymentNext]_deploymentVars
  PROVE  PlaceInv'
<1>1. ASSUME NEW p \in Processes, UNCHANGED Own(p) PROVE InPlace(p)'
  BY <1>1, Zenon DEF Own, PlaceInv, InPlace
<1>2. CASE UNCHANGED deploymentVars
  BY <1>1, <1>2, Zenon DEF deploymentVars, processVars, PlaceInv, Own
<1>3. ASSUME NEW q \in Processes, Start(q) \/ Kill(q) \/ Continue(q) \/ SessionStep(q)
      PROVE  PlaceInv'
  BY <1>1, <1>3, PlaceOwnStep, OthersSame, Zenon DEF PlaceInv
<1> QED
  BY <1>2, <1>3, Zenon DEF DeploymentNext

-----------------------------------------------------------------------------
(* What the processes were told.                                           *)

\* Domains and flows that processes were told of exist, no two processes were told of
\* the same flow, and every domain has its rates.
ToldInv ==
    /\ did \in [Processes -> Nat] /\ fid \in [Processes -> Nat] /\ idfile \in Nat
    /\ DOMAIN rates = DOMAIN members
    /\ idfile # 0 => idfile \in DOMAIN members
    /\ \A p \in Processes : /\ did[p] # 0 => did[p] \in DOMAIN members
                            /\ fid[p] # 0 => fid[p] \in DOMAIN flows
    /\ \A p, q \in Processes : p # q /\ fid[p] # 0 => fid[p] # fid[q]

\* The calls on a flow leave the set of domains and that of flows alone.
LEMMA CallsKeepIds ==
  ASSUME FlowTypeOK, NEW q \in Processes, Admit(q) \/ StartIt(q) \/ Progress(q) \/ Complete(q)
  PROVE  DOMAIN members' = DOMAIN members /\ DOMAIN flows' = DOMAIN flows
<1>1. CASE UNCHANGED flowVars
  BY <1>1, Zenon DEF flowVars
<1>2. CASE AdmitFlow(Ref(q))
  BY <1>2, Zenon DEF AdmitFlow, ReplaceFlow
<1>3. CASE StartFlow(Ref(q), Options[q].boot)
  BY <1>3, Zenon DEF StartFlow, ReplaceFlow
<1>4. CASE FlowProgress(Ref(q), Options[q].boot, Options[q].bytes)
  BY <1>4, Zenon DEF FlowProgress, ReplaceFlow
<1>5. CASE FlowComplete(Ref(q), Options[q].boot)
  BY <1>5, Zenon DEF FlowComplete, ReplaceFlow
<1> QED
  BY <1>1, <1>2, <1>3, <1>4, <1>5, Zenon DEF Admit, StartIt, Progress, Complete, FlowCall

\* Every step keeps what processes were told true.
LEMMA ToldStep ==
  ASSUME FlowTypeOK, ProcessInv, ToldInv, [DeploymentNext]_deploymentVars
  PROVE  ToldInv'
<1>1. ASSUME UNCHANGED <<did, fid, idfile>>, DOMAIN members' = DOMAIN members,
             DOMAIN rates' = DOMAIN rates, DOMAIN flows' = DOMAIN flows
      PROVE  ToldInv'
  BY <1>1, Zenon DEF ToldInv
<1>2. ASSUME UNCHANGED <<flowVars, rates, did, fid, idfile>> PROVE ToldInv'
  BY <1>1, <1>2, Zenon DEF flowVars
<1>3. CASE UNCHANGED deploymentVars
  BY <1>2, <1>3, Zenon DEF deploymentVars, processVars
<1>4. ASSUME NEW q \in Processes, Start(q) \/ Kill(q) PROVE ToldInv'
  BY <1>2, <1>4, Zenon DEF Start, Kill
<1>5. ASSUME NEW q \in Processes, Continue(q) PROVE ToldInv'
  <2>1. /\ UNCHANGED <<flowVars, rates, fid>>
        /\ idfile' = did[q] \/ idfile' = idfile
        /\ did' = did \/ did' = [did EXCEPT ![q] = idfile]
    BY <1>5, Zenon DEF Continue
  <2>2. UNCHANGED <<members, flows, rates, fid>>
    BY <2>1, Zenon DEF flowVars
  <2>3. idfile' \in Nat /\ (idfile' # 0 => idfile' \in DOMAIN members)
    BY <2>1, ZenonT(60) DEF ToldInv
  <2>4. /\ did' \in [Processes -> Nat]
        /\ \A p \in Processes : did'[p] # 0 => did'[p] \in DOMAIN members
    BY <2>1, Zenon DEF ToldInv
  <2> QED
    BY <2>2, <2>3, <2>4, Zenon DEF ToldInv
<1>6. ASSUME NEW q \in Processes, Query(q) PROVE ToldInv'
  BY <1>2, <1>6, Zenon DEF Query, Answered
<1>7. ASSUME NEW q \in Processes, Register(q) PROVE ToldInv'
  BY <1>1, <1>7, Zenon DEF Register, RegisterWorker, flowVars
<1>8. ASSUME NEW q \in Processes, RegisterItsSource(q) PROVE ToldInv'
  BY <1>1, <1>8, Zenon DEF RegisterItsSource, Answered, RegisterSource, flowVars
<1>9. ASSUME NEW q \in Processes, Create(q) PROVE ToldInv'
  <2>1. CASE UNCHANGED <<flowVars, rates, did>>
    BY <1>2, <1>9, <2>1, Zenon DEF Create, Answered
  <2>2. CASE /\ CreateDomain
             /\ rates' = [d \in DOMAIN rates \cup {next_domain} |->
                   IF d = next_domain THEN [offered |-> NoOwner, serviced |-> NoOwner]
                   ELSE rates[d]]
             /\ did' = [did EXCEPT ![q] = next_domain]
    <3>1. /\ DOMAIN members' = DOMAIN members \cup {next_domain}
          /\ DOMAIN rates' = DOMAIN rates \cup {next_domain}
          /\ UNCHANGED <<flows, fid, idfile>>
      BY <1>9, <2>2, Zenon DEF Create, CreateDomain, Answered
    <3>2. next_domain \in Nat
      BY LimitsAssumption DEF FlowTypeOK
    <3>3. /\ did' \in [Processes -> Nat]
          /\ \A p \in Processes : did'[p] # 0 => did'[p] \in DOMAIN members'
      BY <2>2, <3>1, <3>2, Zenon DEF ToldInv
    <3> QED
      BY <3>1, <3>3, Zenon DEF ToldInv
  <2> QED
    BY <1>9, <2>1, <2>2, Zenon DEF Create
<1>10. ASSUME NEW q \in Processes, Declare(q) PROVE ToldInv'
  <2> DEFINE o == Options[q]
  <2>1. CASE UNCHANGED <<flowVars, fid>>
    BY <1>2, <1>10, <2>1, Zenon DEF Declare, Answered
  <2>2. CASE /\ DeclareFlow(o.worker, o.boot, o.source, o.sboot, did[q], o.bytes)
             /\ fid' = [fid EXCEPT ![q] = next_flow]
    <3>1. /\ DOMAIN flows' = DOMAIN flows \cup {next_flow}
          /\ UNCHANGED <<members, rates, did, idfile>>
      BY <1>10, <2>2, Zenon DEF Declare, DeclareFlow, Answered
    <3>2. next_flow \in Nat /\ next_flow # 0 /\ next_flow \notin DOMAIN flows
      BY LimitsAssumption DEF FlowTypeOK
    <3>3. fid' \in [Processes -> Nat] /\ fid'[q] = next_flow
      BY <2>2, <3>2, Zenon DEF ToldInv
    <3>4. ASSUME NEW p \in Processes, p # q PROVE fid'[p] = fid[p] /\ fid[p] # next_flow
      BY <2>2, <3>2, <3>4, Zenon DEF ToldInv
    <3>5. \A p \in Processes : fid'[p] # 0 => fid'[p] \in DOMAIN flows'
      BY <3>1, <3>3, <3>4, Zenon DEF ToldInv
    <3>6. \A p, r \in Processes : p # r /\ fid'[p] # 0 => fid'[p] # fid'[r]
      BY <3>3, <3>4, Zenon DEF ToldInv
    <3> QED
      BY <3>1, <3>3, <3>5, <3>6, Zenon DEF ToldInv
  <2> QED
    BY <1>10, <2>1, <2>2, Zenon DEF Declare
<1>11. ASSUME NEW q \in Processes, Admit(q) \/ StartIt(q) \/ Progress(q) \/ Complete(q)
       PROVE  ToldInv'
  BY <1>1, <1>11, CallsKeepIds, Zenon DEF Admit, StartIt, Progress, Complete, FlowCall, Answered
<1>12. ASSUME NEW q \in Processes, NEW r, NEW x, Publish(q, r, x) PROVE ToldInv'
  BY <1>1, <1>12, Zenon DEF Publish, Answered, flowVars
<1>13. ASSUME NEW q \in Processes, EndSession(q) PROVE ToldInv'
  BY <1>1, <1>13, Zenon DEF EndSession, FenceBoot, FenceWorker, MarkLive, flowVars
<1> QED
  BY <1>3, <1>4, <1>5, <1>6, <1>7, <1>8, <1>9, <1>10, <1>11, <1>12, <1>13, Zenon
  DEF DeploymentNext, SessionStep
=============================================================================
