------------------------------ MODULE Deployment ------------------------------
(***************************************************************************)
(* The reference deployment: worker processes (cfworker.cpp, cu_worker.cu) *)
(* that run a scenario against the coordinator, one request at a time over *)
(* a connection of their own, and that may be killed at any moment.        *)
(*                                                                         *)
(* The coordinator's engine is the flow table, every call of which is one  *)
(* atomic step, and of the domains' evidence the owners of the two rates.  *)
(* A process runs once; a worker that restarts is another process with the *)
(* same worker and another boot.  Shutdown is the subject of Coordinator,  *)
(* framing that of Frames: here a frame arrives whole or not at all.  The  *)
(* scenarios of a single request but for register are left out.            *)
(***************************************************************************)
EXTENDS FlowTable

CONSTANTS
    Processes,
    Options         \* of each process: scenario, worker, boot, source, sboot, stay, bytes;
                    \* and whether it may be killed

VARIABLES
    at,             \* where each process is in its scenario; 0 before it starts
    client,         \* "off", "waiting" for a reply, "stays", "exited" or "killed"
    wire,           \* what each connection carries: "none", "request", "yes", "no"
    session,        \* "none", "serving", "register_source", "ended"
    agreed,         \* register_worker's result, while register_source is to be called
    ctx,            \* ctx_wid and ctx_boot of each session
    idfile,         \* the domain id that do_create wrote, 0 when there is no file
    did, fid,       \* the domain and the flow that each process was told, 0 for none
    rates,          \* owners of the offered and the serviced rate of each domain
    refused,        \* history: the requests of each process that were refused
    late            \* history: the processes started after their boot was fenced

processVars == <<at, client, wire, session, agreed, ctx, idfile, did, fid, refused, late>>
deploymentVars == <<flowVars, rates, processVars>>

NoOwner == <<0, 0>>
Identity(p) == <<Options[p].worker, Options[p].boot>>

RunFlow == <<"DECLARE", "ADMIT", "START", "OFFERED", "SERVICED">>

\* The requests of a scenario; reincarnate is cu_worker's resurrect.
Scenarios ==
    [drive |-> <<"REGISTER", "CREATE">> \o RunFlow,
     work |-> <<"REGISTER", "CREATE">> \o RunFlow \o <<"QUERY">>,
     compete |-> <<"REGISTER">> \o RunFlow \o <<"QUERY">>,
     resurrect |-> <<"REGISTER">> \o RunFlow,
     reincarnate |-> <<"REGISTER">> \o RunFlow \o <<"QUERY">>,
     replay |-> <<"REGISTER", "OFFERED", "PROGRESS", "COMPLETE">>,
     register |-> <<"REGISTER">>]

ASSUME OptionsAssumption ==
    Options \in [Processes ->
        [scenario : DOMAIN Scenarios, worker : Workers, boot : Boots, source : Sources,
         sboot : Boots, stay : BOOLEAN, bytes : ByteAmounts, mortal : BOOLEAN]]

Requests == [p \in Processes |-> Scenarios[Options[p].scenario]]

Request(p) == Requests[p][at[p]]

\* The answer that ends a scenario early; replay goes on whatever the answers are, and
\* the answers to publications are read and dropped.  cu_worker asks for no flow when
\* there is no domain id on file.
Stops(p) ==
    \/ /\ wire[p] = "no"
       /\ Options[p].scenario # "replay"
       /\ Request(p) \in {"REGISTER", "CREATE", "DECLARE", "ADMIT", "START"}
    \/ Options[p].scenario = "reincarnate" /\ Request(p) = "REGISTER" /\ idfile = 0

\* The flow a request is about: replay names the first flow.
Ref(p) == [id |-> IF Options[p].scenario = "replay" THEN 1 ELSE fid[p], generation |-> 1]

DeploymentInit ==
    /\ FlowInit
    /\ at = [p \in Processes |-> 0]
    /\ client = [p \in Processes |-> "off"]
    /\ wire = [p \in Processes |-> "none"]
    /\ session = [p \in Processes |-> "none"]
    /\ agreed = [p \in Processes |-> FALSE]
    /\ ctx = [p \in Processes |-> NoOwner]
    /\ idfile = 0
    /\ did = [p \in Processes |-> 0]
    /\ fid = [p \in Processes |-> 0]
    /\ rates = << >>
    /\ refused = [p \in Processes |-> {}]
    /\ late = {}

-----------------------------------------------------------------------------
(* The processes.                                                          *)

\* Connects, which makes the coordinator start a session, says HELLO, which changes
\* nothing, and sends the first request.
Start(p) ==
    /\ client[p] = "off"
    /\ at' = [at EXCEPT ![p] = 1]
    /\ client' = [client EXCEPT ![p] = "waiting"]
    /\ wire' = [wire EXCEPT ![p] = "request"]
    /\ session' = [session EXCEPT ![p] = "serving"]
    /\ late' = IF Identity(p) \in fenced THEN late \cup {p} ELSE late
    /\ UNCHANGED <<flowVars, rates, agreed, ctx, idfile, did, fid, refused>>

\* Only these scenarios look at --stay.
Stays(p) ==
    /\ Options[p].stay /\ ~Stops(p)
    /\ Options[p].scenario \in {"drive", "work", "compete", "reincarnate"}

\* Reads the reply and sends the next request, or is through: then it stays, reading
\* until the connection drops, or closes its socket.
Continue(p) ==
    LET over == Stops(p) \/ at[p] = Len(Requests[p])
    IN  /\ client[p] = "waiting" /\ wire[p] \in {"yes", "no"}
        /\ at' = IF over THEN at ELSE [at EXCEPT ![p] = @ + 1]
        /\ wire' = [wire EXCEPT ![p] = IF over THEN "none" ELSE "request"]
        /\ client' = IF ~over THEN client ELSE
              [client EXCEPT ![p] = IF Stays(p) THEN "stays" ELSE "exited"]
        /\ refused' = IF wire[p] = "no" THEN [refused EXCEPT ![p] = @ \cup {Request(p)}]
                      ELSE refused
        /\ idfile' = IF Request(p) = "CREATE" /\ wire[p] = "yes" THEN did[p] ELSE idfile
        /\ did' = IF Request(p) = "REGISTER" /\ ~over THEN [did EXCEPT ![p] = idfile] ELSE did
        /\ UNCHANGED <<flowVars, rates, session, agreed, ctx, fid, late>>

Kill(p) ==
    /\ Options[p].mortal
    /\ client[p] \in {"waiting", "stays"}
    /\ client' = [client EXCEPT ![p] = "killed"]
    /\ UNCHANGED <<flowVars, rates, at, wire, session, agreed, ctx, idfile, did, fid,
                   refused, late>>

-----------------------------------------------------------------------------
(* The sessions.                                                           *)

\* The handler is done with the request and has sent this answer.
Answered(p, answer) ==
    /\ wire' = [wire EXCEPT ![p] = answer]
    /\ UNCHANGED <<at, client, agreed, idfile, refused, late>>

\* A request is read, also that of a client killed after it was sent.
Receives(p, request) ==
    /\ session[p] = "serving"
    /\ wire[p] = "request" /\ Request(p) = request

\* QUERY_CONGESTION changes nothing here.
Query(p) ==
    /\ Receives(p, "QUERY")
    /\ Answered(p, "yes")
    /\ UNCHANGED <<flowVars, rates, session, ctx, did, fid>>

\* The session takes on the identity whatever register_worker says.
Register(p) ==
    /\ Receives(p, "REGISTER")
    /\ ctx' = [ctx EXCEPT ![p] = Identity(p)]
    /\ session' = [session EXCEPT ![p] = "register_source"]
    /\ \/ /\ RegisterWorker(Options[p].worker, Options[p].boot)
          /\ agreed' = [agreed EXCEPT ![p] = TRUE]
       \/ /\ worker_boot[Options[p].worker] >= Options[p].boot
          /\ UNCHANGED <<flowVars, agreed>>
    /\ UNCHANGED <<rates, at, client, wire, idfile, did, fid, refused, late>>

\* The worker may have been registered although the source is refused.
RegisterItsSource(p) ==
    /\ session[p] = "register_source"
    /\ session' = [session EXCEPT ![p] = "serving"]
    /\ \/ /\ RegisterSource(Options[p].source, Options[p].sboot)
          /\ Answered(p, IF agreed[p] THEN "yes" ELSE "no")
       \/ /\ source_boot[Options[p].source] >= Options[p].sboot
          /\ UNCHANGED flowVars
          /\ Answered(p, "no")
    /\ UNCHANGED <<rates, ctx, did, fid>>

Create(p) ==
    /\ Receives(p, "CREATE")
    /\ \/ /\ CreateDomain
          /\ rates' = [d \in DOMAIN rates \cup {next_domain} |->
                IF d = next_domain THEN [offered |-> NoOwner, serviced |-> NoOwner] ELSE rates[d]]
          /\ did' = [did EXCEPT ![p] = next_domain]
          /\ Answered(p, "yes")
       \/ /\ Cardinality(DOMAIN members) >= MaxDomains
          /\ Answered(p, "no")
          /\ UNCHANGED <<flowVars, rates, did>>
    /\ UNCHANGED <<session, ctx, fid>>

\* declare_flow takes the owner from the frame.
Declare(p) ==
    LET o == Options[p]
    IN  /\ Receives(p, "DECLARE")
        /\ \/ /\ DeclareFlow(o.worker, o.boot, o.source, o.sboot, did[p], o.bytes)
              /\ fid' = [fid EXCEPT ![p] = next_flow]
              /\ Answered(p, "yes")
           \/ /\ \/ worker_boot[o.worker] # o.boot \/ source_boot[o.source] # o.sboot
                 \/ did[p] \notin DOMAIN members \/ active_flows >= MaxActiveFlows
              /\ Answered(p, "no")
              /\ UNCHANGED <<flowVars, fid>>
        /\ UNCHANGED <<rates, session, ctx, did>>

\* Mutant of FlowCall: a refused call is not answered.
FlowCallUnanswered(p, call, may) ==
    /\ \/ call /\ Answered(p, "yes")
       \/ /\ ~may /\ UNCHANGED flowVars /\ Answered(p, "none")
    /\ UNCHANGED <<rates, session, ctx, did, fid>>

\* The requests that are one call on the flow Ref(p), refused unless the call may go
\* ahead.  (All sums fit: a process asks for the same number of bytes throughout.)
FlowCall(p, call, may) ==
    /\ \/ call /\ Answered(p, "yes")
       \/ ~may /\ UNCHANGED flowVars /\ Answered(p, "no")
    /\ UNCHANGED <<rates, session, ctx, did, fid>>

\* The flow exists and its owner's boot is that of the request.
OwnFlow(p) == Resolves(Ref(p)) /\ flows[Ref(p).id].owner_boot = Options[p].boot

Admit(p) ==
    /\ Receives(p, "ADMIT")
    /\ FlowCall(p, AdmitFlow(Ref(p)),
                /\ Resolves(Ref(p)) /\ flows[Ref(p).id].domain \in DOMAIN members
                /\ FlowTransitionAllowed(flows[Ref(p).id].state, "ADMITTED"))

StartIt(p) ==
    /\ Receives(p, "START")
    /\ FlowCall(p, StartFlow(Ref(p), Options[p].boot),
                OwnFlow(p) /\ flows[Ref(p).id].state \in {"QUEUED", "ADMITTED", "VALIDATING"})

Progress(p) ==
    /\ Receives(p, "PROGRESS")
    /\ FlowCall(p, FlowProgress(Ref(p), Options[p].boot, Options[p].bytes),
                /\ OwnFlow(p) /\ flows[Ref(p).id].state \in CanProgress
                /\ flows[Ref(p).id].completed + Options[p].bytes <= flows[Ref(p).id].admitted)

Complete(p) ==
    /\ Receives(p, "COMPLETE")
    /\ FlowCall(p, FlowComplete(Ref(p), Options[p].boot),
                OwnFlow(p) /\ FlowTransitionAllowed(flows[Ref(p).id].state, "COMPLETED"))

\* An identity that was set and whose boot is the worker's current one.
Current(wb) == wb # NoOwner /\ worker_boot[wb[1]] = wb[2]

\* Mutant of Publish: the boot of the session is not compared.
PublishByAnyone(p, request, rate) ==
    LET d == IF Options[p].scenario = "replay" THEN 1 ELSE did[p]
        may == ctx[p] # NoOwner /\ d \in DOMAIN rates
    IN  /\ Receives(p, request)
        /\ rates' = IF may THEN [rates EXCEPT ![d][rate] = ctx[p]] ELSE rates
        /\ Answered(p, IF may THEN "yes" ELSE "no")
        /\ UNCHANGED <<flowVars, session, ctx, did, fid>>

\* PUBLISH_MEASUREMENT goes by the identity of the session, which is set here.
Publish(p, request, rate) ==
    LET d == IF Options[p].scenario = "replay" THEN 1 ELSE did[p]
        may == Current(ctx[p]) /\ d \in DOMAIN rates
    IN  /\ Receives(p, request)
        /\ rates' = IF may THEN [rates EXCEPT ![d][rate] = ctx[p]] ELSE rates
        /\ Answered(p, IF may THEN "yes" ELSE "no")
        /\ UNCHANGED <<flowVars, session, ctx, did, fid>>

\* Mutant of FenceBoot: fences whichever boot of the worker is current.
FenceAnyBoot(wb) ==
    \/ /\ wb # NoOwner /\ FenceWorker(wb[1], worker_boot[wb[1]])
       /\ UNCHANGED rates
    \/ wb = NoOwner /\ UNCHANGED <<flowVars, rates>>

\* fence_worker on the flows and on the rates that the boot owns.
FenceBoot(wb) ==
    \/ /\ Current(wb) /\ FenceWorker(wb[1], wb[2])
       /\ rates' = [d \in DOMAIN rates |->
             [r \in DOMAIN rates[d] |-> IF rates[d][r] = wb THEN NoOwner ELSE rates[d][r]]]
    \/ ~Current(wb) /\ UNCHANGED <<flowVars, rates>>

\* Mutant of EndSession: the worker is not fenced.
EndUnfenced(p) ==
    /\ session[p] = "serving"
    /\ client[p] \in {"exited", "killed"}
    /\ session' = [session EXCEPT ![p] = "ended"]
    /\ UNCHANGED <<flowVars, rates, at, client, wire, agreed, ctx, idfile, did, fid, refused,
                   late>>

\* The peer is gone, possibly with a request unread: the session fences the identity it
\* took on.
EndSession(p) ==
    /\ session[p] = "serving"
    /\ client[p] \in {"exited", "killed"}
    /\ FenceBoot(ctx[p])
    /\ session' = [session EXCEPT ![p] = "ended"]
    /\ UNCHANGED <<at, client, wire, agreed, ctx, idfile, did, fid, refused, late>>

SessionStep(p) ==
    \/ Query(p) \/ Register(p) \/ RegisterItsSource(p) \/ Create(p) \/ Declare(p)
    \/ Admit(p) \/ StartIt(p) \/ Progress(p) \/ Complete(p)
    \/ Publish(p, "OFFERED", "offered") \/ Publish(p, "SERVICED", "serviced")
    \/ EndSession(p)

DeploymentNext ==
    \E p \in Processes : Start(p) \/ Kill(p) \/ Continue(p) \/ SessionStep(p)

\* Processes that were started run until they are killed, and sessions are scheduled.
\* A process and its session take turns, so one fairness condition serves both.
DeploymentSpec ==
    /\ DeploymentInit /\ [][DeploymentNext]_deploymentVars
    /\ \A p \in Processes : WF_deploymentVars(Continue(p) \/ SessionStep(p))

-----------------------------------------------------------------------------
(* Properties.                                                             *)

\* replay: "Every operation must be rejected before touching current state" (cfworker.cpp).
\* A process that replays a boot which was fenced before it connected is refused whatever
\* it asks for, no matter which newer boots come, go and publish meanwhile.
ReplayRejected ==
    \A p \in late :
        Options[p].scenario = "replay" /\ client[p] = "exited"
            => refused[p] = {"REGISTER", "OFFERED", "PROGRESS", "COMPLETE"}

Live(i) == flows[i].state \notin Terminal \cup OutOfService

\* session: "Fence the worker so its exclusive flow evidence becomes STALE".  A flow of a
\* current boot, and a rate that such a boot published, have a connected session behind
\* them: neither outlives the worker process it came from.
LiveIsServed ==
    LET served == {ctx[p] : p \in {q \in Processes : session[q] \notin {"none", "ended"}}}
    IN  /\ \A i \in DOMAIN flows :
              LET owner == <<flows[i].owner_worker, flows[i].owner_boot>>
              IN  Live(i) /\ Current(owner) => owner \in served
        /\ \A d \in DOMAIN rates : \A r \in DOMAIN rates[d] :
              Current(rates[d][r]) => rates[d][r] \in served

\* The process was told that it is registered.
Registered(p) == at[p] > 1 /\ "REGISTER" \notin refused[p]

\* A process in good standing, connected and registered with the newest boot of its
\* worker, is served unless it is itself a replay, which asks for a flow of another: none
\* of its requests is refused, neither because of an older boot whose session ends late
\* nor because of a replay, and when it is through its flow runs.
GoodStandingServed ==
    \A p \in Processes :
        /\ Registered(p) /\ session[p] # "ended" /\ Options[p].scenario # "replay"
        /\ \A q \in Processes \ {p} : Options[q].worker = Options[p].worker /\ at[q] > 0
                                        => Options[q].boot < Options[p].boot
        => /\ did[p] # 0 \/ Request(p) = "CREATE" => refused[p] = {}
           /\ client[p] = "stays" => /\ flows[fid[p]].state = "ACTIVE"
                                     /\ flows[fid[p]].in_flight = Options[p].bytes

-----------------------------------------------------------------------------
\* No process waits for ever: every request is answered until the process is through,
\* and the session of one that exits or is killed ends.
AllSettle ==
    \A p \in Processes :
        client[p] # "off" ~> client[p] = "stays" \/ session[p] = "ended"
=============================================================================
