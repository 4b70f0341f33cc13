----------------------------- MODULE Coordinator -----------------------------
(***************************************************************************)
(* The reference coordinator (coordinator.cpp): the main thread that       *)
(* accepts connections, one thread per session, the registry of sockets    *)
(* that a shutdown uses to unblock the others, and the authority each      *)
(* session claims for itself.                                              *)
(*                                                                         *)
(* Of the engine only what sessions decide on is kept: the boots, and who  *)
(* published the rate of one domain.  The requests that touch neither      *)
(* (flows, domains, queries, SAVE) are one action.  Each engine call is    *)
(* atomic, a handler that makes several is not.  Sockets block: recv until *)
(* a frame is there, send until the peer reads; both fail once the socket  *)
(* is closed on either side.                                               *)
(***************************************************************************)
EXTENDS FlowLifecycle, FiniteSets

CONSTANTS
    Sessions,             \* bound: connections that clients make, one socket each
    Workers, NoWorker,    \* valid WorkerIds, and the invalid one
    Sources

ASSUME SessionAssumption == NoWorker \notin Workers

VARIABLES
    main,           \* where main is: "loop", "accept", "join", "save", "done"
    listener,       \* TRUE while the listening socket is open
    g_stop,
    g_socks,        \* the registered sockets
    pc,             \* where each session is
    alive,          \* the sessions whose socket still delivers
    ctx,            \* ctx_wid and ctx_boot of each session
    worker_boot, source_boot,
    offered,        \* offered_owner and its boot, of one domain
    saved           \* worker_boot as main saved it at the end, << >> before

authority == <<worker_boot, source_boot, offered>>
threads == <<main, listener, g_stop, g_socks, pc, alive>>
sessionVars == <<threads, ctx, authority, saved>>

Boots == 1..MaxU64
Nobody == <<NoWorker, 0>>

\* A session's own steps, in order; "recv" is also where it waits for a frame.
Serving == {"check", "recv", "register_source", "reply", "reply_stop",
            "stop", "close_listener", "close_others"}
Leaving == {"fence", "unreg"}

CoordinatorInit ==
    /\ main = "loop" /\ listener = TRUE /\ g_stop = FALSE /\ g_socks = {}
    /\ pc = [s \in Sessions |-> "unconnected"]
    /\ alive = {}
    /\ ctx = [s \in Sessions |-> Nobody]
    /\ worker_boot = [w \in Workers |-> 0]
    /\ source_boot = [x \in Sources |-> 0]
    /\ offered = Nobody
    /\ saved = << >>

Goto(s, place) == pc' = [pc EXCEPT ![s] = place]

-----------------------------------------------------------------------------
(* The engine calls.                                                       *)

\* Mutant: the next boot does not saturate.
BumpedPastMax(boots, x, b) ==
    IF boots[x] = b /\ b # 0 THEN [boots EXCEPT ![x] = b + 1] ELSE boots

\* fence_worker, fence_source: the new boots; boot 0 is that of no registration.
Bumped(boots, x, b) ==
    IF boots[x] = b /\ b # 0 THEN [boots EXCEPT ![x] = NextGeneration(b)] ELSE boots

\* fence_worker as called for <<w, b>> by a handler or at the end of a session.
Fence(w, b) ==
    /\ worker_boot' = Bumped(worker_boot, w, b)
    /\ offered' = IF worker_boot[w] = b /\ offered = <<w, b>> THEN Nobody ELSE offered
    /\ UNCHANGED source_boot

-----------------------------------------------------------------------------
(* main.                                                                   *)

CheckStop ==
    /\ main = "loop"
    /\ main' = IF g_stop THEN "join" ELSE "accept"
    /\ listener' = (listener /\ ~g_stop)
    /\ UNCHANGED <<g_stop, g_socks, pc, alive, ctx, authority, saved>>

\* A client connects and its thread is created.
Accept(s) ==
    /\ main = "accept" /\ listener
    /\ pc[s] = "unconnected"
    /\ main' = "loop"
    /\ Goto(s, "spawned")
    /\ alive' = alive \cup {s}
    /\ UNCHANGED <<listener, g_stop, g_socks, ctx, authority, saved>>

\* accept returns INVALID_SOCKET because a session has closed the listener.
AcceptFails ==
    /\ main = "accept" /\ ~listener
    /\ main' = IF g_stop THEN "join" ELSE "loop"
    /\ UNCHANGED <<listener, g_stop, g_socks, pc, alive, ctx, authority, saved>>

\* Mutant: main does not wait for the sessions.
NoneRunning == TRUE

AllEnded == \A s \in Sessions : pc[s] \in {"unconnected", "done"}

Join ==
    /\ main = "join"
    /\ AllEnded
    /\ main' = "save"
    /\ UNCHANGED <<listener, g_stop, g_socks, pc, alive, ctx, authority, saved>>

Save ==
    /\ main = "save"
    /\ main' = "done"
    /\ saved' = worker_boot
    /\ UNCHANGED <<listener, g_stop, g_socks, pc, alive, ctx, authority>>

-----------------------------------------------------------------------------
(* A session: reg_sock, then frame by frame until g_stop or a failed read. *)

RegSock(s) ==
    /\ pc[s] = "spawned"
    /\ g_socks' = g_socks \cup {s}
    /\ Goto(s, "check")
    /\ UNCHANGED <<main, listener, g_stop, alive, ctx, authority, saved>>

CheckLoop(s) ==
    /\ pc[s] = "check"
    /\ Goto(s, IF g_stop THEN "fence" ELSE "recv")
    /\ UNCHANGED <<main, listener, g_stop, g_socks, alive, ctx, authority, saved>>

\* Mutant: the session tries to read again.
RecvRetries(s) ==
    /\ pc[s] = "recv" /\ s \notin alive
    /\ Goto(s, "check")
    /\ UNCHANGED <<main, listener, g_stop, g_socks, alive, ctx, authority, saved>>

\* The peer is gone, the socket was closed, or the frame is damaged.
RecvFails(s) ==
    /\ pc[s] = "recv" /\ s \notin alive
    /\ Goto(s, "fence")
    /\ UNCHANGED <<main, listener, g_stop, g_socks, alive, ctx, authority, saved>>

\* The peer's socket drops, or the peer sends bytes that are not a frame.
PeerDrops(s) ==
    /\ s \in alive
    /\ alive' = alive \ {s}
    /\ UNCHANGED <<main, listener, g_stop, g_socks, pc, ctx, authority, saved>>

Receives(s) == pc[s] = "recv" /\ s \in alive

\* REGISTER: the session takes on the identity before the engine has agreed,
\* and gives up the one it had.  The boot of an invalid worker is never looked at.
Register(s, w, b) ==
    /\ Receives(s)
    /\ ctx' = [ctx EXCEPT ![s] = IF w = NoWorker THEN Nobody ELSE <<w, b>>]
    /\ worker_boot' = IF w # NoWorker /\ worker_boot[w] < b
                      THEN [worker_boot EXCEPT ![w] = b] ELSE worker_boot
    /\ Goto(s, "register_source")
    /\ UNCHANGED <<main, listener, g_stop, g_socks, alive, source_boot, offered, saved>>

\* The second call of the handler, for the source in the same frame; a source
\* that is refused is one whose boot is not newer.
RegisterSource(s, x, b) ==
    /\ pc[s] = "register_source"
    /\ source_boot' = IF source_boot[x] < b THEN [source_boot EXCEPT ![x] = b] ELSE source_boot
    /\ Goto(s, "reply")
    /\ UNCHANGED <<main, listener, g_stop, g_socks, alive, ctx, worker_boot, offered, saved>>

\* PUBLISH_MEASUREMENT of an offered rate, accepted for the current boot only.
Publish(s) ==
    /\ Receives(s)
    /\ ctx[s] # Nobody
    /\ ctx[s][2] # 0 /\ worker_boot[ctx[s][1]] = ctx[s][2]
    /\ offered' = ctx[s]
    /\ Goto(s, "reply")
    /\ UNCHANGED <<main, listener, g_stop, g_socks, alive, ctx, worker_boot,
                   source_boot, saved>>

\* FENCE_WORKER and INVALIDATE_SOURCE, from any session for anyone.
RequestFence(s, w, b) ==
    /\ Receives(s)
    /\ Fence(w, b)
    /\ Goto(s, "reply")
    /\ UNCHANGED <<main, listener, g_stop, g_socks, alive, ctx, saved>>

InvalidateSource(s, x, b) ==
    /\ Receives(s)
    /\ source_boot' = Bumped(source_boot, x, b)
    /\ Goto(s, "reply")
    /\ UNCHANGED <<main, listener, g_stop, g_socks, alive, ctx, worker_boot,
                   offered, saved>>

\* Every other request, and those that are refused: only the reply follows.
OtherRequest(s) ==
    /\ Receives(s)
    /\ Goto(s, "reply")
    /\ UNCHANGED <<main, listener, g_stop, g_socks, alive, ctx, authority, saved>>

\* send_frame returns, whether the reply went out or failed.
SendReturns(s) ==
    /\ pc[s] \in {"reply", "reply_stop"}
    /\ Goto(s, IF pc[s] = "reply" THEN "check" ELSE "stop")
    /\ UNCHANGED <<main, listener, g_stop, g_socks, alive, ctx, authority, saved>>

SendFails(s) == s \notin alive /\ SendReturns(s)

PeerReads(s) == s \in alive /\ SendReturns(s)

\* SHUTDOWN replies, and then stops the others in three steps.
Shutdown(s) ==
    /\ Receives(s)
    /\ Goto(s, "reply_stop")
    /\ UNCHANGED <<main, listener, g_stop, g_socks, alive, ctx, authority, saved>>

SetStop(s) ==
    /\ pc[s] = "stop"
    /\ g_stop' = TRUE
    /\ Goto(s, "close_listener")
    /\ UNCHANGED <<main, listener, g_socks, alive, ctx, authority, saved>>

CloseListener(s) ==
    /\ pc[s] = "close_listener"
    /\ listener' = FALSE
    /\ Goto(s, "close_others")
    /\ UNCHANGED <<main, g_stop, g_socks, alive, ctx, authority, saved>>

\* Mutant: the other sockets stay open.
NoOthers(s) == {}

OtherSocks(s) == g_socks \ {s}

CloseOthers(s) ==
    /\ pc[s] = "close_others"
    /\ alive' = alive \ OtherSocks(s)
    /\ Goto(s, "check")
    /\ UNCHANGED <<main, listener, g_stop, g_socks, ctx, authority, saved>>

\* Mutant: the session ends without fencing its worker.
LeaveUnfenced(s) == UNCHANGED authority

\* A session that has claimed an identity fences it when it ends.
FenceOwn(s) ==
    IF ctx[s] # Nobody THEN Fence(ctx[s][1], ctx[s][2]) ELSE UNCHANGED authority

EndSession(s) ==
    /\ pc[s] = "fence"
    /\ FenceOwn(s)
    /\ Goto(s, "unreg")
    /\ UNCHANGED <<main, listener, g_stop, g_socks, alive, ctx, saved>>

\* Mutant: the socket is closed first and unregistered never.
StaysRegistered(s) == g_socks

Unregistered(s) == g_socks \ {s}

UnregSock(s) ==
    /\ pc[s] = "unreg"
    /\ g_socks' = Unregistered(s)
    /\ Goto(s, "close")
    /\ UNCHANGED <<main, listener, g_stop, alive, ctx, authority, saved>>

CloseSock(s) ==
    /\ pc[s] = "close"
    /\ alive' = alive \ {s}
    /\ Goto(s, "done")
    /\ UNCHANGED <<main, listener, g_stop, g_socks, ctx, authority, saved>>

-----------------------------------------------------------------------------
\* What threads do by themselves, and what they do when a client asks for it.
MainStep == CheckStop \/ AcceptFails \/ Join \/ Save

SessionStep(s) ==
    \/ RegSock(s) \/ CheckLoop(s) \/ RecvFails(s) \/ SendFails(s)
    \/ \E x \in Sources, b \in Boots : RegisterSource(s, x, b)
    \/ SetStop(s) \/ CloseListener(s) \/ CloseOthers(s)
    \/ EndSession(s) \/ UnregSock(s) \/ CloseSock(s)

ClientStep(s) ==
    \/ Accept(s) \/ PeerDrops(s) \/ Publish(s) \/ OtherRequest(s) \/ Shutdown(s)
    \/ PeerReads(s)
    \/ \E w \in Workers, b \in Boots : RequestFence(s, w, b)
    \/ \E x \in Sources, b \in Boots : InvalidateSource(s, x, b)
    \/ \E w \in Workers \cup {NoWorker}, b \in U64 : Register(s, w, b)

CoordinatorNext == MainStep \/ \E s \in Sessions : SessionStep(s) \/ ClientStep(s)

\* Threads are scheduled and locks are granted; clients promise nothing.
CoordinatorSpec ==
    /\ CoordinatorInit /\ [][CoordinatorNext]_sessionVars
    /\ WF_sessionVars(MainStep)
    /\ \A s \in Sessions : WF_sessionVars(SessionStep(s))

-----------------------------------------------------------------------------
(* Invariants.                                                             *)

\* Every variable has its type; ctx is a valid worker with any boot, or nobody.
CoordinatorTypeOK ==
    /\ main \in {"loop", "accept", "join", "save", "done"}
    /\ listener \in BOOLEAN /\ g_stop \in BOOLEAN
    /\ g_socks \subseteq Sessions /\ alive \subseteq Sessions
    /\ pc \in [Sessions -> {"unconnected", "spawned", "close", "done"} \cup Serving \cup Leaving]
    /\ ctx \in [Sessions -> (Workers \X U64) \cup {Nobody}]
    /\ worker_boot \in [Workers -> U64] /\ source_boot \in [Sources -> U64]
    /\ offered \in (Workers \X Boots) \cup {Nobody}
    /\ saved \in [Workers -> U64] \cup {<< >>}

\* The registry of sockets is exact: the sockets close_other_socks can reach are
\* those of the sessions that may be waiting for a frame, and none that its
\* session has already closed.
RegistryExact == \A s \in Sessions : s \in g_socks <=> pc[s] \in Serving \cup Leaving

\* "Fence the worker so its exclusive flow evidence becomes STALE": when a session
\* has ended, the boot it last claimed is not current, and never will be again,
\* whether it was this session, another one or a newer registration that put an
\* end to it.  (The largest boot cannot be fenced.)
EndedIsFenced ==
    \A s \in Sessions :
        pc[s] \in {"unreg", "close", "done"} /\ ctx[s][2] \in 1..(MaxU64 - 1)
            => worker_boot[ctx[s][1]] > ctx[s][2]

\* The state that main saves at the end is final: no session is left that could
\* still change it, so every boot that a session claimed last is recorded as
\* fenced.
FinalSaveComplete ==
    main = "done" =>
        /\ saved = worker_boot
        /\ \A s \in Sessions : ctx[s][2] \in 1..(MaxU64 - 1)
              => saved[ctx[s][1]] > ctx[s][2]

-----------------------------------------------------------------------------
(* Liveness.                                                               *)

\* "shutdown can unblock sessions instead of waiting forever on a join": after a
\* SHUTDOWN the coordinator exits, also when other clients stay connected and
\* silent, and when one connects at that very moment.
ShutdownCompletes == g_stop ~> main = "done"

\* A worker whose connection drops is fenced in the end, whatever others do.
DeathIsFenced ==
    \A s \in Sessions : (pc[s] \in Serving /\ s \notin alive) ~> pc[s] = "done"
=============================================================================
