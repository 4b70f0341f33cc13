---------------------------- MODULE ServiceProofs ----------------------------
(***************************************************************************)
(* The service in front of the engine: its threads, and its connections.   *)
(*                                                                         *)
(* What is said of the coordinator holds for every number of connections,  *)
(* workers and boots, in every interleaving of its threads.                *)
(*                                                                         *)
(* The bytes of a connection implement its calls, for all requests and     *)
(* replies, every way their frames may be cut into pieces and every number *)
(* of calls: in each direction there is nothing, or one frame, part of it  *)
(* read, part of it in the network and part of it yet to be written.       *)
(***************************************************************************)
EXTENDS Coordinator, Frames, TLAPS

-----------------------------------------------------------------------------
(* Types, and the boots.                                                   *)

\* Fencing keeps the boots in range, and never lowers one.
LEMMA BumpedGrows ==
  ASSUME NEW S, NEW boots \in [S -> U64], NEW x \in S, NEW b \in U64
  PROVE  /\ Bumped(boots, x, b) \in [S -> U64]
         /\ \A y \in S : Bumped(boots, x, b)[y] >= boots[y]
         /\ b \in 1..(MaxU64 - 1) /\ boots[x] = b => Bumped(boots, x, b)[x] > b
BY WidthAssumption DEF Bumped, NextGeneration, U64

\* A fence of a boot, by whomever.
LEMMA FenceGrows ==
  ASSUME CoordinatorTypeOK, NEW w \in Workers, NEW b \in U64, Fence(w, b)
  PROVE  /\ worker_boot' \in [Workers -> U64] /\ UNCHANGED source_boot
         /\ offered' \in (Workers \X Boots) \cup {Nobody}
         /\ \A y \in Workers : worker_boot'[y] >= worker_boot[y]
         /\ b \in 1..(MaxU64 - 1) /\ worker_boot[w] = b => worker_boot'[w] > b
BY BumpedGrows, Zenon DEF CoordinatorTypeOK, Fence

\* A session's fence of what it claimed.
LEMMA FenceOwnGrows ==
  ASSUME CoordinatorTypeOK, NEW s \in Sessions, FenceOwn(s)
  PROVE  /\ worker_boot' \in [Workers -> U64] /\ UNCHANGED source_boot
         /\ offered' \in (Workers \X Boots) \cup {Nobody}
         /\ \A y \in Workers : worker_boot'[y] >= worker_boot[y]
         /\ ctx[s][2] \in 1..(MaxU64 - 1) /\ worker_boot[ctx[s][1]] = ctx[s][2]
              => worker_boot'[ctx[s][1]] > ctx[s][2]
<1>1. CASE ctx[s] # Nobody
  <2>1. ctx[s][1] \in Workers /\ ctx[s][2] \in U64
    BY <1>1, Zenon DEF CoordinatorTypeOK
  <2> QED
    BY <1>1, <2>1, FenceGrows, Zenon DEF FenceOwn
<1>2. CASE ctx[s] = Nobody
  BY <1>2, WidthAssumption DEF FenceOwn, authority, CoordinatorTypeOK, Nobody, U64
<1> QED
  BY <1>1, <1>2, Zenon

\* The boots of workers never decrease.
LEMMA BootsNeverDecrease ==
  ASSUME CoordinatorTypeOK, [CoordinatorNext]_sessionVars
  PROVE  \A w \in Workers : worker_boot'[w] \in Nat /\ worker_boot[w] \in Nat
                              /\ worker_boot'[w] >= worker_boot[w]
<1>1. \A w \in Workers : worker_boot[w] \in Nat
  BY WidthAssumption DEF CoordinatorTypeOK, U64
<1>2. CASE UNCHANGED worker_boot
  BY <1>1, <1>2
<1>3. ASSUME NEW s \in Sessions, NEW w \in Workers \cup {NoWorker}, NEW b \in U64,
             Register(s, w, b)
      PROVE  \A y \in Workers : worker_boot'[y] \in Nat /\ worker_boot'[y] >= worker_boot[y]
  BY <1>1, <1>3, WidthAssumption DEF Register, CoordinatorTypeOK, U64
<1>4. ASSUME NEW s \in Sessions, NEW w \in Workers, NEW b \in Boots, RequestFence(s, w, b)
      PROVE  \A y \in Workers : worker_boot'[y] \in Nat /\ worker_boot'[y] >= worker_boot[y]
  BY <1>4, FenceGrows, WidthAssumption DEF RequestFence, U64, Boots
<1>5. ASSUME NEW s \in Sessions, EndSession(s)
      PROVE  \A y \in Workers : worker_boot'[y] \in Nat /\ worker_boot'[y] >= worker_boot[y]
  BY <1>5, FenceOwnGrows, WidthAssumption DEF EndSession, U64
<1>6. CASE MainStep \/ UNCHANGED sessionVars
  BY <1>2, <1>6, Zenon DEF MainStep, CheckStop, AcceptFails, Join, Save, authority, sessionVars
<1>7. ASSUME NEW s \in Sessions,
             \/ RegSock(s) \/ CheckLoop(s) \/ RecvFails(s) \/ SendFails(s)
             \/ SetStop(s) \/ CloseListener(s) \/ CloseOthers(s)
             \/ UnregSock(s) \/ CloseSock(s)
             \/ Accept(s) \/ PeerDrops(s) \/ Publish(s) \/ OtherRequest(s) \/ Shutdown(s)
             \/ PeerReads(s)
             \/ \E x \in Sources, b \in Boots :
                   RegisterSource(s, x, b) \/ InvalidateSource(s, x, b)
      PROVE  UNCHANGED worker_boot
  BY <1>7, Zenon DEF RegSock, CheckLoop, RecvFails, SendFails, SendReturns, SetStop, CloseListener,
       CloseOthers, UnregSock, CloseSock, Accept, PeerDrops, Publish, OtherRequest, Shutdown,
       PeerReads, RegisterSource, InvalidateSource, authority
<1> QED
  BY <1>1, <1>2, <1>3, <1>4, <1>5, <1>6, <1>7, Zenon DEF CoordinatorNext, SessionStep, ClientStep

\* Steps of a session that leave the boots and the identities alone.
Moves(s) ==
    \/ RegSock(s) \/ CheckLoop(s) \/ RecvFails(s) \/ SendFails(s)
    \/ SetStop(s) \/ CloseListener(s) \/ CloseOthers(s) \/ UnregSock(s) \/ CloseSock(s)
    \/ Accept(s) \/ PeerDrops(s) \/ OtherRequest(s) \/ Shutdown(s) \/ PeerReads(s)

\* Every step preserves the type.
LEMMA TypeStep == CoordinatorTypeOK /\ [CoordinatorNext]_sessionVars => CoordinatorTypeOK'
<1> SUFFICES ASSUME CoordinatorTypeOK, [CoordinatorNext]_sessionVars PROVE CoordinatorTypeOK'
  OBVIOUS
<1>1. CASE MainStep
  BY <1>1, Zenon DEF MainStep, CheckStop, AcceptFails, Join, Save, CoordinatorTypeOK, authority
<1>2. CASE UNCHANGED sessionVars
  BY <1>2, Zenon DEF sessionVars, threads, authority, CoordinatorTypeOK
<1>3. ASSUME NEW s \in Sessions, Moves(s) PROVE CoordinatorTypeOK'
  BY <1>3, ZenonT(60) DEF Moves, RegSock, CheckLoop, RecvFails, SendFails, SendReturns, SetStop,
       CloseListener, CloseOthers, UnregSock, CloseSock, Accept, PeerDrops, OtherRequest,
       Shutdown, PeerReads, Goto, Unregistered, OtherSocks, authority, CoordinatorTypeOK,
       Serving, Leaving
<1>4. ASSUME NEW s \in Sessions, NEW w \in Workers \cup {NoWorker}, NEW b \in U64,
             Register(s, w, b)
      PROVE  CoordinatorTypeOK'
  BY <1>4, Zenon DEF Register, Goto, Serving, CoordinatorTypeOK
<1>5. ASSUME NEW s \in Sessions, NEW x \in Sources, NEW b \in Boots,
             RegisterSource(s, x, b) \/ InvalidateSource(s, x, b)
      PROVE  CoordinatorTypeOK'
  <2>1. b \in U64
    BY WidthAssumption DEF Boots, U64
  <2>2. source_boot' \in [Sources -> U64]
    <3>1. CASE RegisterSource(s, x, b)
      BY <2>1, <3>1, Zenon DEF RegisterSource, CoordinatorTypeOK
    <3>2. CASE InvalidateSource(s, x, b)
      BY <2>1, <3>2, BumpedGrows, Zenon DEF InvalidateSource, CoordinatorTypeOK
    <3> QED
      BY <1>5, <3>1, <3>2, Zenon
  <2> QED
    BY <1>5, <2>2, Zenon DEF RegisterSource, InvalidateSource, Goto, Serving, CoordinatorTypeOK
<1>6. ASSUME NEW s \in Sessions, Publish(s) PROVE CoordinatorTypeOK'
  <2>1. ctx[s] \in Workers \X U64 /\ ctx[s][2] # 0
    BY <1>6, Zenon DEF Publish, CoordinatorTypeOK
  <2>2. PICK w \in Workers, b \in U64 : ctx[s] = <<w, b>>
    BY <2>1
  <2>3. b \in Boots
    BY <2>1, <2>2, WidthAssumption DEF U64, Boots
  <2>4. ctx[s] \in Workers \X Boots
    BY <2>2, <2>3
  <2> QED
    BY <1>6, <2>4, Zenon DEF Publish, Goto, Serving, CoordinatorTypeOK
<1>7. ASSUME NEW s \in Sessions, NEW w \in Workers, NEW b \in Boots, RequestFence(s, w, b)
      PROVE  CoordinatorTypeOK'
  <2>1. b \in U64
    BY WidthAssumption DEF Boots, U64
  <2> QED
    BY <1>7, <2>1, FenceGrows, Zenon DEF RequestFence, Goto, Serving, CoordinatorTypeOK
<1>8. ASSUME NEW s \in Sessions, EndSession(s) PROVE CoordinatorTypeOK'
  BY <1>8, FenceOwnGrows, Zenon DEF EndSession, Goto, Leaving, CoordinatorTypeOK
<1> QED
  BY <1>1, <1>2, <1>3, <1>4, <1>5, <1>6, <1>7, <1>8, Zenon
  DEF CoordinatorNext, SessionStep, ClientStep, Moves

\* Every variable of the coordinator keeps its type, so no boot leaves its range however
\* often it is fenced.
THEOREM CoordinatorTypeCorrect == CoordinatorSpec => []CoordinatorTypeOK
<1>1. CoordinatorInit => CoordinatorTypeOK
  <2> SUFFICES ASSUME CoordinatorInit PROVE CoordinatorTypeOK
    OBVIOUS
  <2>1. 0 \in U64
    BY WidthAssumption DEF U64
  <2>2. /\ worker_boot \in [Workers -> U64] /\ source_boot \in [Sources -> U64]
        /\ pc \in [Sessions -> {"unconnected"}] /\ ctx \in [Sessions -> {Nobody}]
    BY <2>1, Zenon DEF CoordinatorInit
  <2>3. ctx \in [Sessions -> (Workers \X U64) \cup {Nobody}]
    BY <2>2, Zenon
  <2>4. pc \in [Sessions -> {"unconnected", "spawned", "close", "done"} \cup Serving \cup Leaving]
    BY <2>2, Zenon
  <2>5. offered \in (Workers \X Boots) \cup {Nobody} /\ saved \in [Workers -> U64] \cup {<< >>}
    BY Zenon DEF CoordinatorInit
  <2> QED
    BY <2>2, <2>3, <2>4, <2>5, Zenon DEF CoordinatorInit, CoordinatorTypeOK
<1>2. CoordinatorTypeOK /\ [CoordinatorNext]_sessionVars => CoordinatorTypeOK'
  BY TypeStep, Zenon
<1> QED
  BY <1>1, <1>2, PTL DEF CoordinatorSpec

-----------------------------------------------------------------------------
(* The registry of sockets.                                                *)

\* Every step keeps the registry exact.
LEMMA RegistryStep ==
  CoordinatorTypeOK /\ RegistryExact /\ [CoordinatorNext]_sessionVars => RegistryExact'
<1> SUFFICES ASSUME CoordinatorTypeOK, RegistryExact, [CoordinatorNext]_sessionVars
             PROVE  RegistryExact'
  OBVIOUS
<1>1. CASE MainStep \/ UNCHANGED sessionVars
  BY <1>1, Zenon
  DEF MainStep, CheckStop, AcceptFails, Join, Save, sessionVars, threads, RegistryExact
<1>2. ASSUME NEW s \in Sessions, Moves(s) PROVE RegistryExact'
  BY <1>2 DEF Moves, RegSock, CheckLoop, RecvFails, SendFails, SendReturns, SetStop,
       CloseListener, CloseOthers, UnregSock, CloseSock, Accept, PeerDrops, OtherRequest,
       Shutdown, PeerReads, Goto, Receives, Unregistered, CoordinatorTypeOK, RegistryExact,
       Serving, Leaving
<1>3. ASSUME NEW s \in Sessions, NEW from \in Serving \cup Leaving,
             NEW to \in Serving \cup Leaving, pc[s] = from, Goto(s, to), UNCHANGED g_socks
      PROVE  RegistryExact'
  BY <1>3, Zenon DEF Goto, CoordinatorTypeOK, RegistryExact
<1>4. ASSUME NEW s \in Sessions, NEW w, NEW b,
             \/ Register(s, w, b) \/ Publish(s) \/ RequestFence(s, w, b)
             \/ InvalidateSource(s, w, b) \/ RegisterSource(s, w, b) \/ EndSession(s)
      PROVE  RegistryExact'
  BY <1>3, <1>4, Zenon DEF Register, Publish, RequestFence, InvalidateSource, RegisterSource,
       EndSession, Receives, Serving, Leaving
<1> QED
  BY <1>1, <1>2, <1>4, Zenon DEF CoordinatorNext, SessionStep, ClientStep, Moves

\* The sockets that close_other_socks can reach are those of the sessions that may wait
\* for a frame, however many come and go: a shutdown misses none, and closes none that
\* its owner has closed.
THEOREM RegistryCorrect == CoordinatorSpec => []RegistryExact
<1>1. CoordinatorInit => RegistryExact
  BY Zenon DEF CoordinatorInit, RegistryExact, Serving, Leaving
<1>2. CoordinatorTypeOK /\ RegistryExact /\ [CoordinatorNext]_sessionVars => RegistryExact'
  BY RegistryStep, Zenon
<1> QED
  BY <1>1, <1>2, CoordinatorTypeCorrect, PTL DEF CoordinatorSpec

-----------------------------------------------------------------------------
(* The boots that sessions leave behind.                                   *)

\* No session claims a boot that is still to come: EndedIsFenced by itself does not say
\* that the fence of a session that ends meets the current boot or a dead one.
ClaimsMet ==
    \A s \in Sessions : ctx[s] # Nobody => worker_boot[ctx[s][1]] >= ctx[s][2]

\* The claims of sessions that run, and of those that have ended.
ClaimsInv == ClaimsMet /\ EndedIsFenced

\* A step that claims nothing and ends no session keeps both, for boots only grow.
LEMMA ClaimsKept ==
  ASSUME CoordinatorTypeOK, ClaimsInv, [CoordinatorNext]_sessionVars, UNCHANGED ctx,
         \A s \in Sessions : pc'[s] \in {"unreg", "close", "done"}
                               => pc[s] \in {"unreg", "close", "done"}
  PROVE  ClaimsInv'
<1>1. \A w \in Workers : worker_boot'[w] \in Nat /\ worker_boot[w] \in Nat
                           /\ worker_boot'[w] >= worker_boot[w]
  BY BootsNeverDecrease, Zenon
<1>2. \A s \in Sessions : ctx[s] # Nobody => ctx[s][1] \in Workers /\ ctx[s][2] \in Nat
  BY WidthAssumption DEF CoordinatorTypeOK, U64
<1>3. \A s \in Sessions : ctx[s][2] \in 1..(MaxU64 - 1) => ctx[s] # Nobody
  BY WidthAssumption DEF Nobody
<1>4. ClaimsMet'
  BY <1>1, <1>2 DEF ClaimsInv, ClaimsMet
<1>5. EndedIsFenced'
  <2> SUFFICES ASSUME NEW s \in Sessions, pc'[s] \in {"unreg", "close", "done"},
                      ctx[s][2] \in 1..(MaxU64 - 1)
               PROVE  worker_boot'[ctx[s][1]] > ctx[s][2]
    BY Zenon DEF EndedIsFenced
  <2>1. worker_boot[ctx[s][1]] > ctx[s][2]
    BY Zenon DEF ClaimsInv, EndedIsFenced
  <2> QED
    BY <1>1, <1>2, <1>3, <2>1
<1> QED
  BY <1>4, <1>5, Zenon DEF ClaimsInv

\* REGISTER claims a boot that is current from then on, or dead already.
LEMMA RegisterClaims ==
  ASSUME CoordinatorTypeOK, ClaimsInv, [CoordinatorNext]_sessionVars, NEW s \in Sessions,
         NEW w \in Workers \cup {NoWorker}, NEW b \in U64, Register(s, w, b)
  PROVE  ClaimsInv'
<1>1. \A v \in Workers : worker_boot'[v] \in Nat /\ worker_boot[v] \in Nat
                           /\ worker_boot'[v] >= worker_boot[v]
  BY BootsNeverDecrease, Zenon
<1>2. \A t \in Sessions : ctx[t] # Nobody => ctx[t][1] \in Workers /\ ctx[t][2] \in Nat
  BY WidthAssumption DEF CoordinatorTypeOK, U64
<1>3. \A t \in Sessions : ctx[t][2] \in 1..(MaxU64 - 1) => ctx[t] # Nobody
  BY WidthAssumption DEF Nobody
<1>4. /\ \A t \in Sessions : t # s => ctx'[t] = ctx[t] /\ pc'[t] = pc[t]
      /\ ctx'[s] = (IF w = NoWorker THEN Nobody ELSE <<w, b>>)
      /\ pc'[s] = "register_source"
  BY Zenon DEF Register, Goto, CoordinatorTypeOK
<1>5. w # NoWorker => worker_boot'[w] >= b
  BY <1>1, WidthAssumption DEF Register, CoordinatorTypeOK, U64
<1>6. ClaimsMet'
  <2> SUFFICES ASSUME NEW t \in Sessions, ctx'[t] # Nobody
               PROVE  worker_boot'[ctx'[t][1]] >= ctx'[t][2]
    BY Zenon DEF ClaimsMet, Nobody
  <2>1. CASE t = s
    BY <1>4, <1>5, <2>1
  <2>2. CASE t # s
    <3>1. worker_boot[ctx[t][1]] >= ctx[t][2]
      BY <1>4, <2>2, Zenon DEF ClaimsInv, ClaimsMet
    <3> QED
      BY <1>1, <1>2, <1>4, <2>2, <3>1
  <2> QED
    BY <2>1, <2>2, Zenon
<1>7. EndedIsFenced'
  <2> SUFFICES ASSUME NEW t \in Sessions, pc'[t] \in {"unreg", "close", "done"},
                      ctx'[t][2] \in 1..(MaxU64 - 1)
               PROVE  worker_boot'[ctx'[t][1]] > ctx'[t][2]
    BY Zenon DEF EndedIsFenced
  <2>1. ctx'[t] = ctx[t] /\ pc'[t] = pc[t]
    BY <1>4, Zenon
  <2>2. worker_boot[ctx[t][1]] > ctx[t][2]
    BY <2>1, Zenon DEF ClaimsInv, EndedIsFenced
  <2> QED
    BY <1>1, <1>2, <1>3, <2>1, <2>2
<1> QED
  BY <1>6, <1>7, Zenon DEF ClaimsInv

\* The end of a session passes by the boot that it claimed.
LEMMA EndClaims ==
  ASSUME CoordinatorTypeOK, ClaimsInv, [CoordinatorNext]_sessionVars, NEW s \in Sessions,
         EndSession(s)
  PROVE  ClaimsInv'
<1>1. \A v \in Workers : worker_boot'[v] \in Nat /\ worker_boot[v] \in Nat
                           /\ worker_boot'[v] >= worker_boot[v]
  BY BootsNeverDecrease, Zenon
<1>2. \A t \in Sessions : ctx[t] # Nobody => ctx[t][1] \in Workers /\ ctx[t][2] \in Nat
  BY WidthAssumption DEF CoordinatorTypeOK, U64
<1>3. \A t \in Sessions : ctx[t][2] \in 1..(MaxU64 - 1) => ctx[t] # Nobody
  BY WidthAssumption DEF Nobody
<1>4. UNCHANGED ctx /\ \A t \in Sessions : t # s => pc'[t] = pc[t]
  BY Zenon DEF EndSession, Goto, CoordinatorTypeOK
<1>5. ClaimsMet'
  BY <1>1, <1>2, <1>4 DEF ClaimsInv, ClaimsMet
<1>6. EndedIsFenced'
  <2> SUFFICES ASSUME NEW t \in Sessions, pc'[t] \in {"unreg", "close", "done"},
                      ctx[t][2] \in 1..(MaxU64 - 1)
               PROVE  worker_boot'[ctx[t][1]] > ctx[t][2]
    BY <1>4, Zenon DEF EndedIsFenced
  <2>1. CASE t = s
    <3>1. worker_boot[ctx[s][1]] >= ctx[s][2]
      BY <1>3, <2>1, Zenon DEF ClaimsInv, ClaimsMet
    <3>2. CASE worker_boot[ctx[s][1]] = ctx[s][2]
      BY <2>1, <3>2, FenceOwnGrows, Zenon DEF EndSession
    <3>3. CASE worker_boot[ctx[s][1]] # ctx[s][2]
      BY <1>1, <1>2, <1>3, <2>1, <3>1, <3>3
    <3> QED
      BY <3>2, <3>3, Zenon
  <2>2. CASE t # s
    <3>1. worker_boot[ctx[t][1]] > ctx[t][2]
      BY <1>4, <2>2, Zenon DEF ClaimsInv, EndedIsFenced
    <3> QED
      BY <1>1, <1>2, <1>3, <3>1
  <2> QED
    BY <2>1, <2>2, Zenon
<1> QED
  BY <1>5, <1>6, Zenon DEF ClaimsInv

\* Every step keeps the claims.
LEMMA ClaimsStep ==
  CoordinatorTypeOK /\ ClaimsInv /\ [CoordinatorNext]_sessionVars => ClaimsInv'
<1> SUFFICES ASSUME CoordinatorTypeOK, ClaimsInv, [CoordinatorNext]_sessionVars
             PROVE  ClaimsInv'
  OBVIOUS
<1> DEFINE Quiet == /\ UNCHANGED ctx
                    /\ \A s \in Sessions : pc'[s] \in {"unreg", "close", "done"}
                                             => pc[s] \in {"unreg", "close", "done"}
<1>1. ASSUME Quiet PROVE ClaimsInv'
  BY <1>1, ClaimsKept, Zenon
<1>2. CASE MainStep \/ UNCHANGED sessionVars
  BY <1>1, <1>2, Zenon DEF MainStep, CheckStop, AcceptFails, Join, Save, sessionVars, threads
<1>3. ASSUME NEW s \in Sessions, Moves(s) PROVE Quiet
  BY <1>3 DEF Moves, RegSock, CheckLoop, RecvFails, SendFails, SendReturns, SetStop,
       CloseListener, CloseOthers, UnregSock, CloseSock, Accept, PeerDrops, OtherRequest,
       Shutdown, PeerReads, Goto, CoordinatorTypeOK
<1>4. ASSUME NEW s \in Sessions, NEW w, NEW b,
             \/ Publish(s) \/ RequestFence(s, w, b)
             \/ InvalidateSource(s, w, b) \/ RegisterSource(s, w, b)
      PROVE  Quiet
  BY <1>4, Zenon
  DEF Publish, RequestFence, InvalidateSource, RegisterSource, Goto, CoordinatorTypeOK
<1> HIDE DEF Quiet
<1> QED
  BY <1>1, <1>2, <1>3, <1>4, RegisterClaims, EndClaims, Zenon
  DEF CoordinatorNext, SessionStep, ClientStep, Moves

\* When a session has ended, the boot that it claimed last is dead for good, whatever the
\* other sessions claim, fence or register meanwhile.
THEOREM EndedCorrect == CoordinatorSpec => []EndedIsFenced
<1>1. CoordinatorInit => ClaimsInv
  BY Zenon DEF CoordinatorInit, ClaimsInv, ClaimsMet, EndedIsFenced
<1>2. CoordinatorTypeOK /\ ClaimsInv /\ [CoordinatorNext]_sessionVars => ClaimsInv'
  BY ClaimsStep
<1>3. ClaimsInv => EndedIsFenced
  BY Zenon DEF ClaimsInv
<1> QED
  BY <1>1, <1>2, <1>3, CoordinatorTypeCorrect, PTL DEF CoordinatorSpec

-----------------------------------------------------------------------------
(* The final save.                                                         *)

\* Only a session that has received a frame has an identity.
FreshIsNobody == \A s \in Sessions : pc[s] = "unconnected" => ctx[s] = Nobody

\* After the joins no session is left that could change a boot.
SaveInv ==
    /\ FreshIsNobody
    /\ main \in {"save", "done"} => AllEnded
    /\ main = "done" => saved = worker_boot

\* Once main has joined the sessions they take no step; a client may still drop.
LEMMA AfterJoin ==
  ASSUME CoordinatorTypeOK, AllEnded, main \in {"save", "done"}, [CoordinatorNext]_sessionVars
  PROVE  (main = "save" /\ Save) \/ UNCHANGED <<main, pc, ctx, worker_boot, saved>>
<1>1. ASSUME NEW s \in Sessions, SessionStep(s) PROVE FALSE
  <2>1. pc[s] \in {"unconnected", "done"}
    BY Zenon DEF AllEnded
  <2> QED
    BY <1>1, <2>1, SMTT(30) DEF SessionStep, RegSock, CheckLoop, RecvFails, SendFails, SendReturns,
         RegisterSource, SetStop, CloseListener, CloseOthers, EndSession, UnregSock, CloseSock
<1>2. ASSUME NEW s \in Sessions, ClientStep(s) PROVE PeerDrops(s)
  <2>1. pc[s] \in {"unconnected", "done"}
    BY DEF AllEnded
  <2> QED
    BY <1>2, <2>1, Zenon
    DEF ClientStep, Accept, Publish, OtherRequest, Shutdown, PeerReads, SendReturns,
         RequestFence, InvalidateSource, Register, Receives
<1>3. CASE MainStep
  BY <1>3, Zenon DEF MainStep, CheckStop, AcceptFails, Join, Save
<1>4. CASE UNCHANGED sessionVars
  BY <1>4, Zenon DEF sessionVars, threads, authority
<1>5. ASSUME NEW s \in Sessions, PeerDrops(s)
      PROVE  UNCHANGED <<main, pc, ctx, worker_boot, saved>>
  BY <1>5, Zenon DEF PeerDrops, authority
<1> QED
  BY <1>1, <1>2, <1>3, <1>4, <1>5, Zenon DEF CoordinatorNext

\* main reaches its last steps by a join only.
LEMMA OnlyByJoin ==
  ASSUME main \notin {"save", "done"}, main' \in {"save", "done"}, [CoordinatorNext]_sessionVars
  PROVE  Join
<1>1. CASE MainStep
  BY <1>1, Zenon DEF MainStep, CheckStop, AcceptFails, Save
<1>2. ASSUME NEW s \in Sessions, SessionStep(s) PROVE UNCHANGED main
  BY <1>2, Zenon DEF SessionStep, RegSock, CheckLoop, RecvFails, SendFails, SendReturns,
       RegisterSource, SetStop, CloseListener, CloseOthers, EndSession, UnregSock, CloseSock
<1>3. ASSUME NEW s \in Sessions, ClientStep(s) PROVE main' \in {main, "loop"}
  BY <1>3, Zenon DEF ClientStep, Accept, PeerDrops, Publish, OtherRequest, Shutdown, PeerReads,
       SendReturns, RequestFence, InvalidateSource, Register
<1>4. CASE UNCHANGED sessionVars
  BY <1>4, Zenon DEF sessionVars, threads
<1> QED
  BY <1>1, <1>2, <1>3, <1>4, Zenon DEF CoordinatorNext

\* No step gives an identity to a session that has not connected.
LEMMA FreshStep ==
  CoordinatorTypeOK /\ FreshIsNobody /\ [CoordinatorNext]_sessionVars => FreshIsNobody'
<1> SUFFICES ASSUME CoordinatorTypeOK, FreshIsNobody, [CoordinatorNext]_sessionVars
             PROVE  FreshIsNobody'
  OBVIOUS
<1>1. CASE MainStep \/ UNCHANGED sessionVars
  BY <1>1, Zenon
  DEF MainStep, CheckStop, AcceptFails, Join, Save, sessionVars, threads, FreshIsNobody
<1>2. ASSUME NEW s \in Sessions, Moves(s) PROVE FreshIsNobody'
  BY <1>2, Zenon DEF Moves, RegSock, CheckLoop, RecvFails, SendFails, SendReturns, SetStop,
       CloseListener, CloseOthers, UnregSock, CloseSock, Accept, PeerDrops, OtherRequest,
       Shutdown, PeerReads, Goto, CoordinatorTypeOK, FreshIsNobody
<1>3. ASSUME NEW s \in Sessions, NEW w, NEW b,
             \/ Register(s, w, b) \/ Publish(s) \/ RequestFence(s, w, b)
             \/ InvalidateSource(s, w, b) \/ RegisterSource(s, w, b) \/ EndSession(s)
      PROVE  FreshIsNobody'
  BY <1>3, Zenon DEF Register, Publish, RequestFence, InvalidateSource, RegisterSource, EndSession,
       Goto, CoordinatorTypeOK, FreshIsNobody
<1> QED
  BY <1>1, <1>2, <1>3, Zenon DEF CoordinatorNext, SessionStep, ClientStep, Moves

\* Every step keeps what the final save needs.
LEMMA SaveStep ==
  CoordinatorTypeOK /\ SaveInv /\ [CoordinatorNext]_sessionVars => SaveInv'
<1> SUFFICES ASSUME CoordinatorTypeOK, SaveInv, [CoordinatorNext]_sessionVars
             PROVE  SaveInv'
  OBVIOUS
<1>1. FreshIsNobody'
  BY FreshStep, Zenon DEF SaveInv
<1>2. CASE main \in {"save", "done"}
  BY <1>1, <1>2, AfterJoin, Zenon DEF SaveInv, AllEnded, Save, authority
<1>3. CASE main \notin {"save", "done"} /\ main' \in {"save", "done"}
  <2>1. Join
    BY <1>3, OnlyByJoin, Zenon
  <2> QED
    BY <1>1, <2>1, Zenon DEF Join, AllEnded, SaveInv
<1>4. CASE main' \notin {"save", "done"}
  BY <1>1, <1>4, Zenon DEF SaveInv
<1> QED
  BY <1>2, <1>3, <1>4, Zenon

\* What main saves at the end is final, for any number of connections: nobody can change
\* a boot any more, and every boot that a session claimed last is recorded as fenced.
THEOREM FinalSaveCorrect == CoordinatorSpec => []FinalSaveComplete
<1>1. CoordinatorInit => SaveInv
  BY Zenon DEF CoordinatorInit, SaveInv, FreshIsNobody
<1>2. CoordinatorTypeOK /\ SaveInv /\ [CoordinatorNext]_sessionVars => SaveInv'
  BY SaveStep
<1>3. SaveInv /\ EndedIsFenced => FinalSaveComplete
  <2> SUFFICES ASSUME SaveInv, EndedIsFenced, main = "done",
                      NEW s \in Sessions, ctx[s][2] \in 1..(MaxU64 - 1)
               PROVE  worker_boot[ctx[s][1]] > ctx[s][2]
    BY Zenon DEF FinalSaveComplete, SaveInv
  <2>1. ctx[s] # Nobody
    BY WidthAssumption DEF Nobody
  <2>2. pc[s] = "done"
    BY <2>1, Zenon DEF SaveInv, FreshIsNobody, AllEnded
  <2> QED
    BY <2>2, Zenon DEF EndedIsFenced
<1> QED
  BY <1>1, <1>2, <1>3, CoordinatorTypeCorrect, EndedCorrect, PTL DEF CoordinatorSpec

-----------------------------------------------------------------------------
(* Pieces of a frame.                                                      *)

\* What send_frame is given.
Message == [type : Nat, body : Seq(Nat)]

\* What a frame is made of.
Byte == Nat \cup {Checksum(bytes) : bytes \in Seq(Nat)}

\* s is the part of the bytes that follows the first i of them.
Slice(s, bytes, i) ==
    /\ s \in Seq(Byte) /\ i \in Nat /\ i + Len(s) <= Len(bytes)
    /\ \A k \in 1..Len(s) : s[k] = bytes[i + k]

\* Nothing is a piece of everything.
LEMMA SliceNone ==
  ASSUME NEW bytes \in Seq(Byte), NEW i \in 0..Len(bytes)
  PROVE  Slice(<< >>, bytes, i)
BY DEF Slice

\* A piece can be cut.
LEMMA SliceCut ==
  ASSUME NEW bytes \in Seq(Byte), NEW i, NEW s, Slice(s, bytes, i), NEW n \in 0..Len(s)
  PROVE  /\ Slice(SubSeq(s, 1, n), bytes, i) /\ Len(SubSeq(s, 1, n)) = n
         /\ Slice(SubSeq(s, n + 1, Len(s)), bytes, i + n)
         /\ Len(SubSeq(s, n + 1, Len(s))) = Len(s) - n
<1>1. s \in Seq(Byte) /\ i \in Nat /\ i + Len(s) <= Len(bytes) /\ Len(s) \in Nat /\ n \in Nat
  BY DEF Slice
<1>2. SubSeq(s, 1, n) \in Seq(Byte) /\ Len(SubSeq(s, 1, n)) = n
  BY <1>1
<1>3. /\ SubSeq(s, n + 1, Len(s)) \in Seq(Byte)
      /\ Len(SubSeq(s, n + 1, Len(s))) = Len(s) - n
  BY <1>1
<1>4. ASSUME NEW k \in 1..n PROVE SubSeq(s, 1, n)[k] = bytes[i + k]
  BY <1>1 DEF Slice
<1>5. ASSUME NEW k \in 1..(Len(s) - n)
      PROVE  SubSeq(s, n + 1, Len(s))[k] = bytes[i + n + k]
  <2>1. n + k \in 1..Len(s) /\ SubSeq(s, n + 1, Len(s))[k] = s[n + k]
    BY SMTT(20), <1>1
  <2> QED
    BY <1>1, <2>1 DEF Slice
<1> DEFINE p == SubSeq(s, 1, n)
           q == SubSeq(s, n + 1, Len(s))
<1>6. /\ p \in Seq(Byte) /\ Len(p) = n /\ q \in Seq(Byte) /\ Len(q) = Len(s) - n
      /\ \A k \in 1..n : p[k] = bytes[i + k]
      /\ \A k \in 1..(Len(s) - n) : q[k] = bytes[i + n + k]
  BY <1>2, <1>3, <1>4, <1>5, Zenon
<1> HIDE DEF p, q
<1>7. Slice(p, bytes, i) /\ Slice(q, bytes, i + n)
  BY <1>1, <1>6 DEF Slice
<1> QED
  BY <1>6, <1>7, Zenon DEF p, q

\* Pieces that follow each other can be joined.
LEMMA SliceJoin ==
  ASSUME NEW bytes \in Seq(Byte), NEW i, NEW s, NEW t,
         Slice(s, bytes, i), Slice(t, bytes, i + Len(s))
  PROVE  Slice(s \o t, bytes, i) /\ Len(s \o t) = Len(s) + Len(t)
<1>1. s \in Seq(Byte) /\ t \in Seq(Byte) /\ i \in Nat /\ Len(s) \in Nat /\ Len(t) \in Nat
  BY DEF Slice
<1>2. s \o t \in Seq(Byte) /\ Len(s \o t) = Len(s) + Len(t)
  BY <1>1
<1>3. ASSUME NEW k \in 1..(Len(s) + Len(t)) PROVE (s \o t)[k] = bytes[i + k]
  <2>1. CASE k <= Len(s)
    BY <1>1, <2>1 DEF Slice
  <2>2. CASE k > Len(s)
    <3>1. k - Len(s) \in 1..Len(t) /\ (s \o t)[k] = t[k - Len(s)]
      BY <1>1, <2>2
    <3>2. t[k - Len(s)] = bytes[(i + Len(s)) + (k - Len(s))]
      BY <3>1, Zenon DEF Slice
    <3> QED
      BY <1>1, <3>1, <3>2
  <2> QED
    BY <1>1, <2>1, <2>2
<1> QED
  BY <1>1, <1>2, <1>3 DEF Slice

\* A piece with the length and the bytes of a sequence is that sequence.
LEMMA SameBytes ==
  ASSUME NEW S, NEW T, NEW s \in Seq(S), NEW t \in Seq(T), Len(s) = Len(t),
         \A k \in 1..Len(t) : s[k] = t[k]
  PROVE  s = t
<1>1. s = [k \in 1..Len(s) |-> s[k]] /\ t = [k \in 1..Len(t) |-> t[k]]
  OBVIOUS
<1> QED
  BY <1>1, Zenon

\* What encode_frame writes.
LEMMA Encoded ==
  ASSUME NEW m \in Message
  PROVE  LET n == Len(m.body)
             bytes == Encode(m)
         IN  /\ n \in Nat /\ bytes \in Seq(Byte) /\ Len(bytes) = n + 5
             /\ bytes[1] = Magic /\ bytes[2] = Version /\ bytes[3] = m.type /\ bytes[4] = n
             /\ \A k \in 1..n : bytes[4 + k] = m.body[k]
             /\ bytes[n + 5] = Checksum(<<m.type>> \o m.body)
<1> DEFINE n == Len(m.body)
           h == <<Magic, Version, m.type, n>>
           c == Checksum(<<m.type>> \o m.body)
<1>1. m.type \in Nat /\ m.body \in Seq(Nat) /\ n \in Nat
  BY DEF Message
<1>2. h \in Seq(Byte) /\ Len(h) = 4
  BY <1>1 DEF Byte, Magic, Version
<1>3. m.body \in Seq(Byte)
  BY <1>1 DEF Byte
<1>4. c \in Byte
  <2>1. <<m.type>> \o m.body \in Seq(Nat)
    BY <1>1
  <2> QED
    BY <2>1, Zenon DEF Byte
<1>5. Encode(m) = h \o m.body \o <<c>>
  BY Zenon DEF Encode
<1> HIDE DEF c
<1>6. h \o m.body \in Seq(Byte) /\ Len(h \o m.body) = n + 4
  BY <1>1, <1>2, <1>3
<1>7. /\ (h \o m.body)[1] = Magic /\ (h \o m.body)[2] = Version
      /\ (h \o m.body)[3] = m.type /\ (h \o m.body)[4] = n
      /\ \A k \in 1..n : (h \o m.body)[4 + k] = m.body[k]
  BY <1>1, <1>2, <1>3
<1> DEFINE hb == h \o m.body
<1> HIDE DEF h, hb
<1>8. hb \o <<c>> \in Seq(Byte) /\ Len(hb \o <<c>>) = n + 5
  BY <1>1, <1>4, <1>6 DEF hb
<1>9. /\ \A k \in 1..(n + 4) : (hb \o <<c>>)[k] = hb[k]
      /\ (hb \o <<c>>)[n + 5] = c
  BY <1>1, <1>4, <1>6 DEF hb
<1> DEFINE bytes == Encode(m)
<1>10. bytes = hb \o <<c>>
  BY <1>5, Zenon DEF hb
<1> HIDE DEF bytes, n
<1>11. \A k \in 1..(n + 4) : bytes[k] = hb[k]
  BY <1>9, <1>10, Zenon
<1>12. /\ hb[1] = Magic /\ hb[2] = Version /\ hb[3] = m.type /\ hb[4] = n
       /\ \A k \in 1..n : hb[4 + k] = m.body[k]
  BY <1>7, Zenon DEF hb, n
<1>13. /\ bytes[1] = Magic /\ bytes[2] = Version /\ bytes[3] = m.type /\ bytes[4] = n
       /\ \A k \in 1..n : bytes[4 + k] = m.body[k]
  <2>1. n \in Nat
    BY <1>1, Zenon
  <2>2. /\ 1 \in 1..(n + 4) /\ 2 \in 1..(n + 4) /\ 3 \in 1..(n + 4) /\ 4 \in 1..(n + 4)
        /\ \A k \in 1..n : 4 + k \in 1..(n + 4)
    BY <2>1
  <2> QED
    BY <1>11, <1>12, <2>2, Zenon
<1>14. bytes \in Seq(Byte) /\ Len(bytes) = n + 5 /\ bytes[n + 5] = c
  BY <1>8, <1>9, <1>10, Zenon
<1> QED
  BY <1>1, <1>13, <1>14, Zenon DEF bytes, n, c

-----------------------------------------------------------------------------
(* A frame on its way.                                                     *)

HeaderIs(h, m) ==
    h[1] = Magic /\ h[2] = Version /\ h[3] = m.type /\ h[4] = Len(m.body)

\* parts are the parts of the frame of m that come first; a body that is empty is not
\* waited for.
PartsOf(parts, m) ==
    \/ parts = << >>
    \/ Len(m.body) > 0 /\ \E h \in Seq(Byte) : parts = <<h>> /\ HeaderIs(h, m)
    \/ \E h \in Seq(Byte) : parts = <<h, m.body>> /\ HeaderIs(h, m)

\* How many bytes these parts had.
Past(parts, m) ==
    IF parts = << >> THEN 0 ELSE IF Len(parts) = 1 THEN 4 ELSE 4 + Len(m.body)

\* The frame of m is on its way: the reader has some parts of it and the beginning of the
\* next, the bytes in the network follow, and the writer has yet to send the end of it;
\* while the connection stands nothing is missing in between.
Carries(m, parts, has, net, rest, standing) ==
    LET bytes == Encode(m)
        at == Past(parts, m)
        sent == at + Len(has) + Len(net)
    IN  /\ m \in Message /\ Len(m.body) <= MaxFrameBody /\ PartsOf(parts, m)
        /\ Len(has) < Need(parts)
        /\ Slice(has, bytes, at)
        /\ Slice(net, bytes, at + Len(has))
        /\ Slice(rest, bytes, Len(bytes) - Len(rest))
        /\ sent + Len(rest) <= Len(bytes)
        /\ standing => sent + Len(rest) = Len(bytes)

\* Lengths of what is carried.
LEMMA CarriedLengths ==
  ASSUME NEW m, NEW parts, NEW has, NEW net, NEW rest, NEW standing,
         Carries(m, parts, has, net, rest, standing)
  PROVE  /\ m \in Message /\ Encode(m) \in Seq(Byte) /\ Len(m.body) \in Nat
         /\ Len(Encode(m)) = Len(m.body) + 5
         /\ has \in Seq(Byte) /\ net \in Seq(Byte) /\ rest \in Seq(Byte)
         /\ Len(has) \in Nat /\ Len(net) \in Nat /\ Len(rest) \in Nat
         /\ Past(parts, m) \in Nat
<1>1. m \in Message /\ has \in Seq(Byte) /\ net \in Seq(Byte) /\ rest \in Seq(Byte)
  BY Zenon DEF Carries, Slice
<1>2. Len(m.body) \in Nat
  BY <1>1 DEF Message
<1>3. Past(parts, m) \in Nat
  BY <1>2 DEF Past
<1>4. Encode(m) \in Seq(Byte) /\ Len(Encode(m)) = Len(m.body) + 5
  BY <1>1, Encoded, Zenon
<1>5. Len(has) \in Nat /\ Len(net) \in Nat /\ Len(rest) \in Nat
  BY <1>1
<1> QED
  BY <1>1, <1>2, <1>3, <1>4, <1>5, Zenon

\* The first byte of a frame is its start.
LEMMA CarryStart ==
  ASSUME NEW m \in Message, Len(m.body) <= MaxFrameBody, NEW standing
  PROVE  Carries(m, << >>, << >>, << >>, Encode(m), standing) /\ Encode(m) # << >>
<1>1. Encode(m) \in Seq(Byte) /\ Len(Encode(m)) = Len(m.body) + 5 /\ Len(m.body) \in Nat
  BY Encoded, Zenon
<1>2. Slice(Encode(m), Encode(m), 0)
  BY <1>1 DEF Slice
<1>3. Slice(<< >>, Encode(m), 0)
  BY <1>1, SliceNone
<1> DEFINE bytes == Encode(m)
<1>4. Need(<< >>) = 4 /\ Past(<< >>, m) = 0 /\ PartsOf(<< >>, m)
  BY DEF Need, HeaderBytes, Past, PartsOf
<1>5. bytes # << >>
  BY <1>1
<1> HIDE DEF bytes
<1>6. /\ Slice(bytes, bytes, Len(bytes) - Len(bytes))
      /\ 0 + Len(<< >>) + Len(<< >>) + Len(bytes) = Len(bytes)
      /\ Slice(<< >>, bytes, 0 + Len(<< >>))
      /\ Len(<< >>) < 4
  BY <1>1, <1>2, <1>3 DEF bytes
<1> QED
  BY <1>1, <1>3, <1>4, <1>5, <1>6 DEF Carries, bytes

\* Some bytes go out.
LEMMA CarryWrite ==
  ASSUME NEW m, NEW parts, NEW has, NEW net, NEW rest,
         Carries(m, parts, has, net, rest, TRUE), NEW n \in 1..Len(rest)
  PROVE  Carries(m, parts, has, net \o SubSeq(rest, 1, n), Unsent(rest, n), TRUE)
<1> DEFINE bytes == Encode(m)
           at == Past(parts, m)
           p == SubSeq(rest, 1, n)
           q == SubSeq(rest, n + 1, Len(rest))
           more == net \o p
<1>1. /\ m \in Message /\ Len(m.body) <= MaxFrameBody /\ PartsOf(parts, m)
      /\ Len(has) < Need(parts)
      /\ Slice(has, bytes, at) /\ Slice(net, bytes, at + Len(has))
      /\ Slice(rest, bytes, Len(bytes) - Len(rest))
      /\ at + Len(has) + Len(net) + Len(rest) = Len(bytes)
  BY Zenon DEF Carries
<1>2. /\ bytes \in Seq(Byte) /\ at \in Nat
      /\ Len(has) \in Nat /\ Len(net) \in Nat /\ Len(rest) \in Nat
  BY CarriedLengths, Zenon
<1> HIDE DEF bytes, at
<1>0. Len(bytes) \in Nat /\ n \in 0..Len(rest)
  BY <1>2
<1>3. Len(bytes) - Len(rest) = at + Len(has) + Len(net)
  BY <1>0, <1>1, <1>2
<1>4. /\ Slice(p, bytes, at + Len(has) + Len(net)) /\ Len(p) = n
      /\ Slice(q, bytes, at + Len(has) + Len(net) + n) /\ Len(q) = Len(rest) - n
  <2> DEFINE i == at + Len(has) + Len(net)
  <2>1. Slice(rest, bytes, i)
    BY <1>1, <1>3, Zenon
  <2> HIDE DEF i
  <2>2. Slice(p, bytes, i) /\ Len(p) = n /\ Slice(q, bytes, i + n) /\ Len(q) = Len(rest) - n
    BY <1>0, <1>2, <2>1, SliceCut
  <2> QED
    BY <2>2, Zenon DEF i
<1> HIDE DEF p, q
<1>5. Slice(more, bytes, at + Len(has)) /\ Len(more) = Len(net) + n
  <2> DEFINE i == at + Len(has)
  <2>1. Slice(net, bytes, i) /\ Slice(p, bytes, i + Len(net))
    BY <1>1, <1>4, Zenon
  <2> HIDE DEF i
  <2>2. Slice(more, bytes, i) /\ Len(more) = Len(net) + n
    BY <1>2, <1>4, <2>1, SliceJoin
  <2> QED
    BY <2>2, Zenon DEF i
<1> HIDE DEF more
<1>6. Slice(q, bytes, Len(bytes) - Len(q)) /\ at + Len(has) + Len(more) + Len(q) = Len(bytes)
  <2>1. Len(bytes) - Len(q) = at + Len(has) + Len(net) + n
    BY <1>0, <1>2, <1>3, <1>4
  <2> QED
    BY SMTT(20), <1>0, <1>2, <1>3, <1>4, <1>5, <2>1
<1>7. at + Len(has) + Len(more) + Len(q) <= Len(bytes)
  BY <1>0, <1>6
<1> QED
  BY <1>1, <1>5, <1>6, <1>7, Zenon DEF Carries, Unsent, bytes, at, more, p, q

\* The writer gives up.
LEMMA CarryCut ==
  ASSUME NEW m, NEW parts, NEW has, NEW net, NEW rest,
         Carries(m, parts, has, net, rest, FALSE)
  PROVE  Carries(m, parts, has, net, << >>, FALSE)
<1> DEFINE bytes == Encode(m)
           sent == Past(parts, m) + Len(has) + Len(net)
<1>1. /\ bytes \in Seq(Byte) /\ Past(parts, m) \in Nat
      /\ Len(has) \in Nat /\ Len(net) \in Nat /\ Len(rest) \in Nat
  BY CarriedLengths, Zenon
<1>2. sent + Len(rest) <= Len(bytes)
  BY Zenon DEF Carries
<1>3. sent \in Nat
  BY <1>1
<1> HIDE DEF bytes, sent
<1>4. Len(bytes) \in Nat /\ Len(bytes) - Len(<< >>) \in 0..Len(bytes)
      /\ sent + Len(<< >>) <= Len(bytes)
  BY <1>1, <1>2, <1>3
<1>5. Slice(<< >>, bytes, Len(bytes) - Len(<< >>))
  BY <1>1, <1>4, SliceNone, Zenon
<1> QED
  BY <1>4, <1>5, Zenon DEF Carries, bytes, sent

\* The connection is lost with some of the bytes that were under way.
LEMMA CarryDrop ==
  ASSUME NEW m, NEW parts, NEW has, NEW net, NEW rest, NEW standing,
         Carries(m, parts, has, net, rest, standing), NEW c \in 0..Len(net)
  PROVE  Carries(m, parts, has, SubSeq(net, 1, c), rest, FALSE)
<1> DEFINE bytes == Encode(m)
           at == Past(parts, m)
           left == SubSeq(net, 1, c)
<1>1. /\ m \in Message /\ Len(m.body) <= MaxFrameBody /\ PartsOf(parts, m)
      /\ Len(has) < Need(parts)
      /\ Slice(has, bytes, at) /\ Slice(net, bytes, at + Len(has))
      /\ Slice(rest, bytes, Len(bytes) - Len(rest))
      /\ at + Len(has) + Len(net) + Len(rest) <= Len(bytes)
  BY Zenon DEF Carries
<1>2. /\ bytes \in Seq(Byte) /\ at \in Nat
      /\ Len(has) \in Nat /\ Len(net) \in Nat /\ Len(rest) \in Nat
  BY CarriedLengths, Zenon
<1> HIDE DEF bytes, at
<1>3. Slice(left, bytes, at + Len(has)) /\ Len(left) = c
  <2> DEFINE i == at + Len(has)
  <2>1. Slice(net, bytes, i)
    BY <1>1, Zenon
  <2> HIDE DEF i
  <2>2. Slice(left, bytes, i) /\ Len(left) = c
    BY <1>2, <2>1, SliceCut
  <2> QED
    BY <2>2, Zenon DEF i
<1> HIDE DEF left
<1>4. at + Len(has) + Len(left) + Len(rest) <= Len(bytes)
  <2>1. Len(bytes) \in Nat /\ c \in Nat /\ c <= Len(net)
    BY <1>2
  <2> QED
    BY <1>1, <1>2, <1>3, <2>1
<1> QED
  BY <1>1, <1>3, <1>4, Zenon DEF Carries, bytes, at, left

\* Some bytes come in: what the reader has then, and what is left in the network.
LEMMA CarryRead ==
  ASSUME NEW m, NEW parts, NEW has, NEW net, NEW rest, NEW standing,
         Carries(m, parts, has, net, rest, standing), NEW n \in 1..Len(net)
  PROVE  LET bytes == Encode(m)
             at == Past(parts, m)
             more == has \o SubSeq(net, 1, n)
             left == SubSeq(net, n + 1, Len(net))
         IN  /\ Slice(more, bytes, at) /\ Len(more) = Len(has) + n
             /\ Slice(left, bytes, at + Len(more)) /\ Len(left) = Len(net) - n
<1> DEFINE bytes == Encode(m)
           at == Past(parts, m)
           i == at + Len(has)
           p == SubSeq(net, 1, n)
           more == has \o p
           left == SubSeq(net, n + 1, Len(net))
<1>1. Slice(has, bytes, at) /\ Slice(net, bytes, i)
  BY Zenon DEF Carries
<1>2. /\ bytes \in Seq(Byte) /\ at \in Nat
      /\ Len(has) \in Nat /\ Len(net) \in Nat
  BY CarriedLengths, Zenon
<1>3. i \in Nat /\ n \in 0..Len(net) /\ n \in Nat
  BY <1>2
<1> HIDE DEF bytes, at, i
<1>4. /\ Slice(p, bytes, i) /\ Len(p) = n
      /\ Slice(left, bytes, i + n) /\ Len(left) = Len(net) - n
  BY <1>1, <1>2, <1>3, SliceCut
<1> HIDE DEF p, left
<1>5. Slice(more, bytes, at) /\ Len(more) = Len(has) + n
  BY SMTT(20), <1>1, <1>2, <1>4, SliceJoin DEF i
<1> HIDE DEF more
<1>6. at + Len(more) = i + n
  BY <1>2, <1>3, <1>5 DEF i
<1> QED
  BY <1>4, <1>5, <1>6, Zenon DEF bytes, at, more, p, left

\* A part that is still short.
LEMMA CarryShort ==
  ASSUME NEW m, NEW parts, NEW has, NEW net, NEW rest, NEW standing,
         Carries(m, parts, has, net, rest, standing), NEW n \in 1..Len(net),
         Len(has) + n < Need(parts)
  PROVE  Carries(m, parts, has \o SubSeq(net, 1, n), SubSeq(net, n + 1, Len(net)), rest, standing)
<1> DEFINE bytes == Encode(m)
           at == Past(parts, m)
           more == has \o SubSeq(net, 1, n)
           left == SubSeq(net, n + 1, Len(net))
<1>1. /\ Slice(more, bytes, at) /\ Len(more) = Len(has) + n
      /\ Slice(left, bytes, at + Len(more)) /\ Len(left) = Len(net) - n
  BY CarryRead
<1>2. /\ m \in Message /\ Len(m.body) <= MaxFrameBody /\ PartsOf(parts, m)
      /\ Slice(rest, bytes, Len(bytes) - Len(rest))
      /\ at + Len(has) + Len(net) + Len(rest) <= Len(bytes)
      /\ standing => at + Len(has) + Len(net) + Len(rest) = Len(bytes)
  BY Zenon DEF Carries
<1>3. /\ bytes \in Seq(Byte) /\ at \in Nat
      /\ Len(has) \in Nat /\ Len(net) \in Nat /\ Len(rest) \in Nat
  BY CarriedLengths, Zenon
<1> HIDE DEF bytes, at, more, left
<1>4. Len(bytes) \in Nat /\ n \in Nat /\ n <= Len(net)
  BY <1>3
<1>5. at + Len(more) + Len(left) + Len(rest) = at + Len(has) + Len(net) + Len(rest)
  BY <1>1, <1>3, <1>4
<1> QED
  BY <1>1, <1>2, <1>5, Zenon DEF Carries, bytes, at, more, left

\* What a complete part is.
LEMMA PartIs ==
  ASSUME NEW m \in Message, NEW parts, PartsOf(parts, m),
         NEW part, Slice(part, Encode(m), Past(parts, m)), Len(part) = Need(parts)
  PROVE  /\ Len(parts) \in 0..2
         /\ Len(parts) = 0 => HeaderIs(part, m)
         /\ Len(parts) = 1 => part = m.body
         /\ Len(parts) = 2 => part[1] = Checksum(<<m.type>> \o m.body)
         /\ Len(parts) # 0 => HeaderIs(parts[1], m)
         /\ Len(parts) = 2 => parts[2] = m.body
<1> DEFINE n == Len(m.body)
           bytes == Encode(m)
<1>1. /\ n \in Nat /\ bytes \in Seq(Byte) /\ Len(bytes) = n + 5
      /\ bytes[1] = Magic /\ bytes[2] = Version /\ bytes[3] = m.type /\ bytes[4] = n
      /\ \A k \in 1..n : bytes[4 + k] = m.body[k]
      /\ bytes[n + 5] = Checksum(<<m.type>> \o m.body)
  BY Encoded, Zenon
<1>2. m.body \in Seq(Nat)
  BY Zenon DEF Message
<1>3. part \in Seq(Byte) /\ \A k \in 1..Len(part) : part[k] = bytes[Past(parts, m) + k]
  BY Zenon DEF Slice
<1> HIDE DEF bytes
<1>4. CASE parts = << >>
  <2>1. Len(parts) = 0 /\ Past(parts, m) = 0 /\ Len(part) = 4
    BY <1>4 DEF Past, Need, HeaderBytes
  <2>2. \A k \in 1..4 : part[k] = bytes[k]
    BY <1>3, <2>1
  <2>3. HeaderIs(part, m)
    BY <1>1, <2>2 DEF HeaderIs
  <2> QED
    BY <2>1, <2>3
<1>5. ASSUME n > 0, NEW h \in Seq(Byte), parts = <<h>>, HeaderIs(h, m)
      PROVE  Len(parts) = 1 /\ part = m.body /\ HeaderIs(parts[1], m)
  <2>1. Len(parts) = 1 /\ parts[1] = h /\ parts # << >>
    BY <1>5, Zenon
  <2>2. Past(parts, m) = 4 /\ Len(part) = n
    BY <1>5, <2>1 DEF Past, Need, BodyLen, HeaderIs
  <2>3. \A k \in 1..n : part[k] = m.body[k]
    BY <1>1, <1>3, <2>2, Zenon
  <2>4. part = m.body
    <3>1. Len(part) = Len(m.body) /\ \A k \in 1..Len(m.body) : part[k] = m.body[k]
      BY <2>2, <2>3, Zenon
    <3>2. part \in Seq(Byte)
      BY <1>3, Zenon
    <3> HIDE DEF n
    <3> QED
      BY <1>2, <3>1, <3>2, SameBytes, Zenon
  <2> QED
    BY <1>5, <2>1, <2>4, Zenon
<1>6. ASSUME NEW h \in Seq(Byte), parts = <<h, m.body>>, HeaderIs(h, m)
      PROVE  /\ Len(parts) = 2 /\ part[1] = Checksum(<<m.type>> \o m.body)
             /\ HeaderIs(parts[1], m) /\ parts[2] = m.body
  <2>1. Len(parts) = 2 /\ parts[1] = h /\ parts[2] = m.body /\ parts # << >>
    BY <1>6, Zenon
  <2>2. Past(parts, m) = 4 + n /\ Len(part) = 1
    BY <2>1 DEF Past, Need, CrcBytes
  <2>3. part[1] = bytes[n + 5]
    <3>1. part[1] = bytes[(4 + n) + 1] /\ (4 + n) + 1 = n + 5
      BY <1>1, <1>3, <2>2
    <3> QED
      BY <3>1, Zenon
  <2> QED
    BY <1>1, <1>6, <2>1, <2>3, Zenon
<1> QED
  BY <1>4, <1>5, <1>6 DEF PartsOf

\* A frame of two parts.
LEMMA TwoParts ==
  ASSUME NEW h, NEW m
  PROVE  /\ Append(<<h>>, m.body) = <<h, m.body>> /\ <<h, m.body>> # << >>
         /\ Need(<<h, m.body>>) = 1 /\ Past(<<h, m.body>>, m) = 4 + Len(m.body)
         /\ Len(<<h, m.body>>) = 2
<1>2. Append(<<h>>, m.body) = <<h, m.body>>
  <2>1. ASSUME NEW S, NEW a \in S, NEW b \in S
        PROVE  Append(<<a>>, b) = <<a, b>>
    <3> DEFINE s == Append(<<a>>, b)
               t == <<a, b>>
    <3>1. <<a>> \in Seq(S) /\ Len(<<a>>) = 1 /\ <<a>>[1] = a
      OBVIOUS
    <3>2. s \in Seq(S) /\ Len(s) = 2 /\ s[1] = a /\ s[2] = b
      BY <3>1
    <3>3. t \in Seq(S) /\ Len(t) = 2 /\ t[1] = a /\ t[2] = b
      OBVIOUS
    <3> HIDE DEF s, t
    <3>4. s = t
      BY <3>2, <3>3
    <3> QED
      BY <3>4, Zenon DEF s, t
  <2>2. h \in {h, m.body} /\ m.body \in {h, m.body}
    OBVIOUS
  <2> QED
    BY <2>1, <2>2, Zenon
<1>3. Len(<<h, m.body>>) = 2 /\ <<h, m.body>> # << >>
  OBVIOUS
<1> DEFINE parts == <<h, m.body>>
<1> HIDE DEF parts
<1>4. Need(parts) = 1 /\ Past(parts, m) = 4 + Len(m.body)
  BY <1>3 DEF Need, CrcBytes, Past, parts
<1> QED
  BY <1>2, <1>3, <1>4, Zenon DEF parts

\* The reader finds nothing wrong with a part, and is ready for the next.
LEMMA CarryPart ==
  ASSUME NEW m, NEW parts, NEW has, NEW net, NEW rest, NEW standing,
         Carries(m, parts, has, net, rest, standing), NEW n \in 1..Len(net),
         Len(has) + n = Need(parts)
  PROVE  LET part == has \o SubSeq(net, 1, n)
             left == SubSeq(net, n + 1, Len(net))
         IN  /\ \A e \in Ends : ~Refused(e, parts, part)
             /\ Len(parts) < 2 => Carries(m, With(parts, part), << >>, left, rest, standing)
             /\ Len(parts) = 2 => /\ m = [type |-> parts[1][3], body |-> parts[2]]
                                  /\ left = << >> /\ rest = << >>
             /\ Len(parts) \in 0..2
<1> DEFINE bytes == Encode(m)
           at == Past(parts, m)
           part == has \o SubSeq(net, 1, n)
           left == SubSeq(net, n + 1, Len(net))
           size == Len(m.body)
<1>1. /\ Slice(part, bytes, at) /\ Len(part) = Need(parts)
      /\ Slice(left, bytes, at + Len(part)) /\ Len(left) = Len(net) - n
      /\ Len(part) = Len(has) + n
  BY CarryRead
<1>2. /\ m \in Message /\ Len(m.body) <= MaxFrameBody /\ PartsOf(parts, m)
      /\ Slice(rest, bytes, Len(bytes) - Len(rest))
      /\ at + Len(has) + Len(net) + Len(rest) <= Len(bytes)
      /\ standing => at + Len(has) + Len(net) + Len(rest) = Len(bytes)
  BY Zenon DEF Carries
<1>3. /\ bytes \in Seq(Byte) /\ at \in Nat /\ Len(bytes) = size + 5 /\ size \in Nat
      /\ Len(has) \in Nat /\ Len(net) \in Nat /\ Len(rest) \in Nat /\ rest \in Seq(Byte)
  BY CarriedLengths, Zenon
<1>4. part \in Seq(Byte) /\ left \in Seq(Byte) /\ m.body \in Seq(Nat)
  BY <1>1, <1>2, Zenon DEF Slice, Message
<1> HIDE DEF bytes, part, left
<1>5. /\ Len(parts) \in 0..2
      /\ Len(parts) = 0 => HeaderIs(part, m)
      /\ Len(parts) = 1 => part = m.body
      /\ Len(parts) = 2 => part[1] = Checksum(<<m.type>> \o m.body)
      /\ Len(parts) # 0 => HeaderIs(parts[1], m)
      /\ Len(parts) = 2 => parts[2] = m.body
  BY <1>1, <1>2, PartIs, Zenon DEF bytes
<1>6. ASSUME NEW e \in Ends PROVE ~Refused(e, parts, part)
  <2>1. CASE Len(parts) = 0
    <3>1. part[1] = Magic /\ part[2] = Version /\ part[4] = Len(m.body)
      BY <1>5, <2>1, Zenon DEF HeaderIs
    <3>2. ~(part[4] > MaxFrameBody)
      BY <1>2, <1>3, <3>1, FramesAssumption
    <3> QED
      BY <2>1, <3>1, <3>2 DEF Refused
  <2>2. CASE Len(parts) = 1
    BY <2>2 DEF Refused
  <2>3. CASE Len(parts) = 2
    <3>1. parts[1][3] = m.type /\ parts[2] = m.body
      BY <1>5, <2>3 DEF HeaderIs
    <3>2. part[1] = Checksum(<<parts[1][3]>> \o parts[2])
      BY <1>5, <2>3, <3>1, Zenon
    <3> QED
      BY <2>3, <3>2 DEF Refused
  <2> QED
    BY <1>5, <2>1, <2>2, <2>3
<1>7. at + Len(part) + Len(left) + Len(rest) = at + Len(has) + Len(net) + Len(rest)
  <2>1. n \in Nat
    BY <1>3
  <2> QED
    BY <1>1, <1>3, <2>1
<1>8. ASSUME NEW more, PartsOf(more, m), Need(more) > 0, Past(more, m) = at + Len(part)
      PROVE  Carries(m, more, << >>, left, rest, standing)
  <2>1. at + Len(part) \in 0..Len(bytes) /\ Len(<< >>) = 0 /\ Len(part) \in Nat
    BY <1>1, <1>3, <1>4 DEF Slice
  <2> DEFINE i == at + Len(part)
  <2>2. Slice(<< >>, bytes, i)
    BY <1>3, <2>1, SliceNone, Zenon
  <2>3. Past(more, m) = i /\ i + Len(<< >>) = i /\ Slice(left, bytes, i)
    BY <1>1, <1>8, <2>1
  <2>4. /\ i + Len(left) + Len(rest) <= Len(bytes)
        /\ standing => i + Len(left) + Len(rest) = Len(bytes)
    BY <1>2, <1>7, Zenon
  <2> HIDE DEF i
  <2> QED
    BY <1>2, <1>8, <2>1, <2>2, <2>3, <2>4, Zenon DEF Carries, bytes
<1>9. ASSUME Len(parts) = 0
      PROVE  Carries(m, With(parts, part), << >>, left, rest, standing)
  <2>1. parts = << >> /\ at = 0 /\ Len(part) = 4 /\ HeaderIs(part, m)
    BY <1>1, <1>2, <1>5, <1>9 DEF PartsOf, Past, Need, HeaderBytes
  <2>2. CASE size = 0
    <3>1. m.body = << >>
      BY <1>4, <2>2
    <3>2. With(parts, part) = <<part, m.body>>
      BY <2>1, <2>2, <3>1, Zenon DEF With, HeaderIs
    <3>3. PartsOf(<<part, m.body>>, m)
      BY <1>4, <2>1, Zenon DEF PartsOf
    <3>4. Need(<<part, m.body>>) > 0 /\ Past(<<part, m.body>>, m) = at + Len(part)
      BY <2>1, <2>2 DEF Need, CrcBytes, Past
    <3> QED
      BY <1>8, <3>2, <3>3, <3>4, Zenon
  <2>3. CASE size # 0
    <3>1. With(parts, part) = <<part>>
      BY <1>4, <2>1, <2>3 DEF With, HeaderIs
    <3>2. PartsOf(<<part>>, m)
      BY <1>3, <1>4, <2>1, <2>3 DEF PartsOf
    <3>3. Need(<<part>>) > 0 /\ Past(<<part>>, m) = at + Len(part)
      BY <1>3, <2>1, <2>3 DEF Need, BodyLen, HeaderIs, Past
    <3> QED
      BY <1>8, <3>1, <3>2, <3>3, Zenon
  <2> QED
    BY <2>2, <2>3, Zenon
<1>10. ASSUME Len(parts) = 1
       PROVE  Carries(m, With(parts, part), << >>, left, rest, standing)
  <2>1. PICK h \in Seq(Byte) : parts = <<h>> /\ HeaderIs(h, m)
    <3>1. parts # << >>
      BY <1>10
    <3>2. ASSUME NEW h \in Seq(Byte) PROVE parts # <<h, m.body>>
      <4>1. Len(<<h, m.body>>) = 2
        BY TwoParts, Zenon
      <4> QED
        BY SMTT(20), <1>10, <4>1
    <3> QED
      BY <1>2, <3>1, <3>2, Zenon DEF PartsOf
  <2>2. part = m.body /\ at = 4
    BY <1>5, <1>10, <2>1, Zenon DEF Past
  <2>3. With(parts, part) = <<h, m.body>>
    <3>1. parts # << >>
      BY <1>10
    <3> QED
      BY <2>1, <2>2, <3>1, TwoParts, Zenon DEF With
  <2>4. PartsOf(<<h, m.body>>, m)
    BY <2>1, Zenon DEF PartsOf
  <2>5. Need(<<h, m.body>>) > 0 /\ Past(<<h, m.body>>, m) = at + Len(part)
    <3>1. Need(<<h, m.body>>) = 1 /\ Past(<<h, m.body>>, m) = 4 + Len(m.body)
      BY TwoParts, Zenon
    <3>2. at + Len(part) = 4 + Len(m.body)
      BY <2>2, Zenon
    <3> QED
      BY <3>1, <3>2
  <2> QED
    BY <1>8, <2>3, <2>4, <2>5, Zenon
<1>11. ASSUME Len(parts) = 2
       PROVE  /\ m = [type |-> parts[1][3], body |-> parts[2]]
              /\ left = << >> /\ rest = << >>
  <2>1. parts[1][3] = m.type /\ parts[2] = m.body
    BY <1>5, <1>11 DEF HeaderIs
  <2>2. m = [type |-> m.type, body |-> m.body]
    BY <1>2, Zenon DEF Message
  <2>3. at = 4 + size /\ Len(part) = 1
    <3>1. parts # << >>
      BY <1>11
    <3> QED
      BY <1>1, <1>11, <3>1 DEF Past, Need, CrcBytes
  <2>4. Len(left) = 0 /\ Len(rest) = 0
    <3>1. at + Len(part) + Len(left) + Len(rest) <= size + 5
      BY <1>2, <1>3, <1>7, Zenon
    <3>2. Len(left) \in Nat /\ Len(rest) \in Nat /\ size \in Nat
      BY <1>3, <1>4
    <3> QED
      BY <2>3, <3>1, <3>2
  <2>5. left = << >> /\ rest = << >>
    BY <1>3, <1>4, <2>4
  <2> QED
    BY <2>1, <2>2, <2>5, Zenon
<1>12. Len(parts) < 2 => Len(parts) = 0 \/ Len(parts) = 1
  BY <1>5
<1> QED
  BY <1>5, <1>6, <1>9, <1>10, <1>11, <1>12, Zenon DEF part, left

\* What the reader does with a whole part: it goes on, or it has the message.
TakesPart(m, parts, part, left, rest, standing) ==
    /\ \A e \in Ends : ~Refused(e, parts, part)
    /\ Len(parts) < 2 => Carries(m, With(parts, part), << >>, left, rest, standing)
    /\ Len(parts) = 2 => /\ m = [type |-> parts[1][3], body |-> parts[2]]
                         /\ left = << >> /\ rest = << >>

\* CarryPart, as one fact about the part.
LEMMA CarryNamed ==
  ASSUME NEW m, NEW parts, NEW has, NEW net, NEW rest, NEW standing,
         Carries(m, parts, has, net, rest, standing), NEW n \in 1..Len(net),
         Len(has) + n = Need(parts)
  PROVE  TakesPart(m, parts, has \o SubSeq(net, 1, n), SubSeq(net, n + 1, Len(net)),
                   rest, standing)
BY CarryPart DEF TakesPart

-----------------------------------------------------------------------------
(* One direction of the connection: a frame is due, or there is nothing.   *)

Link(m, due, parts, has, net, rest, standing) ==
    IF due THEN Carries(m, parts, has, net, rest, standing)
    ELSE parts = << >> /\ has = << >> /\ net = << >> /\ rest = << >>

\* The client has at most one call in flight.
Counts ==
    /\ asked \in Seq(Requests) /\ handled \in Seq(Requests) /\ got \in Seq(Message)
    /\ Len(got) <= Len(handled) /\ Len(handled) <= Len(asked) /\ Len(asked) <= Len(got) + 1

\* Its request is on the way to the server until the session has handled it, ...
ToServer ==
    Link(asked[Len(asked)], Len(handled) < Len(asked),
         frame["server"], buf["server"], stream["server"], out["client"], up)

\* ... and the reply is on the way back until the client has it.
ToClient ==
    Link(Reply[handled[Len(handled)]], Len(got) < Len(handled),
         frame["client"], buf["client"], stream["client"], out["server"], up)

\* Every piece of state has a value for each end.
PerEnd ==
    /\ DOMAIN stream = Ends /\ DOMAIN out = Ends /\ DOMAIN buf = Ends
    /\ DOMAIN frame = Ends /\ DOMAIN phase = Ends /\ up \in BOOLEAN

\* Who is writing has something to send; a client without a call has every reply.
Phases ==
    /\ \A e \in Ends : phase[e] = "writing" <=> out[e] # << >>
    /\ phase["client"] = "idle" => Len(got) = Len(asked)

FramesInv == Counts /\ ToServer /\ ToClient /\ PerEnd /\ Phases /\ NothingRefused

\* The sizes of what is on the way.
LEMMA LinkSizes ==
  ASSUME NEW m, NEW due, NEW parts, NEW has, NEW net, NEW rest, NEW standing,
         Link(m, due, parts, has, net, rest, standing)
  PROVE  /\ Len(has) \in Nat /\ Len(net) \in Nat /\ Len(rest) \in Nat /\ Need(parts) \in Nat
         /\ net # << >> => due
         /\ rest # << >> => due
         /\ net = << >> => Len(net) = 0
         /\ rest = << >> => Len(rest) = 0
<1>1. CASE due
  <2>1. Carries(m, parts, has, net, rest, standing)
    BY <1>1, Zenon DEF Link
  <2>2. Len(has) \in Nat /\ Len(net) \in Nat /\ Len(rest) \in Nat /\ Len(m.body) \in Nat
    BY <2>1, CarriedLengths, Zenon
  <2>3. PartsOf(parts, m)
    BY <2>1, Zenon DEF Carries
  <2>4. CASE parts = << >>
    BY <1>1, <2>2, <2>4 DEF Need, HeaderBytes
  <2>5. ASSUME NEW h \in Seq(Byte), parts = <<h>>, HeaderIs(h, m)
        PROVE  Need(parts) \in Nat
    <3>1. Len(parts) = 1 /\ parts[1] = h
      BY <2>5, Zenon
    <3> QED
      BY <2>2, <2>5, <3>1 DEF Need, BodyLen, HeaderIs
  <2>6. ASSUME NEW h \in Seq(Byte), parts = <<h, m.body>>
        PROVE  Need(parts) \in Nat
    <3>1. Need(parts) = 1
      BY <2>6, TwoParts, Zenon
    <3> QED
      BY <3>1
  <2>7. Need(parts) \in Nat
    BY <2>3, <2>4, <2>5, <2>6, Zenon DEF PartsOf
  <2> QED
    BY <1>1, <2>2, <2>7
<1>2. CASE ~due
  BY <1>2 DEF Link, Need, HeaderBytes
<1> QED
  BY <1>1, <1>2, Zenon

\* A frame begins where there was none.
LEMMA LinkStart ==
  ASSUME NEW l, NEW m \in Message, Len(m.body) <= MaxFrameBody, NEW standing,
         NEW parts, NEW has, NEW net, NEW rest, Link(l, FALSE, parts, has, net, rest, standing),
         NEW due, due
  PROVE  Link(m, due, parts, has, net, Encode(m), standing) /\ Encode(m) # << >>
BY CarryStart, Zenon DEF Link

\* write_all goes on.
LEMMA LinkWrite ==
  ASSUME NEW m, NEW due, NEW parts, NEW has, NEW net, NEW rest,
         Link(m, due, parts, has, net, rest, TRUE), rest # << >>, NEW n \in 1..Len(rest)
  PROVE  Link(m, due, parts, has, net \o SubSeq(rest, 1, n), Unsent(rest, n), TRUE)
<1>1. due /\ Carries(m, parts, has, net, rest, TRUE)
  BY Zenon DEF Link
<1>2. Carries(m, parts, has, net \o SubSeq(rest, 1, n), Unsent(rest, n), TRUE)
  BY <1>1, CarryWrite, Zenon
<1> QED
  BY <1>1, <1>2, Zenon DEF Link

\* write_all fails.
LEMMA LinkCut ==
  ASSUME NEW m, NEW due, NEW parts, NEW has, NEW net, NEW rest,
         Link(m, due, parts, has, net, rest, FALSE)
  PROVE  Link(m, due, parts, has, net, << >>, FALSE)
BY CarryCut, Zenon DEF Link

\* The end of what is in the network is lost.
LEMMA LinkDrop ==
  ASSUME NEW m, NEW due, NEW parts, NEW has, NEW net, NEW rest, NEW standing,
         Link(m, due, parts, has, net, rest, standing), NEW c \in 0..Len(net)
  PROVE  Link(m, due, parts, has, SubSeq(net, 1, c), rest, FALSE)
<1>1. CASE due
  <2>1. Carries(m, parts, has, SubSeq(net, 1, c), rest, FALSE)
    BY <1>1, CarryDrop, Zenon DEF Link
  <2> QED
    BY <1>1, <2>1, Zenon DEF Link
<1>2. CASE ~due
  <2>1. parts = << >> /\ has = << >> /\ net = << >> /\ rest = << >>
    BY <1>2, Zenon DEF Link
  <2>2. SubSeq(net, 1, c) = << >>
    BY <2>1
  <2> QED
    BY <1>2, <2>1, <2>2, Zenon DEF Link
<1> QED
  BY <1>1, <1>2, Zenon

\* read_exact has less than the part.
LEMMA LinkShort ==
  ASSUME NEW m, NEW due, NEW parts, NEW has, NEW net, NEW rest, NEW standing,
         Link(m, due, parts, has, net, rest, standing), due, NEW n \in 1..Len(net),
         Len(has) + n < Need(parts)
  PROVE  Link(m, due, parts, has \o SubSeq(net, 1, n), SubSeq(net, n + 1, Len(net)), rest,
              standing)
<1>1. Carries(m, parts, has, net, rest, standing)
  BY Zenon DEF Link
<1>2. Carries(m, parts, has \o SubSeq(net, 1, n), SubSeq(net, n + 1, Len(net)), rest, standing)
  BY <1>1, CarryShort, Zenon
<1> QED
  BY <1>2, Zenon DEF Link

\* The ends are each other's peers.
LEMMA Peers == Peer("client") = "server" /\ Peer("server") = "client"
BY Zenon DEF Peer, Ends

\* What the constants are.
LEMMA MessagesFit ==
  ASSUME NEW m \in Requests
  PROVE  /\ m \in Message /\ Len(m.body) <= MaxFrameBody
         /\ Reply[m] \in Message /\ Len(Reply[m].body) <= MaxFrameBody
BY FramesAssumption, Zenon DEF Message

\* Initially nothing is on the way.
LEMMA FramesStart == FramesInit => FramesInv
<1> SUFFICES ASSUME FramesInit PROVE FramesInv
  OBVIOUS
<1>1. PerEnd
  BY Zenon DEF FramesInit, PerEnd, Ends
<1>2. Counts /\ NothingRefused
  BY DEF FramesInit, ExchangeInit, Counts, NothingRefused
<1>3. Phases
  BY DEF FramesInit, ExchangeInit, Phases, Ends
<1>4. ToServer /\ ToClient
  <2>1. ~(Len(handled) < Len(asked)) /\ ~(Len(got) < Len(handled))
    BY DEF FramesInit, ExchangeInit
  <2>2. \A e \in Ends : frame[e] = << >> /\ buf[e] = << >> /\ stream[e] = << >> /\ out[e] = << >>
    BY Zenon DEF FramesInit
  <2>3. "client" \in Ends /\ "server" \in Ends
    BY Zenon DEF Ends
  <2> QED
    BY <2>1, <2>2, <2>3, Zenon DEF ToServer, ToClient, Link
<1> QED
  BY <1>1, <1>2, <1>3, <1>4, Zenon DEF FramesInv

\* A call: the connection is silent, and a request sets out.
LEMMA CallStep == FramesInv /\ Call => FramesInv' /\ Ask
<1> SUFFICES ASSUME FramesInv, Call PROVE FramesInv' /\ Ask
  OBVIOUS
<1>1. PICK m \in Requests : asked' = Append(asked, m) /\ out' = [out EXCEPT !["client"] = Encode(m)]
  BY Zenon DEF Call
<1>2. /\ phase["client"] = "idle" /\ phase' = [phase EXCEPT !["client"] = "writing"]
      /\ UNCHANGED <<up, stream, buf, frame, rejected, handled, got>>
  BY Zenon DEF Call
<1>3. Len(got) = Len(asked) /\ Len(handled) = Len(asked) /\ Len(asked) \in Nat
  BY <1>2 DEF FramesInv, Phases, Counts
<1>4. asked' \in Seq(Requests) /\ Len(asked') = Len(asked) + 1 /\ asked'[Len(asked')] = m
  BY <1>1 DEF FramesInv, Counts
<1>5. Counts'
  BY <1>2, <1>3, <1>4 DEF FramesInv, Counts
<1>6. PerEnd'
  BY <1>1, <1>2, Zenon DEF FramesInv, PerEnd
<1>7. out'["client"] = Encode(m) /\ out'["server"] = out["server"]
  BY <1>1, Zenon DEF FramesInv, PerEnd, Ends
<1>8. Link(m, Len(handled) < Len(asked'), frame["server"], buf["server"], stream["server"],
           Encode(m), up) /\ Encode(m) # << >>
  <2>1. Link(asked[Len(asked)], FALSE, frame["server"], buf["server"], stream["server"],
             out["client"], up)
    <3>1. ~(Len(handled) < Len(asked))
      BY <1>3
    <3> QED
      BY <3>1, Zenon DEF FramesInv, ToServer, Link
  <2>2. Len(handled) < Len(asked')
    BY <1>3, <1>4
  <2>3. m \in Message /\ Len(m.body) <= MaxFrameBody
    BY MessagesFit, Zenon
  <2> QED
    BY <2>1, <2>2, <2>3, LinkStart, Zenon
<1>9. ToServer'
  BY <1>2, <1>4, <1>7, <1>8, Zenon DEF ToServer
<1>10. ToClient'
  BY <1>2, <1>7, Zenon DEF FramesInv, ToClient
<1>11. Phases'
  <2>1. phase'["client"] = "writing" /\ phase'["server"] = phase["server"]
    BY <1>2, Zenon DEF FramesInv, PerEnd, Ends
  <2> QED
    BY <1>7, <1>8, <2>1, Zenon DEF FramesInv, Phases, Ends
<1>12. Ask
  BY <1>1, <1>2, <1>3, Zenon DEF Ask
<1> QED
  BY <1>2, <1>5, <1>6, <1>9, <1>10, <1>11, <1>12, Zenon DEF FramesInv, NothingRefused

\* The connection is lost, with the end of what was on its way.
LEMMA DropStep == FramesInv /\ Drop => FramesInv' /\ UNCHANGED exchangeVars
<1> SUFFICES ASSUME FramesInv, Drop PROVE FramesInv' /\ UNCHANGED exchangeVars
  OBVIOUS
<1>1. PICK c \in 0..Len(stream["client"]), s \in 0..Len(stream["server"]) :
        stream' = [client |-> SubSeq(stream["client"], 1, c),
                   server |-> SubSeq(stream["server"], 1, s)]
  BY Zenon DEF Drop
<1>2. up' = FALSE /\ UNCHANGED <<out, buf, frame, phase, rejected, asked, handled, got>>
  BY Zenon DEF Drop, exchangeVars
<1>3. /\ stream'["client"] = SubSeq(stream["client"], 1, c)
      /\ stream'["server"] = SubSeq(stream["server"], 1, s)
      /\ DOMAIN stream' = Ends
  BY <1>1, Zenon DEF Ends
<1>4. Link(asked[Len(asked)], Len(handled) < Len(asked), frame["server"], buf["server"],
           SubSeq(stream["server"], 1, s), out["client"], FALSE)
  BY LinkDrop, Zenon DEF FramesInv, ToServer
<1>5. Link(Reply[handled[Len(handled)]], Len(got) < Len(handled), frame["client"],
           buf["client"], SubSeq(stream["client"], 1, c), out["server"], FALSE)
  BY LinkDrop, Zenon DEF FramesInv, ToClient
<1>6. ToServer' /\ ToClient'
  BY <1>2, <1>3, <1>4, <1>5, Zenon DEF ToServer, ToClient
<1>7. Counts' /\ PerEnd' /\ Phases' /\ NothingRefused'
  BY <1>2, <1>3, Zenon DEF FramesInv, Counts, PerEnd, Phases, NothingRefused
<1> QED
  BY <1>2, <1>6, <1>7, Zenon DEF FramesInv, exchangeVars

\* The two ends.
LEMMA TwoEnds ==
  ASSUME NEW e \in Ends
  PROVE  \/ e = "client" /\ Peer(e) = "server"
         \/ e = "server" /\ Peer(e) = "client"
BY Peers, Zenon DEF Ends

\* write_all sends some bytes.
LEMMA WriteFacts ==
  ASSUME FramesInv, NEW e \in Ends, Writes(e), NEW m, NEW due,
         Link(m, due, frame[Peer(e)], buf[Peer(e)], stream[Peer(e)], out[e], up)
  PROVE  /\ Link(m, due, frame[Peer(e)], buf[Peer(e)], stream'[Peer(e)], out'[e], up)
         /\ stream'[e] = stream[e] /\ out'[Peer(e)] = out[Peer(e)]
         /\ PerEnd' /\ Phases'
<1> DEFINE p == Peer(e)
<1>1. p \in Ends /\ p # e /\ \A f \in Ends : f = e \/ f = p
  BY TwoEnds, Zenon DEF Ends
<1>2. up = TRUE /\ phase[e] = "writing" /\ out[e] # << >>
  BY Zenon DEF Writes, FramesInv, PerEnd, Phases
<1>3. PICK n \in 1..Len(out[e]) :
        /\ stream' = [stream EXCEPT ![p] = @ \o SubSeq(out[e], 1, n)]
        /\ out' = [out EXCEPT ![e] = Unsent(@, n)]
  BY Zenon DEF Writes
<1>4. phase' = IF out'[e] = << >> THEN [phase EXCEPT ![e] = "reading"] ELSE phase
  BY Zenon DEF Writes
<1>5. UNCHANGED <<up, buf, frame, asked, handled, got>>
  BY Zenon DEF Writes, exchangeVars
<1>6. DOMAIN stream = Ends /\ DOMAIN out = Ends /\ DOMAIN phase = Ends
  BY Zenon DEF FramesInv, PerEnd
<1> HIDE DEF p
<1>8. /\ stream'[p] = stream[p] \o SubSeq(out[e], 1, n) /\ stream'[e] = stream[e]
      /\ out'[e] = Unsent(out[e], n) /\ out'[p] = out[p]
      /\ DOMAIN stream' = Ends /\ DOMAIN out' = Ends
  BY <1>1, <1>3, <1>6, Zenon
<1>9. Link(m, due, frame[p], buf[p], stream'[p], out'[e], up)
  <2>1. Link(m, due, frame[p], buf[p], stream[p], out[e], TRUE)
    BY <1>2, Zenon DEF p
  <2>2. Link(m, due, frame[p], buf[p], stream[p] \o SubSeq(out[e], 1, n), Unsent(out[e], n), TRUE)
    BY <1>2, <2>1, LinkWrite, Zenon
  <2> QED
    BY <1>2, <1>8, <2>2, Zenon
<1>10. /\ DOMAIN phase' = Ends /\ phase'[p] = phase[p]
       /\ phase'[e] = IF out'[e] = << >> THEN "reading" ELSE "writing"
  BY <1>1, <1>2, <1>4, <1>6, Zenon
<1>11. PerEnd'
  BY <1>5, <1>8, <1>10, Zenon DEF FramesInv, PerEnd
<1>12. Phases'
  <2>1. phase'[e] = "writing" <=> out'[e] # << >>
    BY <1>10, Zenon
  <2>2. phase'[p] = "writing" <=> out'[p] # << >>
    BY <1>1, <1>8, <1>10, Zenon DEF FramesInv, Phases
  <2>3. phase'["client"] = "idle" => phase["client"] = "idle"
    BY <1>1, <1>10, Zenon DEF Ends
  <2> QED
    BY <1>1, <1>5, <2>1, <2>2, <2>3, Zenon DEF FramesInv, Phases
<1> QED
  BY <1>8, <1>9, <1>11, <1>12, Zenon DEF p

LEMMA WriteStep ==
  ASSUME FramesInv, NEW e \in Ends, Writes(e)
  PROVE  FramesInv' /\ UNCHANGED exchangeVars
<1>1. UNCHANGED <<up, buf, frame, rejected, asked, handled, got>>
  BY Zenon DEF Writes, exchangeVars
<1>2. Counts' /\ NothingRefused'
  BY <1>1, Zenon DEF FramesInv, Counts, NothingRefused
<1>3. CASE e = "client"
  <2>1. /\ Link(asked[Len(asked)], Len(handled) < Len(asked), frame["server"],
                buf["server"], stream'["server"], out'["client"], up)
        /\ stream'["client"] = stream["client"] /\ out'["server"] = out["server"]
        /\ PerEnd' /\ Phases'
    BY <1>3, Peers, WriteFacts, Zenon DEF FramesInv, ToServer
  <2>2. ToServer' /\ ToClient'
    BY <1>1, <2>1, Zenon DEF FramesInv, ToServer, ToClient
  <2> QED
    BY <1>1, <1>2, <2>1, <2>2, Zenon DEF FramesInv, exchangeVars
<1>4. CASE e = "server"
  <2>1. /\ Link(Reply[handled[Len(handled)]], Len(got) < Len(handled), frame["client"],
                buf["client"], stream'["client"], out'["server"], up)
        /\ stream'["server"] = stream["server"] /\ out'["client"] = out["client"]
        /\ PerEnd' /\ Phases'
    BY <1>4, Peers, WriteFacts, Zenon DEF FramesInv, ToClient
  <2>2. ToServer' /\ ToClient'
    BY <1>1, <2>1, Zenon DEF FramesInv, ToServer, ToClient
  <2> QED
    BY <1>1, <1>2, <2>1, <2>2, Zenon DEF FramesInv, exchangeVars
<1> QED
  BY <1>3, <1>4, Zenon DEF Ends

\* write_all fails, and the writer goes on to read.
LEMMA WriteFailsStep ==
  ASSUME FramesInv, NEW e \in Ends, WriteFails(e)
  PROVE  FramesInv' /\ UNCHANGED exchangeVars
<1>1. /\ up = FALSE /\ phase[e] = "writing"
      /\ UNCHANGED <<up, stream, buf, frame, rejected, asked, handled, got>>
  BY Zenon DEF WriteFails, exchangeVars, FramesInv, PerEnd
<1>2. \A f \in Ends : /\ out'[f] = IF f = e THEN << >> ELSE out[f]
                      /\ phase'[f] = IF f = e THEN "reading" ELSE phase[f]
  BY Zenon DEF WriteFails, FramesInv, PerEnd
<1>3. Counts' /\ NothingRefused' /\ PerEnd'
  BY <1>1, Zenon DEF WriteFails, FramesInv, Counts, NothingRefused, PerEnd
<1>4. "client" \in Ends /\ "server" \in Ends
  BY Zenon DEF Ends
<1>5. Phases'
  <2>1. \A f \in Ends : phase'[f] = "writing" <=> out'[f] # << >>
    BY <1>2, Zenon DEF FramesInv, Phases
  <2>2. phase'["client"] = "idle" => phase["client"] = "idle"
    BY <1>2, <1>4, Zenon
  <2> QED
    BY <1>1, <2>1, <2>2, Zenon DEF FramesInv, Phases
<1>6. ToServer'
  <2>1. Link(asked[Len(asked)], Len(handled) < Len(asked),
             frame["server"], buf["server"], stream["server"], out["client"], FALSE)
    BY <1>1, Zenon DEF FramesInv, ToServer
  <2>2. Link(asked[Len(asked)], Len(handled) < Len(asked),
             frame["server"], buf["server"], stream["server"], << >>, FALSE)
    BY <2>1, LinkCut, Zenon
  <2>3. out'["client"] = << >> \/ out'["client"] = out["client"]
    BY <1>2, <1>4, Zenon
  <2> QED
    BY <1>1, <2>1, <2>2, <2>3, Zenon DEF ToServer
<1>7. ToClient'
  <2>1. Link(Reply[handled[Len(handled)]], Len(got) < Len(handled),
             frame["client"], buf["client"], stream["client"], out["server"], FALSE)
    BY <1>1, Zenon DEF FramesInv, ToClient
  <2>2. Link(Reply[handled[Len(handled)]], Len(got) < Len(handled),
             frame["client"], buf["client"], stream["client"], << >>, FALSE)
    BY <2>1, LinkCut, Zenon
  <2>3. out'["server"] = << >> \/ out'["server"] = out["server"]
    BY <1>2, <1>4, Zenon
  <2> QED
    BY <1>1, <2>1, <2>2, <2>3, Zenon DEF ToClient
<1> QED
  BY <1>1, <1>3, <1>5, <1>6, <1>7, Zenon DEF FramesInv, exchangeVars

\* The end of the connection is read.
LEMMA ReadFailsStep ==
  ASSUME FramesInv, NEW e \in Ends, ReadFails(e)
  PROVE  FramesInv' /\ UNCHANGED exchangeVars
<1>1. /\ phase[e] = "reading" /\ phase' = [phase EXCEPT ![e] = "over"]
      /\ UNCHANGED <<up, stream, out, buf, frame, rejected, asked, handled, got>>
  BY Zenon DEF ReadFails, exchangeVars
<1>2. Counts' /\ NothingRefused' /\ ToServer' /\ ToClient'
  BY <1>1, Zenon DEF FramesInv, Counts, NothingRefused, ToServer, ToClient
<1>3. PerEnd'
  BY <1>1, Zenon DEF FramesInv, PerEnd
<1>4. Phases'
  <2>1. \A f \in Ends : phase'[f] = IF f = e THEN "over" ELSE phase[f]
    BY <1>1, Zenon DEF FramesInv, PerEnd
  <2> QED
    BY <1>1, <2>1 DEF FramesInv, Phases, Ends
<1> QED
  BY <1>1, <1>2, <1>3, <1>4, Zenon DEF FramesInv, exchangeVars

\* read_exact receives some bytes: it has less than a part, or one more part of the frame,
\* or all of the message that is due.
LEMMA ReadFacts ==
  ASSUME FramesInv, NEW e \in Ends, Reads(e), NEW m, NEW due,
         Link(m, due, frame[e], buf[e], stream[e], out[Peer(e)], up)
  PROVE  /\ due /\ phase[e] = "reading"
         /\ UNCHANGED <<up, rejected>>
         /\ DOMAIN stream' = Ends /\ DOMAIN buf' = Ends /\ DOMAIN frame' = Ends
         /\ \A f \in Ends : f # e => /\ stream'[f] = stream[f] /\ buf'[f] = buf[f]
                                     /\ frame'[f] = frame[f]
         /\ \/ /\ Link(m, due, frame'[e], buf'[e], stream'[e], out[Peer(e)], up)
               /\ UNCHANGED <<out, phase, exchangeVars>>
            \/ /\ frame'[e] = << >> /\ buf'[e] = << >> /\ stream'[e] = << >>
               /\ out[Peer(e)] = << >>
               /\ Arrives(e, m)
<1> DEFINE rest == out[Peer(e)]
           has == buf[e]
           net == stream[e]
           parts == frame[e]
<1>1. PICK n \in 1..Len(net) :
        LET bytes == has \o SubSeq(net, 1, n)
        IN  /\ Len(bytes) <= Need(parts)
            /\ stream' = [stream EXCEPT ![e] = SubSeq(@, n + 1, Len(@))]
            /\ \/ /\ IsWhole(bytes, Need(parts))
                  /\ buf' = [buf EXCEPT ![e] = << >>]
                  /\ PartRead(e, bytes)
               \/ /\ ~IsWhole(bytes, Need(parts))
                  /\ buf' = [buf EXCEPT ![e] = bytes]
                  /\ UNCHANGED <<up, out, frame, phase, rejected, exchangeVars>>
  BY Zenon DEF Reads
<1> DEFINE bytes == has \o SubSeq(net, 1, n)
           left == SubSeq(net, n + 1, Len(net))
<1>2. DOMAIN stream = Ends /\ DOMAIN buf = Ends /\ DOMAIN frame = Ends /\ DOMAIN phase = Ends
  BY Zenon DEF FramesInv, PerEnd
<1>3. phase[e] = "reading"
  BY Zenon DEF Reads
<1>4. Len(has) \in Nat /\ Len(net) \in Nat /\ Need(parts) \in Nat /\ (net # << >> => due)
      /\ (net = << >> => Len(net) = 0)
  BY LinkSizes
<1>5. n \in 1..Len(net) /\ Len(bytes) <= Need(parts)
  BY <1>1, Zenon
<1>6. due /\ Carries(m, parts, has, net, rest, up)
  <2>1. Len(net) # 0
    BY <1>4
  <2>2. due
    BY <1>4, <2>1, Zenon
  <2> QED
    BY <2>2, Zenon DEF Link
<1>7. Len(bytes) = Len(has) + n
  BY <1>5, <1>6, CarryRead
<1>8. /\ stream'[e] = left /\ DOMAIN stream' = Ends
      /\ \A f \in Ends : f # e => stream'[f] = stream[f]
  BY <1>1, <1>2, Zenon
<1> HIDE DEF bytes, left
<1>9. CASE ~IsWhole(bytes, Need(parts))
  <2>1. /\ buf' = [buf EXCEPT ![e] = bytes]
        /\ UNCHANGED <<up, out, frame, phase, rejected, exchangeVars>>
    BY <1>1, <1>9, Zenon DEF bytes
  <2>2. buf'[e] = bytes /\ DOMAIN buf' = Ends /\ \A f \in Ends : f # e => buf'[f] = buf[f]
    BY <1>2, <2>1, Zenon
  <2>3. Len(has) + n < Need(parts)
    BY <1>4, <1>5, <1>7, <1>9 DEF IsWhole
  <2>4. Link(m, due, parts, bytes, left, rest, up)
    BY <1>5, <1>6, <2>3, LinkShort, Zenon DEF bytes, left
  <2>5. Link(m, due, frame'[e], buf'[e], stream'[e], rest, up)
    BY <1>8, <2>1, <2>2, <2>4, Zenon
  <2> QED
    BY <1>2, <1>3, <1>6, <1>8, <2>1, <2>2, <2>5, Zenon
<1>10. CASE IsWhole(bytes, Need(parts))
  <2>1. buf' = [buf EXCEPT ![e] = << >>] /\ PartRead(e, bytes)
    BY <1>1, <1>10, Zenon DEF bytes
  <2>2. buf'[e] = << >> /\ DOMAIN buf' = Ends /\ \A f \in Ends : f # e => buf'[f] = buf[f]
    BY <1>2, <2>1, Zenon
  <2>3. Len(has) + n = Need(parts)
    BY <1>7, <1>10, Zenon DEF IsWhole
  <2>4. /\ ~Refused(e, parts, bytes)
        /\ Len(parts) < 2 => Carries(m, With(parts, bytes), << >>, left, rest, up)
        /\ Len(parts) = 2 => /\ m = [type |-> parts[1][3], body |-> parts[2]]
                             /\ left = << >> /\ rest = << >>
    <3>1. TakesPart(m, parts, bytes, left, rest, up)
      BY <1>5, <1>6, <2>3, CarryNamed, Zenon DEF bytes, left
    <3> HIDE DEF parts, rest
    <3> QED
      BY <3>1, Zenon DEF TakesPart
  <2>5. CASE Len(parts) < 2 /\ frame' = [frame EXCEPT ![e] = With(@, bytes)]
             /\ UNCHANGED <<up, out, phase, rejected, exchangeVars>>
    <3>1. /\ frame'[e] = With(parts, bytes) /\ DOMAIN frame' = Ends
          /\ \A f \in Ends : f # e => frame'[f] = frame[f]
      BY <1>2, <2>5, Zenon
    <3>2. Link(m, due, frame'[e], buf'[e], stream'[e], rest, up)
      BY <1>6, <1>8, <2>2, <2>4, <2>5, <3>1, Zenon DEF Link
    <3> QED
      BY <1>3, <1>6, <1>8, <2>2, <2>5, <3>1, <3>2, Zenon
  <2>6. CASE Len(parts) = 2 /\ Arrives(e, [type |-> parts[1][3], body |-> parts[2]])
             /\ frame' = [frame EXCEPT ![e] = << >>] /\ UNCHANGED <<up, rejected>>
    <3>1. /\ frame'[e] = << >> /\ DOMAIN frame' = Ends
          /\ \A f \in Ends : f # e => frame'[f] = frame[f]
      BY <1>2, <2>6, Zenon
    <3>2. Arrives(e, m) /\ stream'[e] = << >> /\ rest = << >>
      BY <1>8, <2>4, <2>6, Zenon
    <3> QED
      BY <1>3, <1>6, <1>8, <2>2, <2>6, <3>1, <3>2, Zenon
  <2> QED
    BY <2>1, <2>4, <2>5, <2>6, Zenon DEF PartRead
<1> QED
  BY <1>9, <1>10, Zenon

\* The session reads: it may handle the request.
LEMMA ServerReads ==
  ASSUME FramesInv, Reads("server")
  PROVE  FramesInv' /\ (Handle \/ UNCHANGED exchangeVars)
<1> DEFINE m == asked[Len(asked)]
           due == Len(handled) < Len(asked)
<1>1. "server" \in Ends /\ "client" \in Ends /\ Peer("server") = "client"
  BY Peers, Zenon DEF Ends
<1>2. Link(m, due, frame["server"], buf["server"], stream["server"], out["client"], up)
  BY Zenon DEF FramesInv, ToServer
<1>3. /\ due /\ phase["server"] = "reading" /\ UNCHANGED <<up, rejected>>
      /\ DOMAIN stream' = Ends /\ DOMAIN buf' = Ends /\ DOMAIN frame' = Ends
      /\ \A f \in Ends : f # "server" => /\ stream'[f] = stream[f] /\ buf'[f] = buf[f]
                                         /\ frame'[f] = frame[f]
      /\ \/ /\ Link(m, due, frame'["server"], buf'["server"], stream'["server"],
                    out["client"], up)
            /\ UNCHANGED <<out, phase, exchangeVars>>
         \/ /\ frame'["server"] = << >> /\ buf'["server"] = << >>
            /\ stream'["server"] = << >> /\ out["client"] = << >>
            /\ Arrives("server", m)
  BY <1>1, <1>2, ReadFacts, ZenonT(60)
<1>4. /\ stream'["client"] = stream["client"] /\ buf'["client"] = buf["client"]
      /\ frame'["client"] = frame["client"]
  BY <1>1, <1>3, Zenon
<1>5. NothingRefused'
  BY <1>3, Zenon DEF FramesInv, NothingRefused
<1>6. CASE /\ Link(m, due, frame'["server"], buf'["server"], stream'["server"],
                   out["client"], up)
           /\ UNCHANGED <<out, phase, exchangeVars>>
  <2>1. UNCHANGED <<asked, handled, got, out, phase>>
    BY <1>6, Zenon DEF exchangeVars
  <2>2. Counts' /\ PerEnd' /\ Phases'
    BY <1>3, <2>1, Zenon DEF FramesInv, Counts, PerEnd, Phases
  <2>3. ToServer' /\ ToClient'
    BY <1>3, <1>4, <1>6, <2>1, Zenon DEF FramesInv, ToServer, ToClient
  <2> QED
    BY <1>5, <1>6, <2>2, <2>3, Zenon DEF FramesInv
<1>7. CASE /\ frame'["server"] = << >> /\ buf'["server"] = << >>
           /\ stream'["server"] = << >> /\ out["client"] = << >>
           /\ Arrives("server", m)
  <2>1. /\ handled' = Append(handled, m) /\ UNCHANGED <<asked, got>>
        /\ out' = [out EXCEPT !["server"] = Encode(Reply[m])]
        /\ phase' = [phase EXCEPT !["server"] = "writing"]
    BY <1>7, Zenon DEF Arrives
  <2>2. /\ Len(handled) + 1 = Len(asked) /\ Len(got) = Len(handled)
        /\ Len(got) \in Nat /\ Len(handled) \in Nat /\ Len(asked) \in Nat /\ m \in Requests
    BY <1>3 DEF FramesInv, Counts
  <2>3. handled' \in Seq(Requests) /\ Len(handled') = Len(asked) /\ handled'[Len(handled')] = m
    BY <2>1, <2>2 DEF FramesInv, Counts
  <2>4. Counts'
    BY <2>1, <2>2, <2>3, Zenon DEF FramesInv, Counts
  <2>5. out'["server"] = Encode(Reply[m]) /\ out'["client"] = out["client"]
        /\ phase'["server"] = "writing" /\ phase'["client"] = phase["client"]
        /\ DOMAIN out' = Ends /\ DOMAIN phase' = Ends
    BY <1>1, <2>1, Zenon DEF FramesInv, PerEnd
  <2>6. PerEnd'
    BY <1>3, <2>5, Zenon DEF FramesInv, PerEnd
  <2>7. ~(Len(handled') < Len(asked')) /\ Len(got') < Len(handled')
    BY <2>1, <2>2, <2>3
  <2>8. ToServer'
    BY <1>7, <2>5, <2>7, Zenon DEF ToServer, Link
  <2>9. /\ Link(Reply[m], Len(got') < Len(handled'), frame["client"], buf["client"],
                stream["client"], Encode(Reply[m]), up)
        /\ Encode(Reply[m]) # << >>
    <3>1. ~(Len(got) < Len(handled))
      BY <2>2
    <3>2. Link(Reply[handled[Len(handled)]], FALSE, frame["client"], buf["client"],
               stream["client"], out["server"], up)
      BY <3>1, Zenon DEF FramesInv, ToClient, Link
    <3>3. Reply[m] \in Message /\ Len(Reply[m].body) <= MaxFrameBody
      BY <2>2, MessagesFit, Zenon
    <3> QED
      BY <2>7, <3>2, <3>3, LinkStart, Zenon
  <2>10. ToClient'
    BY <1>3, <1>4, <2>3, <2>5, <2>9, Zenon DEF ToClient
  <2>11. Phases'
    BY <1>7, <2>1, <2>5, <2>9, Zenon DEF FramesInv, Phases, Ends
  <2>12. Handle
    <3>1. asked[Len(handled) + 1] = m
      BY <2>2, Zenon
    <3> QED
      BY <1>3, <2>1, <3>1, Zenon DEF Handle
  <2> QED
    BY <1>5, <2>4, <2>6, <2>8, <2>10, <2>11, <2>12, Zenon DEF FramesInv
<1> QED
  BY <1>3, <1>6, <1>7, Zenon

\* The client reads: the call may return.
LEMMA ClientReads ==
  ASSUME FramesInv, Reads("client")
  PROVE  FramesInv' /\ (Return \/ UNCHANGED exchangeVars)
<1> DEFINE m == Reply[handled[Len(handled)]]
           due == Len(got) < Len(handled)
<1>1. "server" \in Ends /\ "client" \in Ends /\ Peer("client") = "server"
  BY Peers, Zenon DEF Ends
<1>2. Link(m, due, frame["client"], buf["client"], stream["client"], out["server"], up)
  BY Zenon DEF FramesInv, ToClient
<1>3. /\ due /\ phase["client"] = "reading" /\ UNCHANGED <<up, rejected>>
      /\ DOMAIN stream' = Ends /\ DOMAIN buf' = Ends /\ DOMAIN frame' = Ends
      /\ \A f \in Ends : f # "client" => /\ stream'[f] = stream[f] /\ buf'[f] = buf[f]
                                         /\ frame'[f] = frame[f]
      /\ \/ /\ Link(m, due, frame'["client"], buf'["client"], stream'["client"],
                    out["server"], up)
            /\ UNCHANGED <<out, phase, exchangeVars>>
         \/ /\ frame'["client"] = << >> /\ buf'["client"] = << >>
            /\ stream'["client"] = << >> /\ out["server"] = << >>
            /\ Arrives("client", m)
  BY <1>1, <1>2, ReadFacts, Zenon
<1>4. /\ stream'["server"] = stream["server"] /\ buf'["server"] = buf["server"]
      /\ frame'["server"] = frame["server"]
  BY <1>1, <1>3, Zenon
<1>5. NothingRefused'
  BY <1>3, Zenon DEF FramesInv, NothingRefused
<1>6. CASE /\ Link(m, due, frame'["client"], buf'["client"], stream'["client"],
                   out["server"], up)
           /\ UNCHANGED <<out, phase, exchangeVars>>
  <2>1. UNCHANGED <<asked, handled, got, out, phase>>
    BY <1>6, Zenon DEF exchangeVars
  <2>2. Counts' /\ PerEnd' /\ Phases'
    BY <1>3, <2>1, Zenon DEF FramesInv, Counts, PerEnd, Phases
  <2>3. ToServer' /\ ToClient'
    BY <1>3, <1>4, <1>6, <2>1, Zenon DEF FramesInv, ToServer, ToClient
  <2> QED
    BY <1>5, <1>6, <2>2, <2>3, Zenon DEF FramesInv
<1>7. CASE /\ frame'["client"] = << >> /\ buf'["client"] = << >>
           /\ stream'["client"] = << >> /\ out["server"] = << >>
           /\ Arrives("client", m)
  <2>1. /\ got' = Append(got, m) /\ phase' = [phase EXCEPT !["client"] = "idle"]
        /\ UNCHANGED <<out, asked, handled>>
    BY <1>7, Zenon DEF Arrives
  <2>2. /\ Len(got) + 1 = Len(handled) /\ Len(handled) = Len(asked) /\ Len(got) \in Nat
        /\ handled[Len(handled)] \in Requests
    BY <1>3 DEF FramesInv, Counts
  <2>3. m \in Message
    BY <2>2, MessagesFit, Zenon
  <2>4. got' \in Seq(Message) /\ Len(got') = Len(handled)
    BY <2>1, <2>2, <2>3 DEF FramesInv, Counts
  <2>5. Counts'
    BY <2>1, <2>2, <2>4 DEF FramesInv, Counts
  <2>6. /\ phase'["client"] = "idle" /\ phase'["server"] = phase["server"]
        /\ DOMAIN phase' = Ends
    BY <1>1, <2>1, Zenon DEF FramesInv, PerEnd
  <2>7. PerEnd'
    BY <1>3, <2>1, <2>6, Zenon DEF FramesInv, PerEnd
  <2>8. ToServer'
    BY <1>3, <1>4, <2>1, Zenon DEF FramesInv, ToServer
  <2>9. ToClient'
    <3>1. ~(Len(got') < Len(handled'))
      BY <2>1, <2>2, <2>4
    <3> QED
      BY <1>7, <2>1, <3>1, Zenon DEF ToClient, Link
  <2>10. Phases'
    BY <1>3, <2>1, <2>2, <2>4, <2>6, Zenon DEF FramesInv, Phases, Ends
  <2>11. Return
    <3>1. m = Reply[handled[Len(got) + 1]]
      BY <2>2, Zenon
    <3> QED
      BY <1>3, <2>1, <3>1, Zenon DEF Return
  <2> QED
    BY <1>5, <2>5, <2>7, <2>8, <2>9, <2>10, <2>11, Zenon DEF FramesInv
<1> QED
  BY <1>3, <1>6, <1>7, Zenon

\* Every step keeps the invariant and is one of the exchange or changes nothing of it.
LEMMA FramesStep ==
  FramesInv /\ [FramesNext]_vars => FramesInv' /\ [ExchangeNext]_exchangeVars
<1> SUFFICES ASSUME FramesInv, [FramesNext]_vars
             PROVE  FramesInv' /\ [ExchangeNext]_exchangeVars
  OBVIOUS
<1>1. CASE Call
  BY <1>1, CallStep, Zenon DEF ExchangeNext
<1>2. CASE Drop
  BY <1>2, DropStep, Zenon
<1>3. ASSUME NEW e \in Ends, EndStep(e)
      PROVE  FramesInv' /\ [ExchangeNext]_exchangeVars
  <2>1. CASE Writes(e)
    BY <2>1, WriteStep, Zenon
  <2>2. CASE WriteFails(e)
    BY <2>2, WriteFailsStep, Zenon
  <2>3. CASE ReadFails(e)
    BY <2>3, ReadFailsStep, Zenon
  <2>4. CASE Reads(e)
    BY <2>4, ServerReads, ClientReads, Zenon DEF Ends, ExchangeNext
  <2> QED
    BY <1>3, <2>1, <2>2, <2>3, <2>4, Zenon DEF EndStep
<1>4. CASE UNCHANGED vars
  BY <1>4, Zenon DEF vars, frameVars, exchangeVars, FramesInv, Counts, ToServer, ToClient, PerEnd,
     Phases, NothingRefused
<1> QED
  BY <1>1, <1>2, <1>3, <1>4, Zenon DEF FramesNext

\* Neither end ever refuses a frame, whatever the requests, the replies and the sizes of
\* the pieces in which they travel: recv_frame finds its place again after every partial
\* read.
THEOREM FramesNeverRefused == FramesSpec => []NothingRefused
<1>1. FramesInv => NothingRefused
  BY Zenon DEF FramesInv
<1> QED
  BY FramesStart, FramesStep, <1>1, PTL DEF FramesSpec

\* The bytes implement the calls: every request is handled whole, once and in order, and
\* every reply that arrives is the one to the call that waits for it.
THEOREM FramesImplementCalls == FramesSpec => ImplementsExchange
<1>1. FramesInit => ExchangeInit
  BY Zenon DEF FramesInit
<1> QED
  BY <1>1, FramesStart, FramesStep, PTL DEF FramesSpec, ImplementsExchange, ExchangeSpec
=============================================================================
