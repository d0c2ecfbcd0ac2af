--------------------------- MODULE Daemon_proofs ----------------------------
(***************************************************************************)
(* Proofs about the parts of the daemon that share nothing but its process *)
(* - the install registry of a server, the client of the Docker engine,    *)
(* the cache of the image list, the consoles -, each for any number of the *)
(* installs, callers, requests or sessions that use it.                    *)
(***************************************************************************)
EXTENDS ServerInstall, DockerClient, ImageCache, Console, FiniteSetTheorems, TLAPS

-----------------------------------------------------------------------------
(* The install registry.                                                   *)

\* Only an install on its way makes a container, and a closed channel belongs
\* to an install that is over: so a delete that waited for it is final for it.
WaitInv ==
  /\ \A i \in closed : i \in Install /\ ipc[i] = "done"
  /\ \A d \in Delete :
       dpc[d] \in {"removeAgain", "done"} /\ waitsFor[d] # None => waitsFor[d] \in closed
  /\ WaitedInstallLeavesNoContainer

LEMMA InstallTypeInit == Init => TypeOK
  BY NoneAssumption DEF Init, TypeOK, InstallPc, DeletePc, MaybeInstall

LEMMA InstallTypeStep == TypeOK /\ [Next]_vars => TypeOK'
<1> SUFFICES ASSUME TypeOK, [Next]_vars PROVE TypeOK'
  OBVIOUS
<1> USE NoneAssumption DEF TypeOK, InstallPc, DeletePc, MaybeInstall, registry, host,
        deletes, history, InstallGoto, DeleteGoto, RemoveContainer, Removed, NotRemoved
<1>1. ASSUME NEW i \in Install, Accept(i) PROVE TypeOK'
  BY <1>1 DEF Accept
<1>2. ASSUME NEW i \in Install, CreateAndStartServer(i) PROVE TypeOK'
  <2>1. CASE RegisterInstall(i) BY <2>1 DEF RegisterInstall
  <2>2. CASE PullImage(i) \/ PullFails(i) BY <2>2 DEF PullImage, PullFails
  <2>3. CASE PrepareRoot(i) BY <2>3 DEF PrepareRoot
  <2>4. CASE RemoveOld(i) \/ CleanUp(i) BY <2>4 DEF RemoveOld, CleanUp
  <2>5. CASE CreateContainer(i) BY <2>5 DEF CreateContainer
  <2>6. CASE CreateFails(i) \/ StartFails(i) BY <2>6 DEF CreateFails, StartFails
  <2>7. CASE StartContainer(i) BY <2>7 DEF StartContainer
  <2>8. CASE Unregister(i) BY <2>8 DEF Unregister
  <2>9. CASE CloseChannel(i) BY <2>9 DEF CloseChannel
  <2>q. QED
    BY <1>2, <2>1, <2>2, <2>3, <2>4, <2>5, <2>6, <2>7, <2>8, <2>9
    DEF CreateAndStartServer
<1>3. ASSUME NEW d \in Delete, BeginDelete(d) \/ DeleteServer(d) PROVE TypeOK'
  <2>1. CASE BeginDelete(d) BY <2>1 DEF BeginDelete
  <2>2. CASE RemoveFirst(d) \/ RemoveAgain(d) BY <2>2 DEF RemoveFirst, RemoveAgain
  <2>3. CASE RemoveVolume(d) BY <2>3 DEF RemoveVolume
  <2>4. CASE RemoveRoot(d) BY <2>4 DEF RemoveRoot
  <2>5. CASE LookUp(d) BY <2>5 DEF LookUp
  <2>6. CASE WaitDone(d) \/ WaitTimesOut(d) BY <2>6 DEF WaitDone, WaitTimesOut
  <2>q. QED
    BY <1>3, <2>1, <2>2, <2>3, <2>4, <2>5, <2>6 DEF DeleteServer
<1>4. CASE Restart BY <1>4 DEF Restart
<1>5. CASE ContainerExits BY <1>5 DEF ContainerExits
<1>6. CASE Quiet \/ UNCHANGED vars BY <1>6 DEF Quiet, vars
<1>q. QED BY <1>1, <1>2, <1>3, <1>4, <1>5, <1>6 DEF Next

\* The state keeps its types, and only a container that is there runs.
THEOREM InstallTypes == Spec => []TypeOK
BY InstallTypeInit, InstallTypeStep, PTL DEF Spec

-----------------------------------------------------------------------------

\* The registry names the newest install from its registerInstall to its finish,
\* for any number of installs that overlap it.
THEOREM RegistryNeverStale == Spec => []RegistryNamesNewestInstall
<1>1. Init => RegistryNamesNewestInstall
  BY DEF Init, RegistryNamesNewestInstall
<1>2. TypeOK /\ RegistryNamesNewestInstall /\ [Next]_vars => RegistryNamesNewestInstall'
  <2> SUFFICES ASSUME TypeOK, RegistryNamesNewestInstall, [Next]_vars
               PROVE  RegistryNamesNewestInstall'
    OBVIOUS
  <2> USE NoneAssumption DEF TypeOK, RegistryNamesNewestInstall, MaybeInstall, AtWork,
          registry, host, deletes, history, InstallGoto, DeleteGoto
  <2>1. ASSUME NEW i \in Install, Accept(i) PROVE RegistryNamesNewestInstall'
    BY <2>1 DEF Accept
  <2>2. ASSUME NEW i \in Install, CreateAndStartServer(i)
        PROVE  RegistryNamesNewestInstall'
    <3>1. CASE RegisterInstall(i) BY <3>1 DEF RegisterInstall
    <3>2. CASE PullImage(i) \/ PullFails(i) BY <3>2 DEF PullImage, PullFails
    <3>3. CASE PrepareRoot(i) BY <3>3 DEF PrepareRoot
    <3>4. CASE RemoveOld(i) \/ CleanUp(i) BY <3>4 DEF RemoveOld, CleanUp
    <3>5. CASE CreateContainer(i) BY <3>5 DEF CreateContainer
    <3>6. CASE CreateFails(i) \/ StartFails(i) BY <3>6 DEF CreateFails, StartFails
    <3>7. CASE StartContainer(i) BY <3>7 DEF StartContainer
    <3>8. CASE Unregister(i)
      \* The entry is the newest install's: i's own, or one that i leaves alone.
      BY <3>8 DEF Unregister
    <3>9. CASE CloseChannel(i) BY <3>9 DEF CloseChannel
    <3>q. QED
      BY <2>2, <3>1, <3>2, <3>3, <3>4, <3>5, <3>6, <3>7, <3>8, <3>9
      DEF CreateAndStartServer
  <2>3. ASSUME NEW d \in Delete, BeginDelete(d) \/ DeleteServer(d)
        PROVE  RegistryNamesNewestInstall'
    BY <2>3 DEF DeleteServer, BeginDelete, RemoveFirst, RemoveVolume, RemoveRoot,
                LookUp, WaitDone, WaitTimesOut, RemoveAgain
  <2>4. CASE Restart BY <2>4 DEF Restart
  <2>5. CASE ContainerExits BY <2>5 DEF ContainerExits
  <2>6. CASE Quiet \/ UNCHANGED vars BY <2>6 DEF Quiet, vars
  <2>q. QED BY <2>1, <2>2, <2>3, <2>4, <2>5, <2>6 DEF Next
<1>q. QED BY <1>1, <1>2, InstallTypeInit, InstallTypeStep, PTL DEF Spec

-----------------------------------------------------------------------------

LEMMA WaitInvInit == Init => WaitInv
  BY DEF Init, WaitInv, WaitedInstallLeavesNoContainer

LEMMA WaitInvStep == TypeOK /\ WaitInv /\ [Next]_vars => WaitInv'
<1> SUFFICES ASSUME TypeOK, WaitInv, [Next]_vars PROVE WaitInv'
  OBVIOUS
<1> USE NoneAssumption DEF TypeOK, WaitInv, WaitedInstallLeavesNoContainer, MaybeInstall,
        DeletePc, AtWork, registry, host, deletes, history, InstallGoto, DeleteGoto,
        RemoveContainer, Removed, NotRemoved
<1>1. ASSUME NEW i \in Install, Accept(i) PROVE WaitInv'
  BY <1>1 DEF Accept
<1>2. ASSUME NEW i \in Install, CreateAndStartServer(i) PROVE WaitInv'
  <2>1. CASE RegisterInstall(i) BY <2>1 DEF RegisterInstall
  <2>2. CASE PullImage(i) \/ PullFails(i) BY <2>2 DEF PullImage, PullFails
  <2>3. CASE PrepareRoot(i) BY <2>3 DEF PrepareRoot
  <2>4. CASE RemoveOld(i) \/ CleanUp(i) BY <2>4 DEF RemoveOld, CleanUp
  <2>5. CASE CreateContainer(i)
    \* The container is i's, and i's channel is still open.
    <3>1. i \notin closed
      BY <2>5 DEF CreateContainer
    <3>q. QED BY <2>5, <3>1 DEF CreateContainer
  <2>6. CASE CreateFails(i) \/ StartFails(i) BY <2>6 DEF CreateFails, StartFails
  <2>7. CASE StartContainer(i) BY <2>7 DEF StartContainer
  <2>8. CASE Unregister(i) BY <2>8 DEF Unregister
  <2>9. CASE CloseChannel(i) BY <2>9 DEF CloseChannel
  <2>q. QED
    BY <1>2, <2>1, <2>2, <2>3, <2>4, <2>5, <2>6, <2>7, <2>8, <2>9
    DEF CreateAndStartServer
<1>3. ASSUME NEW d \in Delete, BeginDelete(d) \/ DeleteServer(d) PROVE WaitInv'
  <2>1. CASE BeginDelete(d) BY <2>1 DEF BeginDelete
  <2>2. CASE RemoveFirst(d) BY <2>2 DEF RemoveFirst
  <2>3. CASE RemoveVolume(d) BY <2>3 DEF RemoveVolume
  <2>4. CASE RemoveRoot(d) BY <2>4 DEF RemoveRoot
  <2>5. CASE LookUp(d) BY <2>5 DEF LookUp
  <2>6. CASE WaitDone(d) BY <2>6 DEF WaitDone
  <2>7. CASE WaitTimesOut(d)
    \* From here on d waits for nobody.
    BY <2>7 DEF WaitTimesOut
  <2>8. CASE RemoveAgain(d) BY <2>8 DEF RemoveAgain
  <2>q. QED
    BY <1>3, <2>1, <2>2, <2>3, <2>4, <2>5, <2>6, <2>7, <2>8 DEF DeleteServer
<1>4. CASE Restart BY <1>4 DEF Restart
<1>5. CASE ContainerExits BY <1>5 DEF ContainerExits
<1>6. CASE Quiet \/ UNCHANGED vars BY <1>6 DEF Quiet, vars
<1>q. QED BY <1>1, <1>2, <1>3, <1>4, <1>5, <1>6 DEF Next

\* The install that a delete has waited for to its end leaves no container
\* behind, unless the delete's own last removal failed: neither other installs,
\* nor other deletes, nor a restart of the daemon can bring it back.
THEOREM DeleteIsFinal == Spec => []WaitedInstallLeavesNoContainer
<1>1. WaitInv => WaitedInstallLeavesNoContainer
  BY DEF WaitInv
<1>q. QED
  BY <1>1, InstallTypeInit, InstallTypeStep, WaitInvInit, WaitInvStep, PTL DEF Spec

-----------------------------------------------------------------------------
(* The client of the Docker engine.                                        *)

\* The client that has not been pinged is there only behind the lock.
Hidden == dockerClient = "unverified" <=> holder # Nil

Safe == DockerTypeOK /\ NeverUnverified /\ Hidden

\* Every step keeps the lock's bookkeeping.
LEMMA SafeInductive == Safe /\ [DockerNext]_dockerVars => Safe'
<1> SUFFICES ASSUME Safe, [DockerNext]_dockerVars PROVE Safe'
  OBVIOUS
<1> USE ProcAssumption DEF Safe, DockerTypeOK, NeverUnverified, Hidden, Client,
        Caller, Proc, At, Go, Unlocked, Heedless
<1>1. ASSUME NEW p \in Proc, Call(p) PROVE Safe'
  BY <1>1 DEF Call
<1>2. ASSUME NEW p \in Proc, Read(p) PROVE Safe'
  BY <1>2 DEF Read
<1>3. ASSUME NEW p \in Proc, Connect(p) PROVE Safe'
  BY <1>3 DEF Connect
<1>4. ASSUME NEW p \in Proc, PingFails(p) PROVE Safe'
  BY <1>4 DEF PingFails
<1>5. ASSUME NEW p \in Proc, Verify(p) PROVE Safe'
  BY <1>5 DEF Verify
<1>6. ASSUME NEW p \in Proc, Reread(p) PROVE Safe'
  BY <1>6 DEF Reread
<1>7. ASSUME NEW p \in Proc, Succeed(p) PROVE Safe'
  BY <1>7 DEF Succeed
<1>8. ASSUME NEW p \in Proc, Fail(p) PROVE Safe'
  BY <1>8 DEF Fail
<1>9. ASSUME NEW p \in Proc, VersionError(p) PROVE Safe'
  BY <1>9 DEF VersionError
<1>10. ASSUME NEW p \in Proc, ForceNegotiation(p) PROVE Safe'
  BY <1>10 DEF ForceNegotiation
<1>11. ASSUME NEW p \in Proc, Panic(p) PROVE Safe'
  <2>1. CASE p \in Handler
    BY <1>11, <2>1 DEF Panic
  <2>2. CASE p \notin Handler
    BY <1>11, <2>2 DEF Panic
  <2>3. QED
    BY <2>1, <2>2
<1>12. CASE UNCHANGED dockerVars
  BY <1>12 DEF dockerVars
<1>13. QED
  BY <1>1, <1>2, <1>3, <1>4, <1>5, <1>6, <1>7, <1>8, <1>9, <1>10, <1>11, <1>12
     DEF DockerNext, GetDockerClient, DockerCall, Dead

\* The values of the variables, the lock's holder among them.
THEOREM DockerTypes == DockerSpec => []DockerTypeOK
<1>1. DockerInit => Safe
  BY ProcAssumption DEF DockerInit, Safe, DockerTypeOK, NeverUnverified, Hidden,
     Client, Caller, Proc, At
<1>2. QED
  BY <1>1, SafeInductive, PTL DEF DockerSpec, Safe

\* No caller ever works with a client that has neither been pinged nor forced.
THEOREM OnlyVerifiedClients == DockerSpec => []NeverUnverified
<1>1. DockerInit => Safe
  BY ProcAssumption DEF DockerInit, Safe, DockerTypeOK, NeverUnverified, Hidden,
     Client, Caller, Proc, At
<1>2. QED
  BY <1>1, SafeInductive, PTL DEF DockerSpec, Safe

-----------------------------------------------------------------------------
(* A daemon that has connected before the first call.                      *)

\* If no call came early: until Boot has connected nobody else does anything;
\* from then on there is a client, nobody connects, and who calls has one.
Connected ==
  ~early =>
  IF callerPc[Boot] = "done"
    THEN /\ dockerClient \in Client \ {"unverified"}
         /\ \A p \in Caller : callerPc[p] \in {"idle", "get", "call", "force"}
         /\ \A p \in Caller :
              callerPc[p] = "call" \/ (callerPc[p] = "force" /\ stage[p] = "repull") => cli[p] # Nil
    ELSE /\ callerPc[Boot] \in {"init", "ping"}
         /\ \A p \in Caller : callerPc[p] = "idle"

WarmInv == Safe /\ Connected

LEMMA WarmInductive == WarmInv /\ [DockerNext]_dockerVars => WarmInv'
<1> SUFFICES ASSUME WarmInv, [DockerNext]_dockerVars PROVE Connected'
  BY SafeInductive DEF WarmInv
<1> USE ProcAssumption DEF WarmInv, Safe, DockerTypeOK, Hidden, Connected, Client,
        Caller, Proc, At, Go, Unlocked, Heedless
<1>1. ASSUME NEW p \in Proc, Call(p) PROVE Connected'
  BY <1>1 DEF Call
<1>2. ASSUME NEW p \in Proc, Read(p) PROVE Connected'
  BY <1>2 DEF Read
<1>3. ASSUME NEW p \in Proc, Connect(p) PROVE Connected'
  BY <1>3 DEF Connect
<1>4. ASSUME NEW p \in Proc, PingFails(p) PROVE Connected'
  BY <1>4 DEF PingFails
<1>5. ASSUME NEW p \in Proc, Verify(p) PROVE Connected'
  BY <1>5 DEF Verify
<1>6. ASSUME NEW p \in Proc, Reread(p) PROVE Connected'
  BY <1>6 DEF Reread
<1>7. ASSUME NEW p \in Proc, Succeed(p) PROVE Connected'
  BY <1>7 DEF Succeed
<1>8. ASSUME NEW p \in Proc, Fail(p) PROVE Connected'
  BY <1>8 DEF Fail
<1>9. ASSUME NEW p \in Proc, VersionError(p) PROVE Connected'
  BY <1>9 DEF VersionError
<1>10. ASSUME NEW p \in Proc, ForceNegotiation(p) PROVE Connected'
  BY <1>10 DEF ForceNegotiation
<1>11. ASSUME NEW p \in Proc, Panic(p) PROVE Connected'
  BY <1>11 DEF Panic
<1>12. CASE UNCHANGED dockerVars
  BY <1>12 DEF dockerVars
<1>13. QED
  BY <1>1, <1>2, <1>3, <1>4, <1>5, <1>6, <1>7, <1>8, <1>9, <1>10, <1>11, <1>12
     DEF DockerNext, GetDockerClient, DockerCall, Dead

LEMMA WarmInit == DockerInit => WarmInv
  BY ProcAssumption DEF DockerInit, WarmInv, Safe, DockerTypeOK, NeverUnverified,
     Hidden, Connected, Client, Caller, Proc, At

\* No installer calls the engine through a nil client, ignored errors or not,
\* if the daemon had connected before the first call.
THEOREM InstallersHaveAClient == DockerSpec => []DaemonLives
<1>1. WarmInv => DaemonLives
  BY ProcAssumption DEF WarmInv, Connected, DaemonLives, Caller, At
<1>2. WarmInv /\ [DockerNext]_dockerVars => WarmInv'
  BY WarmInductive
<1>3. QED
  BY <1>1, <1>2, WarmInit, PTL DEF DockerSpec

-----------------------------------------------------------------------------
(* The cache of the image list.                                            *)

Pilot == {"client", "list", "set", "finish", "deferred"}

ChannelInv ==
  /\ inflight => done \in Request \ closedChans /\ pc[done] \in Pilot
  /\ \A r \in closedChans : pc[r] \in Pilot \cup {"done"}
  /\ \A r \in Request :
       pc[r] = "wait" => waitingOn[r] \in closedChans \/ (inflight /\ waitingOn[r] = done)

-----------------------------------------------------------------------------

\* TypeOK alone is not inductive: that a closed channel is never nil rests on
\* ChannelInv, so the two are proved together.
LEMMA CacheTypeInit == CacheInit => CacheTypeOK
<1> SUFFICES ASSUME CacheInit PROVE CacheTypeOK
  OBVIOUS
<1> USE DEF CacheInit, Data, Chan, RequestPc
<1>1. data \in Data /\ fresh \in BOOLEAN
  OBVIOUS
<1>2. inflight \in BOOLEAN /\ done \in Chan /\ closedChans \in SUBSET Request
  OBVIOUS
<1>3. /\ images \in Nat
      /\ invalidated \in Nat /\ asked \in [Request -> Nat] /\ overtaken \subseteq Request
      /\ pc \in [Request -> RequestPc]
      /\ waitingOn \in [Request -> Chan]
      /\ listed \in [Request -> Data]
      /\ reply \in [Request -> Data]
      /\ changerPc \in [Changer -> {"idle", "changed", "done"}]
  OBVIOUS
<1>q. QED BY <1>1, <1>2, <1>3 DEF CacheTypeOK

\* finishRefresh keeps the types of what it touches.
LEMMA ReleaseFlightTypes ==
  ASSUME CacheTypeOK, ChannelInv, ReleaseFlight
  PROVE  /\ data' \in Data /\ fresh' \in BOOLEAN /\ inflight' \in BOOLEAN
         /\ done' \in Chan /\ closedChans' \in SUBSET Request
         /\ inflight' => done' # NoChan
<1>1. fresh' \in BOOLEAN /\ inflight' \in BOOLEAN /\ (inflight' => done' # NoChan)
  BY DEF CacheTypeOK, ReleaseFlight
<1>2. data' \in Data /\ done' \in Chan
  BY DEF CacheTypeOK, ReleaseFlight
<1>3. closedChans' \in SUBSET Request
  BY DEF CacheTypeOK, ReleaseFlight, ChannelInv
<1>q. QED BY <1>1, <1>2, <1>3

LEMMA CacheTypeStep == CacheTypeOK /\ ChannelInv /\ [CacheNext]_cacheVars => CacheTypeOK'
<1> SUFFICES ASSUME CacheTypeOK, ChannelInv, [CacheNext]_cacheVars PROVE CacheTypeOK'
  OBVIOUS
<1> USE DEF CacheTypeOK, Data, Chan, RequestPc, Goto, cache, requests, cacheHistory
<1>1. ASSUME NEW r \in Request, HandleSystemImages(r) PROVE CacheTypeOK'
  <2>2. CASE Get(r) BY <2>2 DEF Get, GetOr
  <2>3. CASE BeginRefresh(r)
    <3>1. fresh' \in BOOLEAN /\ inflight' \in BOOLEAN
      BY <2>3 DEF BeginRefresh, BeginRefreshWith
    <3>2. done' \in Chan /\ pc' \in [Request -> RequestPc]
      BY <2>3 DEF BeginRefresh, BeginRefreshWith
    <3>3. waitingOn' \in [Request -> Chan]
      BY <2>3 DEF BeginRefresh, BeginRefreshWith
    <3>4. inflight' => done' # NoChan
      BY <2>3, NilAssumption DEF BeginRefresh, BeginRefreshWith
    <3>q. QED BY <2>3, <3>1, <3>2, <3>3, <3>4 DEF BeginRefresh, BeginRefreshWith
  <2>4. CASE Receive(r) BY <2>4 DEF Receive
  <2>5. CASE Reget(r) BY <2>5 DEF Reget, GetOr
  <2>6. CASE NoClient(r) BY <2>6 DEF NoClient
  <2>7. CASE HaveClient(r) BY <2>7 DEF HaveClient
  <2>8. CASE ListFails(r) BY <2>8 DEF ListFails
  <2>9. CASE ListImages(r) BY <2>9 DEF ListImages
  <2>10. CASE Set(r) BY <2>10 DEF Set
  <2>11. CASE FinishRefresh(r)
    <3>1. ReleaseFlight
      BY <2>11 DEF FinishRefresh
    <3>q. QED BY <2>11, <3>1, ReleaseFlightTypes DEF FinishRefresh
  <2>12. CASE DeferredFinish(r)
    <3>1. ReleaseFlight
      BY <2>12 DEF DeferredFinish
    <3>q. QED BY <2>12, <3>1, ReleaseFlightTypes DEF DeferredFinish
  <2>q. QED
    BY <1>1, <2>2, <2>3, <2>4, <2>5, <2>6, <2>7, <2>8, <2>9, <2>10,
       <2>11, <2>12
    DEF HandleSystemImages
<1>2. ASSUME NEW c \in Changer, Change(c) PROVE CacheTypeOK'
  <2>1. CASE ChangeImages(c) BY <2>1 DEF ChangeImages
  <2>2. CASE ChangeFails(c) BY <2>2 DEF ChangeFails
  <2>3. CASE Invalidate(c)
    <3>1. fresh' \in BOOLEAN /\ inflight' \in BOOLEAN
      BY <2>3 DEF Invalidate, Invalidated
    <3>q. QED BY <2>3, <3>1 DEF Invalidate, Invalidated
  <2>q. QED BY <1>2, <2>1, <2>2, <2>3 DEF Change
<1>3. CASE Expire BY <1>3 DEF Expire
<1>4. CASE CacheQuiet BY <1>4 DEF CacheQuiet, cacheVars
<1>5. CASE UNCHANGED cacheVars BY <1>5 DEF cacheVars
<1>q. QED BY <1>1, <1>2, <1>3, <1>4, <1>5 DEF CacheNext

LEMMA ChannelInvInit == CacheInit => ChannelInv
  BY DEF CacheInit, ChannelInv

LEMMA ChannelInvStep == CacheTypeOK /\ ChannelInv /\ [CacheNext]_cacheVars => ChannelInv'
<1> SUFFICES ASSUME CacheTypeOK, ChannelInv, [CacheNext]_cacheVars PROVE ChannelInv'
  OBVIOUS
<1> USE DEF CacheTypeOK, ChannelInv, Pilot, Chan, RequestPc, Goto, cache, requests, cacheHistory
<1>1. ASSUME NEW r \in Request, HandleSystemImages(r) PROVE ChannelInv'
  <2>2. CASE Get(r)
    <3>1. PICK to \in {"begin", "done"} : pc[r] = "get" /\ pc' = [pc EXCEPT ![r] = to]
      BY <2>2 DEF Get, GetOr
    <3>2. UNCHANGED <<inflight, done, closedChans, waitingOn>>
      BY <2>2 DEF Get, GetOr
    <3>q. QED BY <3>1, <3>2
  <2>3. CASE BeginRefresh(r)
    \* r has owned no channel yet, so its new one is open.
    <3>1. r \notin closedChans /\ UNCHANGED closedChans
      BY <2>3 DEF BeginRefresh, BeginRefreshWith
    <3>2. CASE Hit
      <4>1. UNCHANGED <<inflight, done, waitingOn>> /\ pc' = [pc EXCEPT ![r] = "reget"]
        BY <2>3, <3>2 DEF BeginRefresh, BeginRefreshWith
      <4>q. QED BY <2>3, <3>1, <4>1 DEF BeginRefresh, BeginRefreshWith
    <3>3. CASE ~Hit /\ inflight
      <4>1. /\ UNCHANGED <<inflight, done>>
            /\ pc[r] = "begin" /\ pc' = [pc EXCEPT ![r] = "wait"]
            /\ waitingOn' = [waitingOn EXCEPT ![r] = done]
        BY <2>3, <3>3 DEF BeginRefresh, BeginRefreshWith
      <4>q. QED BY <3>1, <3>3, <4>1
    <3>4. CASE ~Hit /\ ~inflight
      <4>1. /\ inflight' = TRUE /\ done' = r /\ UNCHANGED waitingOn
            /\ pc[r] = "begin" /\ pc' = [pc EXCEPT ![r] = "client"]
        BY <2>3, <3>4 DEF BeginRefresh, BeginRefreshWith
      <4>q. QED BY <3>1, <3>4, <4>1
    <3>q. QED BY <3>2, <3>3, <3>4
  <2>4. CASE Receive(r) BY <2>4 DEF Receive
  <2>5. CASE Reget(r)
    <3>1. PICK to \in {"begin", "done"} : pc[r] = "reget" /\ pc' = [pc EXCEPT ![r] = to]
      BY <2>5 DEF Reget, GetOr
    <3>2. UNCHANGED <<inflight, done, closedChans, waitingOn>>
      BY <2>5 DEF Reget, GetOr
    <3>q. QED BY <3>1, <3>2
  <2>6. CASE NoClient(r) BY <2>6 DEF NoClient
  <2>7. CASE HaveClient(r) BY <2>7 DEF HaveClient
  <2>8. CASE ListFails(r) BY <2>8 DEF ListFails
  <2>9. CASE ListImages(r) BY <2>9 DEF ListImages
  <2>10. CASE Set(r) BY <2>10 DEF Set
  <2>11. CASE FinishRefresh(r) BY <2>11 DEF FinishRefresh, ReleaseFlight
  <2>12. CASE DeferredFinish(r) BY <2>12 DEF DeferredFinish, ReleaseFlight
  <2>q. QED
    BY <1>1, <2>2, <2>3, <2>4, <2>5, <2>6, <2>7, <2>8, <2>9, <2>10,
       <2>11, <2>12
    DEF HandleSystemImages
<1>2. ASSUME NEW c \in Changer, Change(c) PROVE ChannelInv'
  BY <1>2 DEF Change, ChangeImages, ChangeFails, Invalidate, Invalidated
<1>3. CASE Expire BY <1>3 DEF Expire
<1>4. CASE CacheQuiet BY <1>4 DEF CacheQuiet, cacheVars
<1>5. CASE UNCHANGED cacheVars BY <1>5 DEF cacheVars
<1>q. QED BY <1>1, <1>2, <1>3, <1>4, <1>5 DEF CacheNext

\* The channel bookkeeping is an invariant of every run.
THEOREM ChannelsTracked == CacheSpec => [](CacheTypeOK /\ ChannelInv)
  BY CacheTypeInit, CacheTypeStep, ChannelInvInit, ChannelInvStep, PTL DEF CacheSpec

\* The variables keep their types: an answer is an image list or nothing, and
\* only channels that some request made are ever closed.
THEOREM CacheTypes == CacheSpec => []CacheTypeOK
  BY ChannelsTracked, PTL

\* Although every fetch calls finishRefresh twice, and the second call may end
\* another request's flight, close() only ever meets an open channel.
THEOREM CloseNeverPanics == CacheSpec => []NoDoubleClose
<1>1. ChannelInv => NoDoubleClose
  BY DEF ChannelInv, NoDoubleClose
<1>q. QED BY <1>1, ChannelsTracked, PTL

\* A request that waits for another's fetch waits on a channel that is closed
\* or that a request still at work closes with the next finishRefresh.
THEOREM WaitersNeverStranded == CacheSpec => []NoLostWaiter
<1>1. ChannelInv => NoLostWaiter
  BY DEF ChannelInv, NoLostWaiter, Pilots, Pilot
<1>q. QED BY <1>1, ChannelsTracked, PTL

\* What is in the cache, or on its way there, is at least as new as the latest
\* invalidate, or is the list of a fetch that an invalidate overtook; and a list
\* is never older than the invalidates before its request.
FillInv ==
  /\ invalidated <= images /\ \A r \in Request : asked[r] <= invalidated
  /\ data # NoData => data >= invalidated \/ \E q \in overtaken : data = listed[q]
  /\ \A r \in Request :
       /\ pc[r] = "get" => reply[r] = NoData
       /\ pc[r] \in {"set", "finish"} => listed[r] \in Nat /\ listed[r] >= asked[r]
       /\ pc[r] = "set" => listed[r] >= invalidated \/ r \in overtaken
  /\ \A q \in overtaken : pc[q] \in {"set", "finish", "deferred", "done"}
  /\ StaleOnlyByRacedFill

LEMMA FillInvInit == CacheInit => FillInv
  BY DEF CacheInit, FillInv, StaleOnlyByRacedFill

LEMMA FillInvStep == CacheTypeOK /\ FillInv /\ [CacheNext]_cacheVars => FillInv'
<1> SUFFICES ASSUME CacheTypeOK, FillInv, [CacheNext]_cacheVars PROVE FillInv'
  OBVIOUS
<1> USE NilAssumption DEF CacheTypeOK, FillInv, StaleOnlyByRacedFill, Data, RequestPc,
        Goto, cache, requests, cacheHistory
<1>1. ASSUME NEW r \in Request, Get(r) \/ Reget(r) PROVE FillInv'
  \* A hit is new enough, or came from a request that has long been on its way.
  <2>1. UNCHANGED <<data, images, listed, invalidated, overtaken>>
    BY <1>1 DEF Get, Reget, GetOr
  <2>2. PICK to \in {"begin", "done"} :
          pc[r] \in {"get", "reget"} /\ pc' = [pc EXCEPT ![r] = to]
    BY <1>1 DEF Get, Reget, GetOr
  <2>3. \/ asked' = [asked EXCEPT ![r] = invalidated] /\ pc[r] = "get"
        \/ asked' = asked
    BY <1>1 DEF Get, Reget, GetOr
  <2>4. reply' = reply \/ (data # NoData /\ reply' = [reply EXCEPT ![r] = data])
    BY <1>1 DEF Get, Reget, GetOr, Hit
  <2>5. reply' # reply => pc'[r] = "done"
    BY <1>1 DEF Get, Reget, GetOr
  <2>6. r \notin overtaken
    BY <2>2
  <2>7. \A q \in Request : pc'[q] = "get" => reply'[q] = NoData
    BY <2>2, <2>4
  <2>8. StaleOnlyByRacedFill'
    <3> SUFFICES ASSUME NEW q \in Request, reply'[q] # NoData, reply'[q] < asked'[q]
                 PROVE  \E p \in overtaken \ {q} : reply'[q] = listed[p]
      BY <2>1
    <3>1. CASE q # r
      BY <3>1, <2>3, <2>4
    <3>2. CASE q = r /\ reply' = reply
      BY <3>2, <2>3
    <3>3. CASE q = r /\ data # NoData /\ reply' = [reply EXCEPT ![r] = data]
      <4>1. reply'[q] = data /\ asked'[q] <= invalidated /\ asked'[q] \in Nat
        BY <3>3, <2>3
      <4>2. data < invalidated /\ data \in Nat
        BY ONLY <3>3, <4>1, reply'[q] < asked'[q], data \in Data, invalidated \in Nat
        DEF Data
      <4>3. PICK p \in overtaken : data = listed[p]
        BY <3>3, <4>2
      <4> QED BY <3>3, <4>1, <4>3, <2>6
    <3> QED BY <3>1, <3>2, <3>3, <2>4
  <2>9. /\ \A q \in Request : asked'[q] <= invalidated
        /\ \A q \in Request : pc'[q] \in {"set", "finish"} => asked'[q] = asked[q]
    BY <2>2, <2>3
  <2> QED BY <2>1, <2>2, <2>6, <2>7, <2>8, <2>9
<1>2. ASSUME NEW r \in Request, BeginRefresh(r) PROVE FillInv'
  <2>1. UNCHANGED <<data, images, listed, reply, cacheHistory>>
    BY <1>2 DEF BeginRefresh, BeginRefreshWith
  <2>2. PICK to \in {"reget", "wait", "client"} :
          pc[r] = "begin" /\ pc' = [pc EXCEPT ![r] = to]
    BY <1>2 DEF BeginRefresh, BeginRefreshWith
  <2> QED BY <2>1, <2>2
<1>3. ASSUME NEW r \in Request,
             Receive(r) \/ NoClient(r) \/ HaveClient(r) \/ ListFails(r)
      PROVE  FillInv'
  BY <1>3 DEF Receive, NoClient, HaveClient, ListFails
<1>4. ASSUME NEW r \in Request, ListImages(r) PROVE FillInv'
  BY <1>4 DEF ListImages
<1>5. ASSUME NEW r \in Request, Set(r) PROVE FillInv'
  BY <1>5 DEF Set
<1>6. ASSUME NEW r \in Request, FinishRefresh(r) \/ DeferredFinish(r) PROVE FillInv'
  BY <1>6 DEF FinishRefresh, DeferredFinish, ReleaseFlight
<1>7. ASSUME NEW c \in Changer, ChangeImages(c) \/ ChangeFails(c) PROVE FillInv'
  BY <1>7 DEF ChangeImages, ChangeFails
<1>8. ASSUME NEW c \in Changer, Invalidate(c) PROVE FillInv'
  BY <1>8 DEF Invalidate, Invalidated
<1>9. CASE Expire \/ CacheQuiet \/ UNCHANGED cacheVars
  BY <1>9 DEF Expire, CacheQuiet, cacheVars
<1> QED
  BY <1>1, <1>2, <1>3, <1>4, <1>5, <1>6, <1>7, <1>8, <1>9
  DEF CacheNext, HandleSystemImages, Change

\* For any number of requests and changes: what a request that begins after an
\* invalidate gets from before it was listed by another, which had read it
\* before that invalidate ran and stored it after.
THEOREM StaleOnlyByRace == CacheSpec => []StaleOnlyByRacedFill
<1>1. FillInv => StaleOnlyByRacedFill
  BY DEF FillInv
<1> QED
  BY <1>1, ChannelsTracked, FillInvInit, FillInvStep, PTL DEF CacheSpec

-----------------------------------------------------------------------------
(* Consoles.                                                               *)

\* A console takes a connection of the pool in one step only, with its dial,
\* and that one looks at the pool first.
LEMMA HoldingStep ==
  ASSUME panel \in [Session -> {"idle", "dial", "forward", "closing", "done"}],
         [ConsoleNext]_consoleVars
  PROVE  \/ Holding' \subseteq Holding
         \/ /\ Cardinality(Holding) < Pool
            /\ \E s \in Session : Holding' = Holding \cup {s}
<1> USE DEF Holding, Panel
<1>1. ASSUME NEW s \in Session, Dial(s)
      PROVE  /\ Cardinality(Holding) < Pool
             /\ Holding' = Holding \cup {s}
  <2>1. panel[s] = "idle" /\ panel' = [panel EXCEPT ![s] = "dial"]
    BY <1>1 DEF Dial
  <2>2. Holding' = Holding \cup {s}
    BY <2>1
  <2>3. Cardinality(Holding) < Pool
    BY ONLY <1>1 DEF Dial
  <2>4. QED
    BY ONLY <2>2, <2>3
<1>2. ASSUME NEW s \in Session, Refuse(s) \/ Proxy(s)
      PROVE  Holding' \subseteq Holding
  BY <1>2 DEF Refuse, Proxy, Dialed, DialFails,
     ForwardEnds, Finish
<1>3. ASSUME NEW s \in Session,
             \/ HandleConsoleWS(s) \/ CopyOutput(s)
             \/ Leave(s) \/ ShellEnds(s)
      PROVE  panel' = panel
  BY <1>3 DEF HandleConsoleWS, AttachFails, Attach,
     Upgrade, UpgradeFails, ReadMessageFails,
     CloseDone, Release, CopyOutput, Output,
     Send, ReadFails, Select, ReaderCloses,
     Leave, ShellEnds
<1>4. CASE ConsoleQuiet \/ UNCHANGED consoleVars
  BY <1>4 DEF ConsoleQuiet, consoleVars
<1>5. QED
  BY <1>1, <1>2, <1>3, <1>4 DEF ConsoleNext

\* The consoles that hold a connection are finitely many, never more than the pool has.
PoolKept == IsFiniteSet(Holding) /\ Cardinality(Holding) <= Pool

\* Every variable but for the pool.
ConsoleStates ==
  /\ browser \in [Session -> BOOLEAN]
  /\ panel \in [Session -> {"idle", "dial", "forward", "closing", "done"}]
  /\ link \in [Session -> {"none", "dialing", "open", "closed"}]
  /\ main \in [Session -> {"none", "inspect", "upgrade", "serve", "return",
                           "release", "done"}]
  /\ reader \in [Session -> {"none", "read", "send", "select", "close", "done"}]
  /\ doneChan \in [Session -> BOOLEAN]
  /\ attached \in [Session -> BOOLEAN]
  /\ shell \in [Session -> {"none", "running", "ended"}]

LEMMA PoolStep ==
  ASSUME ConsoleStates, PoolKept, [ConsoleNext]_consoleVars
  PROVE  PoolKept'
<1> DEFINE H == Holding
<1>1. Pool \in Nat /\ IsFiniteSet(H) /\ Cardinality(H) <= Pool
  BY PoolAssumption DEF PoolKept
<1>2. Cardinality(H) \in Nat
  BY <1>1, FS_CardinalityType
<1>3. H' \subseteq H \/ (Cardinality(H) < Pool /\ \E s \in Session : H' = H \cup {s})
  BY HoldingStep DEF ConsoleStates, H
<1>0. IsFiniteSet(H') /\ Cardinality(H') <= Pool => PoolKept'
  BY DEF PoolKept
<1> HIDE DEF H
<1>4. CASE H' \subseteq H
  BY <1>0, <1>1, <1>2, <1>4, FS_Subset, FS_CardinalityType
<1>5. ASSUME NEW s \in Session, H' = H \cup {s}, Cardinality(H) < Pool
      PROVE  PoolKept'
  <2>1. /\ IsFiniteSet(H \cup {s})
        /\ Cardinality(H \cup {s}) \in {Cardinality(H), Cardinality(H) + 1}
    BY <1>1, FS_AddElement
  <2>2. Cardinality(H \cup {s}) <= Pool
    BY <1>1, <1>2, <1>5, <2>1
  <2>3. QED
    BY <1>0, <1>5, <2>1, <2>2
<1>6. QED
  BY <1>3, <1>4, <1>5

LEMMA ConsoleStatesStep ==
  ASSUME ConsoleStates, [ConsoleNext]_consoleVars
  PROVE  ConsoleStates'
<1> USE DEF ConsoleStates, Panel, Main, Reader, daemon
<1>1. ASSUME NEW s \in Session, Dial(s) \/ Refuse(s)
      PROVE  ConsoleStates'
  BY <1>1 DEF Dial, Refuse
<1>2. ASSUME NEW s \in Session, Proxy(s) PROVE ConsoleStates'
  BY <1>2 DEF Proxy, Dialed, DialFails,
     ForwardEnds, Finish
<1>3. ASSUME NEW s \in Session, HandleConsoleWS(s) PROVE ConsoleStates'
  <2>1. CASE AttachFails(s) \/ Attach(s)
    BY <2>1 DEF AttachFails, Attach
  <2>2. CASE Upgrade(s)
    BY <2>2 DEF Upgrade
  <2>3. CASE UpgradeFails(s) \/ ReadMessageFails(s)
    BY <2>3 DEF UpgradeFails, ReadMessageFails
  <2>4. CASE CloseDone(s) \/ Release(s)
    BY <2>4 DEF CloseDone, Release
  <2>5. QED
    BY <1>3, <2>1, <2>2, <2>3, <2>4 DEF HandleConsoleWS
<1>4. ASSUME NEW s \in Session, CopyOutput(s) PROVE ConsoleStates'
  <2>1. CASE Output(s) \/ Send(s) \/ ReadFails(s) \/ Select(s)
    BY <2>1 DEF Output, Send, ReadFails, Select
  <2>2. CASE ReaderCloses(s)
    <3>1. CASE doneChan[s] /\ reader[s] = "close" /\ Die
      BY <2>2, <3>1 DEF ReaderCloses, Die
    <3>2. CASE /\ ~doneChan[s] /\ Reader(s, "close", "done")
               /\ doneChan' = [doneChan EXCEPT ![s] = TRUE]
               /\ UNCHANGED <<main, attached, link>>
      BY <2>2, <3>2 DEF ReaderCloses
    <3>3. QED
      BY <2>2, <3>1, <3>2 DEF ReaderCloses
  <2>3. QED
    BY <1>4, <2>1, <2>2 DEF CopyOutput
<1>5. ASSUME NEW s \in Session, Leave(s) \/ ShellEnds(s)
      PROVE  ConsoleStates'
  BY <1>5 DEF Leave, ShellEnds
<1>6. CASE ConsoleQuiet \/ UNCHANGED consoleVars
  BY <1>6 DEF ConsoleQuiet, consoleVars
<1>7. QED
  BY <1>1, <1>2, <1>3, <1>4, <1>5, <1>6 DEF ConsoleNext

\* The states of every console, and: however many consoles are opened, those
\* that hold a database connection are never more than the pool has, so the
\* pool is not asked for one it does not have.
THEOREM ConsolesFitThePool == ConsoleSpec => []ConsoleTypeOK
<1> DEFINE Inv == ConsoleStates /\ PoolKept
<1>1. ConsoleInit => Inv
  <2> SUFFICES ASSUME ConsoleInit PROVE Inv
    OBVIOUS
  <2>1. Holding = {}
    BY DEF ConsoleInit, Holding
  <2>2. PoolKept
    BY <2>1, PoolAssumption, FS_EmptySet DEF PoolKept
  <2>3. QED
    BY <2>2 DEF ConsoleInit, ConsoleStates, PoolKept
<1>2. Inv /\ [ConsoleNext]_consoleVars => Inv'
  BY PoolStep, ConsoleStatesStep DEF ConsoleStates
<1>3. Inv => ConsoleTypeOK
  BY DEF ConsoleStates, PoolKept, ConsoleTypeOK
<1>4. QED
  BY <1>1, <1>2, <1>3, PTL DEF ConsoleSpec

=============================================================================
