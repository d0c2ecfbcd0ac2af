---------------------------- MODULE ServerInstall ---------------------------
(***************************************************************************)
(* The daemon's install registry for one server uuid                       *)
(* (src/daemon/main.go): POST /api/servers answers 202 and leaves          *)
(* createAndStartServer to a goroutine; DELETE /api/servers/{uuid} removes *)
(* the container, the volume and the directory, waits for the install that *)
(* the registry names, and removes the container once more.                *)
(*                                                                         *)
(* An Install is one such goroutine, a Delete one such request.  A         *)
(* registry entry is a channel; it is named by the install that made it.   *)
(* Docker and the file system serialise single calls, so each call is one  *)
(* action.  A container, volume or directory is named by the install that  *)
(* made it.                                                                *)
(***************************************************************************)
EXTENDS FiniteSets

CONSTANTS Install, Delete,
          None,           \* no install, no channel, nothing on the host
          Restarts        \* BOOLEAN: may the daemon process be restarted?

ASSUME NoneAssumption == None \notin Install
ASSUME RestartsAssumption == Restarts \in BOOLEAN

VARIABLES
  installs,    \* installs[uuid]
  closed,      \* the channels that have been closed
  container,   \* the container wings-<uuid>
  running,     \* is it running?
  volume,      \* the named volume wings-<uuid>
  root,        \* the directory ServersDir/<uuid>
  ipc,         \* where each install is
  dpc,         \* where each delete is
  waitsFor,    \* the channel a delete found in the registry, until it gives up
  newest,      \* history: the latest install that this process registered
  refused      \* history: deletes whose last ContainerRemove failed

host == <<container, running, volume, root>>
registry == <<installs, closed>>
deletes == <<dpc, waitsFor>>
history == <<newest, refused>>
vars == <<registry, host, ipc, deletes, history>>

InstallPc == {"idle", "accepted", "pull", "prepare", "remove", "create",
              "start", "cleanup", "unregister", "close", "done", "killed"}
DeletePc == {"idle", "remove", "volume", "root", "lookup", "wait",
             "removeAgain", "done", "killed"}

\* createAndStartServer between registerInstall and the close of its channel.
AtWork == {"pull", "prepare", "remove", "create", "start", "cleanup",
           "unregister", "close"}

MaybeInstall == Install \cup {None}

Init ==
  /\ installs = None /\ closed = {}
  /\ container = None /\ running = FALSE /\ volume = None /\ root = None
  /\ ipc = [i \in Install |-> "idle"]
  /\ dpc = [d \in Delete |-> "idle"]
  /\ waitsFor = [d \in Delete |-> None]
  /\ newest = None /\ refused = {}

-----------------------------------------------------------------------------
(* An install.                                                             *)

InstallGoto(i, from, to) == ipc[i] = from /\ ipc' = [ipc EXCEPT ![i] = to]

\* handleServers: 202, and the goroutine is spawned but has not run yet.
Accept(i) ==
  /\ InstallGoto(i, "idle", "accepted")
  /\ UNCHANGED <<registry, host, deletes, history>>

\* registerInstall: a newer install replaces the channel of an older one.
RegisterInstall(i) ==
  /\ InstallGoto(i, "accepted", "pull")
  /\ installs' = i /\ newest' = i
  /\ UNCHANGED <<closed, host, deletes, refused>>

PullImage(i) ==
  /\ InstallGoto(i, "pull", "prepare")
  /\ UNCHANGED <<registry, host, deletes, history>>

\* Three attempts failed.
PullFails(i) ==
  /\ InstallGoto(i, "pull", "unregister")
  /\ UNCHANGED <<registry, host, deletes, history>>

\* os.MkdirAll(serverRoot), whose error is ignored as well.
PrepareRoot(i) ==
  /\ InstallGoto(i, "prepare", "remove")
  /\ root' \in {root, IF root = None THEN i ELSE root}
  /\ UNCHANGED <<registry, container, running, volume, deletes, history>>

\* cli.ContainerRemove(Force): the volume outlives the container.
Removed == container' = None /\ running' = FALSE /\ UNCHANGED <<volume, root>>

\* Docker refuses or fails, and none of the callers looks at the error.
NotRemoved == container # None /\ UNCHANGED host

RemoveContainer == Removed \/ NotRemoved

RemoveOld(i) ==
  /\ InstallGoto(i, "remove", "create")
  /\ RemoveContainer
  /\ UNCHANGED <<registry, deletes, history>>

\* cli.ContainerCreate: Docker makes the volume of the bind if there is none.
CreateContainer(i) ==
  /\ InstallGoto(i, "create", "start")
  /\ container = None
  /\ container' = i /\ running' = FALSE
  /\ volume' = IF volume = None THEN i ELSE volume
  /\ UNCHANGED <<registry, root, deletes, history>>

\* The name is taken, or Docker refuses the configuration.
CreateFails(i) ==
  /\ InstallGoto(i, "create", "unregister")
  /\ UNCHANGED <<registry, host, deletes, history>>

\* cli.ContainerStart goes by name: it starts whatever container has it.
StartContainer(i) ==
  /\ InstallGoto(i, "start", "unregister")
  /\ container # None
  /\ running' = TRUE
  /\ UNCHANGED <<registry, container, volume, root, deletes, history>>

\* The container is gone, or its ports are taken.
StartFails(i) ==
  /\ InstallGoto(i, "start", "cleanup")
  /\ ~running
  /\ UNCHANGED <<registry, host, deletes, history>>

\* "Don't leak a half-created container"
CleanUp(i) ==
  /\ InstallGoto(i, "cleanup", "unregister")
  /\ RemoveContainer
  /\ UNCHANGED <<registry, deletes, history>>

\* Mutant: the entry is deleted whosever it is.
MutantUnregisterAny(i) ==
  /\ InstallGoto(i, "unregister", "close")
  /\ installs' = None
  /\ UNCHANGED <<closed, host, deletes, history>>

\* finish(), the part under installsMu: a replaced entry is left alone.
Unregister(i) ==
  /\ InstallGoto(i, "unregister", "close")
  /\ installs' = IF installs = i THEN None ELSE installs
  /\ UNCHANGED <<closed, host, deletes, history>>

\* finish(), close(done)
CloseChannel(i) ==
  /\ InstallGoto(i, "close", "done")
  /\ closed' = closed \cup {i}
  /\ UNCHANGED <<installs, host, deletes, history>>

-----------------------------------------------------------------------------
(* A delete.                                                               *)

DeleteGoto(d, from, to) == dpc[d] = from /\ dpc' = [dpc EXCEPT ![d] = to]

BeginDelete(d) ==
  /\ DeleteGoto(d, "idle", "remove")
  /\ UNCHANGED <<registry, host, ipc, waitsFor, history>>

RemoveFirst(d) ==
  /\ DeleteGoto(d, "remove", "volume")
  /\ RemoveContainer
  /\ UNCHANGED <<registry, ipc, waitsFor, history>>

\* cli.VolumeRemove: refused while a container uses the volume, for one.
RemoveVolume(d) ==
  /\ DeleteGoto(d, "volume", "root")
  /\ \/ container = None /\ volume' = None
     \/ UNCHANGED volume
  /\ UNCHANGED <<registry, container, running, root, ipc, waitsFor, history>>

\* os.RemoveAll(serverRoot), which may leave it.
RemoveRoot(d) ==
  /\ DeleteGoto(d, "root", "lookup")
  /\ root' \in {None, root}
  /\ UNCHANGED <<registry, container, running, volume, ipc, waitsFor, history>>

\* Mutant: the delete does not wait for anyone.
MutantNoWait(d) ==
  /\ DeleteGoto(d, "lookup", "removeAgain")
  /\ waitsFor' = [waitsFor EXCEPT ![d] = installs]
  /\ UNCHANGED <<registry, host, ipc, history>>

\* waitInstallDone reads the registry.
LookUp(d) ==
  /\ DeleteGoto(d, "lookup", IF installs = None THEN "removeAgain" ELSE "wait")
  /\ waitsFor' = [waitsFor EXCEPT ![d] = installs]
  /\ UNCHANGED <<registry, host, ipc, history>>

\* <-done
WaitDone(d) ==
  /\ DeleteGoto(d, "wait", "removeAgain")
  /\ waitsFor[d] \in closed
  /\ UNCHANGED <<registry, host, ipc, waitsFor, history>>

\* Mutant: the wait has no timer.
MutantNoTimer(d) == FALSE

\* time.After(30 * time.Second): the pull alone may take longer.
WaitTimesOut(d) ==
  /\ DeleteGoto(d, "wait", "removeAgain")
  /\ waitsFor' = [waitsFor EXCEPT ![d] = None]
  /\ UNCHANGED <<registry, host, ipc, history>>

RemoveAgain(d) ==
  /\ DeleteGoto(d, "removeAgain", "done")
  /\ \/ Removed /\ UNCHANGED refused
     \/ NotRemoved /\ refused' = refused \cup {d}
  /\ UNCHANGED <<registry, ipc, waitsFor, newest>>

-----------------------------------------------------------------------------

\* The daemon process ends and comes back: its goroutines and its registry
\* are gone, what is on the host stays.
Restart ==
  /\ Restarts
  /\ installs' = None /\ newest' = None
  /\ ipc' = [i \in Install |->
               IF ipc[i] \in AtWork \cup {"accepted"} THEN "killed" ELSE ipc[i]]
  /\ dpc' = [d \in Delete |->
               IF dpc[d] \in {"idle", "done"} THEN dpc[d] ELSE "killed"]
  /\ UNCHANGED <<closed, host, waitsFor, refused>>

\* The container's own process ends.
ContainerExits ==
  /\ running
  /\ running' = FALSE
  /\ UNCHANGED <<registry, container, volume, root, ipc, deletes, history>>

CreateAndStartServer(i) ==
  \/ RegisterInstall(i) \/ PullImage(i) \/ PullFails(i) \/ PrepareRoot(i)
  \/ RemoveOld(i) \/ CreateContainer(i) \/ CreateFails(i) \/ StartContainer(i)
  \/ StartFails(i) \/ CleanUp(i) \/ Unregister(i) \/ CloseChannel(i)

\* A delete, once it has begun.
DeleteServer(d) ==
  \/ RemoveFirst(d) \/ RemoveVolume(d) \/ RemoveRoot(d) \/ LookUp(d)
  \/ WaitDone(d) \/ WaitTimesOut(d) \/ RemoveAgain(d)

\* Every install and every delete is over.
Quiet ==
  /\ \A i \in Install : ipc[i] \in {"done", "killed"}
  /\ \A d \in Delete : dpc[d] \in {"done", "killed"}
  /\ UNCHANGED vars

Next ==
  \/ \E i \in Install : Accept(i) \/ CreateAndStartServer(i)
  \/ \E d \in Delete : BeginDelete(d) \/ DeleteServer(d)
  \/ ContainerExits
  \/ Restart
  \/ Quiet

Spec == Init /\ [][Next]_vars

\* Nobody has to send a request; one that has begun is carried on.  An image
\* pull may hang for ever, and with it its install: nothing is asked of them.
FairSpec == Spec /\ \A d \in Delete : WF_vars(DeleteServer(d))

-----------------------------------------------------------------------------
(* Properties.                                                             *)

TypeOK ==
  /\ installs \in MaybeInstall /\ closed \in SUBSET Install
  /\ container \in MaybeInstall /\ running \in BOOLEAN
  /\ running => container # None
  /\ volume \in MaybeInstall /\ root \in MaybeInstall
  /\ ipc \in [Install -> InstallPc] /\ dpc \in [Delete -> DeletePc]
  /\ waitsFor \in [Delete -> MaybeInstall]
  /\ newest \in MaybeInstall /\ refused \subseteq Delete

\* The registry names the newest install from its registration to its release,
\* and nobody afterwards, whichever older installs end meanwhile: neither does
\* an install that is over keep "installing" in GET install-status and deletes
\* waiting, nor does the release of an older one hide the newest from them.
RegistryNamesNewestInstall ==
  installs = IF newest # None /\ ipc[newest] \in AtWork \ {"close"} THEN newest ELSE None

\* The install a delete has waited for to its end leaves no container once the
\* delete has been answered, whatever other installs and deletes did meanwhile,
\* and whichever removals before the delete's last one failed.  If that one
\* fails the delete is answered all the same, and the container stays.
WaitedInstallLeavesNoContainer ==
  \A d \in Delete \ refused :
    dpc[d] = "done" /\ waitsFor[d] # None => container # waitsFor[d]

\* Every delete that was begun is answered (or dies with the daemon).
DeleteAnswered ==
  \A d \in Delete : dpc[d] # "idle" ~> dpc[d] \in {"done", "killed"}

=============================================================================
