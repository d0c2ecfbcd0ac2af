--------------------------- MODULE ServerLifecycle --------------------------
(***************************************************************************)
(* The life of one game server across the panel (src/panel/main.py) and    *)
(* the daemons of its nodes (src/daemon/main.go).                          *)
(*                                                                         *)
(* The panel keeps one row per server.  Its handlers are coroutines of     *)
(* several worker processes: each reads the row into its SQLAlchemy        *)
(* session, awaits a daemon, and writes the row back.  An Op is one such   *)
(* request; every op that installs leaves a poll task behind, and one      *)
(* status-sync task runs for ever.  A handler is cut at its awaits and at  *)
(* its commits; what it does in between is one action.                     *)
(*                                                                         *)
(* A session writes only the columns whose value differs from the one it   *)
(* loaded, and writing a deleted row raises StaleDataError: see Flush.     *)
(*                                                                         *)
(* The daemon is modelled at the grain the panel can observe; its install  *)
(* registry is modelled step by step in ServerInstall.                     *)
(***************************************************************************)
EXTENDS Integers, FiniteSets

CONSTANTS Op,             \* requests
          Node,           \* the daemon hosts
          None,           \* no row, no kind, no install, no snapshot
          Failed,         \* the HTTPException of call_daemon
          Kinds,          \* the kinds of request of this instance
          PollLimit,      \* iterations of the poll task (90 in the code)
          Grace,          \* turns that forgive a missing container (6: i > 5)
          MaxMoves,       \* bound: exits and automatic starts of containers, and
                          \* DELETEs whose last removal fails
          Syncing,        \* BOOLEAN: does some worker run the status sync?
          Unreachable,    \* BOOLEAN: may a daemon call fail?
          SlowInstalls    \* BOOLEAN: may an install outlast the 30 s timeouts?

InstallKinds == {"create", "reinstall", "transfer"}
AllKinds == InstallKinds \cup {"delete", "suspend", "unsuspend", "power", "bulk", "stats"}

ASSUME KindsAssumption == Kinds \subseteq AllKinds
ASSUME BoundsAssumption ==
  PollLimit \in Nat \ {0} /\ Grace \in Nat /\ MaxMoves \in Nat
ASSUME SwitchAssumption == {Syncing, Unreachable, SlowInstalls} \subseteq BOOLEAN

VARIABLES
  row,        \* the servers row, or None
  kind,       \* what each op does
  missed,     \* history: the nodes whose last DELETE was lost, or could not
              \* remove; None as soon as requests have overlapped
  dest,       \* the node a handler posts to (node, target_node)
  pc,         \* where each task is
  snap,       \* the row as a task's session loaded it
  ans,        \* what the daemon answered a task
  turns,      \* the poll task's loop variable i
  container,  \* the container wings-<uuid> of each node
  install,    \* createAndStartServer, one per accepted POST
  registry,   \* installs[uuid] of each node
  removal,    \* the daemon's DELETE handler: its node, the install it waits for
  moves       \* how many of those that MaxMoves bounds there were

panel == <<row, kind, missed, dest, pc, snap, ans, turns>>
daemon == <<container, install, registry, removal, moves>>
vars == <<panel, daemon>>

Sync == <<"sync">>
O(o) == <<"op", o>>
P(o) == <<"poll", o>>
Task == {Sync} \cup {O(o) : o \in Op} \cup {P(o) : o \in Op}

Status == {"installing", "install_failed", "running", "stopped", "suspended"}
Row == [status: Status, installed: BOOLEAN, node: Node]
Container == {"missing", "created", "running", "exited"}
Word == [state: Container \cup Status \cup {"accepted"}, installing: BOOLEAN]
Answer == Word \cup {Failed, None}

ASSUME NoneAssumption ==
  /\ None \notin Op \cup Node /\ None \notin AllKinds
  /\ None \notin Row /\ None \notin Word
  /\ Failed \notin Word /\ Failed # None

\* Nothing yet, or a server that has been installed and runs.
Init ==
  /\ \/ row = None /\ container = [n \in Node |-> "missing"]
     \/ \E n \in Node :
          /\ row = [status |-> "running", installed |-> TRUE, node |-> n]
          /\ container = [m \in Node |-> IF m = n THEN "running" ELSE "missing"]
  /\ kind = [o \in Op |-> None]
  /\ dest = [o \in Op |-> None]
  /\ pc = [t \in Task |-> "idle"]
  /\ snap = [t \in Task |-> None]
  /\ ans = [t \in Task |-> None]
  /\ turns = [o \in Op |-> 0]
  /\ install = [o \in Op |-> "none"]
  /\ registry = [n \in Node |-> None]
  /\ removal = [o \in Op |-> None]
  /\ moves = 0
  /\ missed = {}

-----------------------------------------------------------------------------
(* Sessions.                                                               *)

Goto(t, from, to) == pc[t] = from /\ pc' = [pc EXCEPT ![t] = to]

Load(t) == snap' = [snap EXCEPT ![t] = row]

\* The task's session closes; its local variables end with it.
Close(t, from, to) ==
  /\ Goto(t, from, to)
  /\ snap' = [snap EXCEPT ![t] = None]
  /\ ans' = [ans EXCEPT ![t] = None]

\* Mutant: the session writes the whole object, as a merge would.
MutantUpsert(t, new) == row' = new

\* db.commit() after assigning new to the loaded object.
Flush(t, new) ==
  row' = IF row = None THEN None
         ELSE [c \in DOMAIN row |-> IF new[c] # snap[t][c] THEN new[c] ELSE row[c]]

\* StaleDataError: an UPDATE that matches no row.
Stale(t, new) == row = None /\ new # snap[t]

Done(o) == pc[O(o)] = "done"
Busy(o) == kind[o] # None /\ ~Done(o)

InstallOver(o) == install[o] \in {"none", "over"}
RemovalOver(o) == removal[o] = None
PollOver(o) == pc[P(o)] \in {"idle", "done"}
Settled(o) == ~Busy(o) /\ InstallOver(o) /\ RemovalOver(o) /\ PollOver(o)

-----------------------------------------------------------------------------
(* Requests: create, reinstall, transfer, delete.                          *)

Begin(o, k) ==
  /\ kind[o] = None /\ k \in Kinds
  /\ kind' = [kind EXCEPT ![o] = k]
  /\ missed' = IF \A p \in Op : Settled(p) THEN missed ELSE None

\* create_server up to its first commit.
Create(o) ==
  /\ Begin(o, "create")
  /\ row = None /\ \A p \in Op : kind[p] = None
  /\ \E n \in Node :
       /\ row' = [status |-> "installing", installed |-> FALSE, node |-> n]
       /\ dest' = [dest EXCEPT ![o] = n]
  /\ pc' = [pc EXCEPT ![O(o)] = "reload"]
  /\ UNCHANGED <<snap, ans, turns, daemon>>

\* get_server_or_404 in a handler that will await a daemon.
Open(o, k, where) ==
  /\ Begin(o, k)
  /\ row # None
  /\ Load(O(o))
  /\ pc' = [pc EXCEPT ![O(o)] = where]
  /\ UNCHANGED <<row, ans, turns, daemon>>

Reinstall(o) ==
  Open(o, "reinstall", "delete") /\ dest' = [dest EXCEPT ![o] = row.node]

Transfer(o) ==
  /\ Open(o, "transfer", "delete")
  /\ \E n \in Node \ {row.node} : dest' = [dest EXCEPT ![o] = n]

DeleteServer(o) == Open(o, "delete", "delete") /\ UNCHANGED dest

\* Requests have come one by one.
Calm == missed # None

Miss(n) == missed' = IF Calm THEN missed \cup {n} ELSE None

OneMove == moves < MaxMoves /\ moves' = moves + 1

\* ContainerRemove; its error is ignored.
RemoveContainer(n) ==
  \/ /\ container' = [container EXCEPT ![n] = "missing"]
     /\ missed' = IF Calm THEN missed \ {n} ELSE None
  \/ container[n] # "missing" /\ UNCHANGED container /\ Miss(n)

\* Mutant: a transfer sends the DELETE to the node it moves to.
MutantRemovesAtDest(o) ==
  LET n == IF kind[o] = "transfer" THEN dest[o] ELSE snap[O(o)].node IN
  /\ Goto(O(o), "delete", "deleting")
  /\ RemoveContainer(n)
  /\ removal' = [removal EXCEPT ![o] = [node |-> n, waits |-> registry[n]]]
  /\ UNCHANGED <<row, kind, dest, snap, ans, turns, install, registry, moves>>

\* The three of them send DELETE to the node of the row they loaded.  The
\* daemon removes the container and looks up the install to wait for.
DaemonRemoves(o) ==
  LET n == snap[O(o)].node IN
  /\ Goto(O(o), "delete", "deleting")
  /\ RemoveContainer(n)
  /\ removal' = [removal EXCEPT ![o] = [node |-> n, waits |-> registry[n]]]
  /\ UNCHANGED <<row, kind, dest, snap, ans, turns, install, registry, moves>>

\* waitInstallDone returns and the container is removed once more.
DaemonRemovesAgain(o) ==
  /\ removal[o] # None
  /\ removal[o].waits \in Op => SlowInstalls \/ install[removal[o].waits] = "over"
  /\ RemoveContainer(removal[o].node)
  /\ IF container'[removal[o].node] = "missing" THEN UNCHANGED moves ELSE OneMove
  /\ removal' = [removal EXCEPT ![o] = None]
  /\ UNCHANGED <<row, kind, dest, pc, snap, ans, turns, install, registry>>

\* The call returns, or raises, which the handler ignores: an unreachable
\* daemon, or 30 s without an answer while the daemon still waits.
DeleteReturns(o) ==
  /\ \/ pc[O(o)] = "deleting" /\ (removal[o] = None \/ SlowInstalls) /\ UNCHANGED missed
     \/ pc[O(o)] = "delete" /\ Unreachable /\ Miss(snap[O(o)].node)
  /\ pc' = [pc EXCEPT ![O(o)] = IF kind[o] = "delete" THEN "erase" ELSE "reset"]
  /\ UNCHANGED <<row, kind, dest, snap, ans, turns, daemon>>

\* reinstall_server and transfer_server: the reset that precedes the POST.
Reset(o) ==
  LET new == [status |-> "installing", installed |-> FALSE, node |-> dest[o]] IN
  /\ Close(O(o), "reset", IF Stale(O(o), new) THEN "done" ELSE "reload")
  /\ Flush(O(o), new)
  /\ UNCHANGED <<kind, missed, dest, turns, daemon>>

\* The commit expired the object: it is read again for the payload.
Reload(o) ==
  /\ Goto(O(o), "reload", IF row = None THEN "done" ELSE "post")
  /\ Load(O(o))
  /\ UNCHANGED <<row, kind, missed, dest, ans, turns, daemon>>

\* What the daemon did is answered, or the answer is lost on the way.
Reply(t, state, installing) ==
  \/ ans' = [ans EXCEPT ![t] = [state |-> state, installing |-> installing]]
  \/ Unreachable /\ ans' = [ans EXCEPT ![t] = Failed]

\* POST /api/servers: 202 and a goroutine.
Post(o) ==
  /\ Goto(O(o), "post", "posted")
  /\ install' = [install EXCEPT ![o] = "accepted"]
  /\ Reply(O(o), "accepted", TRUE)
  /\ UNCHANGED <<row, kind, missed, dest, snap, turns, container, registry, removal, moves>>

PostFails(o) ==
  /\ Unreachable
  /\ Goto(O(o), "post", "posted")
  /\ ans' = [ans EXCEPT ![O(o)] = Failed]
  /\ UNCHANGED <<row, kind, missed, dest, snap, turns, daemon>>

PostedStatus(o) ==
  IF ans[O(o)] = Failed THEN "install_failed"
  ELSE IF kind[o] = "reinstall" THEN snap[O(o)].status ELSE "installing"

\* The handler ends; asyncio.create_task(_poll_install_complete(...)).
Spawn(o, spawned) ==
  /\ pc[O(o)] = "posted"
  /\ pc' = [pc EXCEPT ![O(o)] = "done", ![P(o)] = IF spawned THEN "sleep" ELSE @]
  /\ snap' = [snap EXCEPT ![O(o)] = None]
  /\ ans' = [ans EXCEPT ![O(o)] = None]

\* Mutant: a refused install is not polled.
MutantPostedPollsOnSuccess(o) ==
  LET new == [snap[O(o)] EXCEPT !.status = PostedStatus(o)] IN
  /\ Spawn(o, row # None /\ ans[O(o)] # Failed)
  /\ Flush(O(o), new)
  /\ UNCHANGED <<kind, missed, dest, turns, daemon>>

\* The second commit.  On a deleted row it, or the read after it, raises and
\* no poll is spawned.
Posted(o) ==
  LET new == [snap[O(o)] EXCEPT !.status = PostedStatus(o)] IN
  /\ Spawn(o, row # None)
  /\ Flush(O(o), new)
  /\ UNCHANGED <<kind, missed, dest, turns, daemon>>

\* delete_server after the daemon call.
Erase(o) ==
  /\ Close(O(o), "erase", "done")
  /\ row' = None
  /\ UNCHANGED <<kind, missed, dest, turns, daemon>>

-----------------------------------------------------------------------------
(* Requests: suspend, unsuspend, power, stats.                             *)

\* suspend_server commits first and stops the container afterwards.
Suspend(o) ==
  /\ Begin(o, "suspend")
  /\ row # None
  /\ row' = [row EXCEPT !.status = "suspended"]
  /\ Load(O(o))
  /\ pc' = [pc EXCEPT ![O(o)] = "stop"]
  /\ UNCHANGED <<dest, ans, turns, daemon>>

StopSuspended(o) ==
  /\ Close(O(o), "stop", "done")
  /\ container[snap[O(o)].node] # "missing"
  /\ container' = [container EXCEPT ![snap[O(o)].node] = IF @ = "running" THEN "exited" ELSE @]
  /\ UNCHANGED <<row, kind, missed, dest, turns, install, registry, removal, moves>>

StopFails(o) ==
  /\ Close(O(o), "stop", "done")
  /\ Unreachable \/ container[snap[O(o)].node] = "missing"
  /\ UNCHANGED <<row, kind, missed, dest, turns, daemon>>

Unsuspend(o) ==
  /\ Begin(o, "unsuspend")
  /\ row # None
  /\ row' = [row EXCEPT !.status = "stopped"]
  /\ pc' = [pc EXCEPT ![O(o)] = "done"]
  /\ UNCHANGED <<dest, snap, ans, turns, daemon>>

Power(o) == Open(o, "power", "power") /\ UNCHANGED dest

\* bulk_power_action, as far as one server is concerned.
BulkPower(o) == Open(o, "bulk", "power") /\ UNCHANGED dest

\* The daemon's power route: what the container becomes, and the status the
\* panel will write.  A missing container is an error for every action.
PowerEffect(c) ==
  IF c = "missing" THEN {}
  ELSE {<<"running", "running">>}                                   \* start, restart
       \cup {<<IF c = "running" THEN "exited" ELSE c, "stopped">>}  \* stop, kill

DaemonPower(o) ==
  LET n == snap[O(o)].node IN
  /\ Goto(O(o), "power", "powered")
  /\ \/ \E e \in PowerEffect(container[n]) :
          /\ container' = [container EXCEPT ![n] = e[1]]
          /\ Reply(O(o), e[2], FALSE)
     \/ /\ container[n] = "running"      \* a restart that stops and cannot start
        /\ container' = [container EXCEPT ![n] = "exited"]
        /\ ans' = [ans EXCEPT ![O(o)] = Failed]
  /\ UNCHANGED <<row, kind, missed, dest, snap, turns, install, registry, removal, moves>>

PowerFails(o) ==
  /\ Close(O(o), "power", "done")
  /\ Unreachable \/ container[snap[O(o)].node] # "running"
  /\ UNCHANGED <<row, kind, missed, dest, turns, daemon>>

\* After the call; only send_power_action marks the server installed.
Powered(o) ==
  LET new == [snap[O(o)] EXCEPT !.status = ans[O(o)].state,
                                !.installed = @ \/ kind[o] = "power"] IN
  /\ Close(O(o), "powered", "done")
  /\ IF ans[O(o)] = Failed THEN UNCHANGED row ELSE Flush(O(o), new)
  /\ UNCHANGED <<kind, missed, dest, turns, daemon>>

Stats(o) == Open(o, "stats", "ask") /\ UNCHANGED dest

\* proxy_server_stats after the call: suspended is looked up in the session.
StatsBack(o) ==
  LET s == snap[O(o)]
      state == ans[O(o)].state
      status == IF state = "running" THEN "running"
                ELSE IF state = "exited" THEN "stopped" ELSE s.status
      installed == \/ s.installed
                   \/ state = "running"
                   \/ state = "exited" /\ status = s.status
      new == [s EXCEPT !.status = status, !.installed = installed]
  IN /\ Close(O(o), "told", "done")
     /\ IF ans[O(o)] = Failed \/ s.status = "suspended"
        THEN UNCHANGED row ELSE Flush(O(o), new)
     /\ UNCHANGED <<kind, missed, dest, turns, daemon>>

-----------------------------------------------------------------------------
(* Daemon reports: GET install-status and GET resources.                   *)

\* The node asked: the poll keeps asking the node its request posted to.
AskedNode(t) == IF t[1] = "poll" THEN dest[t[2]] ELSE snap[t].node

\* install-status inspects the container and then looks at the registry: the
\* poll's answer has two parts.
Report(t) ==
  /\ Goto(t, "ask", IF t[1] = "poll" THEN "inspected" ELSE "told")
  /\ ans' = [ans EXCEPT ![t] = [state |-> container[AskedNode(t)], installing |-> FALSE]]
  /\ UNCHANGED <<row, kind, missed, dest, snap, turns, daemon>>

InstallInFlight(o) ==
  /\ Goto(P(o), "inspected", "told")
  /\ ans' = [ans EXCEPT ![P(o)].installing = registry[dest[o]] # None]
  /\ UNCHANGED <<row, kind, missed, dest, snap, turns, daemon>>

ReportFails(t) ==
  /\ Unreachable
  /\ Goto(t, "ask", "told")
  /\ ans' = [ans EXCEPT ![t] = Failed]
  /\ UNCHANGED <<row, kind, missed, dest, snap, turns, daemon>>

-----------------------------------------------------------------------------
(* _poll_install_complete.                                                 *)

\* The row is gone, or the node is: delete_node wants no server on it.
PollLoad(o) ==
  /\ \/ row # None /\ Goto(P(o), "sleep", "ask") /\ Load(P(o)) /\ UNCHANGED ans
     \/ (row # None => row.node # dest[o]) /\ Close(P(o), "sleep", "done")
  /\ UNCHANGED <<row, kind, missed, dest, turns, daemon>>

\* continue, or an exception that the loop swallows.
PollAgain(o) ==
  LET last == turns[o] + 1 = PollLimit IN
  /\ turns' = [turns EXCEPT ![o] = IF last THEN 0 ELSE @ + 1]
  /\ Close(P(o), "told", IF last THEN "final" ELSE "sleep")
  /\ UNCHANGED row

PollWrites(o, status) ==
  LET new == [snap[P(o)] EXCEPT !.status = status, !.installed = TRUE] IN
  IF Stale(P(o), new) THEN PollAgain(o)
  ELSE Flush(P(o), new) /\ Close(P(o), "told", "done") /\ turns' = [turns EXCEPT ![o] = 0]

\* Mutant: Docker's word for it is written to the row as it stands.
MutantPollRawStatus(o) ==
  LET a == ans[P(o)] IN
  /\ pc[P(o)] = "told"
  /\ IF a = Failed THEN PollAgain(o)
     ELSE IF a.installing THEN PollAgain(o)
     ELSE IF a.state \in {"running", "exited"} THEN PollWrites(o, a.state)
     ELSE IF a.state = "missing" /\ turns[o] >= Grace THEN PollWrites(o, "install_failed")
     ELSE PollAgain(o)
  /\ UNCHANGED <<kind, missed, dest, daemon>>

PollBack(o) ==
  LET a == ans[P(o)] IN
  /\ pc[P(o)] = "told"
  /\ IF a = Failed THEN PollAgain(o)
     ELSE IF a.installing THEN PollAgain(o)
     ELSE IF a.state = "running" THEN PollWrites(o, "running")
     ELSE IF a.state = "exited" THEN PollWrites(o, "stopped")
     ELSE IF a.state = "missing" /\ turns[o] >= Grace THEN PollWrites(o, "install_failed")
     ELSE PollAgain(o)
  /\ UNCHANGED <<kind, missed, dest, daemon>>

\* The loop ran out: the install counts as over whatever came of it.
PollFinal(o) ==
  /\ Close(P(o), "final", "done")
  /\ row' = IF row = None THEN None
            ELSE [row EXCEPT !.installed = TRUE,
                             !.status = IF @ = "installing" THEN "install_failed" ELSE @]
  /\ UNCHANGED <<kind, missed, dest, turns, daemon>>

-----------------------------------------------------------------------------
(* _sync_all_server_statuses.                                              *)

\* Mutant: suspended servers are not skipped.
MutantSyncLoadAll ==
  /\ Syncing
  /\ row # None /\ row.installed
  /\ Goto(Sync, "idle", "ask")
  /\ Load(Sync)
  /\ UNCHANGED <<row, kind, missed, dest, ans, turns, daemon>>

SyncLoad ==
  /\ Syncing
  /\ row # None /\ row.installed /\ row.status # "suspended"
  /\ Goto(Sync, "idle", "ask")
  /\ Load(Sync)
  /\ UNCHANGED <<row, kind, missed, dest, ans, turns, daemon>>

\* status_map; a missing container is reported as "stopped", which it lacks.
Synced(s, state) ==
  IF state = "running" THEN "running"
  ELSE IF state \in {"exited", "created"} THEN "stopped" ELSE s

SyncBack ==
  LET s == snap[Sync]
      new == [s EXCEPT !.status = Synced(@, ans[Sync].state)]
  IN /\ Close(Sync, "told", "idle")
     /\ IF ans[Sync] = Failed THEN UNCHANGED row ELSE Flush(Sync, new)
     /\ UNCHANGED <<kind, missed, dest, turns, daemon>>

-----------------------------------------------------------------------------
(* createAndStartServer, as far as the panel can tell its steps apart.     *)

Register(o) ==
  /\ install[o] = "accepted"
  /\ install' = [install EXCEPT ![o] = "pulling"]
  /\ registry' = [registry EXCEPT ![dest[o]] = o]
  /\ UNCHANGED <<panel, container, removal, moves>>

\* ContainerRemove of the old one, ContainerCreate.
CreateContainer(o) ==
  /\ install[o] = "pulling"
  /\ install' = [install EXCEPT ![o] = "created"]
  /\ container' = [container EXCEPT ![dest[o]] = "created"]
  /\ UNCHANGED <<panel, registry, removal, moves>>

FinishInstall(o) ==
  /\ install' = [install EXCEPT ![o] = "over"]
  /\ registry' = [registry EXCEPT ![dest[o]] = IF @ = o THEN None ELSE @]

\* The pull failed, or the create did after the removal of the old container.
InstallFails(o) ==
  /\ install[o] = "pulling"
  /\ \E c \in {container[dest[o]], "missing"} :
       container' = [container EXCEPT ![dest[o]] = c]
  /\ FinishInstall(o)
  /\ UNCHANGED <<panel, removal, moves>>

StartContainer(o) ==
  /\ install[o] = "created"
  /\ container[dest[o]] # "missing"
  /\ container' = [container EXCEPT ![dest[o]] = "running"]
  /\ FinishInstall(o)
  /\ UNCHANGED <<panel, removal, moves>>

\* A container that could not be started is removed, or that fails as well.
StartFails(o) ==
  /\ install[o] = "created"
  /\ \E c \in {container[dest[o]], "missing"} :
       container' = [container EXCEPT ![dest[o]] = c]
  /\ FinishInstall(o)
  /\ UNCHANGED <<panel, removal, moves>>

\* A container's process ends, or a file or console request starts it again
\* (ensureContainerRunning, handleConsoleWS).
Move(n) ==
  /\ OneMove
  /\ \/ container[n] = "running" /\ container' = [container EXCEPT ![n] = "exited"]
     \/ container[n] \in {"exited", "created"}
        /\ container' = [container EXCEPT ![n] = "running"]
  /\ UNCHANGED <<panel, install, registry, removal>>

-----------------------------------------------------------------------------

Request(o) ==
  \/ Create(o) \/ Reinstall(o) \/ Transfer(o) \/ DeleteServer(o)
  \/ Suspend(o) \/ Unsuspend(o) \/ Power(o) \/ BulkPower(o) \/ Stats(o)

Handle(o) ==
  \/ DaemonRemoves(o) \/ DeleteReturns(o) \/ Reset(o) \/ Reload(o)
  \/ Post(o) \/ PostFails(o) \/ Posted(o) \/ Erase(o)
  \/ StopSuspended(o) \/ StopFails(o)
  \/ DaemonPower(o) \/ PowerFails(o) \/ Powered(o)
  \/ Report(O(o)) \/ ReportFails(O(o)) \/ StatsBack(o)

Poll(o) ==
  \/ PollLoad(o) \/ Report(P(o)) \/ InstallInFlight(o) \/ ReportFails(P(o))
  \/ PollBack(o) \/ PollFinal(o)

SyncStep == SyncLoad \/ Report(Sync) \/ ReportFails(Sync) \/ SyncBack

CreateAndStartServer(o) ==
  \/ Register(o) \/ CreateContainer(o) \/ InstallFails(o)
  \/ StartContainer(o) \/ StartFails(o)

\* Nothing is left to do on an instance whose requests are used up.
Idle == (\A o \in Op : Settled(o)) /\ UNCHANGED vars

Next ==
  \/ \E o \in Op : Request(o) \/ Handle(o) \/ Poll(o)
  \/ SyncStep
  \/ \E o \in Op : DaemonRemovesAgain(o) \/ CreateAndStartServer(o)
  \/ \E n \in Node : Move(n)
  \/ Idle

Spec == Init /\ [][Next]_vars

\* Users need not send requests, and an install may never end.  A handler and a
\* poll that can run do run: every await is bounded by call_daemon's timeout.
FairSpec == Spec /\ \A o \in Op : WF_vars(Handle(o)) /\ WF_vars(Poll(o))

-----------------------------------------------------------------------------
(* Properties.                                                             *)

TypeOK ==
  /\ row \in Row \cup {None}
  /\ kind \in [Op -> Kinds \cup {None}]
  /\ missed = None \/ missed \subseteq Node
  /\ dest \in [Op -> Node \cup {None}]
  /\ pc \in [Task -> {"idle", "delete", "deleting", "reset", "reload", "post", "posted",
                      "erase", "stop", "power", "powered", "ask", "inspected", "told", "sleep",
                      "final", "done"}]
  /\ snap \in [Task -> Row \cup {None}]
  /\ ans \in [Task -> Answer]
  /\ turns \in [Op -> 0..PollLimit]
  /\ container \in [Node -> Container]
  /\ install \in [Op -> {"none", "accepted", "pulling", "created", "over"}]
  /\ registry \in [Node -> Op \cup {None}]
  /\ removal \in [Op -> [node: Node, waits: Op \cup {None}] \cup {None}]
  /\ moves \in 0..MaxMoves

\* A handler, a poll or the sync that wakes up after the row was deleted never
\* brings it back: its write fails and its next read ends it.
DeletedStaysDeleted ==
  [][ row = None /\ row' # None => \E o \in Op : kind[o] = None /\ kind'[o] = "create" ]_vars

\* The step is one of this task's.
Steps(t) == pc'[t] # pc[t]

\* The status sync and the stats page never undo a suspension that was
\* committed before they read the row.  What undoes it is an administrator, a
\* power action, an install, or an observer that had read the row before.
SuspensionHoldsAgainstObservers ==
  [][ row # None /\ row' # None /\ row.status = "suspended" /\ row'.status # "suspended"
      => \/ \E o \in Op : \/ Steps(P(o))
                          \/ Steps(O(o)) /\ kind'[o] \in {"unsuspend", "power", "bulk"} \cup InstallKinds
         \/ \E t \in Task : Steps(t) /\ pc[t] = "told" /\ snap[t].status # "suspended"
    ]_vars

\* Every install is resolved: whatever fails, times out or overlaps, a row that
\* is not installed, or still says "installing", comes to be installed and to say
\* something else, or is deleted.
InstallResolved ==
  (row # None /\ (~row.installed \/ row.status = "installing"))
    ~> (row = None \/ (row.installed /\ row.status # "installing"))

\* As long as requests follow one another, a server has its container on the
\* node of its row and nowhere else, whatever its installs do, and a deleted
\* server has none; but where the last DELETE was lost, or the daemon could not
\* remove the container and said it had.
OneHome ==
  Calm /\ (\A o \in Op : Settled(o)) =>
    \A n \in Node \ missed : row = None \/ row.node # n => container[n] = "missing"

=============================================================================
