----------------------------- MODULE StatusSync -----------------------------
(***************************************************************************)
(* The background loop that copies the daemon's container states into the  *)
(* server rows: _sync_all_server_statuses (src/panel/main.py), one task in *)
(* every worker process, of which the one that holds the lock runs.        *)
(*                                                                         *)
(* A round loads all rows at once and then visits them one by one, waiting *)
(* for the daemon in between.  SQLAlchemy reads a loaded row again only    *)
(* after a commit or a rollback has expired it; reading a row that has     *)
(* been deleted then raises, and so does every read through a session whose*)
(* commit has failed.  The first read of a visit is outside the loop's     *)
(* try: whatever it raises ends the task.                                  *)
(***************************************************************************)
EXTENDS Naturals, FiniteSets

CONSTANTS
  Worker, Server, None,
  MaxMoves      \* bound on suspensions, their ends, and container changes

ASSUME SyncAssumption ==
  /\ MaxMoves \in Nat
  /\ IsFiniteSet(Worker) /\ IsFiniteSet(Server)
  /\ None \notin Worker \cup Server \cup {"running", "exited", "restarting"}

VARIABLES
  row,     \* the status in the database, or "gone"
  real,    \* the state of the container
  lock,    \* the worker that holds the status_sync lock
  pc, todo, cur,
  loaded,  \* the status the session has for a row, or "expired"
  failed,  \* has a commit of the session failed?
  answer,  \* the container state the daemon answered
  outage,  \* history: the workers whose round the database has failed
  moves

vars == <<row, real, lock, pc, todo, cur, loaded, failed, answer, outage, moves>>

Status == {"running", "stopped", "suspended"}

\* "restarting" stands for the states that status_map does not have.
Real == {"running", "exited", "restarting"}
Mapped(r) == IF r = "exited" THEN "stopped" ELSE r

Init ==
  /\ row \in [Server -> Status] /\ real \in [Server -> Real]
  /\ lock = None
  /\ pc = [w \in Worker |-> "waiting"]
  /\ todo = [w \in Worker |-> {}]
  /\ cur = [w \in Worker |-> None]
  /\ loaded = [w \in Worker |-> [s \in Server |-> "expired"]]
  /\ failed = [w \in Worker |-> FALSE]
  /\ answer = [w \in Worker |-> None]
  /\ outage = {} /\ moves = 0

-----------------------------------------------------------------------------

Goes(w, from, to) == pc[w] = from /\ pc' = [pc EXCEPT ![w] = to]
AllExpired == [s \in Server |-> "expired"]
Present == {s \in Server : row[s] # "gone"}

\* _acquire_loop_lock, at start and then every minute.
Acquire(w) ==
  /\ lock = None
  /\ Goes(w, "waiting", "sleep")
  /\ lock' = w
  /\ UNCHANGED <<row, real, todo, cur, loaded, failed, answer, outage, moves>>

\* Ten seconds later: a new session, and all installed servers.
Query(w) ==
  /\ Goes(w, "sleep", "next")
  /\ todo' = [todo EXCEPT ![w] = Present]
  /\ loaded' = [loaded EXCEPT ![w] = row]
  /\ failed' = [failed EXCEPT ![w] = FALSE]
  /\ UNCHANGED <<row, real, lock, cur, answer, outage, moves>>

\* The round is over: db.close().
Close(w) ==
  /\ todo[w] = {}
  /\ Goes(w, "next", "sleep")
  /\ loaded' = [loaded EXCEPT ![w] = AllExpired]
  /\ failed' = [failed EXCEPT ![w] = FALSE]
  /\ outage' = outage \ {w}
  /\ UNCHANGED <<row, real, lock, todo, cur, answer, moves>>

\* srv.status can be read.
Readable(w, s) == loaded[w][s] # "expired" \/ (~failed[w] /\ row[s] # "gone")
StatusRead(w, s) == IF loaded[w][s] = "expired" THEN row[s] ELSE loaded[w][s]

\* Mutant: break, for continue.
MutantSkip(w, s) ==
  /\ pc[w] = "next" /\ s \in todo[w]
  /\ Readable(w, s) /\ StatusRead(w, s) = "suspended"
  /\ loaded' = [loaded EXCEPT ![w][s] = "suspended"]
  /\ todo' = [todo EXCEPT ![w] = {}]
  /\ UNCHANGED <<row, real, lock, pc, cur, failed, answer, outage, moves>>

\* A suspended server is left alone.
Skip(w, s) ==
  /\ pc[w] = "next" /\ s \in todo[w]
  /\ Readable(w, s) /\ StatusRead(w, s) = "suspended"
  /\ loaded' = [loaded EXCEPT ![w][s] = "suspended"]
  /\ todo' = [todo EXCEPT ![w] = @ \ {s}]
  /\ UNCHANGED <<row, real, lock, pc, cur, failed, answer, outage, moves>>

\* call_daemon, for any other.
Ask(w, s) ==
  /\ s \in todo[w] /\ Goes(w, "next", "asked")
  /\ Readable(w, s) /\ StatusRead(w, s) # "suspended"
  /\ loaded' = [loaded EXCEPT ![w][s] = StatusRead(w, s)]
  /\ todo' = [todo EXCEPT ![w] = @ \ {s}]
  /\ cur' = [cur EXCEPT ![w] = s]
  /\ UNCHANGED <<row, real, lock, failed, answer, outage, moves>>

\* What a read outside the try raises: the session is closed, the lock released,
\* the task ends.  Releasing returns the connection to its pool, which keeps it,
\* and with it the advisory lock, unless it has enough of them.
Ends(w) ==
  /\ pc' = [pc EXCEPT ![w] = "dead"]
  /\ lock' \in {lock, None}
  /\ todo' = [todo EXCEPT ![w] = {}]
  /\ loaded' = [loaded EXCEPT ![w] = AllExpired]
  /\ failed' = [failed EXCEPT ![w] = FALSE]
  /\ UNCHANGED <<row, real, cur, answer, moves>>

\* The row is gone, or the session's commit has failed.
Die(w, s) ==
  /\ pc[w] = "next" /\ s \in todo[w]
  /\ ~Readable(w, s)
  /\ Ends(w) /\ UNCHANGED outage

\* The database does not answer the query or a read.
DatabaseFails(w) ==
  /\ pc[w] \in {"sleep", "next"}
  /\ Ends(w) /\ outage' = outage \cup {w}

\* The daemon looks at the container; that of a deleted server was removed
\* before its row, and it says nothing the loop knows of it.
Inspect(w) ==
  /\ Goes(w, "asked", "answered")
  /\ answer' = [answer EXCEPT ![w] =
                  IF row[cur[w]] = "gone" THEN "restarting" ELSE real[cur[w]]]
  /\ UNCHANGED <<row, real, lock, todo, cur, loaded, failed, outage, moves>>

\* Mutant: the call is outside the try.
MutantNoAnswer(w) ==
  /\ Goes(w, "asked", "dead")
  /\ cur' = [cur EXCEPT ![w] = None]
  /\ todo' = [todo EXCEPT ![w] = {}]
  /\ lock' = None
  /\ UNCHANGED <<row, real, loaded, failed, answer, outage, moves>>

\* The call fails, which the loop's try swallows.
NoAnswer(w) ==
  /\ Goes(w, "asked", "next")
  /\ cur' = [cur EXCEPT ![w] = None]
  /\ UNCHANGED <<row, real, lock, todo, loaded, failed, answer, outage, moves>>

\* What it answered is what the row had, or tells nothing.
Same(w) ==
  /\ Goes(w, "answered", "next")
  /\ answer[w] = "restarting" \/ Mapped(answer[w]) = loaded[w][cur[w]]
  /\ cur' = [cur EXCEPT ![w] = None]
  /\ answer' = [answer EXCEPT ![w] = None]
  /\ UNCHANGED <<row, real, lock, todo, loaded, failed, outage, moves>>

\* It differs: the row is written and everything loaded expires.  If the row is
\* not there any more the commit fails, and the session with it.
Write(w) ==
  LET s == cur[w] IN
  /\ Goes(w, "answered", "next")
  /\ answer[w] # "restarting" /\ Mapped(answer[w]) # loaded[w][s]
  /\ row' = IF row[s] = "gone" THEN row ELSE [row EXCEPT ![s] = Mapped(answer[w])]
  /\ failed' = [failed EXCEPT ![w] = row[s] = "gone"]
  /\ loaded' = [loaded EXCEPT ![w] = AllExpired]
  /\ cur' = [cur EXCEPT ![w] = None]
  /\ answer' = [answer EXCEPT ![w] = None]
  /\ UNCHANGED <<real, lock, todo, outage, moves>>

\* The database does not take the commit, whose error is swallowed.
CommitFails(w) ==
  /\ Goes(w, "answered", "next")
  /\ answer[w] # "restarting" /\ Mapped(answer[w]) # loaded[w][cur[w]]
  /\ failed' = [failed EXCEPT ![w] = TRUE]
  /\ loaded' = [loaded EXCEPT ![w] = AllExpired]
  /\ cur' = [cur EXCEPT ![w] = None]
  /\ answer' = [answer EXCEPT ![w] = None]
  /\ outage' = outage \cup {w}
  /\ UNCHANGED <<row, real, lock, todo, moves>>

-----------------------------------------------------------------------------
(* The users and the containers.                                           *)

Moves == moves < MaxMoves /\ moves' = moves + 1
loops == <<lock, pc, todo, cur, loaded, failed, answer, outage>>

Suspend(s) ==
  /\ Moves /\ row[s] \in Status \ {"suspended"}
  /\ row' = [row EXCEPT ![s] = "suspended"]
  /\ UNCHANGED <<real, loops>>

Unsuspend(s) ==
  /\ Moves /\ row[s] = "suspended"
  /\ row' = [row EXCEPT ![s] = "stopped"]
  /\ UNCHANGED <<real, loops>>

DeleteServer(s) ==
  /\ row[s] # "gone"
  /\ row' = [row EXCEPT ![s] = "gone"]
  /\ UNCHANGED <<real, loops, moves>>

ContainerChanges(s) ==
  /\ Moves
  /\ \E r \in Real \ {real[s]} : real' = [real EXCEPT ![s] = r]
  /\ UNCHANGED <<row, loops>>

-----------------------------------------------------------------------------

Loop(w) ==
  \/ Query(w) \/ Close(w) \/ Inspect(w) \/ NoAnswer(w) \/ Same(w) \/ Write(w)
  \/ DatabaseFails(w) \/ CommitFails(w)
  \/ \E s \in Server : Skip(w, s) \/ Ask(w, s) \/ Die(w, s)

\* No loop is left, or none can get the lock.
NoLoop == (\A w \in Worker : pc[w] \in {"waiting", "dead"}) /\ UNCHANGED vars

Next ==
  \/ \E w \in Worker : Acquire(w) \/ Loop(w)
  \/ \E s \in Server :
       Suspend(s) \/ Unsuspend(s) \/ DeleteServer(s) \/ ContainerChanges(s)
  \/ NoLoop

Spec == Init /\ [][Next]_vars

\* The tasks run; users and containers do as they please.
FairSpec == Spec /\ \A w \in Worker : WF_vars(Acquire(w)) /\ WF_vars(Loop(w))

-----------------------------------------------------------------------------
(* Properties.                                                             *)

TypeOK ==
  /\ row \in [Server -> Status \cup {"gone"}] /\ real \in [Server -> Real]
  /\ lock \in Worker \cup {None}
  /\ pc \in [Worker -> {"waiting", "sleep", "next", "asked", "answered", "dead"}]
  /\ todo \in [Worker -> SUBSET Server]
  /\ cur \in [Worker -> Server \cup {None}]
  /\ loaded \in [Worker -> [Server -> Status \cup {"gone", "expired"}]]
  /\ failed \in [Worker -> BOOLEAN]
  /\ answer \in [Worker -> Real \cup {None}]
  /\ outage \subseteq Worker /\ moves \in 0 .. MaxMoves
  /\ \A w \in Worker : pc[w] \in {"sleep", "next", "asked", "answered"} => lock = w

Dead == {w \in Worker : pc[w] = "dead"}

\* A deleted server costs at most one loop: who takes the lock after it never
\* loads that row.  But for a database that fails, the loops are lost to nothing
\* else, be it a daemon that does not answer or a suspension in the middle of a
\* round.
ADeleteKillsOneLoop ==
  Cardinality(Dead \ outage) <= Cardinality({s \in Server : row[s] = "gone"})

Agrees(s) ==
  \/ row[s] \in {"gone", "suspended"} \/ real[s] = "restarting"
  \/ row[s] = Mapped(real[s])

\* Once the containers and the users are quiet, the panel shows every server as
\* its container is, whatever the rounds under way had read, unless again and
\* again its daemon does not answer or the database refuses what it has
\* answered, or a loop has died.
FollowsOrDies ==
  \/ <>(Dead # {})
  \/ \A s \in Server :
       \/ <>[]Agrees(s)
       \/ \E w \in Worker : []<><<cur[w] = s /\ (NoAnswer(w) \/ CommitFails(w))>>_vars

=============================================================================
