------------------------------ MODULE Schedules -----------------------------
(***************************************************************************)
(* The panel's schedule executor (_run_due_schedules, src/panel/main.py).  *)
(*                                                                         *)
(* Every worker process starts one such task.  The task whose database     *)
(* connection gets a PostgreSQL advisory lock runs the loop, the others    *)
(* try again every 60 s.  Every 30 s the loop reads the active schedules   *)
(* and calls the daemon for each one that is due, one after the other.     *)
(*                                                                         *)
(* Time passes in ticks of 30 s, which is also the timeout of a call.  A   *)
(* schedule's time is kept relative to now: due ticks from now, cut off    *)
(* below the largest window.  The rows that a session has loaded expire    *)
(* with its first commit, that is, after its first call; from then on a    *)
(* deleted row raises in the middle of the loop, which nothing catches.    *)
(***************************************************************************)
EXTENDS Integers, FiniteSets

CONSTANTS Worker, Schedule,
          Recurring,      \* the schedules with a cron pattern
          Period,         \* ticks between two matches of the pattern
          OnceWindow,     \* 120 s: 4
          CronWindow,     \* 5 min: 10
          None, Deleted,
          MaxCrashes      \* bound: crashes of worker processes

ASSUME ScheduleAssumption == Recurring \subseteq Schedule /\ IsFiniteSet(Schedule)
ASSUME TimeAssumption ==
  {Period, OnceWindow, CronWindow} \subseteq Nat \ {0} /\ OnceWindow <= CronWindow
ASSUME WorkerAssumption == Worker # {}      \* uvicorn starts at least one
ASSUME BoundAssumption == MaxCrashes \in Nat
ASSUME NoneAssumption == None \notin Worker \cup Schedule

VARIABLES
  sched,     \* the server_schedules rows: is_active and scheduled_time
  lock,      \* the worker whose connection holds the advisory lock
  task,      \* where each worker's task is
  batch,     \* schedules it has read and not yet looked at
  current,   \* the schedule it is calling the daemon for
  since,     \* ticks since it read the clock (its variable now)
  timer,     \* ticks since it began to sleep or to call
  fired,     \* history: power actions done for the schedule's present time
  crashes,
  calm       \* history: no loop has died, none was toggled on late

vars == <<sched, lock, task, batch, current, since, timer, fired, crashes, calm>>

Window(s) == IF s \in Recurring THEN CronWindow ELSE OnceWindow

\* No round takes longer than a call for each schedule and the sleep.
MaxRound == Cardinality(Schedule) + 1
Floor == -(CronWindow + MaxRound + 1)

Rows == {s \in Schedule : sched[s] # Deleted}
Active == {s \in Rows : sched[s].active}

\* How long the task may be where it is, in ticks.
Limit(t) == CASE t = "waiting" -> 2 [] t \in {"asleep", "calling", "acted"} -> 1 [] OTHER -> 0
Running == {"asleep", "scan", "calling", "acted"}

Init ==
  /\ sched \in [Schedule -> [active: {TRUE}, due: 1..Period]]
  /\ lock = None
  /\ task = [w \in Worker |-> "waiting"]
  /\ batch = [w \in Worker |-> {}]
  /\ current = [w \in Worker |-> None]
  /\ since = [w \in Worker |-> 0]
  /\ timer = [w \in Worker |-> 2]      \* the first attempt is made at once
  /\ fired = [s \in Schedule |-> 0]
  /\ crashes = 0
  /\ calm = TRUE

-----------------------------------------------------------------------------
(* The lock.                                                               *)

\* Mutant: the result of pg_try_advisory_lock is not looked at.
MutantTryLock(w) ==
  /\ task[w] = "waiting" /\ timer[w] = 2
  /\ lock' = w /\ task' = [task EXCEPT ![w] = "asleep"]
  /\ timer' = [timer EXCEPT ![w] = 0]
  /\ UNCHANGED <<sched, batch, current, since, fired, crashes, calm>>

TryLock(w) ==
  /\ task[w] = "waiting" /\ timer[w] = 2
  /\ \/ lock = None /\ lock' = w /\ task' = [task EXCEPT ![w] = "asleep"]
     \/ lock # None /\ UNCHANGED <<lock, task>>
  /\ timer' = [timer EXCEPT ![w] = 0]
  /\ UNCHANGED <<sched, batch, current, since, fired, crashes, calm>>

-----------------------------------------------------------------------------
(* The loop.                                                               *)

\* Mutant: half a minute's grace.
MutantInWindow(s, due) == due <= 0 /\ due >= -1

\* now >= st and (now - st) <= window
InWindow(s, due) == due <= 0 /\ due >= -Window(s)

Call(w, s) ==
  /\ task' = [task EXCEPT ![w] = "calling"]
  /\ current' = [current EXCEPT ![w] = s]
  /\ timer' = [timer EXCEPT ![w] = 0]

\* The round is over: asyncio.sleep(30).
Sleep(w) ==
  /\ task' = [task EXCEPT ![w] = "asleep"]
  /\ current' = [current EXCEPT ![w] = None]
  /\ timer' = [timer EXCEPT ![w] = 0]

\* The task wakes up, reads the clock and the active schedules, and goes on
\* to the first one that is due.  The rows come in no particular order.
Wake(w) ==
  LET due == {s \in Active : InWindow(s, sched[s].due)} IN
  /\ task[w] = "asleep" /\ timer[w] = 1
  /\ since' = [since EXCEPT ![w] = 0]
  /\ \/ due = {} /\ Sleep(w) /\ UNCHANGED batch
     \/ \E s \in due, skipped \in SUBSET (Active \ due) :
          /\ Call(w, s)
          /\ batch' = [batch EXCEPT ![w] = Active \ ({s} \cup skipped)]
  /\ UNCHANGED <<sched, lock, fired, crashes, calm>>

\* The daemon carries out the power action.
Act(w) ==
  /\ task[w] = "calling"
  /\ task' = [task EXCEPT ![w] = "acted"]
  /\ fired' = [fired EXCEPT ![current[w]] = @ + 1]
  /\ UNCHANGED <<sched, lock, batch, current, since, timer, crashes, calm>>

\* An exception leaves the loop.  The connection goes back to the pool with
\* the advisory lock still held, unless the pool is full and closes it.
Die(w) ==
  /\ task' = [task EXCEPT ![w] = "dead"]
  /\ lock' \in {lock, None}
  /\ batch' = [batch EXCEPT ![w] = {}]
  /\ current' = [current EXCEPT ![w] = None]
  /\ calm' = FALSE
  /\ UNCHANGED <<sched, timer, fired>>

\* _next_cron(now): the first match after the time the loop read.
NextCron(due, elapsed) ==
  due + Period * (CHOOSE k \in 1..CronWindow + 1 :
                    due + elapsed + Period * k \in 1..Period)

\* The end of _fire_schedule: the same whether the call succeeded or not.
Advance(w, s) ==
  /\ IF s \in Recurring
     THEN /\ sched' = [sched EXCEPT ![s].due = NextCron(@, since[w])]
          /\ fired' = [fired EXCEPT ![s] = 0]
     ELSE sched' = [sched EXCEPT ![s].active = FALSE] /\ UNCHANGED fired

After(w) == IF batch[w] = {} THEN Sleep(w)
            ELSE /\ task' = [task EXCEPT ![w] = "scan"]
                 /\ current' = [current EXCEPT ![w] = None]
                 /\ UNCHANGED timer

\* The call returned, or raised: an error, or an answer that did not arrive.
Returned(w) == task[w] \in {"acted", "calling"}

\* Mutant: only a success deactivates or advances the schedule.
MutantReturn(w) ==
  /\ Returned(w)
  /\ LET s == current[w] IN
     \/ s \notin Rows /\ Die(w)
     \/ s \in Rows /\ task[w] = "acted" /\ Advance(w, s) /\ After(w) /\ UNCHANGED <<lock, batch, calm>>
     \/ s \in Rows /\ After(w) /\ UNCHANGED <<sched, fired, lock, batch, calm>>
  /\ UNCHANGED <<since, crashes>>

\* A schedule that was deleted meanwhile raises: ObjectDeletedError, or
\* StaleDataError.
Return(w) ==
  /\ Returned(w)
  /\ LET s == current[w] IN
     \/ s \in Rows /\ Advance(w, s) /\ After(w) /\ UNCHANGED <<lock, batch, calm>>
     \/ s \notin Rows /\ Die(w)
  /\ UNCHANGED <<since, crashes>>

\* Mutant: a schedule that is not due stays on the list.
MutantScan(w) ==
  /\ task[w] = "scan"
  /\ \E s \in batch[w] :
       \/ s \notin Rows /\ Die(w)
       \/ /\ s \in Rows
          /\ \/ InWindow(s, sched[s].due + since[w]) /\ Call(w, s)
                /\ batch' = [batch EXCEPT ![w] = @ \ {s}]
             \/ /\ ~InWindow(s, sched[s].due + since[w])
                /\ UNCHANGED <<task, current, timer, batch>>
          /\ UNCHANGED <<sched, fired, lock, calm>>
  /\ UNCHANGED <<since, crashes>>

\* The next schedule of the batch, read again; is_active is not.
Scan(w) ==
  /\ task[w] = "scan"
  /\ \E s \in batch[w] :
       \/ s \notin Rows /\ Die(w)
       \/ /\ s \in Rows
          /\ batch' = [batch EXCEPT ![w] = @ \ {s}]
          /\ \/ InWindow(s, sched[s].due + since[w]) /\ Call(w, s)
             \/ /\ ~InWindow(s, sched[s].due + since[w])
                /\ IF batch[w] = {s} THEN Sleep(w) ELSE UNCHANGED <<task, current, timer>>
          /\ UNCHANGED <<sched, fired, lock, calm>>
  /\ UNCHANGED <<since, crashes>>

-----------------------------------------------------------------------------
(* Users, crashes, time.                                                   *)

\* delete_server_schedule, or the end of its server.
DeleteSchedule(s) ==
  /\ s \in Rows
  /\ sched' = [sched EXCEPT ![s] = Deleted]
  /\ UNCHANGED <<lock, task, batch, current, since, timer, fired, crashes, calm>>

\* toggle_server_schedule; a reactivated schedule is asked for once more.
Toggle(s) ==
  /\ s \in Rows
  /\ sched' = [sched EXCEPT ![s].active = ~@]
  /\ fired' = IF sched[s].active THEN fired ELSE [fired EXCEPT ![s] = 0]
  /\ calm' = (calm /\ (sched[s].active \/ sched[s].due > 0))
  /\ UNCHANGED <<lock, task, batch, current, since, timer, crashes>>

\* A worker process ends and is started again: its connections are closed,
\* and a request on its way may still reach the daemon.
Crash(w) ==
  /\ crashes < MaxCrashes
  /\ crashes' = crashes + 1
  /\ lock' = IF lock = w THEN None ELSE lock
  /\ task' = [task EXCEPT ![w] = "waiting"]
  /\ timer' = [timer EXCEPT ![w] = 2]
  /\ batch' = [batch EXCEPT ![w] = {}]
  /\ current' = [current EXCEPT ![w] = None]
  /\ \E n \in IF task[w] = "calling" THEN 0..1 ELSE {0} :
       fired' = [s \in Schedule |-> IF s = current[w] THEN fired[s] + n ELSE fired[s]]
  /\ UNCHANGED <<sched, since, calm>>

\* 30 s pass, unless a timer is due before.
Tick ==
  /\ \A w \in Worker : task[w] # "dead" => timer[w] < Limit(task[w])
  /\ timer' = [w \in Worker |-> IF task[w] = "dead" THEN timer[w] ELSE timer[w] + 1]
  /\ since' = [w \in Worker |->
                 IF task[w] \in {"calling", "acted"} THEN since[w] + 1 ELSE since[w]]
  /\ sched' = [s \in Schedule |->
                 IF s \in Rows /\ sched[s].due > Floor
                 THEN [sched[s] EXCEPT !.due = @ - 1] ELSE sched[s]]
  /\ UNCHANGED <<lock, task, batch, current, fired, crashes, calm>>

-----------------------------------------------------------------------------

RunDueSchedules(w) == TryLock(w) \/ Wake(w) \/ Act(w) \/ Return(w) \/ Scan(w)

Next ==
  \/ \E w \in Worker : RunDueSchedules(w) \/ Crash(w)
  \/ \E s \in Schedule : DeleteSchedule(s) \/ Toggle(s)
  \/ Tick

Spec == Init /\ [][Next]_vars

\* Time passes, and asyncio runs a task whose timer is due.
FairSpec == Spec /\ WF_vars(Tick) /\ \A w \in Worker : WF_vars(RunDueSchedules(w))

-----------------------------------------------------------------------------
(* Properties.                                                             *)

TypeOK ==
  /\ sched \in [Schedule -> [active: BOOLEAN, due: Floor..Period] \cup {Deleted}]
  /\ lock \in Worker \cup {None}
  /\ task \in [Worker -> Running \cup {"waiting", "dead"}]
  /\ batch \in [Worker -> SUBSET Schedule]
  /\ current \in [Worker -> Schedule \cup {None}]
  /\ since \in [Worker -> 0..MaxRound]
  /\ timer \in [Worker -> 0..2]
  /\ fired \in [Schedule -> Nat]
  /\ crashes \in 0..MaxCrashes
  /\ calm \in BOOLEAN
  /\ \A w \in Worker : task[w] \in Running => lock = w

\* A schedule's power action is done at most once for each of its times, and
\* once more for each crash: not once per worker, and not once per attempt.
FiredOncePerCrash == \A s \in Schedule : fired[s] <= 1 + crashes

\* No task is calling for the schedule or has yet to look at it.
LeftAlone(s) == \A w \in Worker : current[w] # s /\ s \notin batch[w]

Missed(s) == s \in Active /\ LeftAlone(s) /\ sched[s].due < -Window(s)

\* An active schedule is fired within its window: one whose window has passed
\* would stay active and never fire.  That needs a round of slow or failing
\* calls with its sleep to fit the two minutes, and no crash; the five minutes
\* of a recurring schedule outlast a crash too.  What breaks it is a loop that
\* died on a deleted schedule, or a schedule that was toggled on when its time
\* had come already, which toggle_server_schedule does not set anew.
MissedOnlyAfterFault ==
  \A s \in Schedule : Missed(s) => ~calm \/ (s \notin Recurring /\ crashes > 0)

\* The README's "Schedule automatic power on/off actions": a recurring schedule
\* that stays active comes up again and again; crashes do not stop it.
KeepsFiring ==
  []calm => \A s \in Recurring : []<>(s \notin Active \/ \E w \in Worker : current[w] = s)

=============================================================================
