-------------------------- MODULE Schedules_proofs --------------------------
(***************************************************************************)
(* Proofs about the schedule executor, for any number of workers and       *)
(* schedules, any windows and any number of crashes.                       *)
(***************************************************************************)
EXTENDS Schedules, FiniteSetTheorems, TLAPS

N == Cardinality(Schedule)

Busy(w) == task[w] \in {"calling", "acted"}
Left(w) == Cardinality(batch[w])

\* A task has a batch and a current schedule only in the middle of a round.
BatchInv ==
  \A w \in Worker :
    /\ Busy(w) => current[w] \in Schedule \ batch[w]
    /\ ~Busy(w) => current[w] = None
    /\ task[w] = "scan" => batch[w] # {}
    /\ task[w] \notin {"scan", "calling", "acted"} => batch[w] = {}

\* Each call of a round has taken one tick at most.
ClockInv ==
  \A w \in Worker :
    /\ task[w] \in Running => timer[w] <= 1
    /\ Busy(w) => since[w] - timer[w] + 1 + Left(w) <= N
    /\ task[w] = "scan" => since[w] + Left(w) <= N
    /\ since[w] <= N

\* By the clock the round goes by, what is called was in its window.
DueInv ==
  \A w \in Worker :
    Busy(w) /\ current[w] \in Rows
      => InWindow(current[w], sched[current[w]].due + since[w])

IInv == TypeOK /\ BatchInv /\ ClockInv /\ DueInv

-----------------------------------------------------------------------------
(* Counting schedules and matches.                                         *)

LEMMA Constants ==
  /\ N \in Nat /\ IsFiniteSet(Schedule) /\ Recurring \subseteq Schedule
  /\ Period \in Nat \ {0} /\ OnceWindow \in Nat \ {0} /\ CronWindow \in Nat \ {0}
  /\ OnceWindow <= CronWindow /\ MaxCrashes \in Nat
  /\ None \notin Worker /\ None \notin Schedule
  /\ MaxRound = N + 1 /\ Floor = -(CronWindow + N + 2)
<1>1. N \in Nat
  BY ScheduleAssumption, FS_CardinalityType DEF N
<1>2. MaxRound = N + 1 /\ Floor = -(CronWindow + N + 2)
  BY <1>1, TimeAssumption DEF MaxRound, Floor, N
<1>3. QED
  BY <1>1, <1>2, ScheduleAssumption, TimeAssumption, BoundAssumption, NoneAssumption

LEMMA Counts ==
  ASSUME NEW B \in SUBSET Schedule
  PROVE  /\ Cardinality(B) \in Nat /\ Cardinality(B) <= N
         /\ B = {} => Cardinality(B) = 0
         /\ B # {} => Cardinality(B) >= 1
         /\ \A s \in B : Cardinality(B \ {s}) = Cardinality(B) - 1
         /\ \A s \in Schedule \ B : Cardinality(B) <= N - 1
         /\ \A s, t \in Schedule \ B : s # t => Cardinality(B) <= N - 2
<1>1. IsFiniteSet(B) /\ Cardinality(B) <= N /\ IsFiniteSet(Schedule)
  BY Constants, FS_Subset DEF N
<1>2. Cardinality(B) \in Nat /\ N \in Nat
  BY <1>1, Constants, FS_CardinalityType
<1>3. B = {} => Cardinality(B) = 0
  BY FS_EmptySet
<1>4. \A s \in B : Cardinality(B \ {s}) = Cardinality(B) - 1
  BY <1>1, FS_RemoveElement
<1>5. ASSUME B # {} PROVE Cardinality(B) >= 1
  BY <1>1, <1>2, <1>5, FS_EmptySet
<1>6. ASSUME NEW s \in Schedule \ B
      PROVE  /\ B \cup {s} \subseteq Schedule /\ IsFiniteSet(B \cup {s})
             /\ Cardinality(B \cup {s}) = Cardinality(B) + 1
             /\ Cardinality(B) <= N - 1
  <2>1. IsFiniteSet(B \cup {s}) /\ Cardinality(B \cup {s}) = Cardinality(B) + 1
    BY <1>1, FS_AddElement
  <2>2. B \cup {s} \in SUBSET Schedule
    OBVIOUS
  <2>3. Cardinality(B \cup {s}) <= Cardinality(Schedule)
    BY <1>1, <2>2, FS_Subset
  <2>4. QED
    BY <1>2, <2>1, <2>2, <2>3 DEF N
<1>7. ASSUME NEW s \in Schedule \ B, NEW t \in Schedule \ B, s # t
      PROVE  Cardinality(B) <= N - 2
  <2>1. /\ B \cup {s} \subseteq Schedule /\ IsFiniteSet(B \cup {s})
        /\ Cardinality(B \cup {s}) = Cardinality(B) + 1
    BY <1>6
  <2>2. Cardinality((B \cup {s}) \cup {t}) = Cardinality(B) + 2
    BY <1>2, <1>7, <2>1, FS_AddElement
  <2>3. (B \cup {s}) \cup {t} \in SUBSET Schedule
    BY <2>1
  <2>4. Cardinality((B \cup {s}) \cup {t}) <= Cardinality(Schedule)
    BY <1>1, <2>3, FS_Subset
  <2>5. QED
    BY <1>2, <2>2, <2>4 DEF N
<1>8. QED
  BY <1>1, <1>2, <1>3, <1>4, <1>5, <1>6, <1>7

\* The next match is the first one after the time the loop has read.
LEMMA NextMatch ==
  ASSUME NEW due \in Int, NEW elapsed \in Int, due + elapsed \in (-CronWindow)..0
  PROVE  /\ NextCron(due, elapsed) \in Int
         /\ NextCron(due, elapsed) + elapsed \in 1..Period
<1> DEFINE x == -(due + elapsed)
           q == x \div Period
           Hit(k) == due + elapsed + Period * k \in 1..Period
<1>1. x \in 0..CronWindow /\ Period \in Nat \ {0} /\ CronWindow \in Nat
  BY Constants
<1>2. q \in Int /\ Period * q <= x /\ x < Period * q + Period
  BY <1>1
<1>3. q >= 0 /\ q <= CronWindow
  BY <1>1, <1>2
<1>4. Period * (q + 1) = Period * q + Period
  BY <1>1, <1>2
<1>5. q + 1 \in 1..CronWindow + 1 /\ Hit(q + 1)
  BY <1>1, <1>2, <1>3, <1>4
<1>6. \E k \in 1..CronWindow + 1 : Hit(k)
  BY <1>5
<1>7. DEFINE m == CHOOSE k \in 1..CronWindow + 1 : Hit(k)
<1>8. m \in 1..CronWindow + 1 /\ Hit(m)
  BY <1>6
<1>9. NextCron(due, elapsed) = due + Period * m
  BY DEF NextCron
<1> HIDE DEF m
<1>10. Period * m \in Int
  BY <1>1, <1>8
<1>11. QED
  BY <1>8, <1>9, <1>10

-----------------------------------------------------------------------------
(* Types and the bookkeeping of a round.                                   *)

LEMMA IInvInit == Init => IInv
<1> SUFFICES ASSUME Init PROVE IInv
  OBVIOUS
<1> USE Constants DEF Init
<1>0. sched \in [Schedule -> [active: BOOLEAN, due: Floor..Period] \cup {Deleted}]
  <2>1. 1..Period \subseteq Floor..Period
    OBVIOUS
  <2>2. [active: {TRUE}, due: 1..Period] \subseteq [active: BOOLEAN, due: Floor..Period]
    BY ONLY <2>1
  <2>3. sched \in [Schedule -> [active: {TRUE}, due: 1..Period]]
    OBVIOUS
  <2>4. QED
    BY ONLY <2>2, <2>3
<1>1. TypeOK
  BY <1>0 DEF TypeOK, Running
<1>2. BatchInv /\ ClockInv /\ DueInv
  BY DEF BatchInv, ClockInv, DueInv, Busy, Left, Running
<1>3. QED
  BY <1>1, <1>2 DEF IInv

\* Only the holder of the lock is in the loop.
LEMMA OneRunner ==
  ASSUME IInv, NEW v \in Worker, NEW w \in Worker, task[v] \in Running, task[w] \in Running
  PROVE  v = w
BY DEF IInv, TypeOK

LEMMA TryLockStep ==
  ASSUME IInv, NEW w \in Worker, TryLock(w) PROVE IInv'
<1> USE Constants DEF TryLock, IInv
<1>1. TypeOK'
  BY DEF TypeOK, Running
<1>2. BatchInv' /\ ClockInv'
  BY DEF TypeOK, Running, BatchInv, ClockInv, Busy, Left
<1>3. DueInv'
  BY DEF TypeOK, Running, DueInv, Busy, Rows, InWindow, Window
<1>4. QED
  BY <1>1, <1>2, <1>3

LEMMA WakeStep ==
  ASSUME IInv, NEW w \in Worker, Wake(w) PROVE IInv'
<1> DEFINE due == {s \in Active : InWindow(s, sched[s].due)}
<1>1. /\ task[w] = "asleep" /\ since' = [since EXCEPT ![w] = 0]
      /\ UNCHANGED <<sched, lock, fired, crashes, calm>>
      /\ lock = w /\ batch[w] = {}
  BY DEF Wake, IInv, TypeOK, BatchInv, Running
<1>2. Active \subseteq Schedule /\ due \subseteq Active
  BY DEF Active, Rows
<1>3. CASE due = {} /\ Sleep(w) /\ UNCHANGED batch
  <2> USE Constants, <1>1, <1>3 DEF Sleep, IInv
  <2>1. TypeOK'
    BY DEF TypeOK, Running
  <2>2. BatchInv' /\ ClockInv'
    BY DEF TypeOK, Running, BatchInv, ClockInv, Busy, Left
  <2>3. DueInv'
    BY DEF TypeOK, DueInv, Busy, Rows, InWindow, Window
  <2>4. QED
    BY <2>1, <2>2, <2>3
<1>4. ASSUME NEW s \in due, NEW skipped \in SUBSET (Active \ due), Call(w, s),
             batch' = [batch EXCEPT ![w] = Active \ ({s} \cup skipped)]
      PROVE  IInv'
  <2> DEFINE B == Active \ ({s} \cup skipped)
  <2>1. s \in Schedule /\ B \in SUBSET Schedule /\ s \notin B
    BY <1>2
  <2>2. Cardinality(B) \in Nat /\ Cardinality(B) <= N - 1
    BY <2>1, Counts
  <2>3. s \in Rows => InWindow(s, sched[s].due)
    OBVIOUS
  <2>4. /\ task' = [task EXCEPT ![w] = "calling"] /\ current' = [current EXCEPT ![w] = s]
        /\ timer' = [timer EXCEPT ![w] = 0] /\ batch' = [batch EXCEPT ![w] = B]
    BY <1>4 DEF Call
  <2> HIDE DEF B
  <2> USE Constants, <1>1, <2>1, <2>4 DEF IInv
  <2>5. TypeOK'
    BY DEF TypeOK, Running
  <2>6. BatchInv'
    BY DEF TypeOK, Running, BatchInv, Busy
  <2>7. ClockInv'
    BY <2>2 DEF TypeOK, Running, ClockInv, Busy, Left
  <2>8. \A v \in Worker \ {w} : ~Busy(v)'
    BY DEF TypeOK, Running, Busy
  <2>9. current'[w] = s /\ since'[w] = 0 /\ (s \in Rows => sched[s].due \in Int)
    BY DEF TypeOK, Rows
  <2>10. DueInv'
    BY <2>3, <2>8, <2>9 DEF TypeOK, DueInv, Rows, InWindow, Window
  <2>11. QED
    BY <2>5, <2>6, <2>7, <2>10
<1>5. QED
  BY <1>3, <1>4 DEF Wake

LEMMA ActStep ==
  ASSUME IInv, NEW w \in Worker, Act(w) PROVE IInv'
<1>0. current[w] \in Schedule
  BY DEF Act, IInv, BatchInv, Busy
<1> USE Constants, <1>0 DEF Act, IInv
<1>1. TypeOK'
  BY DEF TypeOK, Running
<1>2. BatchInv' /\ ClockInv'
  BY DEF TypeOK, Running, BatchInv, ClockInv, Busy, Left
<1>3. DueInv'
  BY DEF TypeOK, DueInv, Busy, Rows, InWindow, Window
<1>4. QED
  BY <1>1, <1>2, <1>3

LEMMA DieStep ==
  ASSUME IInv, NEW w \in Worker, task[w] \in Running, Die(w), UNCHANGED <<since, crashes>>
  PROVE  IInv'
<1>1. \A v \in Worker \ {w} : task[v] \notin Running
  BY OneRunner
<1> USE Constants, <1>1 DEF Die, IInv
<1>2. TypeOK'
  BY DEF TypeOK, Running
<1>3. BatchInv' /\ ClockInv'
  BY DEF TypeOK, Running, BatchInv, ClockInv, Busy, Left
<1>4. DueInv'
  BY DEF TypeOK, Running, DueInv, Busy, Rows
<1>5. QED
  BY <1>2, <1>3, <1>4

LEMMA RowFields ==
  ASSUME NEW r \in [active: BOOLEAN, due: Floor..Period]
  PROVE  /\ r.active \in BOOLEAN /\ r.due \in Floor..Period /\ r.due \in Int
         /\ \A d : [r EXCEPT !.due = d] = [active |-> r.active, due |-> d]
         /\ \A a : [r EXCEPT !.active = a] = [active |-> a, due |-> r.due]
BY Constants

\* What becomes of the row when the call has returned.
LEMMA Advanced ==
  ASSUME IInv, NEW w \in Worker, Busy(w), current[w] \in Rows, Advance(w, current[w])
  PROVE  LET s == current[w] IN
         /\ s \in Schedule /\ sched[s] \in [active: BOOLEAN, due: Floor..Period]
         /\ \E row \in [active: BOOLEAN, due: Floor..Period] :
              /\ sched' = [sched EXCEPT ![s] = row]
              /\ s \in Recurring => /\ row.active = sched[s].active
                                    /\ row.due + since[w] \in 1..Period
              /\ s \notin Recurring => row.active = FALSE
         /\ fired' = IF s \in Recurring THEN [fired EXCEPT ![s] = 0] ELSE fired
<1> DEFINE s == current[w]
           old == sched[s]
           d == NextCron(old.due, since[w])
<1>1. s \in Schedule /\ old \in [active: BOOLEAN, due: Floor..Period] /\ since[w] \in 0..N
  BY Constants DEF Rows, IInv, TypeOK, ClockInv
<1>2. old.due + since[w] <= 0 /\ old.due + since[w] >= -CronWindow
  BY <1>1, Constants, RowFields DEF IInv, DueInv, InWindow, Window
<1>3. old.due \in Int /\ old.active \in BOOLEAN /\ old.due \in Floor..Period
  BY <1>1, RowFields
<1>4. sched \in [Schedule -> [active: BOOLEAN, due: Floor..Period] \cup {Deleted}]
  BY DEF IInv, TypeOK
<1>5. CASE s \in Recurring
  <2>1. d \in Int /\ d + since[w] \in 1..Period
    BY <1>1, <1>2, <1>3, Constants, NextMatch
  <2>2. d \in Floor..Period
    BY <1>1, <2>1, Constants
  <2> HIDE DEF d
  <2>3. sched' = [sched EXCEPT ![s].due = d] /\ fired' = [fired EXCEPT ![s] = 0]
    BY <1>5 DEF Advance, d
  <2>4. sched' = [sched EXCEPT ![s] = [active |-> old.active, due |-> d]]
    BY <1>1, <1>4, <2>3, RowFields
  <2>5. [active |-> old.active, due |-> d] \in [active: BOOLEAN, due: Floor..Period]
    BY <1>3, <2>2
  <2>6. QED
    BY <1>1, <1>5, <2>1, <2>3, <2>4, <2>5
<1>6. CASE s \notin Recurring
  <2>1. sched' = [sched EXCEPT ![s].active = FALSE] /\ fired' = fired
    BY <1>6 DEF Advance
  <2>2. sched' = [sched EXCEPT ![s] = [active |-> FALSE, due |-> old.due]]
    BY <1>1, <1>4, <2>1, RowFields
  <2>3. [active |-> FALSE, due |-> old.due] \in [active: BOOLEAN, due: Floor..Period]
    BY <1>3
  <2>4. QED
    BY <1>1, <1>6, <2>1, <2>2, <2>3
<1>7. QED
  BY <1>5, <1>6

LEMMA ReturnStep ==
  ASSUME IInv, NEW w \in Worker, Return(w) PROVE IInv'
<1> DEFINE s == current[w]
<1>1. Busy(w) /\ task[w] \in Running /\ s \in Schedule \ batch[w]
  BY DEF Return, Returned, Busy, Running, IInv, BatchInv
<1>2. CASE s \notin Rows /\ Die(w) /\ UNCHANGED <<since, crashes>>
  BY <1>1, <1>2, DieStep
<1>3. CASE /\ s \in Rows /\ Advance(w, s) /\ After(w)
           /\ UNCHANGED <<lock, batch, calm, since, crashes>>
  <2>1. PICK row \in [active: BOOLEAN, due: Floor..Period] :
          sched' = [sched EXCEPT ![s] = row]
    BY <1>1, <1>3, Advanced
  <2>2. fired' = IF s \in Recurring THEN [fired EXCEPT ![s] = 0] ELSE fired
    BY <1>1, <1>3, Advanced
  <2>3. \A v \in Worker \ {w} : task[v] \notin Running
    BY <1>1, OneRunner
  <2>4. PICK to \in {"asleep", "scan"}, t \in 0..1 :
          /\ task' = [task EXCEPT ![w] = to] /\ current' = [current EXCEPT ![w] = None]
          /\ timer' = [timer EXCEPT ![w] = t]
          /\ to = "scan" <=> batch[w] # {}
    BY <1>1, <1>3, Constants DEF After, Sleep, IInv, TypeOK, ClockInv
  <2> USE Constants, <1>1, <1>3, <2>1, <2>2, <2>3, <2>4 DEF IInv
  <2>5. TypeOK'
    BY DEF TypeOK, Running
  <2>6. BatchInv'
    BY DEF TypeOK, Running, BatchInv, Busy
  <2>7. Left(w) \in Nat
    BY Counts DEF TypeOK, Left
  <2>8. ClockInv'
    BY <2>7 DEF TypeOK, Running, ClockInv, Busy, Left
  <2>9. \A v \in Worker : ~Busy(v)'
    BY DEF TypeOK, Running, Busy
  <2>10. DueInv'
    BY <2>9 DEF DueInv
  <2>11. QED
    BY <2>5, <2>6, <2>8, <2>10
<1>4. QED
  BY <1>2, <1>3 DEF Return

LEMMA ScanStep ==
  ASSUME IInv, NEW w \in Worker, Scan(w) PROVE IInv'
<1>1. PICK s \in batch[w] :
        /\ task[w] = "scan" /\ UNCHANGED <<since, crashes>>
        /\ \/ s \notin Rows /\ Die(w)
           \/ /\ s \in Rows
              /\ batch' = [batch EXCEPT ![w] = @ \ {s}]
              /\ \/ InWindow(s, sched[s].due + since[w]) /\ Call(w, s)
                 \/ /\ ~InWindow(s, sched[s].due + since[w])
                    /\ IF batch[w] = {s} THEN Sleep(w) ELSE UNCHANGED <<task, current, timer>>
              /\ UNCHANGED <<sched, fired, lock, calm>>
  BY DEF Scan
<1>2. task[w] \in Running /\ batch[w] \in SUBSET Schedule /\ s \in Schedule
  BY <1>1 DEF Running, IInv, TypeOK
<1>3. /\ Left(w) \in Nat /\ Cardinality(batch[w] \ {s}) = Left(w) - 1
      /\ since[w] + Left(w) <= N
  BY <1>1, <1>2, Counts DEF Left, IInv, ClockInv
<1>4. \A v \in Worker \ {w} : task[v] \notin Running
  BY <1>2, OneRunner
<1>5. CASE s \notin Rows /\ Die(w)
  BY <1>1, <1>2, <1>5, DieStep
<1>6. CASE /\ s \in Rows /\ InWindow(s, sched[s].due + since[w]) /\ Call(w, s)
           /\ batch' = [batch EXCEPT ![w] = @ \ {s}] /\ UNCHANGED <<sched, fired, lock, calm>>
  <2> USE Constants, <1>1, <1>2, <1>3, <1>4, <1>6 DEF IInv, Call
  <2>1. TypeOK'
    BY DEF TypeOK, Running
  <2>2. BatchInv'
    BY DEF TypeOK, Running, BatchInv, Busy
  <2>3. ClockInv'
    BY DEF TypeOK, Running, ClockInv, Busy, Left
  <2>4. \A v \in Worker \ {w} : ~Busy(v)'
    BY DEF TypeOK, Running, Busy
  <2>5. current'[w] = s
    BY DEF TypeOK
  <2>6. DueInv'
    BY <2>4, <2>5 DEF TypeOK, DueInv, Rows, InWindow, Window
  <2>7. QED
    BY <2>1, <2>2, <2>3, <2>6
<1>7. CASE /\ s \in Rows /\ batch' = [batch EXCEPT ![w] = @ \ {s}]
           /\ IF batch[w] = {s} THEN Sleep(w) ELSE UNCHANGED <<task, current, timer>>
           /\ UNCHANGED <<sched, fired, lock, calm>>
  <2> USE Constants, <1>1, <1>2, <1>3, <1>4, <1>7 DEF IInv, Sleep
  <2>1. TypeOK'
    BY DEF TypeOK, Running
  <2>2. BatchInv'
    BY DEF TypeOK, Running, BatchInv, Busy
  <2>3. ClockInv'
    BY DEF TypeOK, Running, ClockInv, Busy, Left
  <2>4. \A v \in Worker : ~Busy(v)'
    BY DEF TypeOK, Running, Busy
  <2>5. DueInv'
    BY <2>4 DEF DueInv
  <2>6. QED
    BY <2>1, <2>2, <2>3, <2>5
<1>8. QED
  BY <1>1, <1>5, <1>6, <1>7

LEMMA DeleteStep ==
  ASSUME IInv, NEW s \in Schedule, DeleteSchedule(s) PROVE IInv'
<1> USE Constants DEF DeleteSchedule, IInv
<1>1. TypeOK'
  BY DEF TypeOK, Running
<1>2. BatchInv' /\ ClockInv'
  BY DEF BatchInv, ClockInv, Busy, Left
<1>3. \A t \in Rows' : t \in Rows /\ sched'[t] = sched[t]
  BY DEF TypeOK, Rows
<1>4. DueInv'
  BY <1>3 DEF DueInv, Busy, InWindow, Window
<1>5. QED
  BY <1>1, <1>2, <1>4

\* The row that is toggled keeps its time.
LEMMA Toggled ==
  ASSUME IInv, NEW s \in Schedule, Toggle(s)
  PROVE  /\ sched[s] \in [active: BOOLEAN, due: Floor..Period]
         /\ \E a \in BOOLEAN :
              /\ a # sched[s].active
              /\ sched' = [sched EXCEPT ![s] = [active |-> a, due |-> sched[s].due]]
<1>1. sched[s] \in [active: BOOLEAN, due: Floor..Period]
  BY DEF Toggle, Rows, IInv, TypeOK
<1>2. sched' = [sched EXCEPT ![s] = [sched[s] EXCEPT !.active = ~sched[s].active]]
  BY DEF Toggle, IInv, TypeOK
<1>3. [sched[s] EXCEPT !.active = ~sched[s].active]
        = [active |-> ~sched[s].active, due |-> sched[s].due]
  BY <1>1, RowFields
<1>4. QED
  BY <1>1, <1>2, <1>3, RowFields

LEMMA ToggleStep ==
  ASSUME IInv, NEW s \in Schedule, Toggle(s) PROVE IInv'
<1>1. PICK a \in BOOLEAN :
        sched' = [sched EXCEPT ![s] = [active |-> a, due |-> sched[s].due]]
  BY Toggled
<1>2. /\ sched[s] \in [active: BOOLEAN, due: Floor..Period] /\ s \in Rows
      /\ sched[s].due \in Floor..Period
  BY Toggled, RowFields DEF Toggle
<1>3. [active |-> a, due |-> sched[s].due] \in [active: BOOLEAN, due: Floor..Period]
  BY <1>2
<1>4. sched' \in [Schedule -> [active: BOOLEAN, due: Floor..Period] \cup {Deleted}]
  BY <1>1, <1>3 DEF IInv, TypeOK
<1>5. fired' \in [Schedule -> Nat]
  BY DEF Toggle, IInv, TypeOK
<1>6. calm' \in BOOLEAN
  BY DEF Toggle
<1>7. UNCHANGED <<lock, task, batch, current, since, timer, crashes>>
  BY DEF Toggle
<1> USE Constants DEF IInv
<1>8. TypeOK'
  BY <1>4, <1>5, <1>6, <1>7 DEF TypeOK, Running
<1>9. BatchInv' /\ ClockInv'
  BY <1>7 DEF BatchInv, ClockInv, Busy, Left
<1>10. \A t \in Rows' : t \in Rows /\ sched'[t].due = sched[t].due
  BY <1>1, <1>2 DEF TypeOK, Rows
<1>11. DueInv'
  BY <1>10, <1>7 DEF DueInv, Busy, InWindow, Window
<1>12. QED
  BY <1>8, <1>9, <1>11

LEMMA CrashStep ==
  ASSUME IInv, NEW w \in Worker, Crash(w) PROVE IInv'
<1>1. \A v \in Worker \ {w} :
        task[v] \in Running => lock = v
  BY DEF IInv, TypeOK
<1>2. PICK n \in 0..1 :
        fired' = [s \in Schedule |-> IF s = current[w] THEN fired[s] + n ELSE fired[s]]
  BY DEF Crash
<1> USE Constants, <1>1, <1>2 DEF Crash, IInv
<1>3. fired' \in [Schedule -> Nat]
  BY DEF TypeOK
<1>4. TypeOK'
  BY <1>3 DEF TypeOK, Running
<1>5. BatchInv' /\ ClockInv'
  BY DEF TypeOK, Running, BatchInv, ClockInv, Busy, Left
<1>6. DueInv'
  BY DEF TypeOK, DueInv, Busy, Rows, InWindow, Window
<1>7. QED
  BY <1>4, <1>5, <1>6

\* A tick moves a row by one, unless it has long been over.
LEMMA Ticked ==
  ASSUME IInv, Tick, NEW s \in Rows'
  PROVE  /\ s \in Rows /\ sched[s].due \in Floor..Period
         /\ sched'[s].active = sched[s].active
         /\ sched'[s].due = IF sched[s].due > Floor THEN sched[s].due - 1 ELSE sched[s].due
<1>1. s \in Schedule /\ sched'[s] # Deleted
  BY DEF Rows
<1>2. sched'[s] = IF s \in Rows /\ sched[s].due > Floor
                    THEN [sched[s] EXCEPT !.due = @ - 1] ELSE sched[s]
  BY <1>1 DEF Tick
<1>3. s \in Rows
  BY <1>1, <1>2 DEF Rows
<1>4. sched[s] \in [active: BOOLEAN, due: Floor..Period]
  BY <1>3 DEF Rows, IInv, TypeOK
<1>5. QED
  BY <1>2, <1>3, <1>4, RowFields

LEMMA TickStep ==
  ASSUME IInv, Tick PROVE IInv'
<1>1. \A v \in Worker : task[v] # "dead" => timer[v] < Limit(task[v])
  BY DEF Tick
<1>2. \A v \in Worker : task[v] \in {"asleep", "calling", "acted"} => timer[v] < 1
  BY <1>1 DEF Limit
<1>3. \A v \in Worker : task[v] # "scan" /\ (task[v] = "waiting" => timer[v] < 2)
  BY <1>1, Constants DEF Limit, IInv, TypeOK
<1>4. ASSUME NEW s \in Schedule
      PROVE  sched'[s] \in [active: BOOLEAN, due: Floor..Period] \cup {Deleted}
  <2>1. sched'[s] = IF s \in Rows /\ sched[s].due > Floor
                      THEN [sched[s] EXCEPT !.due = @ - 1] ELSE sched[s]
    BY DEF Tick
  <2>2. CASE s \in Rows
    <3>1. sched[s] \in [active: BOOLEAN, due: Floor..Period]
      BY <2>2 DEF Rows, IInv, TypeOK
    <3>2. sched[s].due > Floor
            => [active |-> sched[s].active, due |-> sched[s].due - 1]
                 \in [active: BOOLEAN, due: Floor..Period]
      BY <3>1, RowFields, Constants
    <3>3. QED
      BY <2>1, <3>1, <3>2, RowFields
  <2>3. CASE s \notin Rows
    BY <2>1, <2>3 DEF IInv, TypeOK
  <2>4. QED
    BY <2>2, <2>3
<1>5. sched' \in [Schedule -> [active: BOOLEAN, due: Floor..Period] \cup {Deleted}]
  BY <1>4 DEF Tick
<1>6. ClockInv'
  <2> USE Constants, <1>2, <1>3 DEF Tick, IInv, TypeOK, ClockInv, Running, Busy
  <2>1. \A v \in Worker : Left(v)' = Left(v) /\ Left(v) \in Nat
    BY Counts DEF Left
  <2>2. QED
    BY <2>1
<1>7. \A v \in Worker : timer'[v] \in 0..2 /\ since'[v] \in 0..MaxRound
  BY <1>2, <1>3, <1>6, Constants DEF Tick, IInv, TypeOK, ClockInv, Running
<1>8. TypeOK'
  BY <1>5, <1>7 DEF Tick, IInv, TypeOK, Running
<1>9. BatchInv'
  BY DEF Tick, IInv, BatchInv, Busy
<1>10. ASSUME NEW v \in Worker, Busy(v)', current'[v] \in Rows'
       PROVE  InWindow(current[v], sched'[current[v]].due + since'[v])
  <2> DEFINE s == current[v]
  <2>1. /\ s \in Rows /\ sched[s].due \in Floor..Period
        /\ sched'[s].due = IF sched[s].due > Floor THEN sched[s].due - 1 ELSE sched[s].due
    BY <1>10, Ticked DEF Tick
  <2>2. Busy(v) /\ since'[v] = since[v] + 1 /\ since[v] \in Nat /\ since[v] <= N
    BY <1>10 DEF Tick, Busy, IInv, TypeOK, ClockInv
  <2>3. InWindow(s, sched[s].due + since[v])
    BY <2>1, <2>2 DEF IInv, DueInv
  <2>4. sched[s].due > Floor
    BY <2>1, <2>2, <2>3, Constants DEF InWindow, Window
  <2>5. sched'[s].due + since'[v] = sched[s].due + since[v]
    BY <2>1, <2>2, <2>4, Constants
  <2>6. QED
    BY <2>3, <2>5
<1>11. DueInv'
  BY <1>10 DEF DueInv, Tick, InWindow, Window
<1>12. QED
  BY <1>8, <1>6, <1>9, <1>11 DEF IInv

LEMMA IInvStep == IInv /\ [Next]_vars => IInv'
<1> SUFFICES ASSUME IInv, [Next]_vars PROVE IInv'
  OBVIOUS
<1>1. ASSUME NEW w \in Worker, RunDueSchedules(w) PROVE IInv'
  BY <1>1, TryLockStep, WakeStep, ActStep, ReturnStep, ScanStep DEF RunDueSchedules
<1>2. CASE UNCHANGED vars
  BY <1>2 DEF vars, IInv, TypeOK, BatchInv, ClockInv, DueInv, Busy, Left, Rows, InWindow
<1>3. QED
  BY <1>1, <1>2, CrashStep, DeleteStep, ToggleStep, TickStep DEF Next

\* The bookkeeping of the loop holds in every state.
THEOREM RoundsTracked == Spec => []IInv
BY IInvInit, IInvStep, PTL DEF Spec

\* The rows, clocks and tasks have their types, and only the worker that holds
\* the advisory lock is in the loop, whatever crashes and dies.
THEOREM TypeCorrect == Spec => []TypeOK
<1>1. IInv => TypeOK
  BY DEF IInv
<1>2. QED
  BY <1>1, RoundsTracked, PTL

-----------------------------------------------------------------------------
(* A schedule's action is done once for each of its times, and once more   *)
(* for each crash.  What may still be called has been done no more often   *)
(* than processes have crashed: only a call that is not over has its       *)
(* action ahead of the row that records it.                                *)

Acted(s) == \E w \in Worker : task[w] = "acted" /\ current[w] = s
Ahead(s) == \E w \in Worker : s \in batch[w] \/ (task[w] = "calling" /\ current[w] = s)

FireInv ==
  \A s \in Schedule :
    /\ fired[s] <= crashes + 1
    /\ (s \in Active /\ ~Acted(s)) \/ Ahead(s) => fired[s] <= crashes

\* A step that neither fires nor asks again keeps the count.
LEMMA FireKept ==
  ASSUME IInv, FireInv, UNCHANGED crashes,
         \A s \in Schedule : fired'[s] = fired[s] \/ fired'[s] = 0,
         \A s \in Schedule : s \in Active' /\ fired'[s] # 0 => s \in Active,
         \A s \in Schedule : Acted(s) => Acted(s)' \/ s \notin Active' \/ fired'[s] = 0,
         \A s \in Schedule : Ahead(s)' => Ahead(s) \/ (s \in Active /\ ~Acted(s))
  PROVE  FireInv'
BY Constants DEF FireInv, IInv, TypeOK

LEMMA FireStep ==
  ASSUME IInv, FireInv, [Next]_vars PROVE FireInv'
<1>1. ASSUME NEW w \in Worker, TryLock(w) PROVE FireInv'
  <2>1. /\ UNCHANGED <<sched, batch, current, fired, crashes>>
        /\ \A v \in Worker : task'[v] = task[v] \/ (task[v] = "waiting" /\ task'[v] = "asleep")
    BY <1>1 DEF TryLock, IInv, TypeOK
  <2>2. QED
    BY <2>1, FireKept DEF Active, Rows, Acted, Ahead
<1>2. ASSUME NEW w \in Worker, Wake(w) PROVE FireInv'
  <2>1. /\ task[w] = "asleep" /\ UNCHANGED <<sched, fired, crashes>>
        /\ \A v \in Worker \ {w} : task[v] \notin Running
    BY <1>2, OneRunner DEF Wake, Running
  <2>2. \A s \in Schedule : ~Acted(s)
    BY <2>1 DEF Acted, Running
  <2>3. \A v \in Worker : batch'[v] \subseteq batch[v] \cup Active
    BY <1>2 DEF Wake, IInv, TypeOK
  <2>4. \A v \in Worker : task'[v] = "calling" => current'[v] \in Active \/ (task[v] = "calling" /\ current'[v] = current[v])
    BY <1>2 DEF Wake, Call, Sleep, IInv, TypeOK
  <2>5. Active' = Active
    BY <2>1 DEF Active, Rows
  <2>6. QED
    BY <2>1, <2>2, <2>3, <2>4, <2>5, FireKept DEF Ahead
<1>3. ASSUME NEW w \in Worker, Act(w) PROVE FireInv'
  <2>1. /\ task[w] = "calling" /\ current[w] \in Schedule \ batch[w]
        /\ \A v \in Worker \ {w} : task[v] \notin Running
    BY <1>3, OneRunner DEF Act, Running, IInv, BatchInv, Busy
  <2>2. PICK s \in Schedule : s = current[w]
    BY <2>1
  <2>3. /\ task' = [task EXCEPT ![w] = "acted"] /\ fired' = [fired EXCEPT ![s] = fired[s] + 1]
        /\ UNCHANGED <<sched, batch, current, crashes>>
    BY <1>3, <2>2 DEF Act
  <2>4. fired[s] <= crashes
    BY <2>1, <2>2 DEF FireInv, Ahead
  <2>5. Acted(s)' /\ ~Ahead(s)'
    BY <2>1, <2>2, <2>3 DEF Acted, Ahead, IInv, TypeOK, BatchInv, Running, Busy
  <2>6. \A t \in Schedule \ {s} :
          /\ fired'[t] = fired[t] /\ (t \in Active' => t \in Active)
          /\ (Ahead(t)' => Ahead(t)) /\ (Acted(t) => Acted(t)')
    BY <2>1, <2>2, <2>3 DEF Acted, Ahead, Active, Rows, IInv, TypeOK
  <2>7. fired'[s] = fired[s] + 1 /\ crashes' = crashes /\ crashes \in Nat
    BY <2>1, <2>2, <2>3, Constants DEF IInv, TypeOK
  <2>8. \A t \in Schedule : fired[t] \in Nat
    BY DEF IInv, TypeOK
  <2>9. ASSUME NEW t \in Schedule
        PROVE  /\ fired'[t] <= crashes' + 1
               /\ (t \in Active' /\ ~Acted(t)') \/ Ahead(t)' => fired'[t] <= crashes'
    <3>1. CASE t = s
      BY <2>4, <2>5, <2>7, <2>8, <3>1
    <3>2. CASE t # s
      BY <2>6, <2>7, <3>2 DEF FireInv
    <3>3. QED
      BY <3>1, <3>2
  <2>10. QED
    BY <2>9 DEF FireInv
<1>4. ASSUME NEW w \in Worker, Return(w) PROVE FireInv'
  <2> DEFINE s == current[w]
  <2>1. /\ Busy(w) /\ s \in Schedule \ batch[w] /\ UNCHANGED crashes
        /\ \A v \in Worker \ {w} : task[v] \notin Running
    BY <1>4, OneRunner DEF Return, Returned, Running, IInv, BatchInv, Busy
  <2>2. \A v \in Worker : batch'[v] \subseteq batch[v] /\ (v # w => task'[v] = task[v] /\ current'[v] = current[v])
    BY <1>4 DEF Return, Die, After, Sleep, IInv, TypeOK
  <2>3. task'[w] \notin {"calling", "acted"}
    BY <1>4 DEF Return, Die, After, Sleep, IInv, TypeOK
  <2>4. \A t \in Schedule : (Acted(t) => t = s) /\ (Ahead(t)' => Ahead(t))
    BY <2>1, <2>2, <2>3 DEF Acted, Ahead, Running
  <2>5. CASE s \notin Rows /\ Die(w)
    <3>1. Active' = Active /\ s \notin Active /\ UNCHANGED fired
      BY <2>5 DEF Die, Active, Rows
    <3>2. QED
      BY <2>1, <2>4, <3>1, FireKept
  <2>6. CASE s \in Rows /\ Advance(w, s)
    <3>1. PICK row \in [active: BOOLEAN, due: Floor..Period] :
            /\ sched' = [sched EXCEPT ![s] = row]
            /\ s \notin Recurring => row.active = FALSE
      BY <2>1, <2>6, Advanced
    <3>2. fired' = IF s \in Recurring THEN [fired EXCEPT ![s] = 0] ELSE fired
      BY <2>1, <2>6, Advanced
    <3>3. \A t \in Schedule : fired'[t] = IF t = s /\ s \in Recurring THEN 0 ELSE fired[t]
      BY <3>2 DEF IInv, TypeOK
    <3>4. \A t \in Schedule \ {s} : sched'[t] = sched[t]
      BY <3>1 DEF IInv, TypeOK
    <3>5. \A t \in Schedule \ {s} : t \in Active' => t \in Active
      BY <3>4 DEF Active, Rows
    <3>6. s \notin Recurring => s \notin Active'
      BY <2>1, <3>1 DEF IInv, TypeOK, Active, Rows
    <3>7. QED
      BY <2>1, <2>4, <3>3, <3>5, <3>6, FireKept
  <2>7. QED
    BY <1>4, <2>5, <2>6 DEF Return
<1>5. ASSUME NEW w \in Worker, Scan(w) PROVE FireInv'
  <2>1. /\ task[w] = "scan" /\ UNCHANGED <<sched, fired, crashes>>
        /\ \A v \in Worker \ {w} : task[v] \notin Running
    BY <1>5, OneRunner DEF Scan, Die, Running
  <2>2. \A v \in Worker : batch'[v] \subseteq batch[v]
    BY <1>5 DEF Scan, Die, IInv, TypeOK
  <2>3. \A v \in Worker :
          task'[v] = "calling" => current'[v] \in batch[v] \/ (task[v] = "calling" /\ current'[v] = current[v])
    BY <1>5 DEF Scan, Die, Call, Sleep, IInv, TypeOK
  <2>4. \A s \in Schedule : ~Acted(s) /\ (Ahead(s)' => Ahead(s))
    BY <2>1, <2>2, <2>3 DEF Acted, Ahead, Running
  <2>5. Active' = Active
    BY <2>1 DEF Active, Rows
  <2>6. QED
    BY <2>1, <2>4, <2>5, FireKept
<1>6. ASSUME NEW s \in Schedule, DeleteSchedule(s) PROVE FireInv'
  <2>1. Active' \subseteq Active
    BY <1>6 DEF DeleteSchedule, Active, Rows, IInv, TypeOK
  <2>2. QED
    BY <1>6, <2>1, FireKept DEF DeleteSchedule, Acted, Ahead
<1>7. ASSUME NEW s \in Schedule, Toggle(s) PROVE FireInv'
  <2>1. UNCHANGED <<task, batch, current, crashes>>
    BY <1>7 DEF Toggle
  <2>2. PICK a \in BOOLEAN :
          a # sched[s].active /\ sched' = [sched EXCEPT ![s] = [active |-> a, due |-> sched[s].due]]
    BY <1>7, Toggled
  <2>3. \A t \in Schedule : fired'[t] = IF t = s /\ ~sched[s].active THEN 0 ELSE fired[t]
    BY <1>7 DEF Toggle, IInv, TypeOK
  <2>4. \A t \in Active' : t # s => t \in Active
    BY <2>2 DEF Active, Rows, IInv, TypeOK
  <2>5. s \in Active' => ~sched[s].active
    <3>1. sched'[s].active = a
      BY <2>2 DEF IInv, TypeOK
    <3>2. QED
      BY <2>2, <3>1 DEF Active
  <2>6. QED
    BY <2>1, <2>3, <2>4, <2>5, FireKept DEF Acted, Ahead
<1>8. ASSUME NEW w \in Worker, Crash(w) PROVE FireInv'
  <2>1. PICK n \in IF task[w] = "calling" THEN 0..1 ELSE {0} :
          fired' = [s \in Schedule |-> IF s = current[w] THEN fired[s] + n ELSE fired[s]]
    BY <1>8 DEF Crash
  <2>2. crashes' = crashes + 1 /\ crashes \in Nat /\ fired \in [Schedule -> Nat]
    BY <1>8, Constants DEF Crash, IInv, TypeOK
  <2>3. \A s \in Schedule : task[w] = "calling" /\ s = current[w] => fired[s] <= crashes
    BY DEF FireInv, Ahead
  <2>4. \A s \in Schedule : fired'[s] <= crashes + 1
    BY <2>1, <2>2, <2>3 DEF FireInv
  <2>5. \A s \in Schedule : fired'[s] \in Nat
    BY IInvStep DEF IInv, TypeOK
  <2>6. \A s \in Schedule : fired'[s] <= crashes' /\ fired'[s] <= crashes' + 1
    BY <2>2, <2>4, <2>5
  <2>7. QED
    BY <2>6 DEF FireInv
<1>9. ASSUME Tick PROVE FireInv'
  <2>1. \A s \in Active' : s \in Active
    BY <1>9, Ticked DEF Active
  <2>2. QED
    BY <1>9, <2>1, FireKept DEF Tick, Acted, Ahead
<1>10. CASE UNCHANGED vars
  BY <1>10 DEF vars, FireInv, Acted, Ahead, Active, Rows
<1>11. QED
  BY <1>1, <1>2, <1>3, <1>4, <1>5, <1>6, <1>7, <1>8, <1>9, <1>10 DEF Next, RunDueSchedules

\* A schedule's power action is done at most once for each of its times, and
\* once more for each crash, however many workers run the executor.
THEOREM FiredAtMostOncePerCrash == Spec => []FiredOncePerCrash
<1>1. Init => FireInv
  BY Constants DEF Init, FireInv
<1>2. FireInv /\ IInv => FiredOncePerCrash
  BY Constants DEF FireInv, FiredOncePerCrash, IInv, TypeOK
<1>3. IInv /\ FireInv /\ [Next]_vars => FireInv'
  BY FireStep
<1>4. QED
  BY <1>1, <1>2, <1>3, RoundsTracked, PTL DEF Spec

-----------------------------------------------------------------------------
(* A schedule is fired within its window.  While nothing has gone wrong,   *)
(* the loop comes back to a schedule that it has left alone in Rest ticks  *)
(* at most, and finds it no more than Late ticks over its time: a round    *)
(* with a call for every other schedule, and for a recurring one also a    *)
(* round and a sleep for each crash.                                       *)

\* The longest round fits the windows of the schedules there are.
RoundFits ==
  /\ Recurring # Schedule => N - 1 <= OnceWindow
  /\ N + MaxCrashes * (N + 1) <= CronWindow

RestOf(w) ==
  IF task[w] = "asleep" THEN 1 - timer[w]
  ELSE Left(w) + (IF task[w] = "scan" THEN 1 ELSE 2 - timer[w])

Rest == IF lock = None THEN 1 ELSE RestOf(lock)

Late(s) == IF s \in Recurring THEN N + crashes * (N + 1) ELSE N - 1
Counted(s) == s \in Recurring \/ crashes = 0

\* Some worker is in the loop, or about to try for the lock.
AliveInv ==
  /\ lock = None => \E w \in Worker : task[w] = "waiting" /\ timer[w] = 2
  /\ lock # None => task[lock] \in Running
  /\ \A w \in Worker : task[w] # "dead"

InRound(s, w) == s \in batch[w] \/ s = current[w]

LateInv ==
  \A s \in Schedule : Counted(s) =>
    /\ s \in Active /\ LeftAlone(s) => sched[s].due - Rest >= -Late(s)
    /\ \A w \in Worker :
         s \in Rows /\ InRound(s, w) => sched[s].due + since[w] >= -Late(s)

TimeInv == calm => AliveInv /\ LateInv

LEMMA LateBounds ==
  ASSUME IInv, RoundFits, NEW s \in Schedule, Counted(s)
  PROVE  /\ Late(s) \in Int /\ N - 1 <= Late(s) /\ Late(s) <= Window(s)
         /\ s \in Recurring => N <= Late(s)
         /\ N >= 1 /\ Window(s) \in Nat
<1>1. N >= 1 /\ N \in Nat
  BY Constants, Counts
<1>2. crashes \in Nat /\ crashes <= MaxCrashes /\ MaxCrashes \in Nat
  BY Constants DEF IInv, TypeOK
<1>3. crashes * (N + 1) \in Nat /\ crashes * (N + 1) <= MaxCrashes * (N + 1)
  BY <1>1, <1>2
<1>4. Window(s) \in Nat
  BY Constants DEF Window
<1>5. CASE s \in Recurring
  BY <1>1, <1>2, <1>3, <1>4, <1>5, Constants DEF RoundFits, Late, Window
<1>6. CASE s \notin Recurring
  BY <1>1, <1>4, <1>6, Constants DEF RoundFits, Late, Window
<1>7. QED
  BY <1>5, <1>6

\* What is known of a row and of the clocks.
LEMMA Numbers ==
  ASSUME IInv
  PROVE  /\ \A s \in Rows : sched[s].due \in Int
         /\ \A w \in Worker : /\ since[w] \in Nat /\ timer[w] \in Nat /\ Left(w) \in Nat
                              /\ since[w] <= N
         /\ AliveInv => Rest \in Nat
         /\ \A w \in Worker : task[w] \in Running => lock = w /\ Rest = RestOf(w)
<1>1. \A s \in Rows : sched[s].due \in Int
  BY RowFields DEF Rows, IInv, TypeOK
<1>2. \A w \in Worker : /\ since[w] \in Nat /\ timer[w] \in Nat /\ Left(w) \in Nat
                        /\ since[w] <= N
  BY Constants, Counts DEF IInv, TypeOK, ClockInv, Left
<1>3. \A w \in Worker : task[w] \in Running => lock = w /\ Rest = RestOf(w)
  BY Constants DEF IInv, TypeOK, Rest
<1>4. ASSUME AliveInv PROVE Rest \in Nat
  <2>1. CASE lock = None
    BY <2>1 DEF Rest
  <2>2. CASE lock # None
    <3>1. lock \in Worker /\ task[lock] \in Running /\ timer[lock] \in 0..1
      BY <1>2, <1>4, <2>2 DEF AliveInv, IInv, TypeOK, ClockInv
    <3>2. QED
      BY <1>2, <1>3, <3>1 DEF RestOf
  <2>3. QED
    BY <2>1, <2>2
<1>5. QED
  BY <1>1, <1>2, <1>3, <1>4

LEMMA RestNat == IInv /\ AliveInv => Rest \in Nat
BY Numbers

LEMMA RestNatNext == (IInv /\ AliveInv => Rest \in Nat)'
BY RestNat, PTL

\* A step that leaves the rows alone, brings no schedule into a round and does
\* not put off the loop's return.
LEMMA LateKept ==
  ASSUME IInv, IInv', AliveInv, AliveInv', LateInv, UNCHANGED crashes, Rest' <= Rest,
         \A s \in Active' : s \in Active /\ sched'[s] = sched[s],
         \A s \in Rows' : s \in Rows /\ sched'[s].due = sched[s].due,
         \A s \in Schedule, w \in Worker : InRound(s, w)' => InRound(s, w) /\ since'[w] = since[w],
         \A s \in Active' : LeftAlone(s)' => LeftAlone(s)
  PROVE  LateInv'
<1>1. Rest \in Nat /\ Rest' \in Nat
  BY RestNat, RestNatNext
<1>2. \A s \in Schedule : Late(s)' = Late(s) /\ Counted(s)' = Counted(s)
  BY DEF Late, Counted
<1>3. ASSUME NEW s \in Schedule, Counted(s), s \in Active', LeftAlone(s)'
      PROVE  sched'[s].due - Rest' >= -Late(s)
  <2>1. sched[s].due \in Int /\ sched'[s].due = sched[s].due
    BY <1>3, Numbers DEF Active
  <2>2. sched[s].due - Rest >= -Late(s)
    BY <1>3 DEF LateInv
  <2>3. Late(s) \in Int
    BY Constants DEF Late, IInv, TypeOK
  <2>4. QED
    BY <1>1, <2>1, <2>2, <2>3
<1>4. ASSUME NEW s \in Schedule, Counted(s), NEW w \in Worker, s \in Rows', InRound(s, w)'
      PROVE  sched'[s].due + since'[w] >= -Late(s)
  BY <1>4 DEF LateInv
<1>5. QED
  BY <1>2, <1>3, <1>4 DEF LateInv

LEMMA TryLockLate ==
  ASSUME IInv, IInv', AliveInv, LateInv, NEW w \in Worker, TryLock(w)
  PROVE  AliveInv' /\ LateInv'
<1>1. AliveInv'
  BY NoneAssumption DEF TryLock, AliveInv, IInv, TypeOK, Running
<1>2. Rest' <= Rest
  <2>1. CASE lock = None
    BY <2>1, Constants DEF TryLock, AliveInv, IInv, TypeOK, Rest, RestOf
  <2>2. CASE lock # None
    <3>1. lock \in Worker /\ task[lock] \in Running /\ Rest \in Nat
      BY <2>2, Numbers DEF AliveInv, IInv, TypeOK
    <3>2. /\ lock' = lock /\ task'[lock] = task[lock] /\ timer'[lock] = timer[lock]
          /\ batch'[lock] = batch[lock]
      BY <2>2, <3>1 DEF TryLock, Running, IInv, TypeOK
    <3>3. Rest' = Rest
      BY <2>2, <3>2 DEF Rest, RestOf, Left
    <3>4. QED
      BY <3>1, <3>3
  <2>3. QED
    BY <2>1, <2>2
<1>3. QED
  BY <1>1, <1>2, LateKept DEF TryLock, Active, Rows, InRound, LeftAlone

LEMMA WakeLate ==
  ASSUME IInv, IInv', AliveInv, LateInv, RoundFits, NEW w \in Worker, Wake(w)
  PROVE  AliveInv' /\ LateInv'
<1> DEFINE due == {s \in Active : InWindow(s, sched[s].due)}
<1>1. /\ task[w] = "asleep" /\ timer[w] = 1 /\ since' = [since EXCEPT ![w] = 0]
      /\ UNCHANGED <<sched, lock, fired, crashes, calm>>
  BY DEF Wake
<1>2. /\ lock = w /\ lock # None /\ Rest = 0 /\ batch[w] = {}
      /\ \A v \in Worker \ {w} : task[v] \notin Running
      /\ \A v \in Worker : current[v] = None /\ batch[v] = {}
  BY <1>1, OneRunner, NoneAssumption DEF IInv, TypeOK, BatchInv, Running, Busy, Rest, RestOf
<1>3. \A s \in Schedule : LeftAlone(s)
  BY <1>2, NoneAssumption DEF LeftAlone
<1>4. Active' = Active /\ Rows' = Rows /\ Active \subseteq Schedule
  BY <1>1 DEF Active, Rows
<1>5. \A s \in Schedule : Late(s)' = Late(s) /\ Counted(s)' = Counted(s)
  BY <1>1 DEF Late, Counted
<1>6. \A s \in Active : Counted(s) => sched[s].due \in Int /\ sched[s].due >= -Late(s)
  BY <1>2, <1>3, <1>4, Numbers, LateBounds DEF LateInv, Active
<1>7. \A s \in Active \ due : Counted(s) => sched[s].due >= 1
  BY <1>4, <1>6, LateBounds DEF InWindow
<1>8. CASE due = {} /\ Sleep(w) /\ UNCHANGED batch
  <2>1. /\ task' = [task EXCEPT ![w] = "asleep"] /\ current' = [current EXCEPT ![w] = None]
        /\ timer' = [timer EXCEPT ![w] = 0] /\ batch' = batch
    BY <1>8 DEF Sleep
  <2>2. AliveInv'
    BY <1>1, <1>2, <2>1 DEF AliveInv, IInv, TypeOK, Running
  <2>3. Rest' = 1
    BY <1>1, <1>2, <2>1 DEF Rest, RestOf, IInv, TypeOK
  <2>4. \A s \in Schedule, v \in Worker : ~InRound(s, v)'
    BY <1>2, <2>1, NoneAssumption DEF InRound, IInv, TypeOK
  <2>5. ASSUME NEW s \in Active', Counted(s) PROVE sched'[s].due - Rest' >= -Late(s)
    <3>1. s \in Schedule /\ s \in Active \ due /\ sched'[s] = sched[s]
      BY <1>1, <1>4, <1>8
    <3>2. sched[s].due \in Int /\ sched[s].due >= 1 /\ Late(s) \in Int /\ Late(s) >= 0
      BY <1>6, <1>7, <2>5, <3>1, LateBounds, Constants
    <3>3. QED
      BY <2>3, <3>1, <3>2
  <2>6. QED
    BY <1>5, <2>2, <2>4, <2>5 DEF LateInv
<1>9. ASSUME NEW s \in due, NEW skipped \in SUBSET (Active \ due), Call(w, s),
             batch' = [batch EXCEPT ![w] = Active \ ({s} \cup skipped)]
      PROVE  AliveInv' /\ LateInv'
  <2> DEFINE B == Active \ ({s} \cup skipped)
  <2>1. /\ task' = [task EXCEPT ![w] = "calling"] /\ current' = [current EXCEPT ![w] = s]
        /\ timer' = [timer EXCEPT ![w] = 0] /\ batch' = [batch EXCEPT ![w] = B]
    BY <1>9 DEF Call
  <2>2. s \in Schedule /\ B \in SUBSET Schedule /\ s \notin B
    BY <1>4
  <2>3. Cardinality(B) \in Nat
    BY <2>2, Counts
  <2>4. \A t \in Active : t # s /\ t \notin B => t \in Active \ due /\ Cardinality(B) <= N - 2
    BY <1>4, <2>2, Counts
  <2> HIDE DEF B
  <2>5. AliveInv'
    BY <1>1, <1>2, <2>1 DEF AliveInv, IInv, TypeOK, Running
  <2>6. Rest' = Cardinality(B) + 2
    BY <1>1, <1>2, <2>1, <2>3 DEF Rest, RestOf, Left, IInv, TypeOK
  <2>7. ASSUME NEW t \in Active', LeftAlone(t)', Counted(t)
        PROVE  sched'[t].due - Rest' >= -Late(t)
    <3>1. t \in Active /\ t # s /\ t \notin B
      BY <1>4, <2>1, <2>7 DEF LeftAlone, IInv, TypeOK
    <3>2. sched[t].due >= 1 /\ Cardinality(B) <= N - 2 /\ sched[t].due \in Int
      BY <1>6, <1>7, <2>4, <2>7, <3>1
    <3>3. Late(t) \in Int /\ N - 1 <= Late(t)
      BY <1>4, <2>7, <3>1, LateBounds
    <3>4. QED
      BY <1>1, <2>3, <2>6, <3>2, <3>3, Constants
  <2>8. ASSUME NEW t \in Rows', NEW v \in Worker, InRound(t, v)', Counted(t)
        PROVE  sched'[t].due + since'[v] >= -Late(t)
    <3>1. v = w /\ (t = s \/ t \in B)
      BY <1>2, <2>1, <2>8, NoneAssumption DEF InRound, Rows, IInv, TypeOK
    <3>2. t \in Active
      BY <3>1 DEF B
    <3>3. QED
      BY <1>1, <1>6, <2>8, <3>1, <3>2 DEF IInv, TypeOK
  <2>9. QED
    BY <1>5, <2>5, <2>7, <2>8 DEF LateInv
<1>10. QED
  BY <1>8, <1>9 DEF Wake

LEMMA ActLate ==
  ASSUME IInv, IInv', AliveInv, LateInv, NEW w \in Worker, Act(w)
  PROVE  AliveInv' /\ LateInv'
<1>1. AliveInv'
  BY DEF Act, AliveInv, IInv, TypeOK, Running
<1>2. Rest' = Rest /\ Rest \in Nat
  <2>1. \A v \in Worker : RestOf(v)' = RestOf(v)
    BY DEF Act, RestOf, Left, IInv, TypeOK
  <2>2. QED
    BY <2>1, RestNat DEF Act, Rest, IInv, TypeOK
<1>3. QED
  BY <1>1, <1>2, LateKept DEF Act, Active, Rows, InRound, LeftAlone

\* The call has returned and the row says so: a recurring schedule comes up
\* again a tick after the time the round goes by, or later.
LEMMA ReturnLate ==
  ASSUME IInv, IInv', AliveInv, LateInv, RoundFits, NEW w \in Worker, Busy(w),
         current[w] \in Rows, Advance(w, current[w]), After(w),
         UNCHANGED <<lock, batch, since, crashes>>
  PROVE  AliveInv' /\ LateInv'
<1>1. PICK s \in Schedule : s = current[w]
  BY DEF Rows
<1>2. PICK row \in [active: BOOLEAN, due: Floor..Period] :
        /\ sched' = [sched EXCEPT ![s] = row]
        /\ s \in Recurring => row.due + since[w] \in 1..Period
        /\ s \notin Recurring => row.active = FALSE
  BY <1>1, Advanced
<1>3. /\ lock = w /\ lock # None /\ Rest = RestOf(w) /\ s \notin batch[w]
      /\ task[w] \in {"calling", "acted"}
      /\ timer[w] <= 1 /\ timer[w] \in Nat /\ Left(w) \in Nat /\ since[w] \in Nat
      /\ since[w] - timer[w] + 1 + Left(w) <= N
      /\ \A v \in Worker \ {w} : current[v] = None /\ batch[v] = {}
  BY <1>1, Numbers, OneRunner, NoneAssumption DEF Busy, Running, IInv, BatchInv, ClockInv
<1>4. /\ task' = [task EXCEPT ![w] = IF batch[w] = {} THEN "asleep" ELSE "scan"]
      /\ current' = [current EXCEPT ![w] = None]
      /\ batch[w] = {} => timer' = [timer EXCEPT ![w] = 0]
  BY DEF After, Sleep
<1>5. AliveInv'
  BY <1>3, <1>4 DEF AliveInv, IInv, TypeOK, Running
<1>6. Rest' = Left(w) + 1
  <2>1. CASE batch[w] = {}
    <3>1. Left(w) = 0
      BY <2>1, FS_EmptySet DEF Left
    <3>2. QED
      BY <1>3, <1>4, <2>1, <3>1 DEF Rest, RestOf, IInv, TypeOK
  <2>2. CASE batch[w] # {}
    BY <1>3, <1>4, <2>2 DEF Rest, RestOf, Left, IInv, TypeOK
  <2>3. QED
    BY <2>1, <2>2
<1>7. Rest' <= Rest /\ Rest \in Nat
  BY <1>3, <1>6, RestNat DEF RestOf
<1>8. \A t \in Schedule : Late(t)' = Late(t) /\ Counted(t)' = Counted(t)
  BY DEF Late, Counted
<1>9. \A t \in Schedule \ {s} : sched'[t] = sched[t]
  BY <1>2 DEF IInv, TypeOK
<1>10. ASSUME NEW t \in Active', LeftAlone(t)', Counted(t)
       PROVE  sched'[t].due - Rest' >= -Late(t)
  <2>1. t \in Schedule
    BY <1>10 DEF Active, Rows
  <2>2. CASE t = s
    <3>1. sched'[s] = row
      BY <1>2 DEF IInv, TypeOK
    <3>2. s \in Recurring /\ row.due + since[w] >= 1
      BY <1>2, <1>10, <2>2, <3>1, Constants DEF Active
    <3>3. row.due \in Int /\ Late(s) \in Int /\ N <= Late(s) /\ N \in Nat
      BY <1>10, <2>2, <3>2, RowFields, LateBounds, Constants
    <3>4. since[w] + Left(w) <= N
      BY <1>3, Constants
    <3>5. row.due - (Left(w) + 1) >= -Late(s)
      BY ONLY <1>3, <3>2, <3>3, <3>4
    <3>6. QED
      BY <1>6, <2>2, <3>1, <3>5
  <2>3. CASE t # s
    <3>1. t \in Active /\ sched'[t] = sched[t]
      BY <1>9, <1>10, <2>1, <2>3 DEF Active, Rows
    <3>2. LeftAlone(t)
      BY <1>1, <1>3, <1>10, <2>3, <3>1, NoneAssumption DEF LeftAlone, IInv, TypeOK, Active, Rows
    <3>3. sched[t].due - Rest >= -Late(t)
      BY <1>10, <2>1, <3>1, <3>2 DEF LateInv
    <3>4. sched[t].due \in Int /\ Late(t) \in Int
      BY <1>10, <2>1, <3>1, Numbers, LateBounds DEF Active
    <3>5. Rest' \in Nat
      BY <1>3, <1>6
    <3>6. QED
      BY <1>7, <3>1, <3>3, <3>4, <3>5
  <2>4. QED
    BY <2>2, <2>3
<1>11. ASSUME NEW t \in Rows', NEW v \in Worker, InRound(t, v)', Counted(t)
       PROVE  sched'[t].due + since'[v] >= -Late(t)
  <2>1. t \in Schedule /\ sched'[t] # Deleted
    BY <1>11 DEF Rows
  <2>2. v = w /\ t \in batch[w]
    BY <1>3, <1>4, <1>11, <2>1, NoneAssumption DEF InRound, IInv, TypeOK
  <2>3. t # s /\ sched'[t] = sched[t] /\ t \in Rows /\ InRound(t, w)
    BY <1>3, <1>9, <2>1, <2>2 DEF Rows, InRound
  <2>4. QED
    BY <1>11, <2>1, <2>2, <2>3 DEF LateInv
<1>12. QED
  BY <1>5, <1>8, <1>10, <1>11 DEF LateInv

LEMMA ScanLate ==
  ASSUME IInv, IInv', AliveInv, LateInv, RoundFits, NEW w \in Worker, Scan(w), calm'
  PROVE  AliveInv' /\ LateInv'
<1>1. PICK s \in batch[w] :
        /\ task[w] = "scan" /\ UNCHANGED <<since, crashes, sched, lock>>
        /\ s \in Rows
        /\ batch' = [batch EXCEPT ![w] = @ \ {s}]
        /\ \/ InWindow(s, sched[s].due + since[w]) /\ Call(w, s)
           \/ /\ ~InWindow(s, sched[s].due + since[w])
              /\ IF batch[w] = {s} THEN Sleep(w) ELSE UNCHANGED <<task, current, timer>>
  BY DEF Scan, Die
<1>2. /\ lock = w /\ lock # None /\ Rest = Left(w) + 1
      /\ Left(w) \in Nat /\ since[w] \in Nat /\ since[w] + Left(w) <= N
      /\ s \in Schedule /\ Cardinality(batch[w] \ {s}) = Left(w) - 1
      /\ \A v \in Worker : current[v] = None /\ (v # w => batch[v] = {})
  <2>1. task[w] \in Running /\ batch[w] \in SUBSET Schedule
    BY <1>1 DEF Running, IInv, TypeOK
  <2>2. \A v \in Worker \ {w} : task[v] \notin Running
    BY <2>1, OneRunner
  <2>3. lock = w /\ lock # None /\ Rest = Left(w) + 1
    BY <1>1, <2>1, Numbers, NoneAssumption DEF RestOf
  <2>4. Left(w) \in Nat /\ since[w] \in Nat /\ since[w] + Left(w) <= N
    BY <1>1, Numbers DEF IInv, ClockInv
  <2>5. s \in Schedule /\ Cardinality(batch[w] \ {s}) = Left(w) - 1
    BY <1>1, <2>1, Counts DEF Left
  <2>6. QED
    BY <1>1, <2>2, <2>3, <2>4, <2>5 DEF IInv, BatchInv, Busy, Running
<1>3. Active' = Active /\ Rows' = Rows
  BY <1>1 DEF Active, Rows
<1>4. CASE InWindow(s, sched[s].due + since[w]) /\ Call(w, s)
  <2>1. /\ task' = [task EXCEPT ![w] = "calling"] /\ current' = [current EXCEPT ![w] = s]
        /\ timer' = [timer EXCEPT ![w] = 0]
    BY <1>4 DEF Call
  <2>2. AliveInv'
    BY <1>1, <1>2, <2>1 DEF AliveInv, IInv, TypeOK, Running
  <2>3. Rest' = Rest
    BY <1>1, <1>2, <2>1 DEF Rest, RestOf, Left, IInv, TypeOK
  <2>4. \A t \in Schedule, v \in Worker : InRound(t, v)' => InRound(t, v)
    BY <1>1, <2>1 DEF InRound, IInv, TypeOK
  <2>5. \A t \in Schedule : LeftAlone(t)' => LeftAlone(t)
    BY <1>1, <1>2, <2>1, NoneAssumption DEF LeftAlone, IInv, TypeOK
  <2>6. Active \subseteq Schedule
    BY DEF Active, Rows
  <2>7. QED
    BY <1>1, <1>2, <1>3, <2>2, <2>3, <2>4, <2>5, <2>6, LateKept
<1>5. CASE /\ ~InWindow(s, sched[s].due + since[w])
           /\ IF batch[w] = {s} THEN Sleep(w) ELSE UNCHANGED <<task, current, timer>>
  <2>1. /\ task' = [task EXCEPT ![w] = IF batch[w] = {s} THEN "asleep" ELSE "scan"]
        /\ batch[w] = {s} => timer' = [timer EXCEPT ![w] = 0]
        /\ batch[w] # {s} => timer' = timer
    BY <1>1, <1>5 DEF Sleep, IInv, TypeOK
  <2>2. AliveInv'
    BY <1>1, <1>2, <2>1 DEF AliveInv, IInv, TypeOK, Running
  <2>3. current' = current
    BY <1>2, <1>5 DEF Sleep, IInv, TypeOK
  <2>4. Rest' <= Left(w) /\ Rest' \in Nat
    <3>1. CASE batch[w] = {s}
      <4>1. Cardinality(batch[w] \ {s}) = 0
        <5>1. batch[w] \ {s} = {}
          BY <3>1
        <5>2. QED
          BY <5>1, FS_EmptySet
      <4>2. Rest' = 1
        BY <1>1, <1>2, <2>1, <3>1 DEF Rest, RestOf, IInv, TypeOK
      <4>3. QED
        BY <1>2, <4>1, <4>2
    <3>2. CASE batch[w] # {s}
      BY <1>1, <1>2, <2>1, <3>2, RestNatNext, <2>2 DEF Rest, RestOf, Left, IInv, TypeOK
    <3>3. QED
      BY <3>1, <3>2
  <2>5. \A t \in Schedule : Late(t)' = Late(t) /\ Counted(t)' = Counted(t)
    BY <1>1 DEF Late, Counted
  <2>6. ASSUME NEW t \in Active', LeftAlone(t)', Counted(t)
        PROVE  sched'[t].due - Rest' >= -Late(t)
    <3>1. t \in Active /\ t \in Schedule /\ sched' = sched /\ sched[t].due \in Int
      BY <1>1, <1>3, <2>6, Numbers DEF Active, Rows
    <3>2. /\ Late(t) \in Int /\ N - 1 <= Late(t) /\ N \in Nat
          /\ Late(t) <= Window(t) /\ Window(t) \in Nat
      BY <2>6, <3>1, LateBounds, Constants
    <3>3. CASE t = s
      <4>1. sched[t].due + since[w] >= -Late(t)
        BY <1>1, <2>6, <3>1, <3>3 DEF LateInv, InRound
      <4>2. sched[t].due + since[w] >= 1
        BY <1>2, <1>5, <3>1, <3>2, <3>3, <4>1 DEF InWindow
      <4>3. QED
        BY <1>2, <2>4, <3>1, <3>2, <4>2
    <3>4. CASE t # s
      <4>1. LeftAlone(t)
        BY <1>1, <2>3, <2>6, <3>4 DEF LeftAlone, IInv, TypeOK
      <4>2. sched[t].due - Rest >= -Late(t)
        BY <2>6, <3>1, <4>1 DEF LateInv
      <4>3. QED
        BY <1>2, <2>4, <3>1, <3>2, <4>2
    <3>5. QED
      BY <3>3, <3>4
  <2>7. ASSUME NEW t \in Rows', NEW v \in Worker, InRound(t, v)', Counted(t)
        PROVE  sched'[t].due + since'[v] >= -Late(t)
    <3>1. t \in Rows /\ t \in Schedule /\ sched' = sched /\ since' = since
      BY <1>1, <1>3, <2>7 DEF Rows
    <3>2. InRound(t, v)
      BY <1>1, <2>3, <2>7 DEF InRound, IInv, TypeOK
    <3>3. QED
      BY <2>7, <3>1, <3>2 DEF LateInv
  <2>8. QED
    BY <2>2, <2>5, <2>6, <2>7 DEF LateInv
<1>6. QED
  BY <1>1, <1>4, <1>5

LEMMA DeleteLate ==
  ASSUME IInv, IInv', AliveInv, LateInv, NEW s \in Schedule, DeleteSchedule(s)
  PROVE  AliveInv' /\ LateInv'
<1>1. UNCHANGED <<lock, task, batch, current, since, timer, fired, crashes, calm>>
  BY DEF DeleteSchedule
<1>2. \A t \in Rows' : t \in Rows /\ sched'[t] = sched[t]
  BY DEF DeleteSchedule, IInv, TypeOK, Rows
<1>3. AliveInv' /\ Rest' = Rest
  BY <1>1 DEF AliveInv, Rest, RestOf, Left
<1>4. QED
  BY <1>1, <1>2, <1>3, RestNat, LateKept DEF Active, InRound, LeftAlone

\* A schedule that is toggled on before its time is late by a round at most.
LEMMA ToggleLate ==
  ASSUME IInv, IInv', AliveInv, LateInv, RoundFits, NEW s \in Schedule, Toggle(s), calm'
  PROVE  AliveInv' /\ LateInv'
<1>1. /\ UNCHANGED <<lock, task, batch, current, since, timer, crashes>>
      /\ s \in Rows /\ (sched[s].active \/ sched[s].due > 0)
  BY DEF Toggle
<1>2. PICK a \in BOOLEAN :
        /\ a # sched[s].active
        /\ sched' = [sched EXCEPT ![s] = [active |-> a, due |-> sched[s].due]]
  BY Toggled
<1>3. AliveInv' /\ Rest' = Rest /\ Rest \in Nat
  BY <1>1, RestNat DEF AliveInv, Rest, RestOf, Left
<1>4. \A t \in Schedule : Late(t)' = Late(t) /\ Counted(t)' = Counted(t)
  BY <1>1 DEF Late, Counted
<1>5. \A t \in Rows' : t \in Rows /\ sched'[t].due = sched[t].due /\ (t # s => sched'[t] = sched[t])
  BY <1>1, <1>2 DEF IInv, TypeOK, Rows
<1>6. ASSUME NEW t \in Active', LeftAlone(t)', Counted(t)
      PROVE  sched'[t].due - Rest' >= -Late(t)
  <2>1. t \in Rows /\ t \in Schedule /\ LeftAlone(t) /\ sched'[t].due = sched[t].due
    BY <1>1, <1>5, <1>6 DEF Active, Rows, LeftAlone
  <2>2. CASE t = s /\ ~sched[s].active
    <3>1. sched[s].due >= 1 /\ sched[s].due \in Int
      BY <1>1, <2>1, <2>2, Numbers
    <3>2. Rest <= N
      <4>1. CASE lock = None
        BY <2>1, <4>1, LateBounds, <1>6, Constants DEF Rest
      <4>2. CASE lock # None
        <5>1. /\ lock \in Worker /\ task[lock] \in Running /\ batch[lock] \in SUBSET Schedule
              /\ timer[lock] \in Nat /\ N \in Nat /\ N >= 1
          BY <1>6, <2>1, <4>2, Numbers, LateBounds, Constants DEF AliveInv, IInv, TypeOK
        <5>2. s \in Schedule \ batch[lock] /\ current[lock] # s
          BY <2>1, <2>2, <5>1 DEF LeftAlone
        <5>3. Left(lock) <= N - 1 /\ Left(lock) \in Nat
          BY <5>1, <5>2, Counts DEF Left
        <5>4. Busy(lock) => Left(lock) <= N - 2
          <6> SUFFICES ASSUME Busy(lock) PROVE Left(lock) <= N - 2
            OBVIOUS
          <6>1. current[lock] \in Schedule \ batch[lock]
            BY <5>1 DEF IInv, BatchInv
          <6>2. QED
            BY <5>1, <5>2, <6>1, Counts DEF Left
        <5>5. Rest = RestOf(lock)
          BY <5>1, Numbers
        <5>6. QED
          BY <5>1, <5>3, <5>4, <5>5 DEF RestOf, Busy, Running
      <4>3. QED
        BY <4>1, <4>2
    <3>3. Late(t) \in Int /\ N - 1 <= Late(t) /\ N \in Nat
      BY <1>6, <2>1, LateBounds, Constants
    <3>4. QED
      BY <1>3, <2>1, <2>2, <3>1, <3>2, <3>3
  <2>3. CASE t # s \/ sched[s].active
    <3>1. t \in Active
      BY <1>5, <1>6, <2>1, <2>3 DEF Active
    <3>2. QED
      BY <1>3, <1>6, <2>1, <3>1 DEF LateInv
  <2>4. QED
    BY <2>2, <2>3
<1>7. ASSUME NEW t \in Rows', NEW v \in Worker, InRound(t, v)', Counted(t)
      PROVE  sched'[t].due + since'[v] >= -Late(t)
  <2>1. t \in Rows /\ t \in Schedule /\ sched'[t].due = sched[t].due /\ InRound(t, v)
    BY <1>1, <1>5, <1>7 DEF Rows, InRound
  <2>2. QED
    BY <1>1, <1>7, <2>1 DEF LateInv
<1>8. QED
  BY <1>3, <1>4, <1>6, <1>7 DEF LateInv

\* A crash costs a round and a sleep: what the round had not come to waits for
\* the round of another worker.
LEMMA CrashLate ==
  ASSUME IInv, IInv', AliveInv, LateInv, RoundFits, NEW w \in Worker, Crash(w)
  PROVE  AliveInv' /\ LateInv'
<1>1. /\ crashes' = crashes + 1 /\ lock' = IF lock = w THEN None ELSE lock
      /\ task' = [task EXCEPT ![w] = "waiting"] /\ timer' = [timer EXCEPT ![w] = 2]
      /\ batch' = [batch EXCEPT ![w] = {}] /\ current' = [current EXCEPT ![w] = None]
      /\ UNCHANGED <<sched, since, calm>>
  BY DEF Crash
<1>2. AliveInv'
  BY <1>1, NoneAssumption DEF AliveInv, IInv, TypeOK, Running
<1>3. crashes \in Nat /\ N \in Nat /\ Active' = Active /\ Rows' = Rows /\ Active \subseteq Rows
  BY <1>1, Constants DEF IInv, TypeOK, Active, Rows
<1>4. ASSUME NEW t \in Schedule, Counted(t)'
      PROVE  /\ Counted(t) /\ Late(t) \in Int
             /\ Late(t)' = Late(t) + N + 1
  <2>1. t \in Recurring
    BY <1>1, <1>3, <1>4 DEF Counted
  <2>2. (crashes + 1) * (N + 1) = crashes * (N + 1) + N + 1 /\ crashes * (N + 1) \in Nat
    BY <1>3
  <2>3. QED
    BY <1>1, <1>3, <2>1, <2>2 DEF Counted, Late
<1>5. \A t \in Schedule, v \in Worker : t \in Rows' /\ InRound(t, v)' => InRound(t, v)
  BY <1>1, NoneAssumption DEF InRound, IInv, TypeOK
<1>6. Rest \in Nat /\ Rest' \in Nat /\ Rest' <= Rest + 1
  <2>1. Rest \in Nat /\ Rest' \in Nat
    BY <1>2, RestNat, RestNatNext
  <2>2. CASE lock = w \/ lock = None
    BY <1>1, <2>1, <2>2 DEF Rest
  <2>3. CASE lock # w /\ lock # None
    <3>1. lock \in Worker \ {w}
      BY <2>3 DEF IInv, TypeOK
    <3>2. Rest' = Rest
      BY <1>1, <2>3, <3>1 DEF Rest, RestOf, Left, IInv, TypeOK
    <3>3. QED
      BY <2>1, <3>2
  <2>4. QED
    BY <2>2, <2>3
<1>7. ASSUME NEW t \in Schedule, Counted(t)', t \in Active', LeftAlone(t)'
      PROVE  sched'[t].due - Rest' >= -(Late(t)')
  <2>1. t \in Active /\ t \in Rows /\ sched[t].due \in Int /\ sched'[t] = sched[t]
    BY <1>1, <1>3, <1>7, Numbers
  <2>2. CASE LeftAlone(t)
    <3>1. sched[t].due - Rest >= -Late(t)
      BY <1>4, <1>7, <2>1, <2>2 DEF LateInv
    <3>2. QED
      BY <1>3, <1>4, <1>6, <1>7, <2>1, <3>1
  <2>3. CASE ~LeftAlone(t)
    <3>1. PICK v \in Worker : InRound(t, v)
      BY <2>3 DEF LeftAlone, InRound
    <3>2. v = w /\ lock = w
      <4>1. v = w
        BY <1>1, <1>7, <3>1 DEF LeftAlone, InRound, IInv, TypeOK
      <4>2. task[v] \in Running
        BY <3>1, NoneAssumption DEF InRound, IInv, BatchInv, Busy, Running
      <4>3. QED
        BY <4>1, <4>2 DEF IInv, TypeOK
    <3>3. Rest' = 1
      BY <1>1, <3>2 DEF Rest
    <3>4. sched[t].due + since[w] >= -Late(t)
      BY <1>4, <1>7, <2>1, <3>1, <3>2 DEF LateInv
    <3>5. since[w] \in Nat /\ since[w] <= N
      BY Numbers
    <3>6. QED
      BY <1>3, <1>4, <1>7, <2>1, <3>3, <3>4, <3>5
  <2>4. QED
    BY <2>2, <2>3
<1>8. ASSUME NEW t \in Schedule, Counted(t)', NEW v \in Worker, t \in Rows', InRound(t, v)'
      PROVE  sched'[t].due + since'[v] >= -(Late(t)')
  <2>1. t \in Rows /\ InRound(t, v) /\ sched[t].due \in Int /\ since[v] \in Nat
    BY <1>3, <1>5, <1>8, Numbers
  <2>2. sched[t].due + since[v] >= -Late(t)
    BY <1>4, <1>8, <2>1 DEF LateInv
  <2>3. QED
    BY <1>1, <1>3, <1>4, <1>8, <2>1, <2>2
<1>9. QED
  BY <1>2, <1>7, <1>8 DEF LateInv

\* Time passes only while a worker is in the loop, so its return comes nearer.
LEMMA TickLate ==
  ASSUME IInv, IInv', AliveInv, LateInv, Tick
  PROVE  AliveInv' /\ LateInv'
<1>1. UNCHANGED <<lock, task, batch, current, fired, crashes, calm>>
  BY DEF Tick
<1>2. \A v \in Worker : timer[v] < Limit(task[v])
  BY DEF Tick, AliveInv
<1>3. lock # None /\ lock \in Worker /\ task[lock] \in {"asleep", "calling", "acted"}
  BY <1>2, Numbers DEF AliveInv, Limit, Running, IInv, TypeOK
<1>4. AliveInv'
  BY <1>1, <1>3 DEF AliveInv
<1>5. Rest' = Rest - 1 /\ Rest \in Nat /\ Rest' \in Nat
  <2>1. timer'[lock] = timer[lock] + 1 /\ timer[lock] \in Nat /\ Left(lock) \in Nat
    BY <1>3, Numbers DEF Tick
  <2>2. Left(lock)' = Left(lock) /\ task'[lock] = task[lock]
    BY <1>1 DEF Left
  <2>3. Rest' = Rest - 1
    BY <1>1, <1>3, <2>1, <2>2 DEF Rest, RestOf
  <2>4. QED
    BY <1>4, <2>3, RestNat, RestNatNext
<1>6. \A t \in Schedule : Late(t)' = Late(t) /\ Counted(t)' = Counted(t) /\ Late(t) \in Int
  BY <1>1, Constants DEF Late, Counted, IInv, TypeOK
<1>7. \A t \in Rows' :
        /\ t \in Rows /\ t \in Schedule /\ sched[t].due \in Int /\ sched'[t].due \in Int
        /\ sched'[t].active = sched[t].active /\ sched'[t].due >= sched[t].due - 1
  BY Ticked, Constants DEF Rows
<1>8. ASSUME NEW t \in Active', LeftAlone(t)', Counted(t)
      PROVE  sched'[t].due - Rest' >= -Late(t)
  <2>1. t \in Rows' /\ t \in Active /\ LeftAlone(t)
    BY <1>1, <1>7, <1>8 DEF Active, LeftAlone
  <2>2. sched[t].due - Rest >= -Late(t)
    BY <1>7, <1>8, <2>1 DEF LateInv
  <2>3. QED
    BY <1>5, <1>6, <1>7, <2>1, <2>2
<1>9. ASSUME NEW t \in Rows', NEW v \in Worker, InRound(t, v)', Counted(t)
      PROVE  sched'[t].due + since'[v] >= -Late(t)
  <2>1. t \in Rows /\ t \in Schedule /\ InRound(t, v)
    BY <1>1, <1>7, <1>9 DEF InRound
  <2>2. Busy(v)
    <3>1. task[v] # "scan"
      BY <1>2, Numbers DEF Limit
    <3>2. QED
      BY <2>1, <3>1, NoneAssumption DEF InRound, IInv, BatchInv, Busy
  <2>3. since'[v] = since[v] + 1 /\ since[v] \in Nat
    BY <2>2, Numbers DEF Tick, Busy
  <2>4. sched[t].due + since[v] >= -Late(t)
    BY <1>9, <2>1 DEF LateInv
  <2>5. QED
    BY <1>6, <1>7, <2>1, <2>3, <2>4
<1>10. QED
  BY <1>4, <1>6, <1>8, <1>9 DEF LateInv

LEMMA TimeStep == IInv /\ TimeInv /\ RoundFits /\ [Next]_vars => TimeInv'
<1> SUFFICES ASSUME IInv, IInv', TimeInv, RoundFits, [Next]_vars, calm' PROVE AliveInv' /\ LateInv'
  BY IInvStep DEF TimeInv
<1>1. calm
  BY DEF Next, RunDueSchedules, TryLock, Wake, Act, Return, Scan, Die, DeleteSchedule,
         Toggle, Crash, Tick, vars
<1>2. AliveInv /\ LateInv
  BY <1>1 DEF TimeInv
<1>3. ASSUME NEW w \in Worker, Return(w) PROVE AliveInv' /\ LateInv'
  <2>1. /\ Busy(w) /\ current[w] \in Rows /\ Advance(w, current[w]) /\ After(w)
        /\ UNCHANGED <<lock, batch, since, crashes>>
    BY <1>3 DEF Return, Returned, Busy, Die
  <2>2. QED
    BY <1>2, <2>1, ReturnLate
<1>4. ASSUME NEW w \in Worker, RunDueSchedules(w) PROVE AliveInv' /\ LateInv'
  BY <1>2, <1>3, <1>4, TryLockLate, WakeLate, ActLate, ScanLate DEF RunDueSchedules
<1>5. CASE UNCHANGED vars
  BY <1>2, <1>5 DEF vars, AliveInv, LateInv, Counted, Late, Active, Rows, LeftAlone, InRound,
                    Rest, RestOf, Left
<1>6. QED
  BY <1>2, <1>4, <1>5, DeleteLate, ToggleLate, CrashLate, TickLate DEF Next

\* Every active schedule is fired within its window: while no loop has died and
\* none was toggled on late, a round of calls that time out cannot make the loop
\* miss a schedule, if there are few enough of them for the window.
THEOREM FiredInWindow ==
  ASSUME RoundFits PROVE Spec => []MissedOnlyAfterFault
<1>1. ASSUME Init PROVE TimeInv
  <2>1. AliveInv
    BY <1>1, WorkerAssumption DEF Init, AliveInv
  <2>2. ASSUME NEW s \in Schedule
        PROVE  /\ sched[s].due - Rest >= -Late(s)
               /\ \A w \in Worker : ~InRound(s, w)
    <3>1. sched[s].due \in 1..Period /\ Rest = 1
      BY <1>1 DEF Init, Rest
    <3>2. Late(s) \in Int /\ N - 1 <= Late(s) /\ N >= 1 /\ N \in Nat
      BY <1>1, IInvInit, LateBounds, Constants DEF Init, Counted
    <3>3. QED
      BY <1>1, <3>1, <3>2, Constants DEF Init, InRound
  <2>3. QED
    BY <2>1, <2>2 DEF TimeInv, LateInv
<1>2. ASSUME IInv, TimeInv PROVE MissedOnlyAfterFault
  <2> SUFFICES ASSUME NEW s \in Schedule, Missed(s), calm, Counted(s) PROVE FALSE
    BY <1>2, Constants DEF MissedOnlyAfterFault, Counted, IInv, TypeOK
  <2>1. sched[s].due - Rest >= -Late(s) /\ Rest \in Nat
    BY <1>2, RestNat DEF TimeInv, LateInv, Missed
  <2>2. sched[s].due < -Window(s) /\ sched[s].due \in Int
    BY <1>2, Numbers DEF Missed, Active
  <2>3. Late(s) \in Int /\ Late(s) <= Window(s) /\ Window(s) \in Nat
    BY <1>2, LateBounds
  <2>4. QED
    BY <2>1, <2>2, <2>3
<1>3. IInv /\ TimeInv /\ [Next]_vars => TimeInv'
  BY TimeStep
<1>4. QED
  BY <1>1, <1>2, <1>3, RoundsTracked, PTL DEF Spec

=============================================================================
