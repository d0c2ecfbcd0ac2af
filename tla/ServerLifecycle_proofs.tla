------------------------ MODULE ServerLifecycle_proofs ------------------------
(***************************************************************************)
(* Proofs about the life of a server, for any number of requests and of    *)
(* nodes, and any length of the polls.                                     *)
(***************************************************************************)
EXTENDS ServerLifecycle, TLAPS

-----------------------------------------------------------------------------
(* Tasks and rows.                                                         *)

LEMMA TaskFacts ==
  /\ Sync \in Task
  /\ \A o \in Op : O(o) \in Task /\ P(o) \in Task /\ O(o) # Sync /\ P(o) # Sync
  /\ \A o, p \in Op : O(o) # P(p) /\ (O(o) = O(p) => o = p) /\ (P(o) = P(p) => o = p)
  /\ \A t \in Task : t = Sync \/ \E o \in Op : t = O(o) \/ t = P(o)
BY DEF Task, O, P, Sync

LEMMA AskFacts ==
  /\ Sync[1] # "poll" /\ \A o \in Op : O(o)[1] # "poll" /\ P(o)[1] = "poll" /\ P(o)[2] = o
BY DEF O, P, Sync

\* What a commit leaves of the row: the columns that the session has changed
\* are as the session has them, the others as they are.
LEMMA FlushRow ==
  ASSUME NEW t, NEW new \in Row, snap[t] \in Row, row \in Row, Flush(t, new)
  PROVE  /\ row' \in Row
         /\ row'.status = IF new.status # snap[t].status THEN new.status ELSE row.status
         /\ row'.node = IF new.node # snap[t].node THEN new.node ELSE row.node
<1>1. DOMAIN row = {"status", "installed", "node"}
  BY DEF Row
<1>2. row # None
  BY NoneAssumption
<1>3. row' = [c \in {"status", "installed", "node"} |->
                IF new[c] # snap[t][c] THEN new[c] ELSE row[c]]
  BY <1>1, <1>2 DEF Flush
<1>4. row' = [status |-> row'.status, installed |-> row'.installed, node |-> row'.node]
  BY <1>3
<1>5. /\ row'.status = IF new.status # snap[t].status THEN new.status ELSE row.status
      /\ row'.node = IF new.node # snap[t].node THEN new.node ELSE row.node
      /\ row'.installed = IF new.installed # snap[t].installed THEN new.installed ELSE row.installed
  BY <1>3
<1>6. row'.status \in Status /\ row'.node \in Node /\ row'.installed \in BOOLEAN
  BY <1>5 DEF Row
<1> QED BY <1>4, <1>5, <1>6 DEF Row

LEMMA FlushNothing ==
  ASSUME NEW t, NEW new, row = None, Flush(t, new)
  PROVE  row' = None
BY DEF Flush

\* Most commits leave the node alone.
Keep == (row = None <=> row' = None) /\ (row # None => row'.node = row.node)

LEMMA FlushKeeps ==
  ASSUME NEW t, NEW new \in Row, snap[t] \in Row, row \in Row \cup {None},
         Flush(t, new), new.node = snap[t].node
  PROVE  row' \in Row \cup {None} /\ Keep
BY FlushRow, FlushNothing, NoneAssumption DEF Keep

LEMMA FlushTyped ==
  ASSUME NEW t, NEW new \in Row, snap[t] \in Row, row \in Row \cup {None}, Flush(t, new)
  PROVE  row' \in Row \cup {None}
BY FlushRow, FlushNothing

LEMMA RowFields ==
  ASSUME NEW r \in Row, NEW s \in Status, NEW b \in BOOLEAN
  PROVE  /\ [r EXCEPT !.status = s] \in Row
         /\ [r EXCEPT !.status = s].node = r.node
         /\ [r EXCEPT !.status = s].status = s
         /\ [r EXCEPT !.status = s, !.installed = b] \in Row
         /\ [r EXCEPT !.status = s, !.installed = b].node = r.node
         /\ [r EXCEPT !.status = s, !.installed = b].status = s
BY DEF Row

\* The answer of a daemon.
LEMMA Replies ==
  ASSUME NEW t, NEW state \in Container \cup Status \cup {"accepted"},
         Reply(t, state, TRUE) \/ Reply(t, state, FALSE)
  PROVE  \E w \in Word \cup {Failed} :
            ans' = [ans EXCEPT ![t] = w] /\ (w # Failed => w.state = state)
<1> DEFINE yes == [state |-> state, installing |-> TRUE]
           no == [state |-> state, installing |-> FALSE]
<1>1. yes \in Word /\ no \in Word
  BY DEF Word
<1>2. yes.state = state /\ no.state = state
  OBVIOUS
<1>3. \E w \in {yes, no, Failed} : ans' = [ans EXCEPT ![t] = w]
  BY DEF Reply
<1> HIDE DEF yes, no
<1> QED BY ONLY <1>1, <1>2, <1>3

-----------------------------------------------------------------------------
(* The control of the tasks.                                               *)

\* Where the tasks can be, by the kind of their request.
Control ==
  /\ pc[Sync] \in {"idle", "ask", "told"}
  /\ \A o \in Op :
       /\ pc[O(o)] \in {"idle", "delete", "deleting", "reset", "reload", "post",
                        "posted", "erase", "stop", "power", "powered", "ask", "told",
                        "done"}
       /\ pc[P(o)] \in {"idle", "sleep", "ask", "inspected", "told", "final", "done"}
       /\ kind[o] = None <=> pc[O(o)] = "idle"
       /\ pc[O(o)] \in {"delete", "deleting"} =>
            kind[o] \in {"reinstall", "transfer", "delete"}
       /\ pc[O(o)] = "erase" => kind[o] = "delete"
       /\ pc[O(o)] \in {"reset", "reload", "post", "posted"} => kind[o] \in InstallKinds
       /\ pc[O(o)] \in {"power", "powered"} => kind[o] \in {"power", "bulk"}
       /\ kind[o] \in InstallKinds => dest[o] \in Node
       /\ pc[P(o)] # "idle" => pc[O(o)] = "done" /\ kind[o] \in InstallKinds
       /\ install[o] # "none" =>
            pc[O(o)] \in {"posted", "done"} /\ kind[o] \in InstallKinds
       /\ pc[P(o)] = "idle" => turns[o] = 0
       /\ pc[P(o)] \in {"sleep", "ask", "inspected", "told"} => turns[o] < PollLimit

\* What the tasks have loaded and been told.
Loaded ==
  /\ \A t \in Task :
       /\ pc[t] \in {"delete", "deleting", "reset", "post", "posted", "stop", "power",
                     "powered", "ask", "inspected", "told"} => snap[t] \in Row
       /\ pc[t] \in {"posted", "powered", "inspected", "told"} => ans[t] # None
       /\ pc[t] = "inspected" => ans[t] # Failed
       /\ pc[t] = "powered" => ans[t] = Failed \/ ans[t].state \in {"running", "stopped"}
  /\ pc[Sync] \in {"ask", "told"} => snap[Sync].status # "suspended"

Inv == TypeOK /\ Control /\ Loaded

\* What the tasks write once they have their answers.
LEMMA Writes ==
  ASSUME Inv, NEW o \in Op,
         Posted(o) \/ Powered(o) \/ StatsBack(o) \/ PollBack(o)
  PROVE  row' \in Row \cup {None} /\ Keep
<1> USE TaskFacts DEF Inv
<1>0. /\ row \in Row \cup {None} /\ \A t \in Task : ans[t] \in Answer
      /\ UNCHANGED row => row' \in Row \cup {None} /\ Keep
  BY DEF TypeOK, Keep
<1>1. CASE Posted(o)
  <2>1. snap[O(o)] \in Row
    BY <1>1 DEF Posted, Spawn, Loaded
  <2>2. PostedStatus(o) \in Status
    BY <2>1 DEF PostedStatus, Row, Status
  <2> QED BY <1>0, <1>1, <2>1, <2>2, RowFields, FlushKeeps DEF Posted
<1>2. CASE Powered(o)
  <2>1. snap[O(o)] \in Row /\ pc[O(o)] = "powered"
    BY <1>2 DEF Powered, Close, Goto, Loaded
  <2>2. CASE ans[O(o)] = Failed
    BY <1>0, <1>2, <2>2 DEF Powered
  <2>3. CASE ans[O(o)] # Failed
    <3> DEFINE b == snap[O(o)].installed \/ kind[o] = "power"
               new == [snap[O(o)] EXCEPT !.status = ans[O(o)].state, !.installed = b]
    <3>1. ans[O(o)].state \in Status
      BY <2>1, <2>3 DEF Loaded, Status
    <3>2. b \in BOOLEAN
      OBVIOUS
    <3>3. new \in Row /\ new.node = snap[O(o)].node
      <4>1. \A st \in Status, c \in BOOLEAN :
              LET x == [snap[O(o)] EXCEPT !.status = st, !.installed = c]
              IN  x \in Row /\ x.node = snap[O(o)].node
        BY ONLY <2>1, RowFields
      <4> HIDE DEF b
      <4> QED BY ONLY <3>1, <3>2, <4>1
    <3>4. Flush(O(o), new)
      BY <1>2, <2>3 DEF Powered
    <3> HIDE DEF new
    <3> QED BY <1>0, <2>1, <3>3, <3>4, FlushKeeps
  <2> QED BY <2>2, <2>3
<1>3. CASE StatsBack(o)
  <2>1. snap[O(o)] \in Row
    BY <1>3 DEF StatsBack, Close, Goto, Loaded
  <2> DEFINE s == snap[O(o)]
             state == ans[O(o)].state
             status == IF state = "running" THEN "running"
                       ELSE IF state = "exited" THEN "stopped" ELSE s.status
             b == \/ s.installed
                  \/ state = "running"
                  \/ state = "exited" /\ status = s.status
             new == [s EXCEPT !.status = status, !.installed = b]
  <2>2. UNCHANGED row \/ Flush(O(o), new)
    BY <1>3 DEF StatsBack
  <2>3. status \in Status
    BY <2>1 DEF Status, Row
  <2>4. b \in BOOLEAN
    OBVIOUS
  <2>5. new \in Row /\ new.node = snap[O(o)].node
    <3>1. \A st \in Status, c \in BOOLEAN :
            LET x == [s EXCEPT !.status = st, !.installed = c]
            IN  x \in Row /\ x.node = s.node
      BY ONLY <2>1, RowFields
    <3> HIDE DEF b, status
    <3> QED BY ONLY <2>3, <2>4, <3>1
  <2> HIDE DEF new
  <2> QED BY <1>0, <2>1, <2>2, <2>5, FlushKeeps
<1>4. CASE PollBack(o)
  <2>1. snap[P(o)] \in Row
    BY <1>4 DEF PollBack, Loaded
  <2>2. \/ UNCHANGED row
        \/ \E s \in Status : Flush(P(o), [snap[P(o)] EXCEPT !.status = s, !.installed = TRUE])
    BY <1>4 DEF PollBack, PollAgain, PollWrites, Status
  <2> QED BY <1>0, <2>1, <2>2, RowFields, FlushKeeps
<1> QED BY <1>1, <1>2, <1>3, <1>4

\* Whoever asks a daemon asks one that there is.
LEMMA Asked ==
  ASSUME Inv, NEW t \in Task, pc[t] = "ask"
  PROVE  AskedNode(t) \in Node /\ container[AskedNode(t)] \in Container
<1>1. snap[t] \in Row
  BY DEF Inv, Loaded
<1>2. AskedNode(t) \in Node
  BY <1>1, TaskFacts, AskFacts DEF AskedNode, Inv, Control, Row
<1> QED BY <1>2 DEF Inv, TypeOK

LEMMA SyncWrites ==
  ASSUME Inv, SyncBack
  PROVE  row' \in Row \cup {None} /\ Keep
<1> USE TaskFacts DEF Inv
<1>1. snap[Sync] \in Row
  BY DEF SyncBack, Close, Goto, Loaded
<1>2. Synced(snap[Sync].status, ans[Sync].state) \in Status
  BY <1>1 DEF Synced, Status, Row
<1>3. \/ UNCHANGED row
      \/ Flush(Sync, [snap[Sync] EXCEPT !.status = Synced(snap[Sync].status, ans[Sync].state)])
  BY DEF SyncBack
<1>4. row \in Row \cup {None} /\ (UNCHANGED row => Keep)
  BY DEF TypeOK, Keep
<1> QED BY <1>1, <1>2, <1>3, <1>4, RowFields, FlushKeeps

\* What the steps with a daemon do to the containers and the answers.
LEMMA PostDoes ==
  ASSUME NEW o \in Op, Post(o)
  PROVE  \E w \in Word \cup {Failed} : ans' = [ans EXCEPT ![O(o)] = w]
<1>1. "accepted" \in Container \cup Status \cup {"accepted"}
  OBVIOUS
<1>2. Reply(O(o), "accepted", TRUE)
  BY DEF Post
<1> QED BY ONLY <1>1, <1>2, Replies

LEMMA PowerDoes ==
  ASSUME Inv, NEW o \in Op, DaemonPower(o)
  PROVE  /\ container' \in [Node -> Container]
         /\ \E w \in Word \cup {Failed} :
              /\ ans' = [ans EXCEPT ![O(o)] = w]
              /\ w = Failed \/ w.state \in {"running", "stopped"}
<1> DEFINE n == snap[O(o)].node
<1>1. snap[O(o)] \in Row
  BY TaskFacts DEF DaemonPower, Goto, Inv, Loaded
<1>2. n \in Node
  BY <1>1 DEF Row
<1>3. container \in [Node -> Container] /\ container[n] \in Container
  BY <1>2 DEF Inv, TypeOK
<1>4. CASE \E e \in PowerEffect(container[n]) :
             container' = [container EXCEPT ![n] = e[1]] /\ Reply(O(o), e[2], FALSE)
  <2>1. PICK e \in PowerEffect(container[n]) :
          container' = [container EXCEPT ![n] = e[1]] /\ Reply(O(o), e[2], FALSE)
    BY <1>4
  <2>2. e[1] \in Container /\ e[2] \in {"running", "stopped"}
    BY <1>3, <2>1 DEF PowerEffect, Container
  <2>3. e[2] \in Container \cup Status \cup {"accepted"}
    BY <2>2 DEF Status
  <2>4. \E w \in Word \cup {Failed} :
          ans' = [ans EXCEPT ![O(o)] = w] /\ (w # Failed => w.state = e[2])
    BY ONLY <2>1, <2>3, Replies
  <2>5. container' \in [Node -> Container]
    BY ONLY <1>3, <2>1, <2>2
  <2> QED BY ONLY <2>2, <2>4, <2>5
<1>5. CASE container' = [container EXCEPT ![n] = "exited"] /\ ans' = [ans EXCEPT ![O(o)] = Failed]
  <2>1. "exited" \in Container
    BY DEF Container
  <2> QED BY ONLY <1>3, <1>5, <2>1
<1> QED BY <1>4, <1>5 DEF DaemonPower

LEMMA ReportDoes ==
  ASSUME Inv, NEW t \in Task, Report(t)
  PROVE  /\ pc[t] = "ask"
         /\ \/ pc' = [pc EXCEPT ![t] = "told"]
            \/ pc' = [pc EXCEPT ![t] = "inspected"] /\ \E o \in Op : t = P(o)
         /\ \E w \in Word : ans' = [ans EXCEPT ![t] = w]
         /\ UNCHANGED <<row, kind, missed, dest, snap, turns, daemon>>
<1> DEFINE w == [state |-> container[AskedNode(t)], installing |-> FALSE]
<1>1. pc[t] = "ask"
  BY DEF Report, Goto
<1>2. w \in Word
  BY <1>1, Asked DEF Word
<1>3. ans' = [ans EXCEPT ![t] = w]
  BY DEF Report
<1>4. \E v \in Word : ans' = [ans EXCEPT ![t] = v]
  <2> HIDE DEF w
  <2> QED BY ONLY <1>2, <1>3
<1>5. CASE t[1] = "poll"
  <2>1. \E o \in Op : t = P(o)
    BY ONLY <1>5, TaskFacts, AskFacts
  <2>2. pc' = [pc EXCEPT ![t] = "inspected"]
    BY <1>5 DEF Report, Goto
  <2> QED BY <1>1, <1>4, <2>1, <2>2 DEF Report
<1>6. CASE t[1] # "poll"
  <2>1. pc' = [pc EXCEPT ![t] = "told"]
    BY <1>6 DEF Report, Goto
  <2> QED BY <1>1, <1>4, <2>1 DEF Report
<1> QED BY <1>5, <1>6

LEMMA ResetDoes ==
  ASSUME Inv, NEW o \in Op, Reset(o)
  PROVE  row' \in Row \cup {None}
<1> DEFINE new == [status |-> "installing", installed |-> FALSE, node |-> dest[o]]
<1>1. pc[O(o)] = "reset" /\ Flush(O(o), new)
  BY DEF Reset, Close, Goto
<1>2. snap[O(o)] \in Row /\ dest[o] \in Node /\ row \in Row \cup {None}
  BY <1>1, TaskFacts DEF Inv, Loaded, Control, TypeOK
<1>3. new \in Row
  BY <1>2 DEF Row, Status
<1> HIDE DEF new
<1> QED BY ONLY <1>1, <1>2, <1>3, FlushTyped

\* ContainerRemove: what it may leave is remembered.
LEMMA Removes ==
  ASSUME Inv, NEW n \in Node, RemoveContainer(n)
  PROVE  /\ container' \in [Node -> Container]
         /\ missed' = None \/ missed' \subseteq Node
         /\ Calm' => Calm
         /\ Calm => \A m \in Node \ missed' :
                     \/ container'[m] = "missing"
                     \/ m # n /\ m \notin missed /\ container'[m] = container[m]
<1>1. container \in [Node -> Container] /\ (missed = None \/ missed \subseteq Node)
  BY DEF Inv, TypeOK
<1>2. "missing" \in Container
  BY DEF Container
<1>3. CASE /\ container' = [container EXCEPT ![n] = "missing"]
           /\ missed' = IF Calm THEN missed \ {n} ELSE None
  <2>1. container' \in [Node -> Container]
    BY ONLY <1>1, <1>2, <1>3, n \in Node
  <2>2. /\ missed' = None \/ missed' \subseteq Node
        /\ Calm' => Calm
    BY <1>1, <1>3 DEF Calm
  <2>3. ASSUME Calm, NEW m \in Node \ missed'
        PROVE  \/ container'[m] = "missing"
               \/ m # n /\ m \notin missed /\ container'[m] = container[m]
    <3>1. missed' = missed \ {n}
      BY <1>3, <2>3
    <3> QED BY <1>1, <1>3, <2>3, <3>1
  <2> QED BY ONLY <2>1, <2>2, <2>3
<1>4. CASE container[n] # "missing" /\ UNCHANGED container /\ Miss(n)
  <2>1. missed' = IF Calm THEN missed \cup {n} ELSE None
    BY <1>4 DEF Miss
  <2> QED BY <1>1, <1>4, <2>1 DEF Calm
<1> QED BY <1>3, <1>4 DEF RemoveContainer

\* One step for each action.
LEMMA TypeOKStep == Inv /\ [Next]_vars => TypeOK'
<1> SUFFICES ASSUME Inv, [Next]_vars PROVE TypeOK'
  OBVIOUS
<1> USE NoneAssumption, BoundsAssumption, KindsAssumption, TaskFacts
    DEF Inv, TypeOK, Control, Loaded, panel, daemon, InstallKinds, AllKinds
<1>1. ASSUME NEW o \in Op, Create(o) PROVE TypeOK'
  BY <1>1 DEF Create, Begin, Status, Container, Answer, Word, AskedNode, Row
<1>2. ASSUME NEW o \in Op, Reinstall(o) PROVE TypeOK'
  BY <1>2 DEF Reinstall, Open, Begin, Load, Status, Container, Answer, Word,
     AskedNode, Row
<1>3. ASSUME NEW o \in Op, Transfer(o) PROVE TypeOK'
  BY <1>3 DEF Transfer, Open, Begin, Load, Status, Container, Answer, Word,
     AskedNode, Row
<1>4. ASSUME NEW o \in Op, DeleteServer(o) PROVE TypeOK'
  BY <1>4 DEF DeleteServer, Open, Begin, Load, Status, Container, Answer, Word,
     AskedNode, Row
<1>5. ASSUME NEW o \in Op, DaemonRemoves(o) PROVE TypeOK'
  <2>1. snap[O(o)].node \in Node
    BY <1>5 DEF DaemonRemoves, Goto, Row
  <2>2. container' \in [Node -> Container] /\ (missed' = None \/ missed' \subseteq Node)
    BY <1>5, <2>1, Removes DEF DaemonRemoves
  <2> QED BY <1>5, <2>1, <2>2 DEF DaemonRemoves, Goto
<1>6. ASSUME NEW o \in Op, DaemonRemovesAgain(o) PROVE TypeOK'
  <2>1. removal[o].node \in Node
    BY <1>6 DEF DaemonRemovesAgain
  <2>2. container' \in [Node -> Container] /\ (missed' = None \/ missed' \subseteq Node)
    BY <1>6, <2>1, Removes DEF DaemonRemovesAgain
  <2>3. moves' \in 0..MaxMoves
    BY <1>6, BoundsAssumption DEF DaemonRemovesAgain, OneMove
  <2> QED BY <1>6, <2>1, <2>2, <2>3 DEF DaemonRemovesAgain
<1>7. ASSUME NEW o \in Op, DeleteReturns(o) PROVE TypeOK'
  <2>1. missed' = None \/ missed' \subseteq Node
    <3>1. CASE UNCHANGED missed
      BY <3>1
    <3>2. CASE pc[O(o)] = "delete" /\ Miss(snap[O(o)].node)
      BY <3>2 DEF Miss, Row, Calm
    <3> QED BY <1>7, <3>1, <3>2 DEF DeleteReturns
  <2> QED BY <1>7, <2>1 DEF DeleteReturns
<1>8. ASSUME NEW o \in Op, Reset(o) PROVE TypeOK'
  <2>1. row' \in Row \cup {None}
    BY <1>8, ResetDoes
  <2> QED BY <1>8, <2>1 DEF Reset, Close, Goto, Answer
<1>9. ASSUME NEW o \in Op, Reload(o) PROVE TypeOK'
  BY <1>9 DEF Reload, Goto, Load, Status, Container, Answer, Word, AskedNode, Row
<1>10. ASSUME NEW o \in Op, Post(o) PROVE TypeOK'
  <2>1. \E w \in Word \cup {Failed} : ans' = [ans EXCEPT ![O(o)] = w]
    BY <1>10, PostDoes
  <2>2. /\ pc' = [pc EXCEPT ![O(o)] = "posted"]
        /\ install' = [install EXCEPT ![o] = "accepted"]
        /\ pc[O(o)] = "post"
        /\ UNCHANGED <<row, kind, missed, dest, snap, turns, container, registry, removal, moves>>
    BY <1>10 DEF Post, Goto
  <2> QED BY <2>1, <2>2 DEF Answer
<1>11. ASSUME NEW o \in Op, PostFails(o) PROVE TypeOK'
  BY <1>11 DEF PostFails, Goto, Status, Container, Answer, Word, AskedNode, Row
<1>12. ASSUME NEW o \in Op, Posted(o) PROVE TypeOK'
  <2>1. row' \in Row \cup {None}
    BY <1>12, Writes
  <2> QED BY <1>12, <2>1 DEF Posted, Spawn, Answer
<1>13. ASSUME NEW o \in Op, Erase(o) PROVE TypeOK'
  BY <1>13 DEF Erase, Close, Goto, Status, Container, Answer, Word, AskedNode, Row
<1>14. ASSUME NEW o \in Op, Suspend(o) PROVE TypeOK'
  BY <1>14 DEF Suspend, Begin, Load, Status, Container, Answer, Word, AskedNode, Row
<1>15. ASSUME NEW o \in Op, StopSuspended(o) PROVE TypeOK'
  BY <1>15 DEF StopSuspended, Close, Goto, Status, Container, Answer, Word,
     AskedNode, Row
<1>16. ASSUME NEW o \in Op, StopFails(o) PROVE TypeOK'
  BY <1>16 DEF StopFails, Close, Goto, Status, Container, Answer, Word, AskedNode, Row
<1>17. ASSUME NEW o \in Op, Unsuspend(o) PROVE TypeOK'
  BY <1>17 DEF Unsuspend, Begin, Status, Container, Answer, Word, AskedNode, Row
<1>18. ASSUME NEW o \in Op, Power(o) PROVE TypeOK'
  BY <1>18 DEF Power, Open, Begin, Load, Status, Container, Answer, Word, AskedNode, Row
<1>19. ASSUME NEW o \in Op, BulkPower(o) PROVE TypeOK'
  BY <1>19 DEF BulkPower, Open, Begin, Load, Status, Container, Answer, Word,
     AskedNode, Row
<1>20. ASSUME NEW o \in Op, DaemonPower(o) PROVE TypeOK'
  <2>1. /\ container' \in [Node -> Container]
        /\ \E w \in Word \cup {Failed} :
             /\ ans' = [ans EXCEPT ![O(o)] = w]
             /\ w = Failed \/ w.state \in {"running", "stopped"}
    BY <1>20, PowerDoes DEF Inv
  <2>2. /\ pc' = [pc EXCEPT ![O(o)] = "powered"]
        /\ pc[O(o)] = "power"
        /\ UNCHANGED <<row, kind, missed, dest, snap, turns, install, registry, removal, moves>>
    BY <1>20 DEF DaemonPower, Goto
  <2> QED BY <2>1, <2>2 DEF Answer
<1>21. ASSUME NEW o \in Op, PowerFails(o) PROVE TypeOK'
  BY <1>21 DEF PowerFails, Close, Goto, Status, Container, Answer, Word, AskedNode, Row
<1>22. ASSUME NEW o \in Op, Powered(o) PROVE TypeOK'
  <2>1. row' \in Row \cup {None}
    BY <1>22, Writes
  <2> QED BY <1>22, <2>1 DEF Powered, Close, Goto, Answer
<1>23. ASSUME NEW o \in Op, Stats(o) PROVE TypeOK'
  BY <1>23 DEF Stats, Open, Begin, Load, Status, Container, Answer, Word, AskedNode, Row
<1>24. ASSUME NEW o \in Op, StatsBack(o) PROVE TypeOK'
  <2>1. row' \in Row \cup {None}
    BY <1>24, Writes
  <2> QED BY <1>24, <2>1 DEF StatsBack, Close, Goto, Answer
<1>25. ASSUME NEW o \in Op, InstallInFlight(o) PROVE TypeOK'
  <2> DEFINE w == [ans[P(o)] EXCEPT !.installing = registry[dest[o]] # None]
  <2>1. ans[P(o)] \in Word /\ pc[P(o)] = "inspected"
    BY <1>25 DEF InstallInFlight, Goto, Answer
  <2>2. w \in Word
    BY <2>1 DEF Word
  <2>3. ans' = [ans EXCEPT ![P(o)] = w]
    BY <1>25 DEF InstallInFlight
  <2>4. /\ pc' = [pc EXCEPT ![P(o)] = "told"]
        /\ UNCHANGED <<row, kind, missed, dest, snap, turns, daemon>>
    BY <1>25 DEF InstallInFlight, Goto
  <2> HIDE DEF w
  <2> QED BY <2>1, <2>2, <2>3, <2>4 DEF Answer
<1>26. ASSUME NEW o \in Op, PollLoad(o) PROVE TypeOK'
  <2>1. /\ \E l \in {"ask", "done"} : pc' = [pc EXCEPT ![P(o)] = l]
        /\ \E r \in Row \cup {None} : snap' = [snap EXCEPT ![P(o)] = r]
        /\ ans' = ans \/ ans' = [ans EXCEPT ![P(o)] = None]
        /\ UNCHANGED <<row, kind, missed, dest, turns, daemon>>
    BY <1>26 DEF PollLoad, Close, Goto, Load
  <2> QED BY <2>1 DEF Answer
<1>27. ASSUME NEW o \in Op, PollBack(o) PROVE TypeOK'
  <2>1. row' \in Row \cup {None}
    BY <1>27, Writes
  <2>2. turns' \in [Op -> 0..PollLimit]
    <3>1. pc[P(o)] = "told" /\ turns[o] \in 0..PollLimit /\ turns[o] < PollLimit
      BY <1>27 DEF PollBack
    <3>2. turns' = [turns EXCEPT ![o] = 0] \/ turns' = [turns EXCEPT ![o] = turns[o] + 1]
      BY <1>27 DEF PollBack, PollAgain, PollWrites
    <3>3. turns[o] + 1 \in 0..PollLimit /\ 0 \in 0..PollLimit
      BY <3>1
    <3> QED BY <3>2, <3>3
  <2>3. \E l \in {"final", "sleep", "done"} : Close(P(o), "told", l)
    BY <1>27 DEF PollBack, PollAgain, PollWrites
  <2> QED BY <1>27, <2>1, <2>2, <2>3 DEF PollBack, Close, Goto, Answer
<1>28. ASSUME NEW o \in Op, PollFinal(o) PROVE TypeOK'
  BY <1>28 DEF PollFinal, Close, Goto, Status, Container, Answer, Word, AskedNode, Row
<1>29. ASSUME SyncLoad PROVE TypeOK'
  BY <1>29 DEF SyncLoad, Goto, Load, Status, Container, Answer, Word, AskedNode, Row
<1>30. ASSUME SyncBack PROVE TypeOK'
  <2>1. row' \in Row \cup {None}
    BY <1>30, SyncWrites
  <2> QED BY <1>30, <2>1 DEF SyncBack, Close, Goto, Answer
<1>31. ASSUME NEW o \in Op, Register(o) PROVE TypeOK'
  BY <1>31 DEF Register, Status, Container, Answer, Word, AskedNode, Row
<1>32. ASSUME NEW o \in Op, CreateContainer(o) PROVE TypeOK'
  BY <1>32 DEF CreateContainer, Status, Container, Answer, Word, AskedNode, Row
<1>33. ASSUME NEW o \in Op, InstallFails(o) PROVE TypeOK'
  <2>1. install[o] = "pulling" /\ dest[o] \in Node
    BY <1>33 DEF InstallFails
  <2>2. container' \in [Node -> Container]
    BY <1>33, <2>1 DEF InstallFails, Container
  <2> QED BY <1>33, <2>1, <2>2 DEF InstallFails, FinishInstall
<1>34. ASSUME NEW o \in Op, StartContainer(o) PROVE TypeOK'
  BY <1>34 DEF StartContainer, FinishInstall, Status, Container, Answer, Word,
     AskedNode, Row
<1>35. ASSUME NEW o \in Op, StartFails(o) PROVE TypeOK'
  <2>1. install[o] = "created" /\ dest[o] \in Node
    BY <1>35 DEF StartFails
  <2>2. container' \in [Node -> Container]
    BY <1>35, <2>1 DEF StartFails, Container
  <2> QED BY <1>35, <2>1, <2>2 DEF StartFails, FinishInstall
<1>36. ASSUME NEW n \in Node, Move(n) PROVE TypeOK'
  <2>1. container' \in [Node -> Container]
    BY <1>36 DEF Move, Container
  <2>2. moves' \in 0..MaxMoves
    BY <1>36, BoundsAssumption DEF Move, OneMove
  <2> QED BY <1>36, <2>1, <2>2 DEF Move
<1>37. ASSUME NEW t \in Task, Report(t) PROVE TypeOK'
  <2>1. /\ pc[t] = "ask"
        /\ \/ pc' = [pc EXCEPT ![t] = "told"]
           \/ pc' = [pc EXCEPT ![t] = "inspected"] /\ \E o \in Op : t = P(o)
        /\ \E w \in Word : ans' = [ans EXCEPT ![t] = w]
        /\ UNCHANGED <<row, kind, missed, dest, snap, turns, daemon>>
    BY <1>37, ReportDoes
  <2> QED BY <2>1 DEF Answer
<1>38. ASSUME NEW t \in Task, ReportFails(t) PROVE TypeOK'
  BY <1>38 DEF ReportFails, Goto, Status, Container, Answer, Word, AskedNode, Row
<1>39. CASE UNCHANGED vars
  BY <1>39 DEF vars
<1> QED
  BY <1>1, <1>2, <1>3, <1>4, <1>5, <1>6, <1>7, <1>8, <1>9, <1>10, <1>11, <1>12, <1>13,
     <1>14, <1>15, <1>16, <1>17, <1>18, <1>19, <1>20, <1>21, <1>22, <1>23, <1>24, <1>25, <1>26,
     <1>27, <1>28, <1>29, <1>30, <1>31, <1>32, <1>33, <1>34, <1>35, <1>36, <1>37, <1>38, <1>39
     DEF Next, Request, Handle, Poll, SyncStep, CreateAndStartServer, Idle

\* Every task goes its way.
LEMMA ControlStep == Inv /\ [Next]_vars => Control'
<1> SUFFICES ASSUME Inv, [Next]_vars PROVE Control'
  OBVIOUS
<1> USE NoneAssumption, BoundsAssumption, KindsAssumption, TaskFacts
    DEF Inv, TypeOK, Control, Loaded, panel, daemon, InstallKinds, AllKinds
<1>1. ASSUME NEW o \in Op, Create(o) PROVE Control'
  BY <1>1 DEF Create, Begin, Status, Container, Answer, Word, AskedNode
<1>2. ASSUME NEW o \in Op, Reinstall(o) PROVE Control'
  BY <1>2 DEF Reinstall, Open, Begin, Load, Row
<1>3. ASSUME NEW o \in Op, Transfer(o) PROVE Control'
  BY <1>3 DEF Transfer, Open, Begin, Load, Status, Container, Answer, Word, AskedNode
<1>4. ASSUME NEW o \in Op, DeleteServer(o) PROVE Control'
  BY <1>4 DEF DeleteServer, Open, Begin, Load, Status, Container, Answer, Word,
     AskedNode
<1>5. ASSUME NEW o \in Op, DaemonRemoves(o) PROVE Control'
  BY <1>5 DEF DaemonRemoves, RemoveContainer, Miss, Goto, Status, Container, Answer, Word, AskedNode
<1>6. ASSUME NEW o \in Op, DaemonRemovesAgain(o) PROVE Control'
  BY <1>6 DEF DaemonRemovesAgain, RemoveContainer, Miss, Status, Container, Answer, Word, AskedNode
<1>7. ASSUME NEW o \in Op, DeleteReturns(o) PROVE Control'
  BY <1>7 DEF DeleteReturns, Miss, Status, Container, Answer, Word, AskedNode
<1>8. ASSUME NEW o \in Op, Reset(o) PROVE Control'
  BY <1>8 DEF Reset, Close, Goto, Status, Container, Answer, Word, AskedNode
<1>9. ASSUME NEW o \in Op, Reload(o) PROVE Control'
  BY <1>9 DEF Reload, Goto, Load, Status, Container, Answer, Word, AskedNode
<1>10. ASSUME NEW o \in Op, Post(o) PROVE Control'
  BY <1>10 DEF Post, Goto, Reply, Status, Container, Answer, Word, AskedNode
<1>11. ASSUME NEW o \in Op, PostFails(o) PROVE Control'
  BY <1>11 DEF PostFails, Goto, Status, Container, Answer, Word, AskedNode
<1>12. ASSUME NEW o \in Op, Posted(o) PROVE Control'
  BY <1>12 DEF Posted, Spawn, PostedStatus, Status, Container, Answer, Word, AskedNode
<1>13. ASSUME NEW o \in Op, Erase(o) PROVE Control'
  BY <1>13 DEF Erase, Close, Goto, Status, Container, Answer, Word, AskedNode
<1>14. ASSUME NEW o \in Op, Suspend(o) PROVE Control'
  BY <1>14 DEF Suspend, Begin, Load, Status, Container, Answer, Word, AskedNode
<1>15. ASSUME NEW o \in Op, StopSuspended(o) PROVE Control'
  BY <1>15 DEF StopSuspended, Close, Goto, Status, Container, Answer, Word, AskedNode
<1>16. ASSUME NEW o \in Op, StopFails(o) PROVE Control'
  BY <1>16 DEF StopFails, Close, Goto, Status, Container, Answer, Word, AskedNode
<1>17. ASSUME NEW o \in Op, Unsuspend(o) PROVE Control'
  BY <1>17 DEF Unsuspend, Begin, Status, Container, Answer, Word, AskedNode
<1>18. ASSUME NEW o \in Op, Power(o) PROVE Control'
  BY <1>18 DEF Power, Open, Begin, Load, Status, Container, Answer, Word, AskedNode
<1>19. ASSUME NEW o \in Op, BulkPower(o) PROVE Control'
  BY <1>19 DEF BulkPower, Open, Begin, Load, Status, Container, Answer, Word, AskedNode
<1>20. ASSUME NEW o \in Op, DaemonPower(o) PROVE Control'
  BY <1>20 DEF DaemonPower, Goto, Reply, PowerEffect, Status, Container, Answer,
     Word, AskedNode
<1>21. ASSUME NEW o \in Op, PowerFails(o) PROVE Control'
  BY <1>21 DEF PowerFails, Close, Goto, Status, Container, Answer, Word, AskedNode
<1>22. ASSUME NEW o \in Op, Powered(o) PROVE Control'
  BY <1>22 DEF Powered, Close, Goto, Status, Container, Answer, Word, AskedNode
<1>23. ASSUME NEW o \in Op, Stats(o) PROVE Control'
  BY <1>23 DEF Stats, Open, Begin, Load, Status, Container, Answer, Word, AskedNode
<1>24. ASSUME NEW o \in Op, StatsBack(o) PROVE Control'
  BY <1>24 DEF StatsBack, Close, Goto, Status, Container, Answer, Word, AskedNode
<1>25. ASSUME NEW o \in Op, InstallInFlight(o) PROVE Control'
  BY <1>25 DEF InstallInFlight, Goto, Status, Container, Answer, Word, AskedNode
<1>26. ASSUME NEW o \in Op, PollLoad(o) PROVE Control'
  BY <1>26 DEF PollLoad, Close, Goto, Load, Status, Container, Answer, Word, AskedNode
<1>27. ASSUME NEW o \in Op, PollBack(o) PROVE Control'
  <2>1. /\ pc[P(o)] = "told" /\ turns[o] \in 0..PollLimit /\ turns[o] < PollLimit
        /\ PollLimit \in Nat
        /\ UNCHANGED <<kind, missed, dest, daemon>>
    BY <1>27 DEF PollBack
  <2>2. CASE PollAgain(o)
    <3>1. \/ pc' = [pc EXCEPT ![P(o)] = "final"] /\ turns' = [turns EXCEPT ![o] = 0]
          \/ /\ pc' = [pc EXCEPT ![P(o)] = "sleep"] /\ turns[o] + 1 # PollLimit
             /\ turns' = [turns EXCEPT ![o] = turns[o] + 1]
      BY <2>2 DEF PollAgain, Close, Goto
    <3>2. turns[o] + 1 # PollLimit => turns[o] + 1 < PollLimit
      BY ONLY <2>1
    <3> QED BY <2>1, <3>1, <3>2
  <2>3. CASE turns' = [turns EXCEPT ![o] = 0] /\ pc' = [pc EXCEPT ![P(o)] = "done"]
    BY <2>1, <2>3
  <2> QED BY <1>27, <2>2, <2>3 DEF PollBack, PollWrites, Close, Goto
<1>28. ASSUME NEW o \in Op, PollFinal(o) PROVE Control'
  BY <1>28 DEF PollFinal, Close, Goto, Status, Container, Answer, Word, AskedNode
<1>29. ASSUME SyncLoad PROVE Control'
  BY <1>29 DEF SyncLoad, Goto, Load, Status, Container, Answer, Word, AskedNode
<1>30. ASSUME SyncBack PROVE Control'
  BY <1>30 DEF SyncBack, Close, Goto, Synced, Status, Container, Answer, Word, AskedNode
<1>31. ASSUME NEW o \in Op, Register(o) PROVE Control'
  BY <1>31 DEF Register, Status, Container, Answer, Word, AskedNode
<1>32. ASSUME NEW o \in Op, CreateContainer(o) PROVE Control'
  BY <1>32 DEF CreateContainer, Status, Container, Answer, Word, AskedNode
<1>33. ASSUME NEW o \in Op, InstallFails(o) PROVE Control'
  BY <1>33 DEF InstallFails, FinishInstall, Status, Container, Answer, Word, AskedNode
<1>34. ASSUME NEW o \in Op, StartContainer(o) PROVE Control'
  BY <1>34 DEF StartContainer, FinishInstall, Status, Container, Answer, Word, AskedNode
<1>35. ASSUME NEW o \in Op, StartFails(o) PROVE Control'
  BY <1>35 DEF StartFails, FinishInstall, Status, Container, Answer, Word, AskedNode
<1>36. ASSUME NEW n \in Node, Move(n) PROVE Control'
  BY <1>36 DEF Move, Status, Container, Answer, Word, AskedNode
<1>37. ASSUME NEW t \in Task, Report(t) PROVE Control'
  BY <1>37, ReportDoes
<1>38. ASSUME NEW t \in Task, ReportFails(t) PROVE Control'
  BY <1>38 DEF ReportFails, Goto, Status, Container, Answer, Word, AskedNode
<1>39. CASE UNCHANGED vars
  BY <1>39 DEF vars
<1> QED
  BY <1>1, <1>2, <1>3, <1>4, <1>5, <1>6, <1>7, <1>8, <1>9, <1>10, <1>11, <1>12, <1>13,
     <1>14, <1>15, <1>16, <1>17, <1>18, <1>19, <1>20, <1>21, <1>22, <1>23, <1>24, <1>25, <1>26,
     <1>27, <1>28, <1>29, <1>30, <1>31, <1>32, <1>33, <1>34, <1>35, <1>36, <1>37, <1>38, <1>39
     DEF Next, Request, Handle, Poll, SyncStep, CreateAndStartServer, Idle

\* What is loaded and told stays until its task has used it.
LEMMA LoadedStep == Inv /\ [Next]_vars => Loaded'
<1> SUFFICES ASSUME Inv, [Next]_vars PROVE Loaded'
  OBVIOUS
<1> USE NoneAssumption, BoundsAssumption, KindsAssumption, TaskFacts
    DEF Inv, TypeOK, Control, Loaded, panel, daemon, InstallKinds, AllKinds
<1>1. ASSUME NEW o \in Op, Create(o) PROVE Loaded'
  BY <1>1 DEF Create, Begin, Status, Container, Answer, Word, AskedNode
<1>2. ASSUME NEW o \in Op, Reinstall(o) PROVE Loaded'
  BY <1>2 DEF Reinstall, Open, Begin, Load, Status, Container, Answer, Word, AskedNode
<1>3. ASSUME NEW o \in Op, Transfer(o) PROVE Loaded'
  BY <1>3 DEF Transfer, Open, Begin, Load, Status, Container, Answer, Word, AskedNode
<1>4. ASSUME NEW o \in Op, DeleteServer(o) PROVE Loaded'
  BY <1>4 DEF DeleteServer, Open, Begin, Load, Status, Container, Answer, Word,
     AskedNode
<1>5. ASSUME NEW o \in Op, DaemonRemoves(o) PROVE Loaded'
  BY <1>5 DEF DaemonRemoves, RemoveContainer, Miss, Goto, Status, Container, Answer, Word, AskedNode
<1>6. ASSUME NEW o \in Op, DaemonRemovesAgain(o) PROVE Loaded'
  BY <1>6 DEF DaemonRemovesAgain, RemoveContainer, Miss, Status, Container, Answer, Word, AskedNode
<1>7. ASSUME NEW o \in Op, DeleteReturns(o) PROVE Loaded'
  BY <1>7 DEF DeleteReturns, Miss, Status, Container, Answer, Word, AskedNode
<1>8. ASSUME NEW o \in Op, Reset(o) PROVE Loaded'
  BY <1>8 DEF Reset, Close, Goto, Status, Container, Answer, Word, AskedNode
<1>9. ASSUME NEW o \in Op, Reload(o) PROVE Loaded'
  BY <1>9 DEF Reload, Goto, Load, Status, Container, Answer, Word, AskedNode
<1>10. ASSUME NEW o \in Op, Post(o) PROVE Loaded'
  <2>1. \E w \in Word \cup {Failed} : ans' = [ans EXCEPT ![O(o)] = w]
    BY <1>10, PostDoes
  <2>2. /\ pc' = [pc EXCEPT ![O(o)] = "posted"]
        /\ install' = [install EXCEPT ![o] = "accepted"]
        /\ pc[O(o)] = "post"
        /\ UNCHANGED <<row, kind, missed, dest, snap, turns, container, registry, removal, moves>>
    BY <1>10 DEF Post, Goto
  <2> QED BY <2>1, <2>2
<1>11. ASSUME NEW o \in Op, PostFails(o) PROVE Loaded'
  BY <1>11 DEF PostFails, Goto, Status, Container, Answer, Word, AskedNode
<1>12. ASSUME NEW o \in Op, Posted(o) PROVE Loaded'
  BY <1>12 DEF Posted, Spawn, PostedStatus, Status, Container, Answer, Word, AskedNode
<1>13. ASSUME NEW o \in Op, Erase(o) PROVE Loaded'
  BY <1>13 DEF Erase, Close, Goto, Status, Container, Answer, Word, AskedNode
<1>14. ASSUME NEW o \in Op, Suspend(o) PROVE Loaded'
  BY <1>14 DEF Suspend, Begin, Load, Status, Container, Answer, Word, AskedNode
<1>15. ASSUME NEW o \in Op, StopSuspended(o) PROVE Loaded'
  BY <1>15 DEF StopSuspended, Close, Goto, Status, Container, Answer, Word, AskedNode
<1>16. ASSUME NEW o \in Op, StopFails(o) PROVE Loaded'
  BY <1>16 DEF StopFails, Close, Goto, Status, Container, Answer, Word, AskedNode
<1>17. ASSUME NEW o \in Op, Unsuspend(o) PROVE Loaded'
  BY <1>17 DEF Unsuspend, Begin, Status, Container, Answer, Word, AskedNode
<1>18. ASSUME NEW o \in Op, Power(o) PROVE Loaded'
  BY <1>18 DEF Power, Open, Begin, Load, Status, Container, Answer, Word, AskedNode
<1>19. ASSUME NEW o \in Op, BulkPower(o) PROVE Loaded'
  BY <1>19 DEF BulkPower, Open, Begin, Load, Status, Container, Answer, Word, AskedNode
<1>20. ASSUME NEW o \in Op, DaemonPower(o) PROVE Loaded'
  <2>1. /\ container' \in [Node -> Container]
        /\ \E w \in Word \cup {Failed} :
             /\ ans' = [ans EXCEPT ![O(o)] = w]
             /\ w = Failed \/ w.state \in {"running", "stopped"}
    BY <1>20, PowerDoes DEF Inv
  <2>2. /\ pc' = [pc EXCEPT ![O(o)] = "powered"]
        /\ pc[O(o)] = "power"
        /\ UNCHANGED <<row, kind, missed, dest, snap, turns, install, registry, removal, moves>>
    BY <1>20 DEF DaemonPower, Goto
  <2> QED BY <2>1, <2>2
<1>21. ASSUME NEW o \in Op, PowerFails(o) PROVE Loaded'
  BY <1>21 DEF PowerFails, Close, Goto, Status, Container, Answer, Word, AskedNode
<1>22. ASSUME NEW o \in Op, Powered(o) PROVE Loaded'
  BY <1>22 DEF Powered, Close, Goto, Status, Container, Answer, Word, AskedNode
<1>23. ASSUME NEW o \in Op, Stats(o) PROVE Loaded'
  BY <1>23 DEF Stats, Open, Begin, Load, Status, Container, Answer, Word, AskedNode
<1>24. ASSUME NEW o \in Op, StatsBack(o) PROVE Loaded'
  BY <1>24 DEF StatsBack, Close, Goto, Status, Container, Answer, Word, AskedNode
<1>25. ASSUME NEW o \in Op, InstallInFlight(o) PROVE Loaded'
  <2> DEFINE w == [ans[P(o)] EXCEPT !.installing = registry[dest[o]] # None]
  <2>1. ans[P(o)] \in Word /\ pc[P(o)] = "inspected"
    BY <1>25 DEF InstallInFlight, Goto, Answer
  <2>2. w \in Word
    BY <2>1 DEF Word
  <2>3. ans' = [ans EXCEPT ![P(o)] = w]
    BY <1>25 DEF InstallInFlight
  <2>4. /\ pc' = [pc EXCEPT ![P(o)] = "told"]
        /\ UNCHANGED <<row, kind, missed, dest, snap, turns, daemon>>
    BY <1>25 DEF InstallInFlight, Goto
  <2> HIDE DEF w
  <2> QED BY <2>1, <2>2, <2>3, <2>4
<1>26. ASSUME NEW o \in Op, PollLoad(o) PROVE Loaded'
  BY <1>26 DEF PollLoad, Close, Goto, Load, Status, Container, Answer, Word, AskedNode
<1>27. ASSUME NEW o \in Op, PollBack(o) PROVE Loaded'
  BY <1>27 DEF PollBack, PollAgain, PollWrites, Close, Goto, Status, Container,
     Answer, Word, AskedNode
<1>28. ASSUME NEW o \in Op, PollFinal(o) PROVE Loaded'
  BY <1>28 DEF PollFinal, Close, Goto, Status, Container, Answer, Word, AskedNode
<1>29. ASSUME SyncLoad PROVE Loaded'
  BY <1>29 DEF SyncLoad, Goto, Load, Status, Container, Answer, Word, AskedNode
<1>30. ASSUME SyncBack PROVE Loaded'
  BY <1>30 DEF SyncBack, Close, Goto, Synced, Status, Container, Answer, Word, AskedNode
<1>31. ASSUME NEW o \in Op, Register(o) PROVE Loaded'
  BY <1>31 DEF Register, Status, Container, Answer, Word, AskedNode
<1>32. ASSUME NEW o \in Op, CreateContainer(o) PROVE Loaded'
  BY <1>32 DEF CreateContainer, Status, Container, Answer, Word, AskedNode
<1>33. ASSUME NEW o \in Op, InstallFails(o) PROVE Loaded'
  BY <1>33 DEF InstallFails, FinishInstall, Status, Container, Answer, Word, AskedNode
<1>34. ASSUME NEW o \in Op, StartContainer(o) PROVE Loaded'
  BY <1>34 DEF StartContainer, FinishInstall, Status, Container, Answer, Word, AskedNode
<1>35. ASSUME NEW o \in Op, StartFails(o) PROVE Loaded'
  BY <1>35 DEF StartFails, FinishInstall, Status, Container, Answer, Word, AskedNode
<1>36. ASSUME NEW n \in Node, Move(n) PROVE Loaded'
  BY <1>36 DEF Move, Status, Container, Answer, Word, AskedNode
<1>37. ASSUME NEW t \in Task, Report(t) PROVE Loaded'
  BY <1>37, ReportDoes
<1>38. ASSUME NEW t \in Task, ReportFails(t) PROVE Loaded'
  BY <1>38 DEF ReportFails, Goto, Status, Container, Answer, Word, AskedNode
<1>39. CASE UNCHANGED vars
  BY <1>39 DEF vars
<1> QED
  BY <1>1, <1>2, <1>3, <1>4, <1>5, <1>6, <1>7, <1>8, <1>9, <1>10, <1>11, <1>12, <1>13,
     <1>14, <1>15, <1>16, <1>17, <1>18, <1>19, <1>20, <1>21, <1>22, <1>23, <1>24, <1>25, <1>26,
     <1>27, <1>28, <1>29, <1>30, <1>31, <1>32, <1>33, <1>34, <1>35, <1>36, <1>37, <1>38, <1>39
     DEF Next, Request, Handle, Poll, SyncStep, CreateAndStartServer, Idle

LEMMA InvInit == Init => Inv
<1> SUFFICES ASSUME Init PROVE Inv
  OBVIOUS
<1>1. TypeOK
  <2>1. "missing" \in Container /\ "running" \in Container /\ "running" \in Status
    BY DEF Container, Status
  <2>2. row \in Row \cup {None} /\ container \in [Node -> Container]
    <3>1. CASE row = None /\ container = [n \in Node |-> "missing"]
      BY ONLY <2>1, <3>1
    <3>2. CASE \E n \in Node :
            /\ row = [status |-> "running", installed |-> TRUE, node |-> n]
            /\ container = [m \in Node |-> IF m = n THEN "running" ELSE "missing"]
      <4>1. PICK n \in Node :
            /\ row = [status |-> "running", installed |-> TRUE, node |-> n]
            /\ container = [m \in Node |-> IF m = n THEN "running" ELSE "missing"]
        BY <3>2
      <4>2. row \in Row
        BY <2>1, <4>1 DEF Row
      <4>3. container \in [Node -> Container]
        BY ONLY <2>1, <4>1
      <4> QED BY <4>2, <4>3
    <3> QED BY <3>1, <3>2 DEF Init
  <2> QED BY <2>2, BoundsAssumption DEF Init, TypeOK, Answer
<1>2. Control /\ Loaded
  BY NoneAssumption, BoundsAssumption, TaskFacts
     DEF Init, Control, Loaded, InstallKinds, AllKinds
<1> QED BY <1>1, <1>2 DEF Inv

LEMMA InvAlways == Spec => []Inv
<1>1. Inv /\ [Next]_vars => Inv'
  BY TypeOKStep, ControlStep, LoadedStep DEF Inv
<1> QED BY <1>1, InvInit, PTL DEF Spec

\* The values of the variables, for any requests, nodes and bounds.
THEOREM TypeCorrect == Spec => []TypeOK
BY InvAlways, PTL DEF Inv

-----------------------------------------------------------------------------
(* Who writes the row.                                                     *)

LEMMA RowWriters ==
  ASSUME Inv, [Next]_vars
  PROVE  \/ row' = row
         \/ \E o \in Op :
              \/ Create(o) \/ Reset(o) \/ Posted(o) \/ Erase(o) \/ Suspend(o)
              \/ Unsuspend(o) \/ Powered(o) \/ StatsBack(o) \/ PollBack(o) \/ PollFinal(o)
         \/ SyncBack
<1> DEFINE Goal == \/ row' = row
                   \/ \E o \in Op :
                        \/ Create(o) \/ Reset(o) \/ Posted(o) \/ Erase(o) \/ Suspend(o)
                        \/ Unsuspend(o) \/ Powered(o) \/ StatsBack(o) \/ PollBack(o)
                        \/ PollFinal(o)
                   \/ SyncBack
<1>1. ASSUME NEW o \in Op, Request(o) PROVE Goal
  BY <1>1 DEF Request, Reinstall, Transfer, DeleteServer, Power, BulkPower, Stats, Open
<1>2. ASSUME NEW o \in Op, Handle(o) PROVE Goal
  BY <1>2 DEF Handle, DaemonRemoves, DeleteReturns, Reload, Post, PostFails,
     StopSuspended, StopFails, DaemonPower, PowerFails, Report, ReportFails
<1>3. ASSUME NEW o \in Op, Poll(o) PROVE Goal
  BY <1>3 DEF Poll, PollLoad, Report, InstallInFlight, ReportFails
<1>4. ASSUME SyncStep PROVE Goal
  BY <1>4 DEF SyncStep, SyncLoad, Report, ReportFails
<1>5. ASSUME NEW o \in Op, DaemonRemovesAgain(o) \/ CreateAndStartServer(o) PROVE Goal
  BY <1>5 DEF DaemonRemovesAgain, CreateAndStartServer, Register, CreateContainer,
     InstallFails, StartContainer, StartFails, panel
<1>6. ASSUME NEW n \in Node, Move(n) PROVE Goal
  BY <1>6 DEF Move, panel
<1>7. CASE Idle \/ UNCHANGED vars
  BY <1>7 DEF Idle, vars, panel
<1> QED BY ONLY <1>1, <1>2, <1>3, <1>4, <1>5, <1>6, <1>7, [Next]_vars DEF Next

\* Nothing but the creation of a server makes a row where there is none.
LEMMA DeletedStep ==
  ASSUME Inv, [Next]_vars, row = None, row' # None
  PROVE  \E o \in Op : kind[o] = None /\ kind'[o] = "create"
<1>1. kind \in [Op -> Kinds \cup {None}]
  BY DEF Inv, TypeOK
<1>2. ASSUME NEW o \in Op, Create(o)
      PROVE  kind[o] = None /\ kind'[o] = "create"
  BY <1>1, <1>2 DEF Create, Begin
<1>3. ASSUME NEW o \in Op, Reset(o) PROVE FALSE
  BY <1>3, FlushNothing DEF Reset
<1>4. ASSUME NEW o \in Op, Posted(o) \/ Powered(o) \/ StatsBack(o) \/ PollBack(o)
      PROVE  FALSE
  BY <1>4, Writes DEF Keep
<1>5. ASSUME SyncBack PROVE FALSE
  BY <1>5, SyncWrites DEF Keep
<1>6. ASSUME NEW o \in Op, Erase(o) \/ Suspend(o) \/ Unsuspend(o) \/ PollFinal(o)
      PROVE  FALSE
  BY <1>6 DEF Erase, Suspend, Unsuspend, PollFinal
<1> QED BY <1>2, <1>3, <1>4, <1>5, <1>6, RowWriters

\* A deleted row never comes back: a handler, a poll or the sync that wakes up
\* late writes nothing (the StaleDataError of the session's flush).
THEOREM DeletedStays == Spec => DeletedStaysDeleted
<1>1. Inv /\ [Next]_vars =>
        (row = None /\ row' # None => \E o \in Op : kind[o] = None /\ kind'[o] = "create")
  BY DeletedStep
<1> QED BY <1>1, InvAlways, PTL DEF Spec, DeletedStaysDeleted

\* Who lifts a suspension: a request that means to or that takes the server
\* over, the poll of an install, or an observer that loaded the row before.
Lifts ==
  \/ \E o \in Op : \/ Steps(P(o))
                   \/ Steps(O(o)) /\ kind'[o] \in {"unsuspend", "power", "bulk"} \cup InstallKinds
  \/ \E t \in Task : Steps(t) /\ pc[t] = "told" /\ snap[t].status # "suspended"

LEMMA SuspensionStep ==
  ASSUME Inv, [Next]_vars, row # None, row' # None,
         row.status = "suspended", row'.status # "suspended"
  PROVE  Lifts
<1>1. /\ kind \in [Op -> Kinds \cup {None}] /\ row \in Row
      /\ DOMAIN pc = Task
  BY DEF Inv, TypeOK
<1>2. ASSUME NEW o \in Op, Create(o) \/ Erase(o) PROVE FALSE
  BY <1>2 DEF Create, Erase
<1>3. ASSUME NEW o \in Op, Suspend(o) PROVE FALSE
  BY <1>1, <1>3 DEF Suspend, Row
<1>4. ASSUME NEW o \in Op, Reset(o) PROVE Lifts
  <2>1. pc[O(o)] = "reset" /\ kind' = kind /\ kind[o] \in InstallKinds
    BY <1>4 DEF Reset, Close, Goto, Inv, Control
  <2>2. Steps(O(o))
    BY <1>1, <1>4, <2>1, TaskFacts DEF Reset, Close, Goto, Steps
  <2> QED BY <2>1, <2>2 DEF Lifts
<1>5. ASSUME NEW o \in Op, Posted(o) PROVE Lifts
  <2>1. pc[O(o)] = "posted" /\ kind' = kind /\ kind[o] \in InstallKinds
    BY <1>5 DEF Posted, Spawn, Inv, Control
  <2>2. pc'[O(o)] = "done"
    BY <1>1, <1>5, TaskFacts DEF Posted, Spawn
  <2> QED BY <2>1, <2>2 DEF Lifts, Steps
<1>6. ASSUME NEW o \in Op, Unsuspend(o) PROVE Lifts
  <2>1. kind[o] = None /\ kind'[o] = "unsuspend"
    BY <1>1, <1>6 DEF Unsuspend, Begin
  <2>2. pc[O(o)] = "idle"
    BY <2>1 DEF Inv, Control
  <2>3. pc'[O(o)] = "done"
    BY <1>1, <1>6, TaskFacts DEF Unsuspend
  <2> QED BY <2>1, <2>2, <2>3 DEF Lifts, Steps
<1>7. ASSUME NEW o \in Op, Powered(o) PROVE Lifts
  <2>1. pc[O(o)] = "powered" /\ kind' = kind /\ kind[o] \in {"power", "bulk"}
    BY <1>7 DEF Powered, Close, Goto, Inv, Control
  <2>2. pc'[O(o)] = "done"
    BY <1>1, <1>7, TaskFacts DEF Powered, Close, Goto
  <2> QED BY <2>1, <2>2 DEF Lifts, Steps
<1>8. ASSUME NEW o \in Op, StatsBack(o) PROVE Lifts
  <2>1. pc[O(o)] = "told"
    BY <1>8 DEF StatsBack, Close, Goto
  <2>2. pc'[O(o)] = "done"
    BY <1>1, <1>8, TaskFacts DEF StatsBack, Close, Goto
  <2>3. snap[O(o)].status # "suspended"
    BY <1>8 DEF StatsBack
  <2> QED BY <2>1, <2>2, <2>3, TaskFacts DEF Lifts, Steps
<1>9. ASSUME NEW o \in Op, PollBack(o) PROVE Lifts
  <2>1. pc[P(o)] = "told" /\ \E l \in {"final", "sleep", "done"} : pc' = [pc EXCEPT ![P(o)] = l]
    BY <1>9 DEF PollBack, PollAgain, PollWrites, Close, Goto
  <2>2. Steps(P(o))
    BY <1>1, <2>1, TaskFacts DEF Steps
  <2> QED BY <2>2 DEF Lifts
<1>10. ASSUME NEW o \in Op, PollFinal(o) PROVE Lifts
  <2>1. pc[P(o)] = "final" /\ pc'[P(o)] = "done"
    BY <1>1, <1>10, TaskFacts DEF PollFinal, Close, Goto
  <2> QED BY <2>1 DEF Lifts, Steps
<1>11. ASSUME SyncBack PROVE Lifts
  <2>1. pc[Sync] = "told" /\ pc'[Sync] = "idle"
    BY <1>1, <1>11, TaskFacts DEF SyncBack, Close, Goto
  <2>2. snap[Sync].status # "suspended"
    BY <2>1 DEF Inv, Loaded
  <2> QED BY <2>1, <2>2, TaskFacts DEF Lifts, Steps
<1> QED
  BY <1>2, <1>3, <1>4, <1>5, <1>6, <1>7, <1>8, <1>9, <1>10, <1>11, RowWriters

\* The status sync and the stats page never undo a suspension that was committed
\* before they read the row, for any number of requests beside them.
THEOREM SuspensionHolds == Spec => SuspensionHoldsAgainstObservers
<1>1. Inv /\ [Next]_vars =>
        (row # None /\ row' # None /\ row.status = "suspended" /\ row'.status # "suspended"
         => Lifts)
  BY SuspensionStep
<1> QED
  BY <1>1, InvAlways, PTL DEF Spec, SuspensionHoldsAgainstObservers, Lifts

-----------------------------------------------------------------------------
(* One home.                                                               *)

\* While requests follow one another, at most one has work left; ...
OneAtWork == \A o, p \in Op : ~Settled(o) /\ ~Settled(p) => o = p

\* ... a container is on the node of the row, but where a DELETE was missed; ...
AtHome == \A n \in Node \ missed : container[n] # "missing" => row # None /\ row.node = n

\* ... and the request at work is on its way from the node of the row it has
\* loaded, without a container left, to the node it posts to.
OnTheWay(o) ==
  /\ pc[O(o)] \in {"deleting", "erase", "reset"} =>
       \A n \in Node \ missed : container[n] = "missing"
  /\ pc[O(o)] \in {"delete", "deleting", "reset"} =>
       row # None /\ row.node = snap[O(o)].node
  /\ pc[O(o)] \in {"reload", "post", "posted"} \/ ~InstallOver(o) =>
       row # None /\ row.node = dest[o]

Homes == Calm => OneAtWork /\ AtHome /\ \A o \in Op : OnTheWay(o)

\* A step of one request leaves the others as they were.
Work(o) == \/ Handle(o) \/ Poll(o)
           \/ DaemonRemovesAgain(o) \/ CreateAndStartServer(o)

LEMMA OthersRest ==
  ASSUME Inv, NEW o \in Op, Request(o) \/ Work(o), NEW p \in Op, p # o
  PROVE  /\ kind'[p] = kind[p] /\ install'[p] = install[p] /\ removal'[p] = removal[p]
         /\ pc'[O(p)] = pc[O(p)] /\ pc'[P(p)] = pc[P(p)]
<1>1. /\ DOMAIN kind = Op /\ DOMAIN install = Op /\ DOMAIN removal = Op /\ DOMAIN pc = Task
  BY DEF Inv, TypeOK
<1>2. O(p) # O(o) /\ O(p) # P(o) /\ P(p) # O(o) /\ P(p) # P(o)
      /\ O(p) \in Task /\ P(p) \in Task
  BY TaskFacts
<1>3. /\ kind' = kind \/ \E k : kind' = [kind EXCEPT ![o] = k]
      /\ install' = install \/ \E i : install' = [install EXCEPT ![o] = i]
      /\ removal' = removal \/ \E r : removal' = [removal EXCEPT ![o] = r]
      /\ \/ pc' = pc
         \/ \E l : pc' = [pc EXCEPT ![O(o)] = l] \/ pc' = [pc EXCEPT ![P(o)] = l]
         \/ \E l, m : pc' = [pc EXCEPT ![O(o)] = l, ![P(o)] = m]
  <2>1. CASE Request(o)
    BY <2>1 DEF Request, Create, Reinstall, Transfer, DeleteServer, Suspend, Unsuspend,
       Power, BulkPower, Stats, Open, Begin, daemon
  <2>2. CASE Handle(o)
    BY <2>2 DEF Handle, DaemonRemoves, DeleteReturns, Reset, Reload, Post, PostFails,
       Posted, Spawn, Erase, StopSuspended, StopFails, DaemonPower, PowerFails, Powered,
       Report, ReportFails, StatsBack, Close, Goto, daemon
  <2>3. CASE Poll(o)
    BY <2>3 DEF Poll, PollLoad, Report, InstallInFlight, ReportFails, PollBack, PollAgain,
       PollWrites, PollFinal, Close, Goto, daemon
  <2>4. CASE DaemonRemovesAgain(o) \/ CreateAndStartServer(o)
    BY <2>4 DEF DaemonRemovesAgain, CreateAndStartServer, Register, CreateContainer,
       InstallFails, StartContainer, StartFails, FinishInstall, panel
  <2> QED BY <2>1, <2>2, <2>3, <2>4 DEF Work
<1> QED BY ONLY <1>1, <1>2, <1>3, p \in Op, o \in Op, p # o

\* A request that still does something is not settled.
LEMMA WorkIsUnsettled ==
  ASSUME Inv, NEW o \in Op, Work(o)
  PROVE  ~Settled(o) /\ (Calm' => Calm)
<1> USE DEF Settled, Busy, Done
<1>1. ASSUME pc[O(o)] \notin {"idle", "done"} PROVE ~Settled(o)
  BY <1>1 DEF Inv, Control
<1>2. ASSUME pc[P(o)] \notin {"idle", "done"} PROVE ~Settled(o)
  BY <1>2 DEF PollOver
<1>3. CASE Handle(o)
  <2>1. pc[O(o)] \notin {"idle", "done"}
    BY <1>3 DEF Handle, DaemonRemoves, DeleteReturns, Reset, Reload, Post, PostFails,
       Posted, Spawn, Erase, StopSuspended, StopFails, DaemonPower, PowerFails, Powered,
       Report, ReportFails, StatsBack, Close, Goto
  <2>2. Calm' => Calm
    BY <1>3 DEF Handle, DaemonRemoves, DeleteReturns, Reset, Reload, Post, PostFails,
       Posted, Erase, StopSuspended, StopFails, DaemonPower, PowerFails, Powered,
       Report, ReportFails, StatsBack, RemoveContainer, Miss, Calm
  <2> QED BY <1>1, <2>1, <2>2
<1>4. CASE Poll(o)
  <2>1. pc[P(o)] \notin {"idle", "done"} /\ (Calm' => Calm)
    BY <1>4 DEF Poll, PollLoad, Report, InstallInFlight, ReportFails, PollBack, PollFinal,
       Close, Goto, Calm
  <2> QED BY <1>2, <2>1
<1>5. CASE DaemonRemovesAgain(o)
  BY <1>5 DEF DaemonRemovesAgain, RemoveContainer, Miss, RemovalOver, Calm
<1>6. CASE CreateAndStartServer(o)
  BY <1>6 DEF CreateAndStartServer, Register, CreateContainer, InstallFails,
     StartContainer, StartFails, InstallOver, panel, Calm
<1> QED BY <1>3, <1>4, <1>5, <1>6 DEF Work

\* So the others stay settled, and nothing is claimed of them.
LEMMA OneStaysAtWork ==
  ASSUME Inv, Inv', Homes, NEW o \in Op, Request(o) \/ Work(o), Calm'
  PROVE  /\ Calm /\ AtHome /\ OnTheWay(o)
         /\ OneAtWork' /\ \A p \in Op \ {o} : OnTheWay(p)'
<1>1. Calm /\ \A p \in Op \ {o} : Settled(p)
  <2>1. CASE Request(o)
    BY <2>1 DEF Request, Create, Reinstall, Transfer, DeleteServer, Suspend, Unsuspend,
       Power, BulkPower, Stats, Open, Begin, Calm
  <2>2. CASE Work(o)
    BY <2>2, WorkIsUnsettled DEF Homes, OneAtWork
  <2> QED BY <2>1, <2>2
<1>2. ASSUME NEW p \in Op \ {o} PROVE Settled(p)'
  BY <1>1, <1>2, OthersRest
     DEF Settled, Busy, Done, InstallOver, RemovalOver, PollOver
<1>3. ASSUME NEW p \in Op \ {o} PROVE OnTheWay(p)'
  <2>1. pc'[O(p)] \in {"idle", "done"} /\ InstallOver(p)'
    BY <1>2, <1>3 DEF Settled, Busy, Done, Inv, Control
  <2> QED BY <2>1 DEF OnTheWay
<1>4. OneAtWork'
  BY <1>2 DEF OneAtWork
<1> QED BY <1>1, <1>3, <1>4 DEF Homes

LEMMA HomesOf ==
  ASSUME Inv, Inv', Calm, Calm', AtHome, NEW o \in Op, OnTheWay(o),
         Request(o) \/ Work(o)
  PROVE  AtHome' /\ OnTheWay(o)'
<1> DEFINE Goal == AtHome' /\ OnTheWay(o)'
<1>1. /\ DOMAIN kind = Op /\ DOMAIN install = Op /\ DOMAIN pc = Task /\ DOMAIN snap = Task
      /\ DOMAIN container = Node /\ DOMAIN dest = Op
      /\ row \in Row \cup {None} /\ dest[o] \in Node \cup {None}
  BY DEF Inv, TypeOK
<1>2. O(o) \in Task /\ P(o) \in Task /\ O(o) # P(o)
  BY TaskFacts
\* A commit that keeps the node.
<1>3. ASSUME Keep, missed' = missed, container' = container, dest' = dest,
             snap'[O(o)] = snap[O(o)],
             install' = install, pc'[O(o)] \in {pc[O(o)], "done"}
      PROVE  Goal
  BY <1>3 DEF AtHome, OnTheWay, InstallOver, Keep
\* A commit, or a handler's end, after the last daemon call.
<1>4. ASSUME Keep, missed' = missed, container' = container, dest' = dest, install' = install,
             pc'[O(o)] \in {"ask", "power", "powered", "stop", "told", "done"}
      PROVE  Goal
  BY <1>4 DEF AtHome, OnTheWay, InstallOver, Keep
<1>5. row' = row => Keep
  BY DEF Keep
<1>6. pc[O(o)] \notin {"posted", "done"} => install[o] = "none"
  BY DEF Inv, Control
<1>7. ASSUME NEW k, Begin(o, k) PROVE missed' = missed
  BY <1>7 DEF Begin, Calm
<1>10. CASE Create(o)
  <2>0. missed' = missed
    BY <1>7, <1>10 DEF Create
  <2>1. /\ row = None /\ container' = container /\ install' = install
        /\ pc'[O(o)] = "reload" /\ row' # None /\ row'.node = dest'[o]
    <3>1. PICK n \in Node :
            /\ row' = [status |-> "installing", installed |-> FALSE, node |-> n]
            /\ dest' = [dest EXCEPT ![o] = n]
      BY <1>10 DEF Create
    <3>2. row' \in Row /\ row'.node = n
      BY <3>1 DEF Row, Status
    <3> QED BY <1>10, <1>1, <1>2, <3>1, <3>2, NoneAssumption DEF Create, daemon
  <2> QED BY <1>10, <1>1, <2>0, <2>1 DEF AtHome, OnTheWay
<1>11. CASE Reinstall(o) \/ Transfer(o) \/ DeleteServer(o)
  <2>1. /\ row # None /\ row' = row /\ container' = container /\ install' = install
        /\ kind[o] = None /\ pc'[O(o)] = "delete" /\ snap'[O(o)] = row
    BY <1>11, <1>1, <1>2 DEF Reinstall, Transfer, DeleteServer, Open, Begin, Load, daemon
  <2>2. pc[O(o)] = "idle"
    BY <2>1 DEF Inv, Control
  <2>3. missed' = missed
    BY <1>7, <1>11 DEF Reinstall, Transfer, DeleteServer, Open
  <2> QED BY <1>6, <2>1, <2>2, <2>3 DEF AtHome, OnTheWay, InstallOver
<1>12. CASE Power(o) \/ BulkPower(o) \/ Stats(o)
  <2>1. /\ row' = row /\ container' = container /\ install' = install /\ dest' = dest
        /\ pc'[O(o)] \in {"power", "ask"}
    BY <1>12, <1>1, <1>2 DEF Power, BulkPower, Stats, Open, Begin, daemon
  <2>2. missed' = missed
    BY <1>7, <1>12 DEF Power, BulkPower, Stats, Open
  <2> QED BY <1>4, <1>5, <2>1, <2>2
<1>13. CASE Suspend(o) \/ Unsuspend(o)
  <2>1. /\ row # None /\ \E st \in Status : row' = [row EXCEPT !.status = st]
        /\ container' = container /\ install' = install /\ dest' = dest
        /\ pc'[O(o)] \in {"stop", "done"}
    BY <1>13, <1>1, <1>2 DEF Suspend, Unsuspend, Begin, daemon, Status
  <2>2. Keep
    <3>1. PICK st \in Status : row' = [row EXCEPT !.status = st]
      BY <2>1
    <3>2. row \in Row
      BY <1>1, <2>1
    <3>3. [row EXCEPT !.status = st] \in Row /\ [row EXCEPT !.status = st].node = row.node
      BY <3>2 DEF Row
    <3> QED BY ONLY <2>1, <3>1, <3>3, NoneAssumption DEF Keep
  <2>3. missed' = missed
    BY <1>7, <1>13 DEF Suspend, Unsuspend
  <2> QED BY <1>4, <2>1, <2>2, <2>3
<1>14. CASE DaemonRemoves(o)
  <2>1. /\ pc[O(o)] = "delete" /\ pc'[O(o)] = "deleting" /\ row' = row /\ snap' = snap
        /\ install' = install /\ RemoveContainer(snap[O(o)].node)
    BY <1>14, <1>1, <1>2 DEF DaemonRemoves, Goto
  <2>2. row # None /\ row.node = snap[O(o)].node
    BY <2>1 DEF OnTheWay
  <2>3. snap[O(o)].node \in Node
    BY <1>1, <2>2 DEF Row
  <2>4. \A m \in Node \ missed' :
          \/ container'[m] = "missing"
          \/ m # snap[O(o)].node /\ m \notin missed /\ container'[m] = container[m]
    BY <2>1, <2>3, Removes
  <2>5. \A m \in Node \ missed' : container'[m] = "missing"
    BY <2>2, <2>4 DEF AtHome
  <2> QED BY <1>6, <2>1, <2>2, <2>5 DEF AtHome, OnTheWay, InstallOver
<1>15. CASE DeleteReturns(o)
  <2>1. /\ pc[O(o)] \in {"delete", "deleting"} /\ pc'[O(o)] \in {"erase", "reset"}
        /\ UNCHANGED <<row, snap, dest, container, install>>
        /\ \/ pc[O(o)] = "deleting" /\ missed' = missed
           \/ pc[O(o)] = "delete" /\ missed' = missed \cup {snap[O(o)].node}
    BY <1>15, <1>1, <1>2 DEF DeleteReturns, Miss, daemon
  <2>2. row # None /\ row.node = snap[O(o)].node
    BY <2>1 DEF OnTheWay
  <2>3. \A m \in Node \ missed' : container'[m] = "missing"
    BY <2>1, <2>2 DEF AtHome, OnTheWay
  <2> QED BY <1>6, <2>1, <2>2, <2>3 DEF AtHome, OnTheWay, InstallOver
<1>16. CASE Reset(o)
  <2> DEFINE new == [status |-> "installing", installed |-> FALSE, node |-> dest[o]]
  <2>1. /\ pc[O(o)] = "reset" /\ pc'[O(o)] \in {"done", "reload"} /\ Flush(O(o), new)
        /\ UNCHANGED <<missed, dest, container, install>>
    BY <1>16, <1>1, <1>2 DEF Reset, Close, Goto, daemon
  <2>2. /\ row # None /\ row.node = snap[O(o)].node
        /\ \A m \in Node \ missed : container[m] = "missing"
    BY <2>1 DEF OnTheWay
  <2>3. snap[O(o)] \in Row /\ dest[o] \in Node
    BY <1>2, <2>1 DEF Inv, Loaded, Control
  <2>4. new \in Row /\ new.node = dest[o]
    BY <2>3 DEF Row, Status
  <2>5. row' # None /\ row'.node = dest[o]
    <3> HIDE DEF new
    <3> QED BY <1>1, <2>1, <2>2, <2>3, <2>4, FlushRow, NoneAssumption
  <2> QED BY <1>6, <2>1, <2>2, <2>5 DEF AtHome, OnTheWay, InstallOver
<1>17. CASE Reload(o)
  <2>1. /\ pc[O(o)] = "reload" /\ pc'[O(o)] \in {"done", "post"}
        /\ UNCHANGED <<missed, row, dest, container, install>>
    BY <1>17, <1>1, <1>2 DEF Reload, Goto, daemon
  <2> QED BY <2>1 DEF AtHome, OnTheWay, InstallOver
<1>18. CASE Post(o) \/ PostFails(o)
  <2>1. /\ pc[O(o)] = "post" /\ pc'[O(o)] = "posted"
        /\ UNCHANGED <<missed, row, dest, container>>
    BY <1>18, <1>1, <1>2 DEF Post, PostFails, Goto, daemon
  <2> QED BY <2>1 DEF AtHome, OnTheWay
<1>19. CASE Posted(o) \/ Powered(o) \/ StatsBack(o)
  <2>1. /\ pc'[O(o)] = "done" /\ UNCHANGED <<missed, dest, container, install>>
    BY <1>19, <1>1, <1>2 DEF Posted, Spawn, Powered, StatsBack, Close, Goto, daemon
  <2> QED BY <1>19, <1>4, <2>1, Writes
<1>20. CASE Erase(o)
  <2>1. /\ pc[O(o)] = "erase" /\ pc'[O(o)] = "done" /\ UNCHANGED <<missed, dest, container, install>>
    BY <1>20, <1>1, <1>2 DEF Erase, Close, Goto, daemon
  <2>2. \A m \in Node \ missed : container[m] = "missing"
    BY <2>1 DEF OnTheWay
  <2> QED BY <1>6, <2>1, <2>2 DEF AtHome, OnTheWay, InstallOver
<1>21. CASE StopSuspended(o)
  <2>1. /\ pc[O(o)] = "stop" /\ pc'[O(o)] = "done" /\ UNCHANGED <<missed, row, dest, install>>
        /\ container[snap[O(o)].node] # "missing"
        /\ \E c : container' = [container EXCEPT ![snap[O(o)].node] = c]
    BY <1>21, <1>1, <1>2 DEF StopSuspended, Close, Goto
  <2> QED BY <1>1, <1>6, <2>1 DEF AtHome, OnTheWay, InstallOver
<1>22. CASE DaemonPower(o)
  <2>1. /\ pc[O(o)] = "power" /\ pc'[O(o)] = "powered" /\ UNCHANGED <<missed, row, dest, install>>
        /\ container[snap[O(o)].node] # "missing"
        /\ \E c : container' = [container EXCEPT ![snap[O(o)].node] = c]
    BY <1>22, <1>1, <1>2 DEF DaemonPower, PowerEffect, Goto
  <2> QED BY <1>1, <1>6, <2>1 DEF AtHome, OnTheWay, InstallOver
<1>23. CASE StopFails(o) \/ PowerFails(o)
  <2>1. pc'[O(o)] = "done" /\ UNCHANGED <<missed, row, dest, container, install>>
    BY <1>23, <1>1, <1>2 DEF StopFails, PowerFails, Close, Goto, daemon
  <2> QED BY <1>4, <1>5, <2>1
<1>24. CASE Report(O(o)) \/ ReportFails(O(o))
  <2>1. pc'[O(o)] \in {"told", "inspected"} /\ UNCHANGED <<missed, row, dest, container, install>>
    BY <1>24, <1>1, <1>2 DEF Report, ReportFails, Goto, daemon
  <2>2. pc'[O(o)] = "told"
    BY <2>1 DEF Inv, Control
  <2> QED BY <1>4, <1>5, <2>1, <2>2
<1>25. CASE Poll(o)
  <2>1. /\ pc'[O(o)] = pc[O(o)] /\ snap'[O(o)] = snap[O(o)]
        /\ UNCHANGED <<missed, dest, container, install>>
    BY <1>25, <1>1, <1>2 DEF Poll, PollLoad, Load, Report, InstallInFlight, ReportFails,
       PollBack, PollAgain, PollWrites, PollFinal, Close, Goto, daemon
  <2>2. Keep
    <3>1. CASE PollBack(o)
      BY <3>1, Writes
    <3>2. CASE PollFinal(o)
      <4>1. CASE row = None
        BY <3>2, <4>1 DEF PollFinal, Keep
      <4>2. CASE row # None
        <5> DEFINE new == [row EXCEPT !.installed = TRUE,
                                      !.status = IF @ = "installing" THEN "install_failed" ELSE @]
        <5>1. new \in Row /\ new.node = row.node
          BY <1>1, <4>2 DEF Row, Status
        <5>2. row' = new
          BY <3>2, <4>2 DEF PollFinal
        <5> HIDE DEF new
        <5> QED BY ONLY <4>2, <5>1, <5>2, NoneAssumption DEF Keep
      <4> QED BY <4>1, <4>2
    <3>3. CASE PollLoad(o) \/ Report(P(o)) \/ InstallInFlight(o) \/ ReportFails(P(o))
      BY <1>5, <3>3 DEF PollLoad, Report, InstallInFlight, ReportFails
    <3> QED BY <1>25, <3>1, <3>2, <3>3 DEF Poll
  <2> QED BY <1>3, <2>1, <2>2
<1>26. CASE DaemonRemovesAgain(o)
  <2>1. UNCHANGED <<row, dest, snap, pc, install>> /\ RemoveContainer(removal[o].node)
    BY <1>26 DEF DaemonRemovesAgain
  <2>2. removal[o].node \in Node
    BY <1>26 DEF DaemonRemovesAgain, Inv, TypeOK
  <2>3. \A m \in Node \ missed' :
          \/ container'[m] = "missing"
          \/ m \notin missed /\ container'[m] = container[m]
    BY <2>1, <2>2, Removes
  <2> QED BY <2>1, <2>3 DEF AtHome, OnTheWay, InstallOver
<1>27. CASE CreateAndStartServer(o)
  <2>1. /\ UNCHANGED <<missed, row, dest, snap, pc>> /\ ~InstallOver(o)
        /\ container' = container \/ \E c : container' = [container EXCEPT ![dest[o]] = c]
    BY <1>27 DEF CreateAndStartServer, Register, CreateContainer, InstallFails,
       StartContainer, StartFails, InstallOver, panel
  <2>2. pc[O(o)] \in {"posted", "done"}
    BY <2>1 DEF InstallOver, Inv, Control
  <2>3. row # None /\ row.node = dest[o]
    BY <2>1 DEF OnTheWay
  <2> QED BY <1>1, <2>1, <2>2, <2>3 DEF AtHome, OnTheWay
<1> QED
  BY ONLY Request(o) \/ Work(o), <1>10, <1>11, <1>12, <1>13, <1>14, <1>15, <1>16, <1>17, <1>18, <1>19,
       <1>20, <1>21, <1>22, <1>23, <1>24, <1>25, <1>26, <1>27
     DEF Request, Work, Handle

LEMMA HomesStep == Inv /\ Inv' /\ Homes /\ [Next]_vars => Homes'
<1> SUFFICES ASSUME Inv, Inv', Homes, [Next]_vars, Calm'
             PROVE  (OneAtWork /\ AtHome /\ \A o \in Op : OnTheWay(o))'
  BY DEF Homes
<1>1. ASSUME NEW o \in Op, Request(o) \/ Work(o)
      PROVE  (OneAtWork /\ AtHome /\ \A p \in Op : OnTheWay(p))'
  <2>1. /\ Calm /\ AtHome /\ OnTheWay(o)
        /\ OneAtWork' /\ \A p \in Op \ {o} : OnTheWay(p)'
    BY <1>1, OneStaysAtWork
  <2>2. AtHome' /\ OnTheWay(o)'
    BY <1>1, <2>1, HomesOf
  <2> QED BY <2>1, <2>2
\* The sync and the moves of containers: no request takes a step.
<1>2. ASSUME Keep,
             UNCHANGED <<missed, kind, dest, install, removal>>,
             \A o \in Op : /\ pc'[O(o)] = pc[O(o)] /\ pc'[P(o)] = pc[P(o)]
                           /\ snap'[O(o)] = snap[O(o)],
             \A n \in Node : container'[n] # "missing" => container[n] # "missing"
      PROVE  (OneAtWork /\ AtHome /\ \A p \in Op : OnTheWay(p))'
  <2>1. OneAtWork /\ AtHome /\ \A o \in Op : OnTheWay(o)
    BY <1>2 DEF Homes, Calm
  <2>2. \A o \in Op : Settled(o)' = Settled(o)
    BY <1>2 DEF Settled, Busy, Done, InstallOver, RemovalOver, PollOver
  <2>3. OneAtWork'
    BY <2>1, <2>2 DEF OneAtWork
  <2>4. AtHome' /\ \A o \in Op : OnTheWay(o)'
    BY <1>2, <2>1 DEF AtHome, OnTheWay, InstallOver, Keep
  <2> QED BY <2>3, <2>4
<1>3. row' = row => Keep
  BY DEF Keep
<1>4. CASE SyncStep
  <2>1. /\ \E l : pc' = [pc EXCEPT ![Sync] = l]
        /\ snap' = snap \/ \E r : snap' = [snap EXCEPT ![Sync] = r]
        /\ UNCHANGED <<missed, kind, dest, install, removal, container>>
    BY <1>4 DEF SyncStep, SyncLoad, Report, ReportFails, SyncBack, Load, Close, Goto, daemon
  <2>2. Keep
    BY <1>3, <1>4, SyncWrites DEF SyncStep, SyncLoad, Report, ReportFails
  <2>3. DOMAIN pc = Task /\ DOMAIN snap = Task
    BY DEF Inv, TypeOK
  <2>4. \A o \in Op : /\ pc'[O(o)] = pc[O(o)] /\ pc'[P(o)] = pc[P(o)]
                      /\ snap'[O(o)] = snap[O(o)]
    BY ONLY <2>1, <2>3, TaskFacts
  <2> QED BY <1>2, <2>1, <2>2, <2>4
<1>5. ASSUME NEW n \in Node, Move(n)
      PROVE  (OneAtWork /\ AtHome /\ \A p \in Op : OnTheWay(p))'
  <2>1. /\ UNCHANGED <<missed, kind, dest, install, removal, pc, snap, row>>
        /\ container[n] # "missing"
        /\ \E c : container' = [container EXCEPT ![n] = c]
    BY <1>5 DEF Move, panel
  <2>2. DOMAIN container = Node
    BY DEF Inv, TypeOK
  <2> QED BY <1>2, <1>3, <2>1, <2>2
<1>6. CASE Idle \/ UNCHANGED vars
  BY <1>2, <1>3, <1>6 DEF Idle, vars, panel, daemon
<1> QED
  BY ONLY <1>1, <1>4, <1>5, <1>6, [Next]_vars DEF Next, Work

LEMMA HomesInit == Init => Homes
<1> SUFFICES ASSUME Init PROVE Homes
  OBVIOUS
<1>1. \A o \in Op : Settled(o) /\ OnTheWay(o)
  BY TaskFacts DEF Init, Settled, Busy, InstallOver, RemovalOver, PollOver, OnTheWay
<1>2. AtHome
  <2>1. CASE container = [n \in Node |-> "missing"]
    BY <2>1 DEF AtHome
  <2>2. ASSUME NEW n \in Node,
               row = [status |-> "running", installed |-> TRUE, node |-> n],
               container = [m \in Node |-> IF m = n THEN "running" ELSE "missing"]
        PROVE  AtHome
    <3>1. row \in Row /\ row.node = n
      BY <2>2 DEF Row, Status
    <3> QED BY <2>2, <3>1, NoneAssumption DEF AtHome
  <2> QED BY <2>1, <2>2 DEF Init
<1> QED BY <1>1, <1>2 DEF Homes, OneAtWork

\* As long as requests follow one another, the container of a server is on the
\* node of its row and nowhere else, and a deleted server has none, but where
\* the last DELETE was lost or could not remove: for any number of requests,
\* reinstalls, transfers and nodes.
THEOREM OneHomeAlways == Spec => []OneHome
<1>1. Homes => OneHome
  BY DEF Homes, AtHome, OneHome
<1> QED BY <1>1, HomesInit, HomesStep, InvAlways, PTL DEF Spec

=============================================================================
