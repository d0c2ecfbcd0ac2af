-------------------------- MODULE StatusSync_proofs --------------------------
(***************************************************************************)
(* Proofs about the status loops, for any finite sets of workers and       *)
(* servers.                                                                *)
(***************************************************************************)
EXTENDS StatusSync, FiniteSetTheorems, TLAPS

Round == {"next", "asked", "answered"}

\* What a visit has at hand, and that a server is visited once in a round.
VisitInv ==
  \A w \in Worker :
    /\ pc[w] \in {"asked", "answered"} => cur[w] \in Server /\ cur[w] \notin todo[w]
    /\ pc[w] \notin {"asked", "answered"} => cur[w] = None
    /\ pc[w] = "answered" => answer[w] \in Real

Typed == TypeOK /\ VisitInv

LEMMA TypedInit == Init => Typed
BY SyncAssumption DEF Init, Typed, TypeOK, VisitInv, Status, Real, AllExpired

LEMMA ReadIsStatus ==
  ASSUME TypeOK, NEW w \in Worker, NEW s \in Server, Readable(w, s)
  PROVE  StatusRead(w, s) \in Status \cup {"gone"}
BY DEF TypeOK, Readable, StatusRead, Status

LEMMA TypedStep == Typed /\ [Next]_vars => Typed'
<1> SUFFICES ASSUME Typed, [Next]_vars PROVE Typed'
  OBVIOUS
<1> USE SyncAssumption DEF Typed, TypeOK, VisitInv, Goes
<1>1. ASSUME NEW w \in Worker, Acquire(w) PROVE Typed'
  BY <1>1 DEF Acquire
<1>2. ASSUME NEW w \in Worker, Query(w) PROVE Typed'
  BY <1>2 DEF Query, Present
<1>3. ASSUME NEW w \in Worker, Close(w) PROVE Typed'
  BY <1>3 DEF Close, AllExpired
<1>4. ASSUME NEW w \in Worker, NEW s \in Server, Skip(w, s) PROVE Typed'
  BY <1>4 DEF Skip, Status
<1>5. ASSUME NEW w \in Worker, NEW s \in Server, Ask(w, s) PROVE Typed'
  <2>1. StatusRead(w, s) \in Status \cup {"gone"}
    BY <1>5, ReadIsStatus DEF Ask
  <2> QED BY <1>5, <2>1 DEF Ask
<1>6. ASSUME NEW w \in Worker, NEW s \in Server, Die(w, s) PROVE Typed'
  <2>1. lock = w /\ pc[w] = "next"
    BY <1>6 DEF Die
  <2> QED BY <1>6, <2>1 DEF Die, Ends, AllExpired
<1>7. ASSUME NEW w \in Worker, Inspect(w) PROVE Typed'
  BY <1>7 DEF Inspect, Real
<1>8. ASSUME NEW w \in Worker, NoAnswer(w) PROVE Typed'
  BY <1>8 DEF NoAnswer
<1>9. ASSUME NEW w \in Worker, Same(w) PROVE Typed'
  BY <1>9 DEF Same
<1>10. ASSUME NEW w \in Worker, Write(w) PROVE Typed'
  <2>1. cur[w] \in Server /\ Mapped(answer[w]) \in Status
    BY <1>10 DEF Write, Mapped, Status, Real
  <2>2. row' \in [Server -> Status \cup {"gone"}] /\ failed' \in [Worker -> BOOLEAN]
    BY <1>10, <2>1 DEF Write
  <2> QED BY <1>10, <2>2 DEF Write, AllExpired
<1>11. ASSUME NEW s \in Server, Suspend(s) \/ Unsuspend(s) \/ ContainerChanges(s)
       PROVE  Typed'
  <2>1. CASE Suspend(s)
    BY <2>1 DEF Suspend, Moves, loops, Status
  <2>2. CASE Unsuspend(s)
    BY <2>2 DEF Unsuspend, Moves, loops, Status
  <2>3. CASE ContainerChanges(s)
    BY <2>3 DEF ContainerChanges, Moves, loops
  <2> QED BY <1>11, <2>1, <2>2, <2>3
<1>12. ASSUME NEW s \in Server, DeleteServer(s) PROVE Typed'
  BY <1>12 DEF DeleteServer, loops
<1>13. ASSUME NEW w \in Worker, DatabaseFails(w) PROVE Typed'
  BY <1>13 DEF DatabaseFails, Ends, AllExpired
<1>14. ASSUME NEW w \in Worker, CommitFails(w) PROVE Typed'
  BY <1>14 DEF CommitFails, AllExpired
<1>15. CASE UNCHANGED vars
  BY <1>15 DEF vars
<1> QED
  BY <1>1, <1>2, <1>3, <1>4, <1>5, <1>6, <1>7, <1>8, <1>9, <1>10, <1>11, <1>12, <1>13,
     <1>14, <1>15
  DEF Next, Loop, NoLoop

\* The session of a round has its types, and who is in a round has the lock:
\* at most one of the four workers writes what the daemons say.
THEOREM TypeCorrect == Spec => []TypeOK
BY TypedInit, TypedStep, PTL DEF Spec, Typed

-----------------------------------------------------------------------------
(* A deleted server costs at most one loop.                                *)

Gone == {s \in Server : row[s] = "gone"}

\* The loops that are dead for another reason than the database.
Lost == Dead \ outage

\* The deleted servers that the round under way can not stumble over any more.
Passed(w) == Gone \ (todo[w] \cup {cur[w]})

\* Each loop that is lost is paid for by a deleted server that no round meets
\* again, and so is the failed session that is going to end one.
CountInv ==
  /\ Cardinality(Lost) <= Cardinality(Gone)
  /\ \A w \in Worker : pc[w] \in Round =>
       /\ Cardinality(Lost) <= Cardinality(Passed(w))
       /\ failed[w] /\ w \notin outage => Cardinality(Lost) + 1 <= Cardinality(Passed(w))

LEMMA FinitePart ==
  ASSUME NEW S, NEW T, IsFiniteSet(T), S \subseteq T
  PROVE  /\ Cardinality(S) \in Nat /\ Cardinality(T) \in Nat
         /\ Cardinality(S) <= Cardinality(T)
         /\ IsFiniteSet(S)
BY FS_Subset, FS_CardinalityType

LEMMA FiniteProperPart ==
  ASSUME NEW S, NEW T, IsFiniteSet(T), S \subseteq T, NEW x \in T, x \notin S
  PROVE  Cardinality(S) + 1 <= Cardinality(T)
<1>1. IsFiniteSet(S) /\ S \cup {x} \subseteq T
  BY FinitePart
<1>2. Cardinality(S \cup {x}) = Cardinality(S) + 1
  BY <1>1, FS_AddElement
<1> QED BY <1>1, <1>2, FinitePart

AllFinite ==
  /\ IsFiniteSet(Lost) /\ IsFiniteSet(Gone)
  /\ Cardinality(Lost) \in Nat /\ Cardinality(Gone) \in Nat
  /\ \A w \in Worker : IsFiniteSet(Passed(w)) /\ Cardinality(Passed(w)) \in Nat
                       /\ Cardinality(Passed(w)) <= Cardinality(Gone)

LEMMA NowFinite == AllFinite
<1>1. Lost \subseteq Worker /\ Gone \subseteq Server
  BY DEF Lost, Dead, Gone
<1>2. IsFiniteSet(Lost) /\ IsFiniteSet(Gone)
  BY <1>1, FinitePart, SyncAssumption
<1>3. \A w \in Worker : Passed(w) \subseteq Gone
  BY DEF Passed
<1> QED BY <1>2, <1>3, FinitePart DEF AllFinite

LEMMA ThenFinite == AllFinite'
BY NowFinite, PTL

\* A step by which no loop dies, no session fails, and no deleted server comes
\* before a round that was not there.
LEMMA NothingLost ==
  ASSUME CountInv, Lost' = Lost, Gone \subseteq Gone',
         \A w \in Worker : pc'[w] \in Round =>
           /\ pc[w] \in Round /\ Passed(w) \subseteq Passed(w)'
           /\ failed'[w] /\ w \notin outage' => failed[w] /\ w \notin outage
  PROVE  CountInv'
<1> USE NowFinite, ThenFinite DEF AllFinite
<1>1. Cardinality(Lost') <= Cardinality(Gone')
  <2>1. Cardinality(Gone) <= Cardinality(Gone')
    BY FinitePart
  <2> QED BY <2>1 DEF CountInv
<1>2. ASSUME NEW w \in Worker, pc'[w] \in Round
      PROVE  /\ Cardinality(Lost') <= Cardinality(Passed(w)')
             /\ failed'[w] /\ w \notin outage' => Cardinality(Lost') + 1 <= Cardinality(Passed(w)')
  <2>1. Cardinality(Passed(w)) <= Cardinality(Passed(w)')
    BY <1>2, FinitePart
  <2> QED BY <1>2, <2>1 DEF CountInv
<1> QED BY <1>1, <1>2 DEF CountInv

LEMMA CountInit == Init => CountInv
<1> SUFFICES ASSUME Init PROVE CountInv
  OBVIOUS
<1>1. Lost = {}
  BY DEF Init, Lost, Dead
<1>2. Cardinality(Lost) = 0
  BY <1>1, FS_EmptySet
<1> QED BY <1>2, NowFinite DEF Init, CountInv, Round, AllFinite

LEMMA CountStep == Typed /\ CountInv /\ [Next]_vars => CountInv'
<1> SUFFICES ASSUME Typed, CountInv, [Next]_vars PROVE CountInv'
  OBVIOUS
<1> USE DEF Typed, TypeOK, Round, Goes
<1>1. ASSUME NEW w \in Worker, Acquire(w) \/ Close(w) PROVE CountInv'
  BY <1>1, NothingLost DEF Acquire, Close, Lost, Dead, Gone, Passed
\* A round begins with servers that are not deleted yet.
<1>2. ASSUME NEW w \in Worker, Query(w) PROVE CountInv'
  <2>1. Lost' = Lost /\ Gone' = Gone
    BY <1>2 DEF Query, Lost, Dead, Gone
  <2>2. ASSUME NEW v \in Worker, pc'[v] \in Round PROVE v = w
    BY <1>2, <2>2 DEF Query
  <2>3. Passed(w)' = Gone
    BY <1>2, SyncAssumption DEF Query, Passed, Gone, Present, VisitInv
  <2>4. ~failed'[w]
    BY <1>2 DEF Query
  <2> QED BY <2>1, <2>2, <2>3, <2>4 DEF CountInv
<1>3. ASSUME NEW w \in Worker, NEW s \in Server, Skip(w, s) \/ Ask(w, s)
      PROVE  CountInv'
  <2>1. /\ Lost' = Lost /\ Gone' = Gone
        /\ failed' = failed /\ outage' = outage /\ \A v \in Worker : pc'[v] \in Round => pc[v] \in Round
    BY <1>3 DEF Skip, Ask, Lost, Dead, Gone
  <2>2. \A v \in Worker : Passed(v) \subseteq Passed(v)'
    <3>1. \A v \in Worker : todo'[v] \cup {cur'[v]} \subseteq todo[v] \cup {cur[v]}
      <4>1. CASE Skip(w, s) BY <4>1 DEF Skip
      <4>2. CASE Ask(w, s) BY <4>2 DEF Ask
      <4> QED BY <1>3, <4>1, <4>2
    <3> QED BY <2>1, <3>1 DEF Passed
  <2> QED BY <2>1, <2>2, NothingLost
\* It is paid for by the server it has met, or has been by the one whose row
\* its session could not write.
<1>4. ASSUME NEW w \in Worker, NEW s \in Server, Die(w, s) PROVE CountInv'
  <2>1. lock = w /\ pc[w] = "next" /\ s \in todo[w]
    BY <1>4 DEF Die
  <2>2. \A v \in Worker : pc'[v] \notin Round
    BY <1>4, <2>1 DEF Die, Ends
  <2>3. Lost' \subseteq Lost \cup {w} /\ w \notin Lost /\ Gone' = Gone
        /\ (w \in outage => Lost' \subseteq Lost)
    BY <1>4, <2>1 DEF Die, Ends, Lost, Dead, Gone
  <2>4. Cardinality(Lost \cup {w}) = Cardinality(Lost) + 1 /\ IsFiniteSet(Lost \cup {w})
    BY <2>3, NowFinite, FS_AddElement DEF AllFinite
  <2>5. Cardinality(Lost') <= Cardinality(Lost) + 1
    BY <2>3, <2>4, FinitePart
  <2>6. CASE w \in outage
    <3>1. Cardinality(Lost') <= Cardinality(Lost)
      BY <2>3, <2>6, NowFinite, FinitePart DEF AllFinite
    <3> QED BY <2>2, <2>3, <3>1, NowFinite, ThenFinite DEF CountInv, AllFinite
  <2>7. CASE w \notin outage
    <3>1. Cardinality(Lost) + 1 <= Cardinality(Gone)
      <4>1. CASE failed[w]
        BY <2>1, <2>7, <4>1, NowFinite DEF CountInv, AllFinite
      <4>2. CASE ~failed[w]
        <5>1. s \in Gone /\ s \notin Passed(w) /\ Passed(w) \subseteq Gone
          BY <1>4, <2>1, <4>2 DEF Die, Readable, Gone, Passed
        <5>2. Cardinality(Passed(w)) + 1 <= Cardinality(Gone)
          BY <5>1, NowFinite, FiniteProperPart DEF AllFinite
        <5> QED BY <2>1, <5>2, NowFinite DEF CountInv, AllFinite
      <4> QED BY <4>1, <4>2
    <3> QED BY <2>2, <2>3, <2>5, <3>1, NowFinite, ThenFinite DEF CountInv, AllFinite
  <2> QED BY <2>6, <2>7
<1>5. ASSUME NEW w \in Worker, Inspect(w) \/ NoAnswer(w) \/ Same(w) PROVE CountInv'
  <2>1. /\ Lost' = Lost /\ Gone' = Gone
        /\ failed' = failed /\ outage' = outage /\ \A v \in Worker : pc'[v] \in Round => pc[v] \in Round
    BY <1>5 DEF Inspect, NoAnswer, Same, Lost, Dead, Gone
  <2>2. \A v \in Worker : Passed(v) \subseteq Passed(v)'
    BY <1>5, SyncAssumption DEF Inspect, NoAnswer, Same, Passed, Gone
  <2> QED BY <2>1, <2>2, NothingLost
\* A session fails at a deleted server, which the round has then passed.
<1>6. ASSUME NEW w \in Worker, Write(w) PROVE CountInv'
  <2> DEFINE s == cur[w]
  <2>1. s \in Server /\ s \notin todo[w] /\ pc[w] = "answered" /\ lock = w
    BY <1>6 DEF Write, VisitInv
  <2>2. Mapped(answer[w]) # "gone"
    BY <1>6 DEF Write, VisitInv, Mapped, Real
  <2>3. Lost' = Lost /\ Gone' = Gone /\ outage' = outage
    BY <1>6, <2>1, <2>2 DEF Write, Lost, Dead, Gone
  <2>4. \A v \in Worker : pc'[v] \in Round => v = w
    BY <1>6, <2>1 DEF Write
  <2>5. Passed(w) \subseteq Passed(w)' /\ (s \in Gone => s \in Passed(w)')
    BY <1>6, <2>1, <2>3, SyncAssumption DEF Write, Passed, Gone
  <2>6. failed'[w] => s \in Gone
    BY <1>6, <2>1 DEF Write, Gone
  <2>7. Cardinality(Lost) <= Cardinality(Passed(w))
    BY <2>1 DEF CountInv
  <2>8. Cardinality(Passed(w)) <= Cardinality(Passed(w)')
    BY <2>5, NowFinite, ThenFinite, FinitePart DEF AllFinite
  <2>9. failed'[w] => Cardinality(Passed(w)) + 1 <= Cardinality(Passed(w)')
    <3> SUFFICES ASSUME failed'[w]
                 PROVE  Cardinality(Passed(w)) + 1 <= Cardinality(Passed(w)')
      OBVIOUS
    <3>1. s \in Passed(w)' /\ s \notin Passed(w)
      BY <2>5, <2>6 DEF Passed
    <3> QED BY <3>1, <2>5, ThenFinite, FiniteProperPart DEF AllFinite
  <2> QED
    BY <2>3, <2>4, <2>7, <2>8, <2>9, NowFinite, ThenFinite DEF CountInv, AllFinite
<1>7. ASSUME NEW s \in Server,
             Suspend(s) \/ Unsuspend(s) \/ ContainerChanges(s) \/ DeleteServer(s)
      PROVE  CountInv'
  <2>1. Gone \subseteq Gone'
    <3>1. CASE Suspend(s) BY <3>1 DEF Suspend, Gone, Status
    <3>2. CASE Unsuspend(s) BY <3>2 DEF Unsuspend, Gone
    <3>3. CASE ContainerChanges(s) BY <3>3 DEF ContainerChanges, Gone
    <3>4. CASE DeleteServer(s) BY <3>4 DEF DeleteServer, Gone
    <3> QED BY <1>7, <3>1, <3>2, <3>3, <3>4
  <2>2. UNCHANGED <<pc, todo, cur, failed, outage>>
    BY <1>7 DEF Suspend, Unsuspend, ContainerChanges, DeleteServer, loops
  <2> QED BY <2>1, <2>2, NothingLost DEF Lost, Dead, Passed
\* The database's failures are not counted.
<1>8. ASSUME NEW w \in Worker, DatabaseFails(w) PROVE CountInv'
  <2>1. Lost' = Lost /\ Gone' = Gone /\ outage' = outage \cup {w}
    BY <1>8 DEF DatabaseFails, Ends, Lost, Dead, Gone
  <2>2. lock = w /\ \A v \in Worker : pc'[v] \notin Round
    BY <1>8 DEF DatabaseFails, Ends
  <2> QED BY <2>1, <2>2 DEF CountInv
<1>9. ASSUME NEW w \in Worker, CommitFails(w) PROVE CountInv'
  <2>1. /\ Lost' = Lost /\ Gone' = Gone /\ outage' = outage \cup {w}
        /\ \A v \in Worker : pc'[v] \in Round => pc[v] \in Round
    BY <1>9 DEF CommitFails, Lost, Dead, Gone
  <2>2. \A v \in Worker : Passed(v) \subseteq Passed(v)'
    BY <1>9, SyncAssumption DEF CommitFails, Passed, Gone
  <2>3. \A v \in Worker : failed'[v] /\ v \notin outage' => failed[v] /\ v \notin outage
    BY <1>9, <2>1 DEF CommitFails
  <2> QED BY <2>1, <2>2, <2>3, NothingLost
<1>10. CASE UNCHANGED vars
  BY <1>10, NothingLost DEF vars, Lost, Dead, Gone, Passed
<1> QED
  BY <1>1, <1>2, <1>3, <1>4, <1>5, <1>6, <1>7, <1>8, <1>9, <1>10 DEF Next, Loop, NoLoop

\* However many loops and servers there are, whatever daemons answer, users do
\* and commits fail: no more loops are lost than servers were deleted, but those
\* that the database failed.
THEOREM LoopsOutliveDeletes == Spec => []ADeleteKillsOneLoop
<1>1. CountInv => ADeleteKillsOneLoop
  BY DEF CountInv, ADeleteKillsOneLoop, Gone, Lost
<1> QED
  BY <1>1, TypedInit, TypedStep, CountInit, CountStep, PTL DEF Spec

=============================================================================
