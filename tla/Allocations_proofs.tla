------------------------- MODULE Allocations_proofs -------------------------
(***************************************************************************)
(* Proofs about Allocations, for any number of servers, allocations, nodes *)
(* and workers.                                                            *)
(***************************************************************************)
EXTENDS Allocations, WellFoundedInduction, TLAPS

Pc == {"idle", "commit", "clone", "insert", "done", "erase", "deleted", "failed"}
RowSet == [node: Node, primary: Alloc \cup {None}]
WantSet == [node: Node, primary: Alloc \cup {None}, extra: SUBSET Alloc]

\* The tables have their types, and a request that is about to insert has
\* chosen what.
Typed ==
  /\ owner \in [Alloc -> Server \cup {None, Gone}]
  /\ server \in [Server -> RowSet \cup {None}]
  /\ nodes \subseteq Node
  /\ pc \in [Server -> Pc]
  /\ want \in [Server -> WantSet \cup {None}]
  /\ tries \in [Server -> SUBSET Alloc]
  /\ \A s \in Server :
       /\ pc[s] \in {"commit", "clone", "insert"} => want[s] \in WantSet
       /\ pc[s] = "clone" => tries[s] # {}

LEMMA MinInSet ==
  ASSUME NEW S \in SUBSET Nat, S # {}
  PROVE  Min(S) \in S
<1>1. PICK x \in S : \A y \in S : ~(<<y, x>> \in OpToRel(<, Nat))
  BY WFMin, NatLessThanWellFounded
<1>2. \A y \in S : ~(y < x)
  BY <1>1 DEF OpToRel
<1>3. \A y \in S : x <= y
  BY <1>2
<1> QED
  BY <1>3 DEF Min

LEMMA TypedInit == Init => Typed
  BY DEF Init, Typed, Pc

\* A commit writes what was wanted, or nothing.
LEMMA CommitWrites ==
  ASSUME Typed, NEW s \in Server, pc[s] \in {"commit", "insert"}, Commit(s)
  PROVE  /\ owner' \in [Alloc -> Server \cup {None, Gone}]
         /\ server' \in [Server -> RowSet \cup {None}]
         /\ pc' \in [Server -> Pc]
         /\ pc'[s] \in {"done", "failed"}
         /\ \A t \in Server : t # s => pc'[t] = pc[t]
<1>1. want[s] \in WantSet
  BY DEF Typed, Pc
<1>2. [node |-> want[s].node, primary |-> want[s].primary] \in RowSet
  BY <1>1 DEF RowSet, WantSet
<1>3. CASE Insertable(s)
  BY <1>2, <1>3 DEF Typed, Pc, Commit, Insert
<1>4. CASE ~Insertable(s)
  BY <1>4 DEF Typed, Pc, Commit
<1> QED
  BY <1>3, <1>4

LEMMA TypedNext == Typed /\ [Next]_vars => Typed'
<1> SUFFICES ASSUME Typed, [Next]_vars PROVE Typed'
  OBVIOUS
<1>1. ASSUME NEW s \in Server, NEW w \in Worker, CheckCreate(s, w) PROVE Typed'
  <2>0. PICK n \in nodes : \E extra \in SUBSET Free(n), p \in Free(n) \cup {None} :
          want' = [want EXCEPT ![s] = [node |-> n, primary |-> p, extra |-> extra \ {p}]]
    BY <1>1 DEF CheckCreate
  <2>1. PICK extra \in SUBSET Free(n), p \in Free(n) \cup {None} :
          want' = [want EXCEPT ![s] = [node |-> n, primary |-> p, extra |-> extra \ {p}]]
    BY <2>0
  <2>2. [node |-> n, primary |-> p, extra |-> extra \ {p}] \in WantSet
    BY <2>1 DEF Typed, Pc, WantSet, Free, On
  <2>3. want' \in [Server -> WantSet \cup {None}] /\ want'[s] \in WantSet
        /\ \A t \in Server : t # s => want'[t] = want[t]
    BY <2>1, <2>2 DEF Typed, Pc
  <2> QED
    BY <1>1, <2>3 DEF Typed, Pc, CheckCreate, Goto
<1>2. ASSUME NEW s \in Server, NEW w \in Worker, CommitCreate(s, w) PROVE Typed'
  BY <1>2, CommitWrites DEF Typed, Pc, CommitCreate
<1>3. ASSUME NEW s \in Server, ReadFree(s) PROVE Typed'
  <2>1. PICK src \in Rows :
          LET n == server[src].node IN
          /\ Free(n) # {}
          /\ tries' = [tries EXCEPT ![s] = Free(n)]
          /\ want' = [want EXCEPT ![s] = [node |-> n, primary |-> None, extra |-> {}]]
    BY <1>3 DEF ReadFree
  <2>2. server[src] \in RowSet
    BY DEF Typed, Pc, Rows
  <2>3. [node |-> server[src].node, primary |-> None, extra |-> {}] \in WantSet
    BY <2>2 DEF RowSet, WantSet
  <2> QED
    BY <1>3, <2>1, <2>3 DEF Typed, Pc, ReadFree, Goto, Free, On
<1>4. ASSUME NEW s \in Server, DaemonClones(s) PROVE Typed'
  <2> DEFINE a == Min(tries[s])
  <2>1. a \in Alloc
    BY <1>4, MinInSet, AllocAssumption DEF DaemonClones, Typed
  <2>2. want[s] \in WantSet /\ want' = [want EXCEPT ![s].primary = a]
    BY <1>4 DEF DaemonClones, Typed
  <2>3. [want[s] EXCEPT !.primary = a] \in WantSet
    BY <2>1, <2>2 DEF WantSet
  <2> HIDE DEF a
  <2>4. want' \in [Server -> WantSet \cup {None}] /\ want'[s] \in WantSet
        /\ \A t \in Server : t # s => want'[t] = want[t]
    BY <2>2, <2>3 DEF Typed, Pc
  <2>5. /\ pc' \in [Server -> Pc] /\ pc'[s] \in {"insert", "failed"}
        /\ \A t \in Server : t # s => pc'[t] = pc[t]
    BY <1>4 DEF DaemonClones, Goto, Typed, Pc
  <2> QED
    BY <1>4, <2>4, <2>5 DEF Typed, Pc, DaemonClones
<1>5. ASSUME NEW s \in Server, PortTaken(s) PROVE Typed'
  <2> DEFINE a == Min(tries[s])
  <2>1. tries' = [tries EXCEPT ![s] = @ \ {a}]
        /\ pc' = [pc EXCEPT ![s] = IF tries[s] = {a} THEN "failed" ELSE "clone"]
    BY <1>5 DEF PortTaken
  <2>2. pc[s] = "clone" /\ tries[s] # {} /\ a \in tries[s]
    BY <1>5, MinInSet, AllocAssumption DEF PortTaken, Typed
  <2> HIDE DEF a
  <2>3. pc'[s] = "clone" => tries'[s] # {}
    BY <2>1, <2>2 DEF Typed, Pc
  <2> QED
    BY <1>5, <2>1, <2>2, <2>3 DEF Typed, Pc, PortTaken
<1>6. ASSUME NEW s \in Server, CloneFails(s) PROVE Typed'
  BY <1>6 DEF Typed, Pc, CloneFails, Goto
<1>7. ASSUME NEW s \in Server, InsertClone(s) PROVE Typed'
  BY <1>7, CommitWrites DEF Typed, Pc, InsertClone
<1>8. ASSUME NEW s \in Server, DaemonDeletes(s) PROVE Typed'
  BY <1>8 DEF Typed, Pc, DaemonDeletes, Goto
<1>9. ASSUME NEW s \in Server, Erase(s) PROVE Typed'
  BY <1>9 DEF Typed, Pc, Erase, Goto
<1>10. ASSUME NEW s \in Server, Transfer(s) PROVE Typed'
  <2>1. PICK n \in nodes : server' = [server EXCEPT ![s].node = n]
    BY <1>10 DEF Transfer
  <2>2. server[s] \in RowSet
    BY <1>10 DEF Transfer, Typed
  <2>3. [server[s] EXCEPT !.node = n] \in RowSet
    BY <2>2 DEF Typed, Pc, RowSet
  <2> QED
    BY <1>10, <2>1, <2>3 DEF Typed, Pc, Transfer
<1>11. ASSUME NEW a \in Alloc, CheckUnused(a) \/ DeleteAllocation(a) PROVE Typed'
  BY <1>11 DEF Typed, Pc, CheckUnused, DeleteAllocation
<1>12. ASSUME NEW n \in Node, DeleteNode(n) PROVE Typed'
  BY <1>12 DEF Typed, Pc, DeleteNode
<1>13. ASSUME NEW s \in Server, Runs(s) \/ Stops(s) PROVE Typed'
  BY <1>13 DEF Typed, Pc, Runs, Stops
<1>14. CASE UNCHANGED vars
  BY <1>14 DEF Typed, Pc, vars
<1> QED
  BY <1>1, <1>2, <1>3, <1>4, <1>5, <1>6, <1>7, <1>8, <1>9, <1>10, <1>11, <1>12,
     <1>13, <1>14 DEF Next, Idle

-----------------------------------------------------------------------------
(* The rest of the type invariant: who owns an allocation has a row.       *)

OwnersHaveRows == \A a \in Alloc : owner[a] \in Server => owner[a] \in Rows

LEMMA CommitKeepsOwners ==
  ASSUME Typed, TypeOK, NEW s \in Server, pc[s] \in {"commit", "insert"}, Commit(s)
  PROVE  OwnersHaveRows' /\ rivals' \in [Server -> SUBSET Server]
<1>1. [node |-> want[s].node, primary |-> want[s].primary] # None
  <2>1. want[s] \in WantSet
    BY DEF Typed
  <2> QED BY <2>1, RowAssumption DEF WantSet
<1>2. CASE Insertable(s)
  <2>1. server'[s] # None /\ \A t \in Server : t # s => server'[t] = server[t]
    BY <1>1, <1>2 DEF Commit, Insert, Typed
  <2>2. \A a \in Alloc : owner'[a] = s \/ owner'[a] = owner[a]
    BY <1>2 DEF Commit, Insert
  <2>3. rivals' \in [Server -> SUBSET Server]
    BY <1>2 DEF Commit, TypeOK, AtWork
  <2> QED BY <2>1, <2>2, <2>3 DEF OwnersHaveRows, TypeOK, Rows
<1>3. CASE ~Insertable(s)
  BY <1>3 DEF Commit, OwnersHaveRows, TypeOK, Rows
<1> QED BY <1>2, <1>3

LEMMA TypeNext == Typed /\ TypeOK /\ [Next]_vars => TypeOK'
<1> SUFFICES ASSUME Typed, TypeOK, [Next]_vars PROVE TypeOK'
  OBVIOUS
<1>t. Typed'
  BY TypedNext
<1> SUFFICES /\ loop' \in [Worker -> Server \cup {None}]
             /\ checked' \subseteq Alloc
             /\ bound' \in [Alloc -> Server \cup {None, Gone}]
             /\ rivals' \in [Server -> SUBSET Server]
             /\ OwnersHaveRows'
  BY <1>t DEF Typed, TypeOK, Pc, RowSet, WantSet, OwnersHaveRows
<1> DEFINE Goal == /\ loop' \in [Worker -> Server \cup {None}]
                   /\ checked' \subseteq Alloc
                   /\ bound' \in [Alloc -> Server \cup {None, Gone}]
                   /\ rivals' \in [Server -> SUBSET Server]
                   /\ OwnersHaveRows'
<1> SUFFICES Goal
  OBVIOUS
<1> USE DEF OwnersHaveRows, Rows
<1>1. ASSUME NEW s \in Server, NEW w \in Worker, CheckCreate(s, w) PROVE Goal
  BY <1>1 DEF CheckCreate, TypeOK
<1>2. ASSUME NEW s \in Server, NEW w \in Worker, CommitCreate(s, w) PROVE Goal
  BY <1>2, CommitKeepsOwners DEF CommitCreate, TypeOK
<1>3. ASSUME NEW s \in Server, ReadFree(s) \/ CloneFails(s) PROVE Goal
  BY <1>3 DEF ReadFree, CloneFails, TypeOK
<1>4. ASSUME NEW s \in Server, DaemonClones(s) \/ PortTaken(s) PROVE Goal
  BY <1>4 DEF DaemonClones, PortTaken, TypeOK
<1>5. ASSUME NEW s \in Server, InsertClone(s) PROVE Goal
  BY <1>5, CommitKeepsOwners DEF InsertClone, TypeOK
<1>6. ASSUME NEW s \in Server, DaemonDeletes(s) PROVE Goal
  BY <1>6 DEF DaemonDeletes, TypeOK
<1>7. ASSUME NEW s \in Server, Erase(s) PROVE Goal
  <2>1. \A a \in Alloc : owner'[a] \in Server => owner'[a] = owner[a] /\ owner[a] # s
    BY <1>7, NoneAssumption DEF Erase, TypeOK
  <2>2. \A t \in Server : t # s => server'[t] = server[t]
    BY <1>7 DEF Erase, TypeOK
  <2> QED BY <1>7, <2>1, <2>2 DEF Erase, TypeOK
<1>8. ASSUME NEW s \in Server, Transfer(s) PROVE Goal
  <2>1. PICK n \in nodes : server' = [server EXCEPT ![s].node = n]
    BY <1>8 DEF Transfer
  <2>2. server[s] \in RowSet
    BY <1>8 DEF Transfer, Typed
  <2>3. [server[s] EXCEPT !.node = n] \in RowSet
    BY <2>2, <1>8 DEF RowSet, Typed
  <2>4. \A t \in Server : server[t] # None => server'[t] # None
    BY <2>1, <2>3, RowAssumption DEF Typed, RowSet
  <2> QED BY <1>8, <2>4 DEF Transfer, TypeOK
<1>9. ASSUME NEW a \in Alloc, CheckUnused(a) \/ DeleteAllocation(a) PROVE Goal
  BY <1>9, NoneAssumption DEF CheckUnused, DeleteAllocation, TypeOK
<1>10. ASSUME NEW n \in Node, DeleteNode(n) PROVE Goal
  BY <1>10, NoneAssumption DEF DeleteNode, TypeOK
<1>11. ASSUME NEW s \in Server, Runs(s) \/ Stops(s) PROVE Goal
  BY <1>11 DEF Runs, Stops, TypeOK
<1>12. CASE UNCHANGED vars
  BY <1>12 DEF vars, TypeOK
<1> QED
  BY <1>1, <1>2, <1>3, <1>4, <1>5, <1>6, <1>7, <1>8, <1>9, <1>10, <1>11, <1>12
  DEF Next, Idle

\* The tables keep their types, and whatever races, an allocation is never
\* owned by a server that has no row.
THEOREM TypeCorrect == Spec => []TypeOK
<1>1. Init => TypeOK
  BY TypedInit, NoneAssumption DEF Init, TypeOK, Typed, Pc, Rows
<1> QED BY <1>1, TypedInit, TypedNext, TypeNext, PTL DEF Spec

-----------------------------------------------------------------------------
(* PrimaryExists, whatever races.                                          *)

LEMMA PrimaryExistsNext == Typed /\ PrimaryExists /\ [Next]_vars => PrimaryExists'
<1> SUFFICES ASSUME Typed, PrimaryExists, [Next]_vars PROVE PrimaryExists'
  OBVIOUS
<1> USE DEF PrimaryExists, Rows
\* Only a commit makes a row, and the foreign keys check it.
<1>1. ASSUME NEW s \in Server, pc[s] \in {"commit", "insert"}, Commit(s), UNCHANGED nodes
      PROVE  PrimaryExists'
  <2>1. CASE Insertable(s)
    <3>1. want[s] \in WantSet
      BY <1>1 DEF Typed
    <3>2. server'[s] = [node |-> want[s].node, primary |-> want[s].primary]
          /\ \A t \in Server : t # s => server'[t] = server[t]
      BY <1>1, <2>1 DEF Commit, Insert, Typed
    <3>3. \A a \in Alloc : owner[a] # Gone => owner'[a] # Gone
      BY <1>1, <2>1, NoneAssumption DEF Commit, Insert, Typed
    <3>4. \A t \in Server : server[t] # None => server[t] \in RowSet
      BY DEF Typed
    <3> QED
      BY <1>1, <2>1, <3>1, <3>2, <3>3, <3>4 DEF Insertable, WantSet, RowSet
  <2>2. CASE ~Insertable(s)
    BY <1>1, <2>2 DEF Commit
  <2> QED
    BY <2>1, <2>2
<1>2. ASSUME NEW s \in Server, NEW w \in Worker, CommitCreate(s, w) PROVE PrimaryExists'
  BY <1>2, <1>1 DEF CommitCreate
<1>3. ASSUME NEW s \in Server, InsertClone(s) PROVE PrimaryExists'
  BY <1>3, <1>1 DEF InsertClone
<1>4. ASSUME NEW s \in Server, Erase(s) PROVE PrimaryExists'
  <2>1. \A a \in Alloc : owner[a] # Gone => owner'[a] # Gone
    BY <1>4, NoneAssumption DEF Erase, Typed
  <2>2. \A t \in Server : server'[t] # None => server'[t] = server[t]
    BY <1>4 DEF Erase, Typed
  <2>3. \A t \in Server : server[t] # None => server[t] \in RowSet
    BY DEF Typed
  <2> QED
    BY <1>4, <2>1, <2>2, <2>3 DEF Erase, RowSet
<1>5. ASSUME NEW s \in Server, Transfer(s) PROVE PrimaryExists'
  <2>1. PICK n \in nodes : server' = [server EXCEPT ![s].node = n]
    BY <1>5 DEF Transfer
  <2>2. server[s] \in RowSet /\ server[s] # None
    BY <1>5 DEF Transfer, Typed
  <2>3. server'[s].node = n /\ server'[s].primary = server[s].primary
        /\ \A t \in Server : t # s => server'[t] = server[t]
    BY <2>1, <2>2 DEF Typed, RowSet
  <2> QED
    BY <1>5, <2>2, <2>3 DEF Transfer
<1>6. ASSUME NEW a \in Alloc, DeleteAllocation(a) PROVE PrimaryExists'
  <2>1. CASE IsPrimary(a)
    BY <1>6, <2>1 DEF DeleteAllocation
  <2>2. CASE ~IsPrimary(a)
    BY <1>6, <2>2 DEF DeleteAllocation, IsPrimary, Typed
  <2> QED
    BY <2>1, <2>2
<1>7. ASSUME NEW n \in Node, DeleteNode(n) PROVE PrimaryExists'
  <2>1. \A s \in Server : server[s] # None => server[s] \in RowSet
    BY DEF Typed
  <2> QED
    BY <1>7, <2>1 DEF DeleteNode, IsPrimary, On, RowSet
<1>8. ASSUME UNCHANGED <<owner, server, nodes>> PROVE PrimaryExists'
  BY <1>8
<1> QED
  BY <1>2, <1>3, <1>4, <1>5, <1>6, <1>7, <1>8
     DEF Next, Idle, vars, CheckCreate, ReadFree, DaemonClones, PortTaken, CloneFails,
         DaemonDeletes, CheckUnused, Runs, Stops

\* The foreign keys are enough to keep the node and the primary allocation of
\* every server, for any number of workers, clones and admins.
THEOREM PrimaryNeverDeleted == Spec => []PrimaryExists
<1>1. Init => PrimaryExists
  BY DEF Init, PrimaryExists, Rows
<1>2. Typed /\ PrimaryExists /\ [Next]_vars => (Typed /\ PrimaryExists)'
  BY TypedNext, PrimaryExistsNext
<1> QED
  BY TypedInit, <1>1, <1>2, PTL DEF Spec

-----------------------------------------------------------------------------
(* PrimaryLostOnlyToRival, whatever races.                                 *)

\* What a request may still take.
Claims(t) ==
  CASE pc[t] \in {"commit", "insert"} -> want[t].extra \cup {want[t].primary}
    [] pc[t] = "clone"                -> want[t].extra \cup tries[t]
    [] OTHER                          -> {}

\* What a request may still take, and another server owns, was free when the
\* request looked: the other server was committed since, with it at work.
ClaimsFromRivals ==
  \A t \in Server : \A a \in Alloc \cap Claims(t) :
    owner[a] \in Server => t \in rivals[owner[a]]

RivalTyped == rivals \in [Server -> SUBSET Server]

RivalInv == Typed /\ RivalTyped /\ ClaimsFromRivals /\ PrimaryLostOnlyToRival

LEMMA RivalInit == Init => RivalInv
  BY TypedInit, NoneAssumption
     DEF Init, RivalInv, RivalTyped, ClaimsFromRivals, Claims, PrimaryLostOnlyToRival, Rows

\* A step that leaves the rows, their owners and the rivals alone, and adds no
\* claim that is not to a free allocation, preserves both.
LEMMA RivalQuiet ==
  ASSUME RivalInv, UNCHANGED <<owner, server, rivals>>, NEW s \in Server,
         pc[s] \in {"idle", "clone"} \/ (pc[s] = "done" /\ pc'[s] = "erase" /\ UNCHANGED want),
         \A t \in Server : t # s =>
           pc'[t] = pc[t] /\ want'[t] = want[t] /\ tries'[t] = tries[t],
         \A a \in Alloc : a \in Claims(s)' => a \in Claims(s) \/ owner[a] = None
  PROVE  (RivalTyped /\ ClaimsFromRivals /\ PrimaryLostOnlyToRival)'
<1>1. RivalTyped'
  BY DEF RivalInv, RivalTyped
<1>2. ClaimsFromRivals'
  <2>1. \A t \in Server : t # s => Claims(t)' = Claims(t)
    BY DEF Claims
  <2> QED
    BY <2>1, NoneAssumption DEF RivalInv, ClaimsFromRivals
<1>3. PrimaryLostOnlyToRival'
  BY DEF RivalInv, PrimaryLostOnlyToRival, Rows, RivalTyped
<1> QED
  BY <1>1, <1>2, <1>3

\* A commit takes what the request claims.
LEMMA RivalCommit ==
  ASSUME RivalInv, NEW s \in Server, pc[s] \in {"commit", "insert"}, Commit(s),
         UNCHANGED <<want, tries>>
  PROVE  (RivalTyped /\ ClaimsFromRivals /\ PrimaryLostOnlyToRival)'
<1>t. Typed /\ RivalTyped /\ ClaimsFromRivals /\ PrimaryLostOnlyToRival
  BY DEF RivalInv
<1>p. pc'[s] \in {"done", "failed"} /\ \A t \in Server : t # s => pc'[t] = pc[t]
  BY <1>t, CommitWrites
<1>c. Claims(s)' = {} /\ \A t \in Server : t # s => Claims(t)' = Claims(t)
  BY <1>p DEF Claims
<1>1. CASE ~Insertable(s)
  <2>1. UNCHANGED <<owner, server, rivals>>
    BY <1>1 DEF Commit
  <2>2. PrimaryLostOnlyToRival'
    BY <1>t, <1>p, <2>1 DEF PrimaryLostOnlyToRival, Rows, RivalTyped
  <2> QED
    BY <1>t, <1>c, <2>1, <2>2 DEF RivalTyped, ClaimsFromRivals
<1>2. CASE Insertable(s)
  <2>1. /\ server' = [server EXCEPT ![s] = [node |-> want[s].node, primary |-> want[s].primary]]
        /\ owner' = [a \in Alloc |->
                        IF a = want[s].primary \/ a \in want[s].extra THEN s ELSE owner[a]]
        /\ rivals' = [rivals EXCEPT ![s] = AtWork \ {s}]
        /\ pc'[s] = "done"
    BY <1>t, <1>2 DEF Commit, Insert, Typed
  <2>2. RivalTyped'
    BY <1>t, <2>1 DEF RivalTyped, AtWork
  <2>3. ClaimsFromRivals'
    <3> SUFFICES ASSUME NEW t \in Server, NEW a \in Alloc, a \in Claims(t)',
                        owner'[a] \in Server
                 PROVE  t \in rivals'[owner'[a]]
      BY DEF ClaimsFromRivals
    <3>1. t # s /\ a \in Claims(t)
      BY <1>c
    <3>2. t \in AtWork
      BY <3>1 DEF Claims, AtWork
    <3>3. CASE owner'[a] = s
      BY <1>t, <2>1, <3>1, <3>2, <3>3 DEF RivalTyped
    <3>4. CASE owner'[a] # s
      <4>1. owner'[a] = owner[a]
        BY <2>1, <3>4
      <4> QED
        BY <1>t, <2>1, <3>1, <3>4, <4>1 DEF RivalTyped, ClaimsFromRivals
    <3> QED
      BY <3>3, <3>4
  <2>4. PrimaryLostOnlyToRival'
    <3> SUFFICES ASSUME NEW u \in Server, server'[u] # None, server'[u].primary # None
                 PROVE  LET p == server'[u].primary IN
                        \/ owner'[p] = u
                        \/ \E t \in rivals'[u] :
                             /\ pc'[t] \in {"done", "erase", "deleted"}
                             /\ p = want'[t].primary \/ p \in want'[t].extra
      BY DEF PrimaryLostOnlyToRival, Rows
    <3> DEFINE p == server'[u].primary
    <3>0. p \in Alloc
      BY <1>t, CommitWrites DEF RowSet
    <3>1. CASE u = s
      <4>1. p = want[s].primary
        BY <1>t, <2>1, <3>1 DEF Typed
      <4> QED
        BY <2>1, <3>0, <3>1, <4>1
    <3>2. CASE u # s
      <4>1. server'[u] = server[u] /\ rivals'[u] = rivals[u] /\ u \in Rows
        BY <1>t, <2>1, <3>2 DEF Typed, RivalTyped, Rows
      <4> HIDE DEF p
      <4>2. CASE owner[p] = u
        <5>1. CASE p = want[s].primary \/ p \in want[s].extra
          <6>1. p \in Claims(s)
            BY <5>1 DEF Claims
          <6>2. s \in rivals[u]
            BY <1>t, <3>0, <4>2, <6>1 DEF ClaimsFromRivals
          <6> QED
            BY <2>1, <4>1, <5>1, <6>2 DEF p
        <5>2. CASE ~(p = want[s].primary \/ p \in want[s].extra)
          BY <2>1, <3>0, <4>2, <5>2 DEF p
        <5> QED
          BY <5>1, <5>2
      <4>3. CASE owner[p] # u
        <5>1. PICK t \in rivals[u] :
                /\ pc[t] \in {"done", "erase", "deleted"}
                /\ p = want[t].primary \/ p \in want[t].extra
          BY <1>t, <4>1, <4>3 DEF p, PrimaryLostOnlyToRival
        <5>2. t \in Server /\ t # s
          BY <1>t, <5>1 DEF RivalTyped
        <5> QED
          BY <1>p, <4>1, <5>1, <5>2 DEF p
      <4> QED
        BY <4>2, <4>3
    <3> QED
      BY <3>1, <3>2
  <2> QED
    BY <2>2, <2>3, <2>4
<1> QED
  BY <1>1, <1>2

LEMMA RivalNext ==
  ASSUME RivalInv, PrimaryExists, [Next]_vars
  PROVE  (RivalTyped /\ ClaimsFromRivals /\ PrimaryLostOnlyToRival)'
<1> DEFINE Kept == (RivalTyped /\ ClaimsFromRivals /\ PrimaryLostOnlyToRival)'
<1>t. Typed /\ RivalTyped /\ ClaimsFromRivals /\ PrimaryLostOnlyToRival
  BY DEF RivalInv
<1>r. \A s \in Server : server[s] # None => server[s] \in RowSet
  BY <1>t DEF Typed
<1>1. ASSUME NEW s \in Server, NEW w \in Worker, CheckCreate(s, w) PROVE Kept
  <2>1. PICK n \in nodes : \E extra \in SUBSET Free(n), p \in Free(n) \cup {None} :
          want' = [want EXCEPT ![s] = [node |-> n, primary |-> p, extra |-> extra \ {p}]]
    BY <1>1 DEF CheckCreate
  <2>2. PICK extra \in SUBSET Free(n), p \in Free(n) \cup {None} :
          want' = [want EXCEPT ![s] = [node |-> n, primary |-> p, extra |-> extra \ {p}]]
    BY <2>1
  <2>3. want'[s] = [node |-> n, primary |-> p, extra |-> extra \ {p}]
        /\ \A t \in Server : t # s => want'[t] = want[t]
    BY <1>t, <2>2 DEF Typed
  <2>4. pc[s] = "idle" /\ pc'[s] = "commit" /\ \A t \in Server : t # s => pc'[t] = pc[t]
    BY <1>1, <1>t DEF CheckCreate, Goto, Typed
  <2>5. \A a \in Alloc : a \in Claims(s)' => owner[a] = None
    BY <2>3, <2>4, NoneAssumption DEF Claims, Free
  <2>6. UNCHANGED <<owner, server, rivals, tries>>
    BY <1>1 DEF CheckCreate
  <2> QED
    BY <2>3, <2>4, <2>5, <2>6, RivalQuiet
<1>2. ASSUME NEW s \in Server, NEW w \in Worker, CommitCreate(s, w) PROVE Kept
  BY <1>2, RivalCommit DEF CommitCreate
<1>3. ASSUME NEW s \in Server, InsertClone(s) PROVE Kept
  BY <1>3, RivalCommit DEF InsertClone
<1>4. ASSUME NEW s \in Server, ReadFree(s) PROVE Kept
  <2>1. PICK src \in Rows :
          LET n == server[src].node IN
          /\ tries' = [tries EXCEPT ![s] = Free(n)]
          /\ want' = [want EXCEPT ![s] = [node |-> n, primary |-> None, extra |-> {}]]
    BY <1>4 DEF ReadFree
  <2>2. pc[s] = "idle" /\ pc'[s] = "clone" /\ \A t \in Server : t # s => pc'[t] = pc[t]
    BY <1>4, <1>t DEF ReadFree, Goto, Typed
  <2>3. /\ want'[s].extra = {} /\ tries'[s] = Free(server[src].node)
        /\ \A t \in Server : t # s => want'[t] = want[t] /\ tries'[t] = tries[t]
    BY <1>t, <2>1 DEF Typed
  <2>4. \A a \in Alloc : a \in Claims(s)' => owner[a] = None
    BY <2>2, <2>3 DEF Claims, Free
  <2>5. UNCHANGED <<owner, server, rivals>>
    BY <1>4 DEF ReadFree
  <2> QED
    BY <2>2, <2>3, <2>4, <2>5, RivalQuiet
<1>5. ASSUME NEW s \in Server, DaemonClones(s) PROVE Kept
  <2> DEFINE a == Min(tries[s])
  <2>1. a \in tries[s] /\ pc[s] = "clone" /\ want[s] \in WantSet
    BY <1>5, <1>t, MinInSet, AllocAssumption DEF DaemonClones, Typed
  <2>2. want' = [want EXCEPT ![s].primary = a] /\ UNCHANGED <<owner, server, rivals, tries>>
    BY <1>5 DEF DaemonClones
  <2>3. pc'[s] \in {"insert", "failed"} /\ \A t \in Server : t # s => pc'[t] = pc[t]
    BY <1>5, <1>t DEF DaemonClones, Goto, Typed, Pc
  <2> HIDE DEF a
  <2>4. /\ want'[s].primary = a /\ want'[s].extra = want[s].extra
        /\ \A t \in Server : t # s => want'[t] = want[t]
    BY <1>t, <2>1, <2>2 DEF Typed, WantSet
  <2>5. \A b \in Alloc : b \in Claims(s)' => b \in Claims(s)
    BY <2>1, <2>3, <2>4 DEF Claims
  <2> QED
    BY <2>1, <2>2, <2>3, <2>4, <2>5, RivalQuiet
<1>6. ASSUME NEW s \in Server, PortTaken(s) PROVE Kept
  <2> DEFINE a == Min(tries[s])
  <2>1. /\ tries' = [tries EXCEPT ![s] = @ \ {a}]
        /\ pc' = [pc EXCEPT ![s] = IF tries[s] = {a} THEN "failed" ELSE "clone"]
        /\ pc[s] = "clone" /\ UNCHANGED <<owner, server, rivals, want>>
    BY <1>6 DEF PortTaken
  <2> HIDE DEF a
  <2>2. /\ tries'[s] \subseteq tries[s] /\ pc'[s] \in {"clone", "failed"}
        /\ \A t \in Server : t # s => tries'[t] = tries[t] /\ pc'[t] = pc[t]
    BY <1>t, <2>1 DEF Typed
  <2>3. \A b \in Alloc : b \in Claims(s)' => b \in Claims(s)
    BY <2>1, <2>2 DEF Claims
  <2> QED
    BY <2>1, <2>2, <2>3, RivalQuiet
<1>7. ASSUME NEW s \in Server, CloneFails(s) PROVE Kept
  <2>1. /\ pc[s] = "clone" /\ pc'[s] = "failed"
        /\ \A t \in Server : t # s => pc'[t] = pc[t]
        /\ UNCHANGED <<owner, server, rivals, want, tries>>
    BY <1>7, <1>t DEF CloneFails, Goto, Typed
  <2>2. Claims(s)' = {}
    BY <2>1 DEF Claims
  <2> QED
    BY <2>1, <2>2, RivalQuiet
<1>8. ASSUME NEW s \in Server, DaemonDeletes(s) PROVE Kept
  <2>1. /\ pc[s] = "done" /\ pc'[s] = "erase"
        /\ \A t \in Server : t # s => pc'[t] = pc[t]
        /\ UNCHANGED <<owner, server, rivals, want, tries>>
    BY <1>8, <1>t DEF DaemonDeletes, Goto, Typed
  <2>2. Claims(s)' = {}
    BY <2>1 DEF Claims
  <2> QED
    BY <2>1, <2>2, RivalQuiet
<1>9. ASSUME NEW s \in Server, Erase(s) PROVE Kept
  <2>1. /\ owner' = [a \in Alloc |-> IF owner[a] = s THEN None ELSE owner[a]]
        /\ server' = [server EXCEPT ![s] = None]
        /\ pc[s] = "erase" /\ pc' = [pc EXCEPT ![s] = "deleted"]
        /\ UNCHANGED <<want, tries, rivals>>
    BY <1>9 DEF Erase, Goto
  <2>2. pc'[s] = "deleted" /\ \A t \in Server : t # s => pc'[t] = pc[t]
    BY <1>t, <2>1 DEF Typed
  <2>3. \A t \in Server : Claims(t)' = Claims(t)
    BY <2>1, <2>2 DEF Claims
  <2>4. ClaimsFromRivals'
    BY <1>t, <2>1, <2>3, NoneAssumption DEF ClaimsFromRivals
  <2>5. \A u \in Server : server'[u] # None => u # s /\ server'[u] = server[u]
    BY <1>t, <2>1 DEF Typed
  <2>6. PrimaryLostOnlyToRival'
    BY <1>t, <1>r, <2>1, <2>2, <2>5 DEF PrimaryLostOnlyToRival, Rows, RowSet, RivalTyped
  <2> QED
    BY <1>t, <2>1, <2>4, <2>6 DEF RivalTyped
<1>10. ASSUME NEW s \in Server, Transfer(s) PROVE Kept
  <2>1. PICK n \in nodes : server' = [server EXCEPT ![s].node = n]
    BY <1>10 DEF Transfer
  <2>2. server[s] # None /\ server[s] \in RowSet
    BY <1>10, <1>r DEF Transfer
  <2>3. /\ server'[s].primary = server[s].primary
        /\ \A t \in Server : t # s => server'[t] = server[t]
    BY <1>t, <2>1, <2>2 DEF Typed, RowSet
  <2>4. UNCHANGED <<owner, pc, want, tries, rivals>>
    BY <1>10 DEF Transfer
  <2>5. \A t \in Server : Claims(t)' = Claims(t)
    BY <2>4 DEF Claims
  <2> QED
    BY <1>t, <2>2, <2>3, <2>4, <2>5
       DEF RivalTyped, ClaimsFromRivals, PrimaryLostOnlyToRival, Rows
\* What is deleted was nobody's, or at least nobody's primary.
<1>11. ASSUME UNCHANGED <<server, pc, want, tries, rivals>>,
              \A a \in Alloc : owner'[a] = owner[a] \/ (owner'[a] = Gone /\ ~IsPrimary(a))
       PROVE  Kept
  <2>1. \A t \in Server : Claims(t)' = Claims(t)
    BY <1>11 DEF Claims
  <2>2. ClaimsFromRivals'
    BY <1>t, <1>11, <2>1, NoneAssumption DEF ClaimsFromRivals
  <2>3. PrimaryLostOnlyToRival'
    BY <1>t, <1>r, <1>11 DEF PrimaryLostOnlyToRival, Rows, IsPrimary, RowSet, RivalTyped
  <2> QED
    BY <1>t, <1>11, <2>2, <2>3 DEF RivalTyped
<1>12. ASSUME NEW a \in Alloc, CheckUnused(a) \/ DeleteAllocation(a) PROVE Kept
  BY <1>12, <1>11, <1>t DEF CheckUnused, DeleteAllocation, Typed
<1>13. ASSUME NEW n \in Node, DeleteNode(n) PROVE Kept
  BY <1>13, <1>11, <1>t DEF DeleteNode, On
<1>14. ASSUME NEW s \in Server, Runs(s) \/ Stops(s) PROVE Kept
  BY <1>14, <1>11 DEF Runs, Stops
<1>15. CASE UNCHANGED vars
  BY <1>15, <1>11 DEF vars
<1> QED
  BY <1>1, <1>2, <1>3, <1>4, <1>5, <1>6, <1>7, <1>8, <1>9, <1>10, <1>12, <1>13,
     <1>14, <1>15 DEF Next, Idle

\* Whatever races, a server's primary allocation is its own or was taken by a
\* request that was at work when the server was committed, for any number of
\* workers, requests, allocations and nodes.
THEOREM PrimaryLostOnlyToRivals == Spec => []PrimaryLostOnlyToRival
<1>1. RivalInv /\ PrimaryExists /\ [Next]_vars => (RivalInv /\ PrimaryExists)'
  BY RivalNext, TypedNext, PrimaryExistsNext DEF RivalInv
<1>2. RivalInv => PrimaryLostOnlyToRival
  BY DEF RivalInv
<1>3. Init => PrimaryExists
  BY DEF Init, PrimaryExists, Rows
<1> QED
  BY RivalInit, <1>1, <1>2, <1>3, PTL DEF Spec

=============================================================================
