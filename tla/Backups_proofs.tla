---------------------------- MODULE Backups_proofs ---------------------------
(***************************************************************************)
(* Proofs about the backups of a server, for any number of requests, of    *)
(* backups and of contents of /data.                                       *)
(***************************************************************************)
EXTENDS Backups, TLAPS

Making == {"tar", "cat", "write", "rm", "rmcp", "cp", "created"}

\* Who makes a backup is alone with it: nobody else knows its name.
Alone ==
  /\ \A i \in answered : made[i] # None
  /\ \A o \in Op :
       /\ pc[o] # "idle" => id[o] \in Id /\ made[id[o]] # None
       /\ pc[o] \in Making =>
            id[o] \notin answered /\ \A p \in Op : id[p] = id[o] => p = o
       /\ pc[o] \notin Making => id[o] \in answered \cup {None}

\* A file is what its backup was made of, or damaged, or not there; and tar has
\* read all parts before there is a whole one.
FileOf(i) == {None, Damaged, made[i]}

Files ==
  /\ \A i \in Id : /\ {host[i], copy[i], tmp[i]} \subseteq FileOf(i)
                   /\ made[i] = None => host[i] = None /\ copy[i] = None /\ tmp[i] = None
  /\ \A o \in Op :
       /\ id[o] \in Id => buf[o] \in FileOf(id[o])
       /\ pc[o] = "idle" => left[o] = {} /\ buf[o] = None
       /\ pc[o] \in {"tar", "cat"} =>
            /\ buf[o] = None
            /\ host[id[o]] = None /\ copy[id[o]] = None
            /\ tmp[id[o]] \in Archive => left[o] = {}
       /\ pc[o] \in {"cat", "write", "rm", "rmcp", "cp", "created"} =>
            left[o] = {} \/ o \in lost
       /\ pc[o] \in {"write", "rm", "rmcp", "cp", "created"} => buf[o] # None
       /\ pc[o] \in {"copy", "copying", "untar"} => buf[o] # None

Typed == TypeOK /\ Alone /\ Files

LEMMA Archives ==
  /\ Empty \in Archive /\ None \notin Archive /\ Damaged \notin Archive
  /\ Damaged # None /\ None \notin Id
  /\ \A a \in Archive, p \in Path : a[p] \in Value \cup {None}
  /\ \A a \in Archive, p \in Path, v \in Value \cup {None} : [a EXCEPT ![p] = v] \in Archive
BY BackupsAssumption DEF Archive, Empty

LEMMA TypedInit == Init => Typed
<1> SUFFICES ASSUME Init PROVE Typed
  OBVIOUS
<1>1. host = [i \in Id |-> None] /\ copy = host /\ tmp = host
  BY DEF Init
<1> QED
  BY <1>1, Archives
  DEF Init, Typed, TypeOK, Alone, Files, FileOf, Steps, Making, File, At

LEMMA TypedStep == Typed /\ [Next]_vars => Typed'
<1> SUFFICES ASSUME Typed, [Next]_vars PROVE Typed'
  OBVIOUS
<1> USE DEF Typed, TypeOK, Alone, Files, FileOf, Steps, Making, File, At, Goes, Answers,
            Breaks, disk, history
<1>1. ASSUME NEW o \in Op, NEW p \in Path, Tar(o, p) PROVE Typed'
  <2> DEFINE i == id[o]
             a == [made[i] EXCEPT ![p] = data[p]]
  <2>1. i \in Id /\ made[i] \in Archive /\ \A q \in Op : id[q] = i => q = o
    BY <1>1, Archives DEF Tar
  <2>2. a \in Archive
    BY <2>1, Archives
  <2> HIDE DEF a
  <2>3. made' = [made EXCEPT ![i] = a]
    BY <1>1 DEF Tar, a
  <2>4. left' = [left EXCEPT ![o] = left[o] \ {p}] /\ left'[o] = left[o] \ {p} /\ made'[i] = a
    BY <1>1, <2>1, <2>3 DEF Tar
  <2>5. tmp' = [tmp EXCEPT ![i] = IF left[o] \ {p} = {} THEN a ELSE Damaged]
    BY <1>1, <2>4 DEF Tar
  <2>6. TypeOK'
    <3>1. tmp' \in [Id -> File] /\ made' \in [Id -> Archive \cup {None}]
      BY <2>1, <2>2, <2>3, <2>5
    <3>2. left' \in [Op -> SUBSET Path]
      BY <2>4
    <3> QED BY <1>1, <3>1, <3>2 DEF Tar
  <2>7. Alone'
    <3>1. \A j \in Id : made[j] # None => made'[j] # None
      BY <2>2, <2>3, Archives
    <3>2. UNCHANGED <<pc, id, answered>>
      BY <1>1 DEF Tar
    <3> QED BY <3>1, <3>2
  <2>8. Files'
    BY <1>1, <2>1, <2>2, <2>3, <2>4, <2>5, Archives DEF Tar
  <2> QED BY <2>6, <2>7, <2>8
<1>2. ASSUME NEW o \in Op, CreateFails(o) PROVE Typed'
  BY <1>2, Archives DEF CreateFails
<1>3. ASSUME NEW o \in Op, Cat(o) PROVE Typed'
  BY <1>3, Archives DEF Cat
<1>4. ASSUME NEW o \in Op, WriteFile(o) PROVE Typed'
  BY <1>4, Archives DEF WriteFile
<1>5. ASSUME NEW o \in Op, RemoveTmp(o) PROVE Typed'
  BY <1>5, Archives DEF RemoveTmp
<1>6. ASSUME NEW o \in Op, Fallback(o) PROVE Typed'
  BY <1>6, Archives DEF Fallback
<1>7. ASSUME NEW o \in Op, Created(o) PROVE Typed'
  BY <1>7, Archives DEF Created
<1>8. ASSUME NEW o \in Op, RemoveHost(o) PROVE Typed'
  BY <1>8, Archives DEF RemoveHost
<1>9. ASSUME NEW o \in Op, RemoveCopy(o) PROVE Typed'
  BY <1>9, Archives DEF RemoveCopy
<1>10. ASSUME NEW o \in Op, TestCopy(o) \/ NotFound(o) \/ UntarFails(o) \/ Restored(o) PROVE Typed'
  BY <1>10, Archives DEF TestCopy, NotFound, UntarFails, Restored
<1>11. ASSUME NEW o \in Op, ReadHost(o) PROVE Typed'
  BY <1>11, Archives DEF ReadHost
<1>12. ASSUME NEW o \in Op, CopyBegins(o) PROVE Typed'
  BY <1>12, Archives DEF CopyBegins
<1>13. ASSUME NEW o \in Op, CopyIn(o) PROVE Typed'
  BY <1>13, Archives DEF CopyIn
<1>14. ASSUME NEW o \in Op, CopyInFails(o) PROVE Typed'
  BY <1>14, Archives DEF CopyInFails
<1>15. ASSUME NEW o \in Op, OpenCopy(o) PROVE Typed'
  <2>1. PICK f \in {copy[id[o]]} \cup {buf[q] : q \in Copying(id[o])} : buf' = [buf EXCEPT ![o] = f]
    BY <1>15 DEF OpenCopy
  <2>2. id[o] \in Id /\ copy[id[o]] # None
    BY <1>15 DEF OpenCopy
  <2>3. f \in FileOf(id[o]) /\ f \in File /\ f # None
    BY <2>1, <2>2 DEF Copying
  <2> QED BY <1>15, <2>1, <2>2, <2>3, Archives DEF OpenCopy
<1>16. ASSUME NEW o \in Op, NEW p \in Path, Untar(o, p) PROVE Typed'
  BY <1>16, Archives DEF Untar
<1>17. ASSUME NEW o \in Op, TarEnds(o) \/ UntarEnds(o) PROVE Typed'
  BY <1>17, Archives DEF TarEnds, UntarEnds, TarReturns
<1>18. ASSUME NEW o \in Op, NEW i \in Id, Create(o, i) PROVE Typed'
  <2>7. TypeOK'
    BY <1>18, Archives DEF Create, Arrives
  <2>8. Alone'
    BY <1>18, Archives DEF Create, Arrives
  <2>1. i \notin answered /\ \A q \in Op : id[q] # i
    BY <1>18, Archives DEF Create
  <2>2. made' = [made EXCEPT ![i] = Empty] /\ id' = [id EXCEPT ![o] = i]
        /\ pc' = [pc EXCEPT ![o] = "tar"] /\ left' = [left EXCEPT ![o] = Path] /\ buf[o] = None
    BY <1>18 DEF Create, Arrives
  <2>3. host[i] = None /\ copy[i] = None /\ tmp[i] = None
    BY <1>18 DEF Create
  <2>4. UNCHANGED <<host, copy, tmp, buf, lost, answered>>
    BY <1>18 DEF Create, Arrives
  <2>9. Files'
    BY <2>1, <2>2, <2>3, <2>4, Archives
  <2> QED BY <2>7, <2>8, <2>9
<1>19. ASSUME NEW o \in Op, NEW i \in Id, Delete(o, i) \/ Restore(o, i) PROVE Typed'
  <2>7. TypeOK'
    BY <1>19, Archives DEF Delete, Restore, Arrives
  <2>8. Alone'
    BY <1>19, Archives DEF Delete, Restore, Arrives
  <2>1. PICK l \in {"remove", "test"} : pc' = [pc EXCEPT ![o] = l]
    BY <1>19 DEF Delete, Restore, Arrives
  <2>2. PICK parts \in SUBSET Path : left' = [left EXCEPT ![o] = parts]
    BY <1>19 DEF Delete, Restore, Arrives
  <2>3. id' = [id EXCEPT ![o] = i] /\ UNCHANGED <<host, copy, tmp, buf, lost, made>>
    BY <1>19 DEF Delete, Restore, Arrives
  <2>4. buf[o] = None
    BY <1>19 DEF Delete, Restore, Arrives
  <2>9. Files'
    BY <2>1, <2>2, <2>3, <2>4, Archives
  <2> QED BY <2>7, <2>8, <2>9
<1>20. ASSUME NEW p \in Path, NEW v \in Value \cup {None}, Write(p, v) PROVE Typed'
  <2>7. TypeOK'
    BY <1>20, Archives DEF Write, request, disk, history
  <2>8. Alone'
    BY <1>20, Archives DEF Write, request, disk, history
  <2>9. Files'
    BY <1>20, Archives DEF Write, request, disk, history
  <2> QED BY <2>7, <2>8, <2>9
<1>21. CASE Reinstall
  BY <1>21, Archives DEF Reinstall, request
<1>22. CASE UNCHANGED vars
  BY <1>22 DEF vars, disk, request, history
<1> QED
  BY <1>1, <1>2, <1>3, <1>4, <1>5, <1>6, <1>7, <1>8, <1>9, <1>10, <1>11, <1>12, <1>13, <1>14, <1>15, <1>16, <1>17, <1>18, <1>19, <1>20, <1>21, <1>22
  DEF Next, CreateSteps, DeleteSteps, RestoreSteps

\* Types; a request at work has a backup; and what a creation has read is there
\* to be written.
THEOREM TypeCorrect == Spec => []TypeOK
BY TypedInit, TypedStep, PTL DEF Spec, Typed

-----------------------------------------------------------------------------
(* Backups stay.                                                           *)

\* A backup that nothing befell is whole on the host until a deletion is at
\* work, and its copy is whole but while somebody writes it; so is what is being
\* written or copied.
Whole ==
  /\ \A i \in Id \ broken :
       /\ host[i] # Damaged
       /\ copy[i] = Damaged => \E q \in Op : pc[q] = "copying" /\ id[q] = i
  /\ \A o \in Op : id[o] \notin broken =>
       /\ pc[o] \notin {"untar", "restored"} => buf[o] # Damaged
       /\ pc[o] \in {"rm", "created"} => host[id[o]] = made[id[o]]
       /\ pc[o] \notin {"rmcp", "cp"}
  /\ \A i \in answered \ (gone \cup broken) :
       host[i] = made[i] \/ \E o \in Op : pc[o] = "removecopy" /\ id[o] = i

LEMMA WholeInit == Init => Whole
BY BackupsAssumption DEF Init, Whole

LEMMA WholeStep == Typed /\ Whole /\ [Next]_vars => Whole'
<1> SUFFICES ASSUME Typed, Whole, [Next]_vars PROVE Whole'
  OBVIOUS
<1> USE DEF Typed, TypeOK, Alone, Files, FileOf, Steps, Making, File, At, Goes, Answers,
            Breaks, disk, history, Whole, Copying
<1>1. ASSUME NEW o \in Op, NEW p \in Path, Tar(o, p) PROVE Whole'
  BY <1>1, Archives DEF Tar
<1>2. ASSUME NEW o \in Op, CreateFails(o) PROVE Whole'
  BY <1>2, Archives DEF CreateFails
<1>3. ASSUME NEW o \in Op, Cat(o) PROVE Whole'
  BY <1>3, Archives DEF Cat
<1>4. ASSUME NEW o \in Op, WriteFile(o) PROVE Whole'
  BY <1>4, Archives DEF WriteFile
<1>5. ASSUME NEW o \in Op, RemoveTmp(o) PROVE Whole'
  BY <1>5, Archives DEF RemoveTmp
<1>6. ASSUME NEW o \in Op, Fallback(o) PROVE Whole'
  BY <1>6, Archives DEF Fallback
<1>7. ASSUME NEW o \in Op, Created(o) PROVE Whole'
  BY <1>7, Archives DEF Created
<1>8. ASSUME NEW o \in Op, RemoveHost(o) PROVE Whole'
  BY <1>8, Archives DEF RemoveHost
<1>9. ASSUME NEW o \in Op, RemoveCopy(o) PROVE Whole'
  BY <1>9, Archives DEF RemoveCopy
<1>10. ASSUME NEW o \in Op, TestCopy(o) \/ NotFound(o) \/ UntarFails(o) \/ Restored(o) PROVE Whole'
  BY <1>10, Archives DEF TestCopy, NotFound, UntarFails, Restored
<1>11. ASSUME NEW o \in Op, ReadHost(o) PROVE Whole'
  BY <1>11, Archives DEF ReadHost
<1>12. ASSUME NEW o \in Op, CopyBegins(o) PROVE Whole'
  BY <1>12, Archives DEF CopyBegins
<1>13. ASSUME NEW o \in Op, CopyIn(o) PROVE Whole'
  BY <1>13, Archives DEF CopyIn
<1>14. ASSUME NEW o \in Op, CopyInFails(o) PROVE Whole'
  BY <1>14, Archives DEF CopyInFails
<1>15. ASSUME NEW o \in Op, OpenCopy(o) PROVE Whole'
  BY <1>15, Archives DEF OpenCopy
<1>16. ASSUME NEW o \in Op, NEW p \in Path, Untar(o, p) PROVE Whole'
  BY <1>16, Archives DEF Untar
<1>17. ASSUME NEW o \in Op, TarEnds(o) \/ UntarEnds(o) PROVE Whole'
  BY <1>17, Archives DEF TarEnds, UntarEnds, TarReturns
<1>18. ASSUME NEW o \in Op, NEW i \in Id, Create(o, i) PROVE Whole'
  BY <1>18, Archives DEF Create, Arrives
<1>19. ASSUME NEW o \in Op, NEW i \in Id, Delete(o, i) \/ Restore(o, i) PROVE Whole'
  BY <1>19, Archives DEF Delete, Restore, Arrives
<1>20. ASSUME NEW p \in Path, NEW v \in Value \cup {None}, Write(p, v) PROVE Whole'
  BY <1>20, Archives DEF Write, request, disk, history
<1>21. CASE Reinstall
  BY <1>21, Archives DEF Reinstall, request
<1>22. CASE UNCHANGED vars
  BY <1>22 DEF vars, disk, request, history
<1> QED
  BY <1>1, <1>2, <1>3, <1>4, <1>5, <1>6, <1>7, <1>8, <1>9, <1>10, <1>11, <1>12, <1>13, <1>14, <1>15, <1>16, <1>17, <1>18, <1>19, <1>20, <1>21, <1>22
  DEF Next, CreateSteps, DeleteSteps, RestoreSteps

\* A backup whose files could be written stays restorable until it is deleted,
\* for any number of requests for it and for others, and whatever they leave
\* half done.
THEOREM BackupsStay == Spec => []Kept
<1>1. Typed /\ Whole => Kept
  BY DEF Typed, TypeOK, Files, FileOf, Whole, Kept, Restorable
<1> QED BY <1>1, TypedInit, TypedStep, WholeInit, WholeStep, PTL DEF Spec

-----------------------------------------------------------------------------
(* Deleted backups are gone.                                               *)

\* Requests for a backup that has not been raced come one after another, and
\* none of them brings back what was removed.
Clean ==
  /\ \A o, p \in Op : id[o] = id[p] /\ id[o] \in Id \ raced => o = p
  /\ \A o \in Op : id[o] \in Id \ (broken \cup raced) =>
       /\ pc[o] = "removecopy" => host[id[o]] = None
       /\ pc[o] \in {"copy", "copying"} => id[o] \notin gone
  /\ DeletedIsGone

LEMMA CleanInit == Init => Clean
BY BackupsAssumption DEF Init, Clean, DeletedIsGone

LEMMA CleanStep == Typed /\ Clean /\ [Next]_vars => Clean'
<1> SUFFICES ASSUME Typed, Clean, [Next]_vars PROVE Clean'
  OBVIOUS
<1> USE DEF Typed, TypeOK, Alone, Files, FileOf, Steps, Making, File, At, Goes, Answers,
            Breaks, disk, history, Clean, DeletedIsGone
<1>1. ASSUME NEW o \in Op, NEW p \in Path, Tar(o, p) PROVE Clean'
  BY <1>1, Archives DEF Tar
<1>2. ASSUME NEW o \in Op, CreateFails(o) PROVE Clean'
  BY <1>2, Archives DEF CreateFails
<1>3. ASSUME NEW o \in Op, Cat(o) PROVE Clean'
  BY <1>3, Archives DEF Cat
<1>4. ASSUME NEW o \in Op, WriteFile(o) PROVE Clean'
  BY <1>4, Archives DEF WriteFile
<1>5. ASSUME NEW o \in Op, RemoveTmp(o) PROVE Clean'
  BY <1>5, Archives DEF RemoveTmp
<1>6. ASSUME NEW o \in Op, Fallback(o) PROVE Clean'
  BY <1>6, Archives DEF Fallback
<1>7. ASSUME NEW o \in Op, Created(o) PROVE Clean'
  BY <1>7, Archives DEF Created
<1>8. ASSUME NEW o \in Op, RemoveHost(o) PROVE Clean'
  BY <1>8, Archives DEF RemoveHost
<1>9. ASSUME NEW o \in Op, RemoveCopy(o) PROVE Clean'
  BY <1>9, Archives DEF RemoveCopy
<1>10. ASSUME NEW o \in Op, TestCopy(o) \/ NotFound(o) \/ UntarFails(o) \/ Restored(o) PROVE Clean'
  BY <1>10, Archives DEF TestCopy, NotFound, UntarFails, Restored
<1>11. ASSUME NEW o \in Op, ReadHost(o) PROVE Clean'
  BY <1>11, Archives DEF ReadHost
<1>12. ASSUME NEW o \in Op, CopyBegins(o) PROVE Clean'
  BY <1>12, Archives DEF CopyBegins
<1>13. ASSUME NEW o \in Op, CopyIn(o) PROVE Clean'
  BY <1>13, Archives DEF CopyIn
<1>14. ASSUME NEW o \in Op, CopyInFails(o) PROVE Clean'
  BY <1>14, Archives DEF CopyInFails
<1>15. ASSUME NEW o \in Op, OpenCopy(o) PROVE Clean'
  BY <1>15, Archives DEF OpenCopy
<1>16. ASSUME NEW o \in Op, NEW p \in Path, Untar(o, p) PROVE Clean'
  BY <1>16, Archives DEF Untar
<1>17. ASSUME NEW o \in Op, TarEnds(o) \/ UntarEnds(o) PROVE Clean'
  BY <1>17, Archives DEF TarEnds, UntarEnds, TarReturns
<1>18. ASSUME NEW o \in Op, NEW i \in Id, Create(o, i) PROVE Clean'
  BY <1>18, Archives DEF Create, Arrives
<1>19. ASSUME NEW o \in Op, NEW i \in Id, Delete(o, i) \/ Restore(o, i) PROVE Clean'
  BY <1>19, Archives DEF Delete, Restore, Arrives
<1>20. ASSUME NEW p \in Path, NEW v \in Value \cup {None}, Write(p, v) PROVE Clean'
  BY <1>20, Archives DEF Write, request, disk, history
<1>21. CASE Reinstall
  BY <1>21, Archives DEF Reinstall, request
<1>22. CASE UNCHANGED vars
  BY <1>22 DEF vars, disk, request, history
<1> QED
  BY <1>1, <1>2, <1>3, <1>4, <1>5, <1>6, <1>7, <1>8, <1>9, <1>10, <1>11, <1>12, <1>13, <1>14, <1>15, <1>16, <1>17, <1>18, <1>19, <1>20, <1>21, <1>22
  DEF Next, CreateSteps, DeleteSteps, RestoreSteps

\* What was deleted with nobody else at it leaves no file that a later restore
\* would find, whatever is asked of that name afterwards.
THEOREM DeletedStaysGone == Spec => []DeletedIsGone
<1>1. Clean => DeletedIsGone
  BY DEF Clean
<1> QED BY <1>1, TypedInit, TypedStep, CleanInit, CleanStep, PTL DEF Spec

-----------------------------------------------------------------------------
(* The commands implement the store.                                       *)

LEMMA PhaseMoves ==
  ASSUME pc \in [Op -> Steps], NEW o \in Op, NEW l, pc' = [pc EXCEPT ![o] = l]
  PROVE  Phases' = [Phases EXCEPT ![o] = Phase(l)]
BY DEF Phases

LEMMA PhaseStays ==
  ASSUME pc \in [Op -> Steps], NEW o \in Op, NEW l, pc' = [pc EXCEPT ![o] = l],
         Phase(pc[o]) = Phase(l)
  PROVE  Phases' = Phases
BY DEF Phases

\* A command between two that the caller can tell apart.
LEMMA Inside ==
  ASSUME Typed, NEW o \in Op, NEW l, Goes(o, pc[o], l), Phase(pc[o]) = Phase(l),
         UNCHANGED <<data, made, answered, gone, left, lost>>
  PROVE  UNCHANGED Store!vars
<1>1. Phases' = Phases
  BY PhaseStays DEF Typed, TypeOK, Goes
<1> QED BY <1>1 DEF Store!vars, Goes

\* The answer to a request, and its arrival.
LEMMA Ends ==
  ASSUME Typed, NEW o \in Op, NEW l, Answers(o, l)
  PROVE  Store!End(o, Phase(l))
<1>1. Phases' = [Phases EXCEPT ![o] = Phase("idle")]
  BY PhaseMoves DEF Typed, TypeOK, Answers
<1>2. Phase("idle") = "idle" /\ Phases[o] = Phase(l)
  BY DEF Phase, Phases, Answers, At
<1> QED BY <1>1, <1>2 DEF Store!End, Answers

LEMMA Begins ==
  ASSUME Typed, NEW o \in Op, NEW i, NEW l, NEW parts, Arrives(o, i, l, parts)
  PROVE  Store!Begin(o, i, Phase(l), parts)
<1>1. Phases' = [Phases EXCEPT ![o] = Phase(l)]
  BY PhaseMoves DEF Typed, TypeOK, Arrives
<1>2. Phases[o] = "idle"
  BY DEF Phases, Phase, Arrives, At
<1> QED BY <1>1, <1>2 DEF Store!Begin, Arrives

LEMMA StoreInit == Init => Store!Init
BY DEF Init, Store!Init, Phases, Phase, Empty, Store!Empty

LEMMA StoreStep == Typed /\ [Next]_vars => [Store!Next]_(Store!vars)
<1> SUFFICES ASSUME Typed, [Next]_vars PROVE Store!Next \/ UNCHANGED Store!vars
  OBVIOUS
<1> DEFINE Goal == Store!Next \/ UNCHANGED Store!vars
<1>1. ASSUME NEW o \in Op, NEW p \in Path, Tar(o, p) PROVE Goal
  <2>1. Phases[o] = "creating" /\ Phases' = Phases
    BY <1>1 DEF Tar, Phases, Phase
  <2>2. Store!Save(o, p)
    BY <1>1, <2>1 DEF Tar, Store!Save, Store!Handle
  <2> QED BY <2>2 DEF Store!Next
<1>2. ASSUME NEW o \in Op, TarEnds(o) PROVE Goal
  <2>1. Phases[o] = "creating" /\ Phases' = Phases
    <3>1. Phase("tar") = "creating" /\ Phase("cat") = "creating"
      BY DEF Phase
    <3>2. pc[o] = "tar" /\ pc' = [pc EXCEPT ![o] = "cat"] /\ pc \in [Op -> Steps]
      BY <1>2 DEF TarEnds, TarReturns, Goes, At, Typed, TypeOK
    <3> QED BY <3>1, <3>2, PhaseStays DEF Phases
  <2>2. UNCHANGED <<data, made, answered, gone, id, left>>
    BY <1>2 DEF TarEnds, TarReturns, Goes, history
  <2>3. CASE UNCHANGED lost
    BY <2>1, <2>2, <2>3 DEF Store!vars
  <2>4. CASE lost' = lost \cup {o}
    <3>1. Store!Lose(o)
      BY <2>1, <2>2, <2>4 DEF Store!Lose
    <3> QED BY <3>1 DEF Store!Next
  <2> QED BY <1>2, <2>3, <2>4 DEF TarEnds, TarReturns
<1>3. ASSUME NEW o \in Op, Cat(o) \/ WriteFile(o) \/ RemoveTmp(o) \/ Fallback(o) PROVE Goal
  <2>1. PICK l \in {"write", "rm", "rmcp", "created", "cp"} :
          Goes(o, pc[o], l) /\ pc[o] \in {"cat", "write", "rm", "rmcp", "cp"}
    BY <1>3 DEF Cat, WriteFile, RemoveTmp, Fallback, Goes, At
  <2>2. Phase(pc[o]) = Phase(l)
    BY <2>1 DEF Phase
  <2>3. UNCHANGED <<data, made, answered, gone, left, lost>>
    BY <1>3 DEF Cat, WriteFile, RemoveTmp, Fallback, Breaks, history
  <2> QED BY <2>1, <2>2, <2>3, Inside
\* All parts were read, or the connection to tar was lost.
<1>4. ASSUME NEW o \in Op, Created(o) PROVE Goal
  <2>1. Store!End(o, "creating")
    <3>1. Phase("created") = "creating"
      BY DEF Phase
    <3> QED BY <1>4, <3>1, Ends DEF Created
  <2>2. left[o] = {} \/ o \in lost
    BY <1>4 DEF Created, Answers, At, Typed, Files
  <2>3. Store!Created(o)
    BY <1>4, <2>1, <2>2 DEF Created, Store!Created
  <2> QED BY <2>3 DEF Store!Next
<1>5. ASSUME NEW o \in Op, RemoveHost(o) PROVE Goal
  <2>1. Goes(o, pc[o], "removecopy") /\ Phase(pc[o]) = Phase("removecopy")
    BY <1>5 DEF RemoveHost, Goes, At, Phase
  <2>2. UNCHANGED <<data, made, answered, gone, left, lost>>
    BY <1>5 DEF RemoveHost, Breaks, history
  <2> QED BY <2>1, <2>2, Inside
<1>6. ASSUME NEW o \in Op, RemoveCopy(o) PROVE Goal
  <2>1. Store!End(o, "deleting")
    <3>1. Phase("removecopy") = "deleting"
      BY DEF Phase
    <3> QED BY <1>6, <3>1, Ends DEF RemoveCopy
  <2>2. Store!Deleted(o)
    BY <1>6, <2>1 DEF RemoveCopy, Store!Deleted
  <2> QED BY <2>2 DEF Store!Next
<1>7. ASSUME NEW o \in Op,
             TestCopy(o) \/ ReadHost(o) \/ CopyBegins(o) \/ CopyIn(o) \/ OpenCopy(o)
      PROVE  Goal
  <2>1. PICK l \in {"open", "read", "copy", "copying", "untar"} :
          Goes(o, pc[o], l) /\ pc[o] \in {"test", "read", "copy", "copying", "open"}
    BY <1>7 DEF TestCopy, ReadHost, CopyBegins, CopyIn, OpenCopy, Goes, At
  <2>2. Phase(pc[o]) = Phase(l)
    BY <2>1 DEF Phase
  <2>3. UNCHANGED <<data, made, answered, gone, left, lost>>
    BY <1>7 DEF TestCopy, ReadHost, CopyBegins, CopyIn, OpenCopy, Breaks, history
  <2> QED BY <2>1, <2>2, <2>3, Inside
<1>8. ASSUME NEW o \in Op,
             CreateFails(o) \/ NotFound(o) \/ CopyInFails(o) \/ UntarFails(o)
      PROVE  Goal
  <2>1. PICK l \in {"tar", "cat", "read", "copy", "copying", "open", "untar"} : Answers(o, l)
    BY <1>8 DEF CreateFails, NotFound, CopyInFails, UntarFails
  <2>2. Store!End(o, Phase(l)) /\ Phase(l) \in {"creating", "restoring"}
    BY <2>1, Ends DEF Phase
  <2>3. UNCHANGED <<data, made, answered, gone>>
    BY <1>8 DEF CreateFails, NotFound, CopyInFails, UntarFails, Breaks, history
  <2>4. Store!Fails(o)
    BY <2>2, <2>3 DEF Store!Fails
  <2> QED BY <2>4 DEF Store!Next
\* The file that tar reads from is what the backup was made of, or damaged.
<1>9. ASSUME NEW o \in Op, NEW p \in Path, Untar(o, p) PROVE Goal
  <2>1. Phases[o] \in {"restoring", "restored"} /\ Phases' = Phases
    BY <1>9 DEF Untar, Phases, Phase
  <2>2. id[o] \in Id /\ buf[o] = made[id[o]]
    BY <1>9, Archives DEF Untar, At, Typed, TypeOK, Alone, Files, FileOf
  <2>3. Store!PutBack(o, p)
    BY <1>9, <2>1, <2>2 DEF Untar, Store!PutBack, Store!Handle, history
  <2> QED BY <2>3 DEF Store!Next
<1>10. ASSUME NEW o \in Op, UntarEnds(o) PROVE Goal
  <2>1. Phases[o] = "restoring" /\ Phases' = [Phases EXCEPT ![o] = "restored"]
    <3>1. Phase("untar") = "restoring" /\ Phase("restored") = "restored"
      BY DEF Phase
    <3>2. pc[o] = "untar" /\ pc' = [pc EXCEPT ![o] = "restored"] /\ pc \in [Op -> Steps]
      BY <1>10 DEF UntarEnds, TarReturns, Goes, At, Typed, TypeOK
    <3> QED BY <3>1, <3>2, PhaseMoves DEF Phases
  <2>2. Store!Succeeds(o)
    BY <1>10, <2>1 DEF UntarEnds, TarReturns, Goes, history, Store!Succeeds
  <2> QED BY <2>2 DEF Store!Next
<1>11. ASSUME NEW o \in Op, Restored(o) PROVE Goal
  <2>1. Store!End(o, "restored")
    <3>1. Phase("restored") = "restored"
      BY DEF Phase
    <3> QED BY <1>11, <3>1, Ends DEF Restored
  <2>2. Store!Restored(o)
    BY <1>11, <2>1 DEF Restored, Store!Restored, history
  <2> QED BY <2>2 DEF Store!Next
<1>12. ASSUME NEW o \in Op, NEW i \in Id, Create(o, i) PROVE Goal
  <2>1. Store!Begin(o, i, "creating", Path)
    <3>1. Phase("tar") = "creating"
      BY DEF Phase
    <3> QED BY <1>12, <3>1, Begins DEF Create
  <2>2. Store!Create(o, i)
    BY <1>12, <2>1 DEF Create, Arrives, Store!Create, Empty, Store!Empty
  <2> QED BY <2>2 DEF Store!Next
<1>13. ASSUME NEW o \in Op, NEW i \in Id, Delete(o, i) PROVE Goal
  <2>1. Store!Begin(o, i, "deleting", {})
    <3>1. Phase("remove") = "deleting"
      BY DEF Phase
    <3> QED BY <1>13, <3>1, Begins DEF Delete
  <2>2. Store!Delete(o, i)
    BY <1>13, <2>1 DEF Delete, Arrives, Store!Delete
  <2> QED BY <2>2 DEF Store!Next
<1>14. ASSUME NEW o \in Op, NEW i \in Id, Restore(o, i) PROVE Goal
  <2>1. Store!Begin(o, i, "restoring", Path)
    <3>1. Phase("test") = "restoring"
      BY DEF Phase
    <3> QED BY <1>14, <3>1, Begins DEF Restore
  <2>2. Store!Restore(o, i)
    BY <1>14, <2>1 DEF Restore, Arrives, Store!Restore
  <2> QED BY <2>2 DEF Store!Next
<1>15. ASSUME NEW p \in Path, NEW v \in Value \cup {None}, Write(p, v) PROVE Goal
  <2>1. Store!Write(p, v)
    BY <1>15 DEF Write, request, history, Store!Write, Phases
  <2> QED BY <2>1 DEF Store!Next
<1>16. CASE Reinstall
  <2>1. Store!Renew
    BY <1>16 DEF Reinstall, request, Store!Renew, Phases, Empty, Store!Empty
  <2> QED BY <2>1 DEF Store!Next
<1>17. CASE UNCHANGED vars
  BY <1>17 DEF vars, request, history, Store!vars, Phases
<1> QED
  BY <1>1, <1>2, <1>3, <1>4, <1>5, <1>6, <1>7, <1>8, <1>9, <1>10, <1>11, <1>12, <1>13,
     <1>14, <1>15, <1>16, <1>17
  DEF Next, CreateSteps, DeleteSteps, RestoreSteps

\* Whatever commands fail and requests run beside one another, the callers see
\* the store: each part of a backup is what it was at some moment of its
\* creation, under a name of its own, and each restore that succeeds has put
\* back each of exactly those - but for a tar whose connection was lost, which
\* is taken for one that is done.
THEOREM StoreImplemented == Spec => Implements
BY TypedInit, TypedStep, StoreInit, StoreStep, PTL DEF Spec, Implements, Store!Spec

=============================================================================
