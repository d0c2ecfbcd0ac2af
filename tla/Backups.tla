------------------------------ MODULE Backups -------------------------------
(***************************************************************************)
(* The backups of one server: handleBackupRoutes (src/daemon/main.go),     *)
(* which the panel's backup routes call.                                   *)
(*                                                                         *)
(* A backup is an archive of the server's /data.  Its home is a file on    *)
(* the host; restoring it puts a copy in /data/.wings_backups, in the      *)
(* container's volume, and every later restore prefers that copy.  Nothing *)
(* serializes the requests, and each is a row of commands run in the       *)
(* container, any of which may fail, and none of which is alone with /data. *)
(***************************************************************************)
EXTENDS Naturals, FiniteSets

CONSTANTS
  Op, Id,
  Path,     \* bound: the parts of /data, each of which tar reads or writes at once
  Value,    \* bound: what a part can be
  None, Damaged

ASSUME BackupsAssumption ==
  /\ None \notin Id /\ None \notin Value
  /\ None \notin [Path -> Value \cup {None}] /\ Damaged \notin [Path -> Value \cup {None}]
  /\ Damaged # None

VARIABLES
  data,  \* /data: what each of its parts is, None if it is not there
  host,  \* the file of a backup on the host
  copy,  \* its copy in /data/.wings_backups
  tmp,   \* its archive in the container's /tmp
  pc, id,
  buf,   \* what a request has read of a file, or its tar reads from
  left,  \* the parts that its tar has still to read or to write
  lost,  \* the requests that lost the connection to their tar
  made,  \* history: what tar has read into a backup; None if it was never asked for
  answered,  \* history: the backups whose creation has been answered
  gone,  \* history: the backups whose deletion has been answered
  broken, \* history: the backups one of whose files was not read, written or
          \* removed as it should, or that were there before a reinstallation
  raced   \* history: the backups that two requests were for at once

disk == <<host, copy, tmp>>
request == <<pc, id, buf, left, lost>>
history == <<made, answered, gone, broken, raced>>
vars == <<data, disk, request, history>>

\* An archive holds what each part was; a file that is cut short or garbled is
\* one that tar refuses in the end.
Archive == [Path -> Value \cup {None}]
File == Archive \cup {None, Damaged}
Empty == [p \in Path |-> None]

Init ==
  /\ data = Empty
  /\ host = [i \in Id |-> None] /\ copy = host /\ tmp = host
  /\ pc = [o \in Op |-> "idle"]
  /\ id = [o \in Op |-> None]
  /\ buf = [o \in Op |-> None]
  /\ left = [o \in Op |-> {}]
  /\ made = [i \in Id |-> None]
  /\ lost = {} /\ answered = {} /\ gone = {} /\ broken = {} /\ raced = {}

-----------------------------------------------------------------------------

At(o, l) == pc[o] = l

Goes(o, from, to) ==
  /\ At(o, from) /\ pc' = [pc EXCEPT ![o] = to]
  /\ UNCHANGED id

\* The answer, and the end of the request.
Answers(o, from) ==
  /\ At(o, from) /\ pc' = [pc EXCEPT ![o] = "idle"]
  /\ id' = [id EXCEPT ![o] = None]
  /\ buf' = [buf EXCEPT ![o] = None]
  /\ left' = [left EXCEPT ![o] = {}]
  /\ lost' = lost \ {o}

\* A request for a backup arrives, with so many parts to save or put back.
Arrives(o, i, at, parts) ==
  /\ At(o, "idle") /\ pc' = [pc EXCEPT ![o] = at]
  /\ id' = [id EXCEPT ![o] = i]
  /\ left' = [left EXCEPT ![o] = parts]
  /\ raced' = IF \E p \in Op : id[p] = i THEN raced \cup {i} ELSE raced
  /\ UNCHANGED <<buf, lost>>

\* readDemuxed ends with the connection, and execExitCode waits two seconds for
\* the command and no longer: a tar that goes on is taken for one that succeeded.
TarReturns(o, from, to) ==
  /\ Goes(o, from, to)
  /\ \/ left[o] = {} /\ UNCHANGED lost
     \/ lost' = lost \cup {o}
  /\ UNCHANGED <<data, disk, buf, left, history>>

Breaks(o) == broken' = broken \cup {id[o]} /\ UNCHANGED <<made, answered, gone, raced>>

-----------------------------------------------------------------------------
(* POST backups                                                            *)

\* Mutant: a backup is given the name of an earlier one.
MutantCreate(o, i) ==
  /\ i \notin gone \cup {id[p] : p \in Op}
  /\ Arrives(o, i, "tar", Path)
  /\ made' = [made EXCEPT ![i] = Empty]
  /\ UNCHANGED <<data, disk, answered, gone, broken>>

\* The panel gives a backup a new uuid if the request does not name it, which
\* those of the frontend do not.
Create(o, i) ==
  /\ made[i] = None
  /\ Arrives(o, i, "tar", Path)
  /\ made' = [made EXCEPT ![i] = Empty]
  /\ UNCHANGED <<data, disk, answered, gone, broken>>

\* tar czf reads /data part by part, while the server writes; one whose
\* connection was lost does so while the request goes on.
Tar(o, p) ==
  /\ pc[o] \in {"tar", "cat"} /\ p \in left[o]
  /\ left' = [left EXCEPT ![o] = @ \ {p}]
  /\ made' = [made EXCEPT ![id[o]][p] = data[p]]
  /\ tmp' = [tmp EXCEPT ![id[o]] = IF left'[o] = {} THEN made'[id[o]] ELSE Damaged]
  /\ UNCHANGED <<data, host, copy, pc, id, buf, lost, answered, gone, broken, raced>>

TarEnds(o) == TarReturns(o, "tar", "cat")

\* tar or cat does not succeed: what is in /tmp stays there.
CreateFails(o) ==
  /\ \/ Answers(o, "tar")
     \/ Answers(o, "cat")
  /\ UNCHANGED <<data, disk, history>>

\* What cat writes comes in frames.  readDemuxed takes one that spans two reads
\* of 8 KiB twice into what it keeps for the next read, which garbles the rest,
\* and drops the error of a read; whole or not, the output is taken for the
\* archive.
Cat(o) ==
  /\ Goes(o, "cat", "write")
  /\ tmp[id[o]] # None
  /\ \/ buf' = [buf EXCEPT ![o] = tmp[id[o]]] /\ tmp[id[o]] # Damaged /\ UNCHANGED history
     \/ buf' = [buf EXCEPT ![o] = Damaged] /\ Breaks(o)
  /\ UNCHANGED <<data, disk, left, lost>>

\* os.WriteFile: an error leaves no file or a part of it, and none if a
\* reinstallation has taken the directory away.
WriteFile(o) ==
  /\ \/ /\ Goes(o, "write", "rm")
        /\ host' = [host EXCEPT ![id[o]] = buf[o]]
        /\ UNCHANGED history
     \/ /\ Goes(o, "write", "rmcp")
        /\ \E f \in {None, Damaged} : host' = [host EXCEPT ![id[o]] = f]
        /\ Breaks(o)
  /\ UNCHANGED <<data, copy, tmp, buf, left, lost>>

\* The archive in /tmp is removed, after an error of WriteFile as well.
RemoveTmp(o) ==
  /\ Goes(o, "rm", "created") \/ Goes(o, "rmcp", "cp")
  /\ \/ tmp' = [tmp EXCEPT ![id[o]] = None]
     \/ UNCHANGED tmp
  /\ UNCHANGED <<data, host, copy, buf, left, lost, history>>

\* cp from /tmp to /data/.wings_backups, whose error nobody looks at: there is
\* mostly nothing to copy any more.
Fallback(o) ==
  /\ Goes(o, "cp", "created")
  /\ \/ /\ tmp[id[o]] # None
        /\ \E f \in {tmp[id[o]], Damaged} : copy' = [copy EXCEPT ![id[o]] = f]
     \/ UNCHANGED copy
  /\ UNCHANGED <<data, host, tmp, buf, left, lost, history>>

\* "status": "success", whatever became of the file.
Created(o) ==
  /\ answered' = answered \cup {id[o]}
  /\ Answers(o, "created")
  /\ UNCHANGED <<data, disk, made, gone, broken, raced>>

-----------------------------------------------------------------------------
(* DELETE backups/{id}                                                     *)

Delete(o, i) ==
  /\ i \in answered
  /\ Arrives(o, i, "remove", {})
  /\ UNCHANGED <<data, disk, made, answered, gone, broken>>

\* The error of os.Remove is ignored.
RemoveHost(o) ==
  /\ Goes(o, "remove", "removecopy")
  /\ \/ host' = [host EXCEPT ![id[o]] = None] /\ UNCHANGED history
     \/ UNCHANGED host /\ Breaks(o)
  /\ UNCHANGED <<data, copy, tmp, buf, left, lost>>

\* Mutant: the copy in the volume is forgotten.
MutantRemoveCopy(o) ==
  /\ gone' = gone \cup {id[o]}
  /\ Answers(o, "removecopy")
  /\ UNCHANGED <<data, disk, made, answered, broken, raced>>

\* The error of rm is ignored.
RemoveCopy(o) ==
  /\ \/ copy' = [copy EXCEPT ![id[o]] = None] /\ UNCHANGED broken
     \/ broken' = broken \cup {id[o]} /\ UNCHANGED copy
  /\ gone' = gone \cup {id[o]}
  /\ Answers(o, "removecopy")
  /\ UNCHANGED <<data, host, tmp, made, answered, raced>>

-----------------------------------------------------------------------------
(* POST backups/{id}/restore                                               *)

Restore(o, i) ==
  /\ i \in answered
  /\ Arrives(o, i, "test", Path)
  /\ UNCHANGED <<data, disk, made, answered, gone, broken>>

\* test -f; no answer counts as no copy.
TestCopy(o) ==
  /\ \/ Goes(o, "test", "open") /\ copy[id[o]] # None
     \/ Goes(o, "test", "read")
  /\ UNCHANGED <<data, disk, buf, left, lost, history>>

ReadHost(o) ==
  /\ Goes(o, "read", "copy")
  /\ host[id[o]] # None
  /\ buf' = [buf EXCEPT ![o] = host[id[o]]]
  /\ UNCHANGED <<data, disk, left, lost, history>>

\* There is no file, or it cannot be read.
NotFound(o) ==
  /\ Answers(o, "read")
  /\ UNCHANGED <<data, disk, history>>

Copying(i) == {o \in Op : At(o, "copying") /\ id[o] = i}

\* cat > truncates the copy that is there.
CopyBegins(o) ==
  /\ Goes(o, "copy", "copying")
  /\ copy' = [copy EXCEPT ![id[o]] = Damaged]
  /\ UNCHANGED <<data, host, tmp, buf, left, lost, history>>

\* cat has written all of it, to a file that may have been removed meanwhile,
\* and that is whole when nobody else is writing it any more.  An error of
\* Conn.Write is not looked at: then it has written what it got.
CopyIn(o) ==
  /\ Goes(o, "copying", "open")
  /\ \/ /\ copy' = [copy EXCEPT ![id[o]] =
                      IF @ = None THEN None
                      ELSE IF Copying(id[o]) # {o} THEN Damaged ELSE buf[o]]
        /\ UNCHANGED history
     \/ UNCHANGED copy /\ Breaks(o)
  /\ UNCHANGED <<data, host, tmp, buf, left, lost>>

CopyInFails(o) ==
  /\ Answers(o, "copy") \/ Answers(o, "copying")
  /\ Breaks(o)
  /\ UNCHANGED <<data, disk>>

\* tar opens the copy, which stays the file it reads when it is removed; one
\* that is still being written may be whole by the time that it has read it.
OpenCopy(o) ==
  /\ Goes(o, "open", "untar")
  /\ copy[id[o]] # None
  /\ \E f \in {copy[id[o]]} \cup {buf[q] : q \in Copying(id[o])} : buf' = [buf EXCEPT ![o] = f]
  /\ UNCHANGED <<data, disk, left, lost, history>>

\* tar xzf writes what the archive holds part by part, while the server and
\* other restores write as well, and leaves alone what it does not hold.  One
\* whose connection was lost goes on after the answer; what it writes then, and
\* what comes out of a damaged archive, is like a write of the server's.
Untar(o, p) ==
  /\ pc[o] \in {"untar", "restored"} /\ p \in left[o]
  /\ buf[o] \in Archive
  /\ left' = [left EXCEPT ![o] = @ \ {p}]
  /\ data' = IF buf[o][p] = None THEN data ELSE [data EXCEPT ![p] = buf[o][p]]
  /\ UNCHANGED <<disk, pc, id, buf, lost, history>>

\* Mutant: tar's exit code is ignored.
MutantUntarEnds(o) ==
  /\ Goes(o, "untar", "restored")
  /\ UNCHANGED <<data, disk, buf, left, lost, history>>

UntarEnds(o) == TarReturns(o, "untar", "restored")

\* There is no copy, it is damaged, or tar cannot be run or write; what it has
\* unpacked until then stays.
UntarFails(o) ==
  /\ Answers(o, "open") \/ Answers(o, "untar")
  /\ UNCHANGED <<data, disk, history>>

Restored(o) ==
  /\ Answers(o, "restored")
  /\ UNCHANGED <<data, disk, history>>

-----------------------------------------------------------------------------
(* The server, and its reinstallation.                                     *)

Write(p, v) ==
  /\ data' = [data EXCEPT ![p] = v]
  /\ UNCHANGED <<disk, request, history>>

\* The panel deletes the server at the daemon - container, volume and, with the
\* server's root, .wings_backups - and installs it again.  A command that ran in
\* the old container fails, as it may at any time.
Reinstall ==
  /\ data' = Empty
  /\ host' = [i \in Id |-> None] /\ copy' = host' /\ tmp' = host'
  /\ broken' = broken \cup {i \in Id : made[i] # None}
  /\ UNCHANGED <<request, made, answered, gone, raced>>

-----------------------------------------------------------------------------

CreateSteps(o) ==
  \/ \E p \in Path : Tar(o, p)
  \/ TarEnds(o) \/ CreateFails(o) \/ Cat(o) \/ WriteFile(o) \/ RemoveTmp(o)
  \/ Fallback(o) \/ Created(o)

DeleteSteps(o) == RemoveHost(o) \/ RemoveCopy(o)

RestoreSteps(o) ==
  \/ TestCopy(o) \/ ReadHost(o) \/ NotFound(o)
  \/ CopyBegins(o) \/ CopyIn(o) \/ CopyInFails(o) \/ OpenCopy(o)
  \/ \E p \in Path : Untar(o, p)
  \/ UntarEnds(o) \/ UntarFails(o) \/ Restored(o)

Next ==
  \/ \E o \in Op :
       \/ CreateSteps(o) \/ DeleteSteps(o) \/ RestoreSteps(o)
       \/ \E i \in Id : Create(o, i) \/ Delete(o, i) \/ Restore(o, i)
  \/ \E p \in Path, v \in Value \cup {None} : Write(p, v)
  \/ Reinstall

Spec == Init /\ [][Next]_vars

-----------------------------------------------------------------------------
(* Properties.                                                             *)

Steps == {"idle", "tar", "cat", "write", "rm", "rmcp", "cp", "created", "remove", "removecopy",
          "test", "read", "copy", "copying", "open", "untar", "restored"}

TypeOK ==
  /\ data \in Archive
  /\ {host, copy, tmp} \subseteq [Id -> File]
  /\ pc \in [Op -> Steps]
  /\ id \in [Op -> Id \cup {None}]
  /\ buf \in [Op -> File]
  /\ left \in [Op -> SUBSET Path] /\ lost \subseteq Op
  /\ broken \cup raced \subseteq Id
  /\ made \in [Id -> Archive \cup {None}]
  /\ gone \subseteq answered /\ answered \subseteq Id
  /\ \A o \in Op : At(o, "idle") <=> id[o] = None
  /\ \A o \in Op : pc[o] \in {"write", "rm", "rmcp", "cp", "created"} => buf[o] # None

\* What a request is at, as its caller may know it.
Phase(l) ==
  CASE l \in {"idle", "restored"} -> l
    [] l \in {"tar", "cat", "write", "rm", "rmcp", "cp", "created"} -> "creating"
    [] l \in {"remove", "removecopy"} -> "deleting"
    [] OTHER -> "restoring"

Phases == [o \in Op |-> Phase(pc[o])]

Store == INSTANCE BackupStore
  WITH saved <- made, offered <- answered, of <- id, phase <- Phases

\* The commands of the requests, in whatever order they run and whichever of
\* them fail, implement the store: no name is used twice; each part of a backup
\* that is offered was read while it was created; and a restore that succeeds
\* has put back each part of that backup and of nothing else, however many
\* restores and copies of it there are and wherever it found it.  Only a tar
\* whose connection was lost is taken for one that is done.
Implements == Store!Spec

Restorable(i) == copy[i] = made[i] \/ (copy[i] = None /\ host[i] = made[i])

\* A backup that was made and not deleted can be restored: the next restore
\* finds all of it, whatever requests have run beside its own and whatever
\* commands have failed in testing or unpacking it, half a copy over the good
\* file included.  What cat's output lost on its way, what could not be written,
\* and a reinstallation are the exceptions, of which the caller is not told.
Kept ==
  \A i \in answered \ (gone \cup broken) : (\A o \in Op : id[o] # i) => Restorable(i)

\* "Delete this backup file? This cannot be undone.": a deleted backup is not
\* on the host nor in the volume, where a restore would find it, unless a
\* restore of that backup ran beside its deletion or a removal failed, both of
\* which the code lets pass.
DeletedIsGone ==
  \A i \in gone \ (broken \cup raced) : host[i] = None /\ copy[i] = None

=============================================================================
