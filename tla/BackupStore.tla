----------------------------- MODULE BackupStore -----------------------------
(***************************************************************************)
(* What the backup routes of a server promise to who calls them.  A backup *)
(* holds, for each part of /data, what that part was at some moment of the *)
(* backup's creation, under a name of its own; one that has been answered  *)
(* can be asked for; and a restore that is answered with success has put   *)
(* back, between its request and its answer, each part of exactly that.    *)
(* It is no transaction: the server goes on writing, other restores may    *)
(* run beside it, and what the backup does not hold stays.  A command      *)
(* whose connection is lost is the one excuse.  There are no files here    *)
(* and no copies: Backups implements this module.                          *)
(***************************************************************************)
CONSTANTS Op, Id, Path, Value, None

VARIABLES
  data,   \* /data: what each of its parts is, None if it is not there
  saved,  \* what each backup holds; None if there was none of that name
  offered, gone,  \* the backups whose creation, and deletion, was answered
  phase, of,      \* what each request is at, and the backup it is for
  left,   \* the parts it has still to save or to put back
  lost    \* the requests that lost the connection to their command

vars == <<data, saved, offered, gone, phase, of, left, lost>>

Empty == [p \in Path |-> None]

Init ==
  /\ data = Empty
  /\ saved = [i \in Id |-> None]
  /\ offered = {} /\ gone = {} /\ lost = {}
  /\ phase = [o \in Op |-> "idle"]
  /\ of = [o \in Op |-> None]
  /\ left = [o \in Op |-> {}]

Begin(o, i, at, parts) ==
  /\ phase[o] = "idle"
  /\ phase' = [phase EXCEPT ![o] = at]
  /\ of' = [of EXCEPT ![o] = i]
  /\ left' = [left EXCEPT ![o] = parts]

End(o, at) ==
  /\ phase[o] = at
  /\ phase' = [phase EXCEPT ![o] = "idle"]
  /\ of' = [of EXCEPT ![o] = None]
  /\ left' = [left EXCEPT ![o] = {}]
  /\ lost' = lost \ {o}

Handle(o, p, at) ==
  /\ phase[o] \in at /\ p \in left[o]
  /\ left' = [left EXCEPT ![o] = @ \ {p}]
  /\ UNCHANGED <<offered, gone, phase, of, lost>>

-----------------------------------------------------------------------------

\* The server writes, or a restore that fails does.
Write(p, v) ==
  /\ data' = [data EXCEPT ![p] = v]
  /\ UNCHANGED <<saved, offered, gone, phase, of, left, lost>>

\* The server is installed anew.
Renew == data' = Empty /\ UNCHANGED <<saved, offered, gone, phase, of, left, lost>>

Lose(o) ==
  /\ phase[o] = "creating"
  /\ lost' = lost \cup {o}
  /\ UNCHANGED <<data, saved, offered, gone, phase, of, left>>

Create(o, i) ==
  /\ saved[i] = None
  /\ Begin(o, i, "creating", Path)
  /\ saved' = [saved EXCEPT ![i] = Empty]
  /\ UNCHANGED <<data, offered, gone, lost>>

Save(o, p) ==
  /\ Handle(o, p, {"creating"})
  /\ saved' = [saved EXCEPT ![of[o]] = [@ EXCEPT ![p] = data[p]]]
  /\ UNCHANGED data

Created(o) ==
  /\ End(o, "creating")
  /\ left[o] = {} \/ o \in lost
  /\ offered' = offered \cup {of[o]}
  /\ UNCHANGED <<data, saved, gone>>

Delete(o, i) ==
  /\ i \in offered
  /\ Begin(o, i, "deleting", {})
  /\ UNCHANGED <<data, saved, offered, gone, lost>>

Deleted(o) ==
  /\ End(o, "deleting")
  /\ gone' = gone \cup {of[o]}
  /\ UNCHANGED <<data, saved, offered>>

Restore(o, i) ==
  /\ i \in offered
  /\ Begin(o, i, "restoring", Path)
  /\ UNCHANGED <<data, saved, offered, gone, lost>>

\* A restore that lost its command may be answered before it has put all back.
PutBack(o, p) ==
  /\ Handle(o, p, {"restoring", "restored"})
  /\ data' = IF saved[of[o]][p] = None THEN data
             ELSE [data EXCEPT ![p] = saved[of[o]][p]]
  /\ UNCHANGED saved

\* It is as good as answered with success.
Succeeds(o) ==
  /\ phase[o] = "restoring"
  /\ \/ left[o] = {} /\ UNCHANGED lost
     \/ lost' = lost \cup {o}
  /\ phase' = [phase EXCEPT ![o] = "restored"]
  /\ UNCHANGED <<data, saved, offered, gone, of, left>>

Restored(o) ==
  /\ End(o, "restored")
  /\ UNCHANGED <<data, saved, offered, gone>>

\* An error is answered.
Fails(o) ==
  /\ End(o, "creating") \/ End(o, "restoring")
  /\ UNCHANGED <<data, saved, offered, gone>>

Next ==
  \/ \E o \in Op :
       \/ \E i \in Id : Create(o, i) \/ Delete(o, i) \/ Restore(o, i)
       \/ \E p \in Path : Save(o, p) \/ PutBack(o, p)
       \/ Created(o) \/ Deleted(o) \/ Succeeds(o) \/ Restored(o) \/ Fails(o) \/ Lose(o)
  \/ \E p \in Path, v \in Value \cup {None} : Write(p, v)
  \/ Renew

Spec == Init /\ [][Next]_vars

=============================================================================
