----------------------------- MODULE Allocations ----------------------------
(***************************************************************************)
(* Who owns a port: the panel's allocations table against its servers      *)
(* table (src/panel/main.py, models.py) and the ports that containers      *)
(* hold on the hosts.                                                      *)
(*                                                                         *)
(* create_server checks that an allocation is free and commits, with no    *)
(* await in between: it blocks the event loop of its worker process, but   *)
(* not the other workers, nor the thread pool that runs the admin's        *)
(* handlers.  clone_server reads the free allocations, awaits the daemon   *)
(* for each in turn, and then inserts.  Nothing is locked and nothing is   *)
(* looked at twice; what is left are the foreign keys of models.py.        *)
(***************************************************************************)
EXTENDS Integers, FiniteSets, FiniteSetsExt

CONSTANTS Server,        \* requests that make a server, and the servers they make
          Alloc,         \* allocation ids
          Node,
          NodeOf,        \* Allocation.node_id
          Worker,        \* worker processes of the panel
          None, Gone

ASSUME AllocAssumption == Alloc \subseteq Nat
ASSUME NodeOfAssumption == NodeOf \in [Alloc -> Node]
ASSUME NoneAssumption == None # Gone /\ {None, Gone} \cap (Server \cup Alloc) = {}
ASSUME RowAssumption == None \notin [node: Node, primary: Alloc \cup {None}]

VARIABLES
  owner,     \* Allocation.server_id, or Gone once the row is deleted
  server,    \* the servers rows: node_id and primary_allocation_id
  nodes,     \* the nodes rows
  pc,        \* where the request that makes each server is
  want,      \* what it will write: node, primary, other allocations
  tries,     \* free_allocs of clone_server, those still to be tried
  loop,      \* the request that occupies each worker's event loop
  checked,   \* allocations that delete_allocation has found unused
  bound,     \* the server whose container holds the allocation's port; Gone for
             \* a container that has outlived the row of an earlier server
  rivals     \* history: the requests at work when a server was committed

vars == <<owner, server, nodes, pc, want, tries, loop, checked, bound, rivals>>

Rows == {s \in Server : server[s] # None}
On(n) == {a \in Alloc : NodeOf[a] = n}
Free(n) == {a \in On(n) : owner[a] = None}
IsPrimary(a) == \E s \in Rows : server[s].primary = a

Init ==
  /\ owner = [a \in Alloc |-> None]
  /\ server = [s \in Server |-> None]
  /\ nodes = Node
  /\ pc = [s \in Server |-> "idle"]
  /\ want = [s \in Server |-> None]
  /\ tries = [s \in Server |-> {}]
  /\ loop = [w \in Worker |-> None]
  /\ checked = {}
  /\ \E left \in Alloc \cup {None} :    \* bound: at most one port is held from before
       bound = [a \in Alloc |-> IF a = left THEN Gone ELSE None]
  /\ rivals = [s \in Server |-> {}]

\* A coroutine goes on when some event loop is not blocked by another one.
LoopIsFree == \E w \in Worker : loop[w] = None

Goto(s, from, to) == pc[s] = from /\ pc' = [pc EXCEPT ![s] = to]

-----------------------------------------------------------------------------
(* create_server                                                           *)

\* Mutant: the allocation is looked up, its server_id is not.
MutantCheckExistsOnly(s, w) ==
  /\ loop[w] = None /\ loop' = [loop EXCEPT ![w] = s]
  /\ Goto(s, "idle", "commit")
  /\ \E n \in nodes : \E extra \in SUBSET On(n), p \in On(n) \cup {None} :
       /\ \A a \in extra \cup ({p} \ {None}) : owner[a] # Gone
       /\ want' = [want EXCEPT ![s] = [node |-> n, primary |-> p, extra |-> extra \ {p}]]
  /\ UNCHANGED <<owner, server, nodes, tries, checked, bound, rivals>>

\* Every allocation asked for is on the node and free; without a primary one
\* the server uses the host network.
CheckCreate(s, w) ==
  /\ loop[w] = None /\ loop' = [loop EXCEPT ![w] = s]
  /\ Goto(s, "idle", "commit")
  /\ \E n \in nodes : \E extra \in SUBSET Free(n), p \in Free(n) \cup {None} :
       want' = [want EXCEPT ![s] = [node |-> n, primary |-> p, extra |-> extra \ {p}]]
  /\ UNCHANGED <<owner, server, nodes, tries, checked, bound, rivals>>

\* The INSERT and the UPDATEs of one commit, as the foreign keys allow: the
\* node and the primary allocation must exist, and every row that is updated.
Insertable(s) ==
  /\ want[s].node \in nodes
  /\ \A a \in want[s].extra \cup ({want[s].primary} \ {None}) : owner[a] # Gone

Insert(s) ==
  /\ server' = [server EXCEPT ![s] = [node |-> want[s].node, primary |-> want[s].primary]]
  /\ owner' = [a \in Alloc |->
                 IF a = want[s].primary \/ a \in want[s].extra THEN s ELSE owner[a]]

AtWork == {s \in Server : pc[s] \in {"commit", "clone", "insert"}}

Commit(s) ==
  IF Insertable(s)
  THEN /\ Insert(s)
       /\ pc' = [pc EXCEPT ![s] = "done"]
       /\ rivals' = [rivals EXCEPT ![s] = AtWork \ {s}]
  ELSE /\ pc' = [pc EXCEPT ![s] = "failed"]
       /\ UNCHANGED <<server, owner, rivals>>

CommitCreate(s, w) ==
  /\ pc[s] = "commit" /\ loop[w] = s
  /\ loop' = [loop EXCEPT ![w] = None]
  /\ Commit(s)
  /\ UNCHANGED <<nodes, want, tries, checked, bound>>

-----------------------------------------------------------------------------
(* clone_server                                                            *)

\* The free allocations of the node of the server that is cloned.
ReadFree(s) ==
  /\ LoopIsFree
  /\ \E src \in Rows :
       LET n == server[src].node IN
       /\ Free(n) # {}
       /\ tries' = [tries EXCEPT ![s] = Free(n)]
       /\ want' = [want EXCEPT ![s] = [node |-> n, primary |-> None, extra |-> {}]]
  /\ Goto(s, "idle", "clone")
  /\ UNCHANGED <<owner, server, nodes, loop, checked, bound, rivals>>

\* The daemon's handleCloneServer makes a container with the port and starts
\* it.  The answer may be lost, and the handler raise.
DaemonClones(s) ==
  LET a == Min(tries[s]) IN
  /\ pc[s] = "clone"
  /\ bound[a] = None
  /\ bound' = [bound EXCEPT ![a] = s]
  /\ want' = [want EXCEPT ![s].primary = a]
  /\ \/ Goto(s, "clone", "insert")
     \/ Goto(s, "clone", "failed")
  /\ UNCHANGED <<owner, server, nodes, tries, loop, checked, rivals>>

\* "port is already allocated": the clone is removed, the next one is tried.
PortTaken(s) ==
  LET a == Min(tries[s]) IN
  /\ pc[s] = "clone"
  /\ bound[a] # None
  /\ tries' = [tries EXCEPT ![s] = @ \ {a}]
  /\ pc' = [pc EXCEPT ![s] = IF tries[s] = {a} THEN "failed" ELSE "clone"]
  /\ UNCHANGED <<owner, server, nodes, want, loop, checked, bound, rivals>>

\* Any other error of the daemon.
CloneFails(s) ==
  /\ Goto(s, "clone", "failed")
  /\ UNCHANGED <<owner, server, nodes, want, tries, loop, checked, bound, rivals>>

\* The allocation is not looked at again.
InsertClone(s) ==
  /\ LoopIsFree
  /\ pc[s] = "insert"
  /\ Commit(s)
  /\ UNCHANGED <<nodes, want, tries, loop, checked, bound>>

-----------------------------------------------------------------------------
(* The end of a server, and the admin's handlers.                          *)

\* delete_server, the daemon call: its failure is ignored.
DaemonDeletes(s) ==
  /\ LoopIsFree
  /\ server[s] # None /\ Goto(s, "done", "erase")
  /\ \E gone \in BOOLEAN :
       bound' = [a \in Alloc |-> IF gone /\ bound[a] = s THEN None ELSE bound[a]]
  /\ UNCHANGED <<owner, server, nodes, want, tries, loop, checked, rivals>>

\* The commit: what the server owns is released, whatever its primary is.
Erase(s) ==
  /\ LoopIsFree
  /\ Goto(s, "erase", "deleted")
  /\ owner' = [a \in Alloc |-> IF owner[a] = s THEN None ELSE owner[a]]
  /\ server' = [server EXCEPT ![s] = None]
  /\ UNCHANGED <<nodes, want, tries, loop, checked, bound, rivals>>

\* transfer_server: the allocations stay behind.
Transfer(s) ==
  /\ LoopIsFree
  /\ pc[s] = "done" /\ server[s] # None
  /\ \E n \in nodes \ {server[s].node} : server' = [server EXCEPT ![s].node = n]
  /\ UNCHANGED <<owner, nodes, pc, want, tries, loop, checked, bound, rivals>>

\* delete_allocation, on a thread of the pool.
CheckUnused(a) ==
  /\ owner[a] = None
  /\ checked' = checked \cup {a}
  /\ UNCHANGED <<owner, server, nodes, pc, want, tries, loop, bound, rivals>>

\* Mutant: primary_allocation_id with ondelete='SET NULL', or no key at all.
MutantDeleteUnrestricted(a) ==
  /\ a \in checked
  /\ checked' = checked \ {a}
  /\ owner' = [owner EXCEPT ![a] = Gone]
  /\ UNCHANGED <<server, nodes, pc, want, tries, loop, bound, rivals>>

\* Its DELETE: ondelete='RESTRICT' protects a primary allocation only.
DeleteAllocation(a) ==
  /\ a \in checked
  /\ checked' = checked \ {a}
  /\ owner' = IF IsPrimary(a) THEN owner ELSE [owner EXCEPT ![a] = Gone]
  /\ UNCHANGED <<server, nodes, pc, want, tries, loop, bound, rivals>>

\* delete_node: no server is on it; its allocations go with it.
DeleteNode(n) ==
  /\ n \in nodes
  /\ \A s \in Rows : server[s].node # n
  /\ \A a \in On(n) : ~IsPrimary(a)
  /\ nodes' = nodes \ {n}
  /\ owner' = [a \in Alloc |-> IF NodeOf[a] = n THEN Gone ELSE owner[a]]
  /\ UNCHANGED <<server, pc, want, tries, loop, checked, bound, rivals>>

\* A server's container starts, if its port is free, or stops.
Runs(s) ==
  /\ server[s] # None /\ pc[s] = "done"
  /\ \E a \in Alloc \cap {server[s].primary} :
       bound[a] = None /\ bound' = [bound EXCEPT ![a] = s]
  /\ UNCHANGED <<owner, server, nodes, pc, want, tries, loop, checked, rivals>>

Stops(s) ==
  /\ server[s] # None
  /\ \E a \in Alloc : bound[a] = s /\ bound' = [bound EXCEPT ![a] = None]
  /\ UNCHANGED <<owner, server, nodes, pc, want, tries, loop, checked, rivals>>

-----------------------------------------------------------------------------

\* No request is at work, and none has to be made.
Idle ==
  /\ \A s \in Server : pc[s] \in {"idle", "done", "deleted", "failed"}
  /\ UNCHANGED vars

Next ==
  \/ \E s \in Server, w \in Worker : CheckCreate(s, w) \/ CommitCreate(s, w)
  \/ \E s \in Server :
       \/ ReadFree(s) \/ DaemonClones(s) \/ PortTaken(s) \/ CloneFails(s)
       \/ InsertClone(s) \/ DaemonDeletes(s) \/ Erase(s) \/ Transfer(s)
       \/ Runs(s) \/ Stops(s)
  \/ \E a \in Alloc : CheckUnused(a) \/ DeleteAllocation(a)
  \/ \E n \in Node : DeleteNode(n)
  \/ Idle

Spec == Init /\ [][Next]_vars

-----------------------------------------------------------------------------
(* Properties.                                                             *)

TypeOK ==
  /\ owner \in [Alloc -> Server \cup {None, Gone}]
  /\ server \in [Server -> [node: Node, primary: Alloc \cup {None}] \cup {None}]
  /\ nodes \subseteq Node
  /\ pc \in [Server -> {"idle", "commit", "clone", "insert", "done", "erase",
                        "deleted", "failed"}]
  /\ want \in [Server -> [node: Node, primary: Alloc \cup {None}, extra: SUBSET Alloc]
                           \cup {None}]
  /\ tries \in [Server -> SUBSET Alloc]
  /\ loop \in [Worker -> Server \cup {None}]
  /\ checked \subseteq Alloc
  /\ bound \in [Alloc -> Server \cup {None, Gone}]
  /\ rivals \in [Server -> SUBSET Server]
  /\ \A a \in Alloc : owner[a] \in Server => owner[a] \in Rows

\* Whoever else creates, clones or deletes, the primary allocation and the node
\* of a server are never deleted under it.
PrimaryExists ==
  \A s \in Rows :
    server[s].node \in nodes
    /\ (server[s].primary # None => owner[server[s].primary] # Gone)

\* create_server's answer "Primary allocation is already in use", and
\* clone_server's list of free allocations: a server loses its primary
\* allocation only to a request that was already between its look at the table
\* and its commit when the server was committed, in another worker or waiting
\* for a daemon.  No later create, clone, delete or transfer can take it.
PrimaryLostOnlyToRival ==
  \A s \in Rows :
    LET p == server[s].primary IN
    \/ p = None
    \/ owner[p] = s
    \/ \E t \in rivals[s] :
         /\ pc[t] \in {"done", "erase", "deleted"}
         /\ p = want[t].primary \/ p \in want[t].extra

=============================================================================
