-------------------------------- MODULE Page --------------------------------
(***************************************************************************)
(* The page of the panel (src/frontend/src/app/page.tsx): tabs, the        *)
(* selected server, dialogs, popups, and the requests of the handlers that *)
(* module Handlers lists.  A behaviour follows one list, the one in v, and *)
(* the handlers that write it.                                             *)
(*                                                                         *)
(* A handler goes on after its await with what its closure held when it    *)
(* was called.  By then another server may be selected, another dialog     *)
(* open and another answer shown; nothing looks, and nothing is cancelled. *)
(***************************************************************************)
EXTENDS Naturals, Bags, BagsExt, Handlers

CONSTANTS
  Server, Item,    \* the servers; what is edited on the other lists
  None, Note, Panel,
  Watch,           \* the lists to follow
  MaxWrites,       \* of the list of one server, or of the panel
  MaxOpen          \* requests and reads under way, for each list

ASSUME WatchAssumption == Watch \subseteq DOMAIN View
ASSUME NoneAssumption == None \notin DOMAIN Row

VARIABLES
  v,         \* the list that is followed
  tab, detail, selected,  \* the tab, that of a server's page, and its server
  dialog,    \* the handler whose dialog is open
  form,      \* what its form was loaded from
  editing,   \* the id that it edits, or None
  busy,      \* handlers whose flag is up
  popup,     \* None, a Note, or the request that waits for a Confirm
  requests, reads,  \* bags of what is under way
  later,     \* timeouts that read again
  version,   \* of the list, of each server or of the panel
  shown,     \* what of it is on the page
  faults     \* what went wrong with the page's reads and dialogs

nav == <<tab, detail, selected>>
edit == <<dialog, form, editing>>
net == <<requests, reads, later>>
panel == <<version, shown, faults>>
vars == <<v, nav, edit, busy, popup, net, panel>>

Is(word) == word \in View[v].read
Does(h, word) == word \in Row[h].does

Ours == View[v].ours
ListTabs ==
  View[v].tabs \cup {"servers"} \cup IF Is("all") THEN {"dashboard"} ELSE {}
DetailTabs == View[v].detailTabs \cup {"console"}

\* The page is either a list or, if one is selected, a server's.
Open(t) ==
  IF t.page = "list" THEN selected = None /\ tab = t.name
                     ELSE selected # None /\ t.name \in {"", detail}
Visible == \E t \in View[v].shows : Open(t)

Offered(h) == \E t \in Row[h].tabs : Open(t)
Rendered(h) ==
  dialog = h /\ IF Does(h, "detail") THEN selected # None ELSE Offered(h)

\* Popups and rendered dialogs cover the page.
Free ==
  /\ popup = None
  /\ dialog # None => (Does(dialog, "inline") \/ ~Rendered(dialog))

Unread == [of |-> None, version |-> 0]

Init ==
  /\ v \in Watch
  /\ tab = "dashboard" /\ detail = "console" /\ selected = None
  /\ dialog = None /\ form = None /\ editing = None
  /\ busy = {} /\ popup = None
  /\ requests = EmptyBag /\ reads = EmptyBag /\ later = {}
  /\ version = [s \in Server \cup {Panel} |-> 0]
  /\ shown = IF Is("all") \/ Is("dashboard") THEN [of |-> Panel, version |-> 0]
                                             ELSE Unread
  /\ faults = {}

-----------------------------------------------------------------------------
(* Reads.                                                                  *)

\* A read of the list of s, answered by the panel once version is a number.
\* by: "fetch", a function of its own; "all", fetchAll; "file", handleFileClick.
Reread(s, by) == reads' = BagAdd(reads, [of |-> s, by |-> by, version |-> None])

Room == BagCardinality(reads) + BagCardinality(requests) < MaxOpen[v]
Read(s, by) == Room /\ Reread(s, by)

ReadIf(cond, s) == IF cond THEN Read(s, "fetch") ELSE UNCHANGED reads

\* The panel answers; what it answers gets older on its way.
Serve(r) ==
  /\ r.version = None /\ r.by # "file"
  /\ reads' = BagAdd(BagRemove(reads, r), [r EXCEPT !.version = version[r.of]])
  /\ UNCHANGED <<v, nav, edit, busy, popup, requests, later, panel>>

Current == IF Is("server") THEN selected ELSE Panel

\* fetchX's answer is shown, whatever is selected and was shown meanwhile; but
\* where it is an object, asArray makes it the empty list that the page began
\* with.
Arrive(r) ==
  /\ r.version # None /\ r.by # "file"
  /\ reads' = BagRemove(reads, r)
  /\ shown' = IF Is("object") THEN Unread ELSE [of |-> r.of, version |-> r.version]
  /\ \/ /\ r.of # Current \/ (r.of = shown.of /\ r.version < shown.version)
        /\ faults' = faults \cup {"stale"}
     \/ /\ r.of = Current /\ r.version = version[r.of]
        /\ faults' = faults \ {"stale"}
     \/ /\ r.of = Current /\ r.version < version[r.of]
        /\ shown.of = Current => shown.version <= r.version
        /\ UNCHANGED faults
  /\ busy' = IF Is("flags") /\ r.by = "fetch" THEN {} ELSE busy
  /\ UNCHANGED <<v, nav, edit, popup, requests, later, version>>

\* An error, or no answer: the list stays as it is.
ReadFails(r) ==
  /\ reads' = BagRemove(reads, r)
  /\ faults' = IF r.by = "file" THEN faults ELSE faults \cup {"stale"}
  /\ popup' = IF r.by = "file" THEN Note ELSE popup
  /\ busy' = IF Is("flags") /\ r.by = "fetch" THEN {} ELSE busy
  /\ UNCHANGED <<v, nav, edit, requests, later, version, shown>>

\* The intervals are made again by the effects on the server and the tab.
Timer ==
  /\ Is("timer") /\ selected # None
  /\ v = "header" \/ detail \in View[v].read
  /\ Read(selected, "fetch")
  /\ UNCHANGED <<v, nav, edit, busy, popup, requests, later, panel>>

\* fetchAll every 10 s, as of the tab at the login: the dashboard, or the one
\* that an earlier session left open.
Poll ==
  /\ \/ Is("all") \/ Is("dashboard") \/ Is("refresh")
     \/ v \in {"templates", "webhooks", "panelSettings"}
  /\ Read(Panel, "all")
  /\ UNCHANGED <<v, nav, edit, busy, popup, requests, later, panel>>

Later(t) ==
  /\ later' = later \ {t}
  /\ Read(t[2], "fetch")
  /\ UNCHANGED <<v, nav, edit, busy, popup, requests, panel>>

\* fetchAll by a button.
Refresh ==
  /\ Free /\ selected = None
  /\ \/ Is("all") /\ tab \in {"dashboard", "servers", "system"}
     \/ Is("refresh") /\ tab = "system"
  /\ Read(Panel, "all")
  /\ UNCHANGED <<v, nav, edit, busy, popup, requests, later, panel>>

-----------------------------------------------------------------------------
(* Getting about.                                                          *)

\* The effects on selectedServer.  The editor is closed; of the other forms
\* nothing is.  A list that only its button reads stays that of the server
\* before.
Select(s) ==
  /\ selected' = s
  /\ ReadIf(Is("select") /\ (v \in {"header", "files"} \/ detail \in View[v].read),
            s)
  /\ IF dialog = "saveFileContent"
     THEN dialog' = None /\ form' = None /\ UNCHANGED editing
     ELSE UNCHANGED edit
  /\ faults' = IF Is("click") /\ ~Is("select") THEN faults \cup {"unread"}
                                              ELSE faults

\* Manage, on the list of servers.
Manage(s) ==
  /\ Free /\ selected = None /\ tab = "servers"
  /\ Select(s)
  /\ UNCHANGED <<v, tab, detail, busy, popup, requests, later, version, shown>>

\* A click in the sidebar leaves the server's page.
OpenTab(t) ==
  /\ Free
  /\ tab # t \/ selected # None
  /\ tab' = t /\ selected' = None
  /\ ReadIf(~Is("server") /\ t # tab /\ t \in View[v].read, Panel)
  /\ UNCHANGED <<v, detail, edit, busy, popup, requests, later, panel>>

\* A click on a tab of the server's page; some of the buttons read themselves.
OpenDetailTab(t) ==
  LET ours == t \in View[v].detailTabs IN
  /\ Free /\ selected # None
  /\ detail # t \/ Is("click")
  /\ detail' = t
  /\ ReadIf(\/ Is("server") /\ t # detail /\ t \in View[v].read
            \/ Is("click") /\ ours, selected)
  /\ faults' = IF ours THEN faults \ {"unread"} ELSE faults
  /\ UNCHANGED <<v, tab, selected, edit, busy, popup, requests, later, version, shown>>

-----------------------------------------------------------------------------
(* Dialogs.                                                                *)

Show(h, from, id) ==
  /\ dialog \in {None, h}
  /\ dialog' = h /\ form' = from /\ editing' = id
  /\ UNCHANGED <<v, nav, busy, popup, net, panel>>

\* Mutant: the id that was edited last is kept.
MutantNew(h) ==
  /\ Free /\ Offered(h) /\ Does(h, "form")
  /\ ~Does(h, "overwrites") \/ (~Does(h, "server") /\ ~Does(h, "inline"))
  /\ Show(h, "blank", editing)

\* "New", "Create": an empty form.
New(h) ==
  /\ Free /\ Offered(h) /\ Does(h, "form")
  /\ ~Does(h, "overwrites") \/ (~Does(h, "server") /\ ~Does(h, "inline"))
  /\ Show(h, "blank", None)

\* The pencil of an item.
Edit(h, i) ==
  /\ Free /\ Offered(h) /\ Does(h, "overwrites") /\ ~Does(h, "server")
  /\ Show(h, i, i)

\* Mutant: the server is taken for the thing that is edited.
MutantEditServer(h) ==
  /\ Free /\ Offered(h) /\ h \in {"saveServerSettings", "renameFile"}
  /\ Show(h, selected, selected)

\* "Settings" of the server's page, and the pencil of a file.
EditServer(h) ==
  /\ Free /\ Offered(h) /\ h \in {"saveServerSettings", "renameFile"}
  /\ Show(h, selected, None)

\* "Save as Template": the form is filled and shown, once its tab is opened.
CopyToTemplate ==
  /\ Free /\ v = "templates" /\ selected # None
  /\ Show("saveTemplate", "copied", editing)

\* "Use Template"
ApplyTemplate ==
  /\ Free /\ v = "templates" /\ Visible
  /\ tab' = "create-server" /\ popup' = Note
  /\ UNCHANGED <<v, detail, selected, edit, busy, net, panel>>

\* The row of a user is edited in place: its Cancel forgets the id.
Cancel ==
  /\ popup = None /\ dialog # None /\ Rendered(dialog)
  /\ dialog' = None
  /\ IF Does(dialog, "inline") THEN form' = None /\ editing' = None
                               ELSE UNCHANGED <<form, editing>>
  /\ UNCHANGED <<v, nav, busy, popup, net, panel>>

\* handleFileClick reads the file, of the server that is selected now.
OpenFile ==
  /\ Free /\ v = "files" /\ Visible /\ dialog # "saveFileContent"
  /\ Read(selected, "file")
  /\ UNCHANGED <<v, nav, edit, busy, popup, requests, later, panel>>

\* Its answer opens the editor on the page of the server that is selected then.
FileOpens(r) ==
  /\ r.by = "file"
  /\ reads' = BagRemove(reads, r)
  /\ dialog' = "saveFileContent" /\ form' = r.of /\ editing' = None
  /\ faults' = IF r.of # selected THEN faults \cup {"mixed"} ELSE faults
  /\ UNCHANGED <<v, nav, busy, popup, requests, later, version, shown>>

-----------------------------------------------------------------------------
(* Handlers.                                                               *)

\* The request of h, for the server and the form of now.
Request(h) ==
  [op |-> h, server |-> IF Does(h, "server") THEN selected ELSE Panel,
   from |-> IF Does(h, "form") THEN form ELSE None,
   to |-> CASE ~Does(h, "overwrites") -> None
            [] Does(h, "server") -> selected
            [] OTHER -> editing]

Send(r) ==
  /\ Room
  /\ requests' = BagAdd(requests, [req |-> r, state |-> "sent"])

Startable(h) ==
  IF Does(h, "form") THEN popup = None /\ Rendered(h) ELSE Free /\ Offered(h)

\* Mutant: the button is not disabled.
MutantStart(h) ==
  /\ Startable(h) /\ ~Does(h, "asks")
  /\ Send(Request(h))
  /\ busy' = IF Does(h, "flag") THEN busy \cup {h} ELSE busy
  /\ UNCHANGED <<v, nav, edit, popup, reads, later, panel>>

Start(h) ==
  /\ Startable(h) /\ ~Does(h, "asks")
  /\ h \notin busy
  /\ Send(Request(h))
  /\ busy' = IF Does(h, "flag") THEN busy \cup {h} ELSE busy
  /\ UNCHANGED <<v, nav, edit, popup, reads, later, panel>>

\* The form is not complete.
Incomplete(h) ==
  /\ Startable(h) /\ Does(h, "checks") /\ h \notin busy
  /\ popup' = Note
  /\ UNCHANGED <<v, nav, edit, busy, net, panel>>

Ask(h) ==
  /\ Startable(h) /\ Does(h, "asks")
  /\ popup' = Request(h)
  /\ UNCHANGED <<v, nav, edit, busy, net, panel>>

Confirm ==
  /\ popup \notin {None, Note}
  /\ Send(popup)
  /\ popup' = None
  /\ UNCHANGED <<v, nav, edit, busy, reads, later, panel>>

\* Cancel, OK, or a click beside it.
Dismiss ==
  /\ popup # None
  /\ popup' = None
  /\ UNCHANGED <<v, nav, edit, busy, net, panel>>

\* The panel does it, or refuses.
Process(r) ==
  /\ r.state = "sent"
  /\ \E result \in {"done", "refused"} :
       /\ requests' =
            BagAdd(BagRemove(requests, r), [r EXCEPT !.state = result])
       /\ IF result = "done" /\ ~Does(r.req.op, "idle")
          THEN /\ \A s \in DOMAIN version : version[s] < MaxWrites
               /\ version' = [version EXCEPT ![r.req.server] = @ + 1]
          ELSE UNCHANGED version
  /\ UNCHANGED <<v, nav, edit, busy, popup, reads, later, shown, faults>>

\* The end of every handler: its flag comes down.
Ends(r) ==
  /\ requests' = BagRemove(requests, r)
  /\ busy' = busy \ {r.req.op}

Says(h, words) == popup' = IF \E w \in words : Does(h, w) THEN Note ELSE popup

Rereads(h) == Does(h, "refetches") \/ (Does(h, "all") /\ Is("all"))

\* setSelectedServer after the await: deleteServer's null, whatever is selected
\* and is being edited, or the server whose settings were saved.
Moves(h, s) ==
  /\ selected' = CASE Does(h, "leaves") -> None
                   [] Does(h, "reselects") -> s
                   [] OTHER -> selected
  /\ tab' = IF Does(h, "moves") THEN "servers" ELSE tab
  /\ faults' = IF Does(h, "leaves") /\ dialog # None THEN faults \cup {"mixed"}
                                                    ELSE faults

Closes(h) ==
  IF Does(h, "closes")
  THEN dialog' = (IF dialog = h THEN None ELSE dialog)
       /\ form' = (IF dialog = h THEN None ELSE form)
       /\ editing' = (IF Does(h, "overwrites") THEN None ELSE editing)
  ELSE UNCHANGED edit

\* Mutant: the list is not read again.
MutantSucceeds(r) ==
  LET h == r.req.op IN
  /\ r.state = "done"
  /\ Ends(r) /\ Says(h, {"tells"}) /\ Closes(h) /\ Moves(h, r.req.server)
  /\ UNCHANGED <<v, detail, reads, later, version, shown>>

\* res.ok.  A read that shares the flag raises it; the handler whose flag it is
\* lowers it again at its end, while that read is under way.
Succeeds(r) ==
  LET h == r.req.op  s == r.req.server IN
  /\ r.state = "done"
  /\ requests' = BagRemove(requests, r)
  /\ busy' = (busy \ {h}) \cup IF Is("flags") /\ Rereads(h) /\ ~Does(h, "flag")
                               THEN {"createCloudflareRecord"} ELSE {}
  /\ Says(h, {"tells"}) /\ Closes(h) /\ Moves(h, s)
  /\ IF Rereads(h) THEN Reread(s, "fetch") ELSE UNCHANGED reads
  /\ later' = IF Does(h, "later") THEN {2, 5} \X {s} \cup later ELSE later
  /\ UNCHANGED <<v, detail, version, shown>>

Refused(r) ==
  /\ r.state = "refused"
  /\ Ends(r) /\ Says(r.req.op, {"reports"})
  /\ UNCHANGED <<v, nav, edit, reads, later, panel>>

\* Mutant: the flag comes down in the try, not after it.
MutantLost(r) ==
  /\ requests' = BagRemove(requests, r)
  /\ Says(r.req.op, {"fails"})
  /\ faults' = IF r.state = "done" THEN faults \cup {"stale"} ELSE faults
  /\ UNCHANGED <<v, nav, edit, busy, reads, later, version, shown>>

\* No answer: what was done is not read again.
Lost(r) ==
  /\ Ends(r) /\ Says(r.req.op, {"fails"})
  /\ faults' = IF r.state = "done" THEN faults \cup {"stale"} ELSE faults
  /\ UNCHANGED <<v, nav, edit, reads, later, version, shown>>

Answer == \E r \in BagToSet(requests) : Succeeds(r) \/ Refused(r) \/ Lost(r)

Next ==
  \/ \E r \in BagToSet(reads) :
       Serve(r) \/ Arrive(r) \/ ReadFails(r) \/ FileOpens(r)
  \/ \E t \in later : Later(t)
  \/ Timer \/ Poll \/ Refresh
  \/ \E s \in Server : Manage(s)
  \/ \E t \in ListTabs : OpenTab(t)
  \/ \E t \in DetailTabs : OpenDetailTab(t)
  \/ \E h \in Ours :
       \/ New(h) \/ EditServer(h) \/ Start(h) \/ Incomplete(h) \/ Ask(h)
       \/ \E i \in Item : Edit(h, i)
  \/ CopyToTemplate \/ ApplyTemplate \/ Cancel \/ OpenFile
  \/ Confirm \/ Dismiss
  \/ \E r \in BagToSet(requests) : Process(r)
  \/ Answer

Spec == Init /\ [][Next]_vars

-----------------------------------------------------------------------------
(* Properties.                                                             *)

TypeOK ==
  /\ selected \in Server \cup {None}
  /\ dialog \in Ours \cup {None}
  /\ form \in {None, "blank", "copied"} \cup Item \cup Server
  /\ editing \in Item \cup {None}
  /\ busy \subseteq Ours
  /\ shown.of \in Server \cup {Panel, None}
  /\ faults \subseteq {"stale", "unread", "mixed"}

\* What a form is saved over is what it was loaded from.  Exceptions, each a
\* course of the code: "Save as Template" after an edit that was cancelled, a
\* file that opens after another server was selected, a deletion that ends
\* while a dialog is open, and the name of a file, whose form outlives its
\* server.
SavesGoBack ==
  \A r \in BagToSet(requests) :
    (Does(r.req.op, "overwrites") /\ r.req.to # None) =>
      \/ r.req.from \in {r.req.to, "copied"}
      \/ "mixed" \in faults
      \/ r.req.op = "renameFile"

\* When nothing is under way, a list that is on the page is the one of the
\* selected server and as the panel has it, but for the faults: a read failed,
\* an answer of a write was lost, an answer came after that of a later read or
\* for a server that had been left, or the list is one that only a click reads.
\* It says nothing of a list that never comes to be on the page, which that of
\* the backups is: it stays Unread.
ShowsThePanel ==
  (/\ Visible /\ shown # Unread
   /\ requests = EmptyBag /\ reads = EmptyBag /\ later = {}
   /\ faults \subseteq {"mixed"})
    => shown = [of |-> Current, version |-> version[Current]]

\* A button that a flag disables does not send again before its handler is
\* done; but that of the DNS records shares its flag with their list.
OneSaveAtATime ==
  v # "dns" =>
    \A q, r \in BagToSet(requests) :
      q.req.op = r.req.op /\ Does(r.req.op, "flag") => q = r /\ requests[r] = 1

\* No flag stays up: the request that raised it, or the read that shares it, is
\* still under way.
FlagsComeDown ==
  \A h \in busy :
    \/ \E r \in BagToSet(requests) : r.req.op = h
    \/ Is("flags") /\ reads # EmptyBag

=============================================================================
