------------------------------ MODULE Handlers ------------------------------
(***************************************************************************)
(* What the page (src/frontend/src/app/page.tsx) is made of, row by row:   *)
(* the lists it shows and what makes it read them, the handlers that write *)
(* them, and the tabs with the handlers their buttons start.  Module Page  *)
(* gives the words of the rows their meaning.                              *)
(***************************************************************************)
\* A list, and what reads it: opening one of the tabs named, "select" that a
\* server is selected (while such a tab is open, if there is one), "click" its
\* tab's button, open or not, "timer" every 3 s, "all" fetchAll, "refresh"
\* fetchAll by the button of the System tab.  "flags": a read raises and lowers
\* the flag of the list's form besides.  "object": the panel answers with an
\* object that holds the list, where the page looks for a list.
List(name, read) == [name |-> name, read |-> read]

All == {"all", "dashboard", "templates", "webhooks", "settings"}

Servers == List("servers", All)
Nodes == List("nodes", All)
Allocations == List("allocations", All)
Networks == List("networks", All)
Groups == List("groups", All)
Images == List("images", {"refresh"})
Dns == List("dns", {"refresh", "flags"})
Tunnels == List("tunnels", {"refresh"})
Activity == List("activity", {"dashboard", "activity"})
ApiKeys == List("apiKeys", {"api-keys"})
Users == List("users", {"users"})
Templates == List("templates", {"templates"})
Webhooks == List("webhooks", {"webhooks"})
Announcements == List("announcements", {"dashboard"})
PanelSettings == List("panelSettings", {"settings"})

\* What is not a list, but has handlers.
Nothing == List("nothing", {})

\* Of the selected server.
Header == List("header", {"server", "select", "timer"})
Stats == List("stats", {"server", "stats", "select", "timer"})
Logs == List("logs", {"server", "click"})
Schedules == List("schedules", {"server", "click"})
Backups == List("backups", {"server", "backups", "select", "click", "object"})
Members == List("members", {"server", "members", "select"})
ServerActivity == List("serverActivity",
  {"server", "activity", "select", "click"})
Files == List("files", {"server", "select"})

Lists ==
  {Servers, Nodes, Allocations, Networks, Groups, Images, Dns, Tunnels, Activity,
   ApiKeys, Users, Templates, Webhooks, Announcements, PanelSettings, Nothing,
   Header, Stats, Logs, Schedules, Backups, Members, ServerActivity, Files}

-----------------------------------------------------------------------------

\* A handler.  Before it sends: "server": it returns unless a server is
\* selected, and sends to that; "checks": it may find the form incomplete;
\* "asks": a popup asks first; "flag": a flag disables its button until the end.
\* What it sends: "form", what a dialog holds; "overwrites": that is loaded from
\* the thing it is saved to; "inline": the dialog is no overlay; "detail": it
\* is rendered on a server's page, wherever it is opened; "idle": it changes
\* nothing.
\* If the answer is good: "tells" a popup says so, "closes" the dialog is closed
\* and what it edited forgotten, "moves" the tab of the servers is opened,
\* "refetches" the list, "all" fetchAll, "leaves" the server's page is left,
\* "reselects" the server it was sent to is selected, "later" the list is read
\* again after 2 and 5 s.
\* If it is not, "reports" a popup; if there is none, "fails" a popup.
Handler(name, view, does) == [name |-> name, view |-> view.name, does |-> does]

Loud == {"reports", "fails"}
Save == {"form", "closes", "tells"} \cup Loud

cloneServer == Handler("cloneServer", Servers,
  Save \cup {"server", "checks", "flag", "all", "detail"})
saveServerSettings == Handler("saveServerSettings", Servers, Save \cup
  {"server", "flag", "overwrites", "all", "reselects", "detail"})
assignServerToGroup == Handler("assignServerToGroup", Servers,
  Loud \cup {"tells", "all"})
handleCreateServer == Handler("handleCreateServer", Servers,
  Loud \cup {"checks", "all", "moves"})
deleteServer == Handler("deleteServer", Servers, {"asks", "leaves", "all"})
reinstallServer == Handler("reinstallServer", Servers,
  {"server", "asks", "tells", "all", "reports"})
transferServer == Handler("transferServer", Servers,
  {"server", "asks", "tells", "all", "reports"})
suspendServer == Handler("suspendServer", Servers,
  {"server", "asks", "tells", "all", "reports"})
executeBulkAction == Handler("executeBulkAction", Servers,
  Loud \cup {"asks", "tells", "all"})
sendPowerAction == Handler("sendPowerAction", Header,
  {"server", "refetches", "later", "all"})

createSchedule == Handler("createSchedule", Schedules, Save \cup
  {"server", "checks", "refetches", "all", "detail"})
deleteSchedule == Handler("deleteSchedule", Schedules,
  {"server", "asks", "tells", "refetches", "all"})
toggleSchedule == Handler("toggleSchedule", Schedules,
  {"server", "tells", "refetches"})

addMember == Handler("addMember", Members,
  Loud \cup {"server", "checks", "tells", "refetches"})
removeMember == Handler("removeMember", Members,
  {"server", "asks", "tells", "refetches"})
updateMemberPerms == Handler("updateMemberPerms", Members,
  {"server", "tells", "refetches"})

createBackup == Handler("createBackup", Backups,
  Loud \cup {"server", "flag", "tells", "refetches"})
restoreBackup == Handler("restoreBackup", Backups,
  Loud \cup {"server", "asks", "tells", "refetches"})
deleteBackup == Handler("deleteBackup", Backups,
  Loud \cup {"server", "asks", "tells", "refetches"})

saveFileContent == Handler("saveFileContent", Files, Save \cup
  {"server", "overwrites", "inline", "refetches"})
createFolder == Handler("createFolder", Files, Loud \cup
  {"server", "form", "inline", "closes", "refetches"})
deleteFile == Handler("deleteFile", Files,
  Loud \cup {"server", "asks", "refetches"})
renameFile == Handler("renameFile", Files,
  Save \cup {"server", "overwrites", "inline", "refetches"})
downloadFile == Handler("downloadFile", Files, Loud \cup {"server", "idle"})
handleUpload == Handler("handleUpload", Files,
  Loud \cup {"server", "flag", "tells", "refetches"})

createNetwork == Handler("createNetwork", Networks,
  Save \cup {"checks", "all", "detail"})
deleteNetwork == Handler("deleteNetwork", Networks, {"asks", "tells", "all"})
createServerGroup == Handler("createServerGroup", Groups,
  Save \cup {"checks", "refetches", "all", "detail"})
deleteServerGroup == Handler("deleteServerGroup", Groups,
  {"asks", "tells", "refetches", "all"})
removeDockerImage == Handler("removeDockerImage", Images,
  Loud \cup {"asks", "tells", "refetches"})
createCloudflareRecord == Handler("createCloudflareRecord", Dns, Save \cup
  {"checks", "flag", "refetches", "all", "detail"})
deleteCloudflareRecord == Handler("deleteCloudflareRecord", Dns,
  {"asks", "tells", "refetches"})
createPlayitTunnel == Handler("createPlayitTunnel", Tunnels, Save \cup
  {"checks", "flag", "refetches", "all", "detail"})
deletePlayitTunnel == Handler("deletePlayitTunnel", Tunnels,
  {"asks", "tells", "refetches"})

registerNode == Handler("registerNode", Nodes,
  {"form", "inline", "closes", "all", "reports"})
deleteNode == Handler("deleteNode", Nodes, {"asks", "tells", "all", "reports"})
pingNode == Handler("pingNode", Nodes, {"idle"})
createAllocations == Handler("createAllocations", Allocations,
  {"form", "inline", "closes", "all", "reports"})

createApiKey == Handler("createApiKey", ApiKeys,
  Loud \cup {"form", "inline", "closes", "refetches"})
deleteApiKey == Handler("deleteApiKey", ApiKeys, {"asks", "refetches"})
createPanelUser == Handler("createPanelUser", Users, Loud \cup
  {"checks", "form", "inline", "closes", "refetches"})
updatePanelUser == Handler("updatePanelUser", Users, Loud \cup
  {"form", "overwrites", "inline", "closes", "refetches"})
deletePanelUser == Handler("deletePanelUser", Users, {"asks", "refetches"})

saveTemplate == Handler("saveTemplate", Templates,
  Save \cup {"flag", "overwrites", "refetches"})
deleteTemplate == Handler("deleteTemplate", Templates,
  {"asks", "tells", "refetches"})
saveWebhook == Handler("saveWebhook", Webhooks,
  Save \cup {"checks", "flag", "overwrites", "refetches"})
deleteWebhook == Handler("deleteWebhook", Webhooks,
  {"asks", "tells", "refetches"})
testWebhook == Handler("testWebhook", Webhooks, Loud \cup {"idle", "tells"})
saveAnnouncement == Handler("saveAnnouncement", Announcements, Save \cup
  {"checks", "flag", "overwrites", "refetches"})
deleteAnnouncement == Handler("deleteAnnouncement", Announcements,
  {"asks", "tells", "refetches"})
savePanelSettings == Handler("savePanelSettings", PanelSettings,
  Loud \cup {"tells", "refetches"})
saveSettings == Handler("saveSettings", Nothing,
  Loud \cup {"checks", "idle", "tells"})
buildDockerImage == Handler("buildDockerImage", Nothing,
  Loud \cup {"checks", "idle", "flag", "tells"})
submitBugReport == Handler("submitBugReport", Nothing,
  Save \cup {"checks", "idle", "flag", "detail"})

-----------------------------------------------------------------------------

\* A tab: the lists it shows, the handlers its buttons start or open a form of.
\* page: "list", or "server" for the tabs of a server's page.
Tab(page, name, shows, offers) ==
  [page |-> page, name |-> name,
   shows |-> {l.name : l \in shows}, offers |-> offers]

DashboardTab == Tab("list", "dashboard", {Announcements, Activity}, {})
ServersTab == Tab("list", "servers", {Servers, Dns, Tunnels},
  {executeBulkAction, assignServerToGroup, deleteServer, createCloudflareRecord,
   deleteCloudflareRecord, createPlayitTunnel, deletePlayitTunnel})
NodesTab == Tab("list", "nodes", {Nodes}, {registerNode, pingNode, deleteNode})
AllocationsTab == Tab("list", "allocations", {Allocations},
  {createAllocations})
SystemTab == Tab("list", "system", {Networks, Groups, Images},
  {createNetwork, deleteNetwork, createServerGroup, deleteServerGroup,
   removeDockerImage})
ActivityTab == Tab("list", "activity", {Activity}, {})
ApiKeysTab == Tab("list", "api-keys", {ApiKeys}, {createApiKey, deleteApiKey})
UsersTab == Tab("list", "users", {Users},
  {createPanelUser, updatePanelUser, deletePanelUser})
CreateServerTab == Tab("list", "create-server", {},
  {handleCreateServer, buildDockerImage})
TemplatesTab == Tab("list", "templates", {Templates},
  {saveTemplate, deleteTemplate})
WebhooksTab == Tab("list", "webhooks", {Webhooks},
  {saveWebhook, testWebhook, deleteWebhook})
SettingsTab == Tab("list", "settings", {PanelSettings, Announcements},
  {saveSettings, savePanelSettings, saveAnnouncement, deleteAnnouncement})

\* The head of a server's page is there on each of its tabs.
DetailHead == Tab("server", "", {Header},
  {sendPowerAction, reinstallServer, transferServer, suspendServer, cloneServer,
   saveServerSettings, deleteServer})
LogsTab == Tab("server", "logs", {Logs}, {})
SchedulesTab == Tab("server", "schedules", {Schedules},
  {createSchedule, toggleSchedule, deleteSchedule})
StatsTab == Tab("server", "stats", {Stats}, {})
BackupsTab == Tab("server", "backups", {Backups},
  {createBackup, restoreBackup, deleteBackup})
MembersTab == Tab("server", "members", {Members},
  {addMember, updateMemberPerms, removeMember})
DetailActivityTab == Tab("server", "activity", {ServerActivity}, {})
FilesTab == Tab("server", "files", {Files},
  {saveFileContent, createFolder, deleteFile, renameFile, downloadFile,
   handleUpload})

Tabs ==
  {DashboardTab, ServersTab, NodesTab, AllocationsTab, SystemTab, ActivityTab,
   ApiKeysTab, UsersTab, CreateServerTab, TemplatesTab, WebhooksTab, SettingsTab,
   DetailHead, LogsTab, SchedulesTab, StatsTab, BackupsTab, MembersTab,
   DetailActivityTab, FilesTab}

\* The rows by their names, with what belongs to them.
Offers == UNION {t.offers : t \in Tabs}

Row ==
  [n \in {h.name : h \in Offers} |->
     LET h == CHOOSE h \in Offers : h.name = n IN
     [view |-> h.view, does |-> h.does, tabs |-> {t \in Tabs : h \in t.offers}]]

View ==
  [n \in {l.name : l \in Lists} |->
     LET ours == {h \in Offers : h.view = n}
         tabs == {t \in Tabs : n \in t.shows \/ t.offers \cap ours # {}}
     IN [read |-> (CHOOSE l \in Lists : l.name = n).read,
         ours |-> {h.name : h \in ours},
         shows |-> {t \in Tabs : n \in t.shows},
         tabs |-> {t.name : t \in {s \in tabs : s.page = "list"}},
         detailTabs |->
           {t.name : t \in {s \in tabs : s.page = "server" /\ s.name # ""}}]]

=============================================================================
