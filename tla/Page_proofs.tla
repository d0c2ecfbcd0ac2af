----------------------------- MODULE Page_proofs ----------------------------
(***************************************************************************)
(* Proofs about the page, for any servers and items, any of the lists, any *)
(* number of writes and any number of requests and reads under way.  What  *)
(* they need of the tables of module Handlers is gathered row by row.      *)
(***************************************************************************)
EXTENDS Page, TLAPS

-----------------------------------------------------------------------------
(* Bags.                                                                   *)

\* All that the bags of requests and reads are used for.
LEMMA Added ==
  ASSUME NEW B, NEW x
  PROVE  /\ BagToSet(BagAdd(B, x)) = BagToSet(B) \cup {x}
         /\ \A y \in BagToSet(B) \ {x} : BagAdd(B, x)[y] = B[y]
         /\ x \notin BagToSet(B) => BagAdd(B, x)[x] = 1
BY DEF BagToSet, BagAdd

LEMMA Removed ==
  ASSUME NEW B, NEW x
  PROVE  /\ BagToSet(BagRemove(B, x)) \subseteq BagToSet(B)
         /\ BagToSet(B) \ {x} \subseteq BagToSet(BagRemove(B, x))
         /\ \A y \in BagToSet(B) \ {x} : BagRemove(B, x)[y] = B[y]
         /\ x \in BagToSet(B) /\ B[x] = 1 => x \notin BagToSet(BagRemove(B, x))
BY DEF BagToSet, BagRemove

-----------------------------------------------------------------------------
(* The tables.                                                             *)

LEMMA RowIs ==
  /\ DOMAIN Row = {h.name : h \in Offers}
  /\ \A n \in DOMAIN Row : \E h \in Offers :
       /\ h.name = n /\ Row[n].does = h.does /\ Row[n].view = h.view
       /\ Row[n].tabs = {t \in Tabs : h \in t.offers}
BY DEF Row

\* The handlers, one by one.
AllHandlers ==
  {cloneServer, saveServerSettings, assignServerToGroup, handleCreateServer,
   deleteServer, reinstallServer, transferServer, suspendServer,
   executeBulkAction, sendPowerAction, createSchedule, deleteSchedule,
   toggleSchedule, addMember, removeMember, updateMemberPerms, createBackup,
   restoreBackup, deleteBackup, saveFileContent, createFolder, deleteFile,
   renameFile, downloadFile, handleUpload, createNetwork, deleteNetwork,
   createServerGroup, deleteServerGroup, removeDockerImage,
   createCloudflareRecord, deleteCloudflareRecord, createPlayitTunnel,
   deletePlayitTunnel, registerNode, deleteNode, pingNode, createAllocations,
   createApiKey, deleteApiKey, createPanelUser, updatePanelUser,
   deletePanelUser, saveTemplate, deleteTemplate, saveWebhook, deleteWebhook,
   testWebhook, saveAnnouncement, deleteAnnouncement, savePanelSettings,
   saveSettings, buildDockerImage, submitBugReport}

\* What the rows of the handlers have in common, as far as it matters here.
Rereading ==
  {"cloneServer", "saveServerSettings", "assignServerToGroup", "handleCreateServer",
   "deleteServer", "reinstallServer", "transferServer", "suspendServer",
   "executeBulkAction", "createNetwork", "deleteNetwork", "registerNode", "deleteNode",
   "createAllocations"}

RowFacts(h) ==
  /\ "asks" \in h.does => "flag" \notin h.does /\ "overwrites" \notin h.does
  /\ "overwrites" \in h.does => "form" \in h.does
  /\ "overwrites" \in h.does /\ "server" \in h.does
       => h.name \in {"saveServerSettings", "saveFileContent", "renameFile"}
  /\ "leaves" \in h.does => h.name = "deleteServer"
  /\ "reselects" \in h.does => h.name = "saveServerSettings"
  /\ h.name = "saveServerSettings"
       => {"closes", "detail", "overwrites", "server"} \subseteq h.does /\ "inline" \notin h.does
  /\ h.name = "saveFileContent"
       => {"overwrites", "server", "inline"} \subseteq h.does /\ h.view = "files"
  /\ h.name \in {"saveServerSettings", "deleteServer"} => h.view = "servers"
  /\ h.name = "createCloudflareRecord" => h.view = "dns"
  /\ h.name = "saveTemplate"
       => h.view = "templates" /\ "overwrites" \in h.does /\ "server" \notin h.does
  /\ h.name \in Rereading
       => h.view \in {"servers", "nodes", "allocations", "networks", "groups"}
  /\ "idle" \in h.does \/ "refetches" \in h.does
       \/ ("all" \in h.does /\ h.name \in Rereading)
  /\ "detail" \in h.does => "form" \in h.does

LEMMA EachHandler == \A h \in AllHandlers : RowFacts(h)
<1> USE DEF RowFacts, Rereading, Handler, Save, Loud, List, Servers, Nodes,
        Allocations, Networks, Groups, Images, Dns, Tunnels, Activity, ApiKeys,
        Users, Templates, Webhooks, Announcements,
        PanelSettings, Nothing, Header, Stats, Logs, Schedules, Backups,
        Members, ServerActivity, Files
<1>1. RowFacts(cloneServer)
  BY DEF cloneServer
<1>2. RowFacts(saveServerSettings)
  BY DEF saveServerSettings
<1>3. RowFacts(assignServerToGroup)
  BY DEF assignServerToGroup
<1>4. RowFacts(handleCreateServer)
  BY DEF handleCreateServer
<1>5. RowFacts(deleteServer)
  BY DEF deleteServer
<1>6. RowFacts(reinstallServer)
  BY DEF reinstallServer
<1>7. RowFacts(transferServer)
  BY DEF transferServer
<1>8. RowFacts(suspendServer)
  BY DEF suspendServer
<1>9. RowFacts(executeBulkAction)
  BY DEF executeBulkAction
<1>10. RowFacts(sendPowerAction)
  BY DEF sendPowerAction
<1>11. RowFacts(createSchedule)
  BY DEF createSchedule
<1>12. RowFacts(deleteSchedule)
  BY DEF deleteSchedule
<1>13. RowFacts(toggleSchedule)
  BY DEF toggleSchedule
<1>14. RowFacts(addMember)
  BY DEF addMember
<1>15. RowFacts(removeMember)
  BY DEF removeMember
<1>16. RowFacts(updateMemberPerms)
  BY DEF updateMemberPerms
<1>17. RowFacts(createBackup)
  BY DEF createBackup
<1>18. RowFacts(restoreBackup)
  BY DEF restoreBackup
<1>19. RowFacts(deleteBackup)
  BY DEF deleteBackup
<1>20. RowFacts(saveFileContent)
  BY DEF saveFileContent
<1>21. RowFacts(createFolder)
  BY DEF createFolder
<1>22. RowFacts(deleteFile)
  BY DEF deleteFile
<1>23. RowFacts(renameFile)
  BY DEF renameFile
<1>24. RowFacts(downloadFile)
  BY DEF downloadFile
<1>25. RowFacts(handleUpload)
  BY DEF handleUpload
<1>26. RowFacts(createNetwork)
  BY DEF createNetwork
<1>27. RowFacts(deleteNetwork)
  BY DEF deleteNetwork
<1>28. RowFacts(createServerGroup)
  BY DEF createServerGroup
<1>29. RowFacts(deleteServerGroup)
  BY DEF deleteServerGroup
<1>30. RowFacts(removeDockerImage)
  BY DEF removeDockerImage
<1>31. RowFacts(createCloudflareRecord)
  BY DEF createCloudflareRecord
<1>32. RowFacts(deleteCloudflareRecord)
  BY DEF deleteCloudflareRecord
<1>33. RowFacts(createPlayitTunnel)
  BY DEF createPlayitTunnel
<1>34. RowFacts(deletePlayitTunnel)
  BY DEF deletePlayitTunnel
<1>35. RowFacts(registerNode)
  BY DEF registerNode
<1>36. RowFacts(deleteNode)
  BY DEF deleteNode
<1>37. RowFacts(pingNode)
  BY DEF pingNode
<1>38. RowFacts(createAllocations)
  BY DEF createAllocations
<1>39. RowFacts(createApiKey)
  BY DEF createApiKey
<1>40. RowFacts(deleteApiKey)
  BY DEF deleteApiKey
<1>41. RowFacts(createPanelUser)
  BY DEF createPanelUser
<1>42. RowFacts(updatePanelUser)
  BY DEF updatePanelUser
<1>43. RowFacts(deletePanelUser)
  BY DEF deletePanelUser
<1>44. RowFacts(saveTemplate)
  BY DEF saveTemplate
<1>45. RowFacts(deleteTemplate)
  BY DEF deleteTemplate
<1>46. RowFacts(saveWebhook)
  BY DEF saveWebhook
<1>47. RowFacts(deleteWebhook)
  BY DEF deleteWebhook
<1>48. RowFacts(testWebhook)
  BY DEF testWebhook
<1>49. RowFacts(saveAnnouncement)
  BY DEF saveAnnouncement
<1>50. RowFacts(deleteAnnouncement)
  BY DEF deleteAnnouncement
<1>51. RowFacts(savePanelSettings)
  BY DEF savePanelSettings
<1>52. RowFacts(saveSettings)
  BY DEF saveSettings
<1>53. RowFacts(buildDockerImage)
  BY DEF buildDockerImage
<1>54. RowFacts(submitBugReport)
  BY DEF submitBugReport
<1> HIDE DEF RowFacts, Handler, Save, Loud
<1> QED
  BY <1>1, <1>2, <1>3, <1>4, <1>5, <1>6, <1>7, <1>8, <1>9, <1>10, <1>11, <1>12,
     <1>13, <1>14, <1>15, <1>16, <1>17, <1>18, <1>19, <1>20, <1>21, <1>22,
     <1>23, <1>24, <1>25, <1>26, <1>27, <1>28, <1>29, <1>30, <1>31, <1>32,
     <1>33, <1>34, <1>35, <1>36, <1>37, <1>38, <1>39, <1>40, <1>41, <1>42,
     <1>43, <1>44, <1>45, <1>46, <1>47, <1>48, <1>49, <1>50, <1>51, <1>52,
     <1>53, <1>54 DEF AllHandlers

\* The tabs, one by one: a button that needs a server is on a server's page, or
\* opens a dialog that is shown only there.
TabFacts(t) ==
  /\ t.offers \subseteq AllHandlers
  /\ \A h \in t.offers :
       "server" \in h.does => t.page # "list" \/ "detail" \in h.does
  /\ \A h \in t.offers :
       h.name \in {"saveFileContent", "saveServerSettings"} => t.page # "list"
  /\ t.page = "list" =>
       \A n \in {"header", "stats", "logs", "schedules", "backups", "members",
                 "serverActivity", "files"} : n \notin t.shows
  /\ t.page # "list" =>
       /\ t.name \in {"", "logs", "schedules", "stats", "backups", "members", "activity", "files"}
       /\ t.name # "backups" => "backups" \notin t.shows
       /\ t.name # "stats" => "stats" \notin t.shows
       /\ t.name # "members" => "members" \notin t.shows
       /\ t.name # "activity" => "serverActivity" \notin t.shows
       /\ t.name # "" => "header" \notin t.shows

LEMMA EachTab == \A t \in Tabs : TabFacts(t)
<1> USE DEF TabFacts, Tab, List, AllHandlers
<1>1. TabFacts(DashboardTab)
  BY DEF DashboardTab, Announcements, Activity
<1>2. TabFacts(ServersTab)
  BY DEF ServersTab, executeBulkAction, assignServerToGroup, deleteServer,
         createCloudflareRecord, deleteCloudflareRecord, createPlayitTunnel,
         deletePlayitTunnel, Handler, Save, Loud, Servers, Dns, Tunnels
<1>3. TabFacts(NodesTab)
  BY DEF NodesTab, registerNode, pingNode, deleteNode, Handler, Save, Loud,
         Nodes
<1>4. TabFacts(AllocationsTab)
  BY DEF AllocationsTab, createAllocations, Handler, Save, Loud, Allocations
<1>5. TabFacts(SystemTab)
  BY DEF SystemTab, createNetwork, deleteNetwork, createServerGroup,
         deleteServerGroup, removeDockerImage, Handler, Save, Loud, Networks,
         Groups, Images
<1>6. TabFacts(ActivityTab)
  BY DEF ActivityTab, Activity
<1>7. TabFacts(ApiKeysTab)
  BY DEF ApiKeysTab, createApiKey, deleteApiKey, Handler, Save, Loud, ApiKeys
<1>8. TabFacts(UsersTab)
  BY DEF UsersTab, createPanelUser, updatePanelUser, deletePanelUser, Handler,
         Save, Loud, Users
<1>9. TabFacts(CreateServerTab)
  BY DEF CreateServerTab, handleCreateServer, buildDockerImage, Handler, Save,
         Loud
<1>10. TabFacts(TemplatesTab)
  BY DEF TemplatesTab, saveTemplate, deleteTemplate, Handler, Save, Loud,
         Templates
<1>11. TabFacts(WebhooksTab)
  BY DEF WebhooksTab, saveWebhook, testWebhook, deleteWebhook, Handler, Save,
         Loud, Webhooks
<1>12. TabFacts(SettingsTab)
  BY DEF SettingsTab, saveSettings, savePanelSettings, saveAnnouncement,
         deleteAnnouncement, Handler, Save, Loud, PanelSettings, Announcements
<1>13. TabFacts(DetailHead)
  BY DEF DetailHead, sendPowerAction, reinstallServer, transferServer,
         suspendServer, cloneServer, saveServerSettings, deleteServer, Handler,
         Save, Loud, Header
<1>14. TabFacts(LogsTab)
  BY DEF LogsTab, Logs
<1>15. TabFacts(SchedulesTab)
  BY DEF SchedulesTab, createSchedule, toggleSchedule, deleteSchedule, Handler,
         Save, Loud, Schedules
<1>16. TabFacts(StatsTab)
  BY DEF StatsTab, Stats
<1>17. TabFacts(BackupsTab)
  BY DEF BackupsTab, createBackup, restoreBackup, deleteBackup, Handler, Save,
         Loud, Backups
<1>18. TabFacts(MembersTab)
  BY DEF MembersTab, addMember, updateMemberPerms, removeMember, Handler, Save,
         Loud, Members
<1>19. TabFacts(DetailActivityTab)
  BY DEF DetailActivityTab, ServerActivity
<1>20. TabFacts(FilesTab)
  BY DEF FilesTab, saveFileContent, createFolder, deleteFile, renameFile,
         downloadFile, handleUpload, Handler, Save, Loud, Files
<1> HIDE DEF TabFacts, Tab, AllHandlers
<1> QED
  BY <1>1, <1>2, <1>3, <1>4, <1>5, <1>6, <1>7, <1>8, <1>9, <1>10, <1>11, <1>12,
     <1>13, <1>14, <1>15, <1>16, <1>17, <1>18, <1>19, <1>20 DEF Tabs

LEMMA EachRow == Offers \subseteq AllHandlers /\ \A h \in Offers : RowFacts(h)
BY EachTab, EachHandler DEF Offers, TabFacts

\* The lists, one by one.
ListFacts(l) ==
  /\ "flags" \in l.read => l.name = "dns"
  /\ "server" \in l.read =>
       /\ "select" \in l.read \/ "click" \in l.read
       /\ l.name \in {"header", "stats", "logs", "schedules", "backups", "members",
                      "serverActivity", "files"}
       /\ l.name \in {"stats", "backups", "members"} => l.name \in l.read
       /\ l.name = "serverActivity" => "activity" \in l.read
       /\ l.name \in {"logs", "schedules"} => "select" \notin l.read
  /\ "server" \notin l.read => "click" \notin l.read
  /\ "server" \in l.read => "all" \notin l.read /\ "dashboard" \notin l.read
  /\ "object" \in l.read => "server" \in l.read
  /\ l.name \in {"servers", "nodes", "allocations", "networks", "groups"}
       => "all" \in l.read /\ "server" \notin l.read
  /\ l.name = "files" => "server" \in l.read

LEMMA EachList == \A l \in Lists : ListFacts(l)
<1> USE DEF ListFacts, List, All
<1>1. ListFacts(Servers)
  BY DEF Servers
<1>2. ListFacts(Nodes)
  BY DEF Nodes
<1>3. ListFacts(Allocations)
  BY DEF Allocations
<1>4. ListFacts(Networks)
  BY DEF Networks
<1>5. ListFacts(Groups)
  BY DEF Groups
<1>6. ListFacts(Images)
  BY DEF Images
<1>7. ListFacts(Dns)
  BY DEF Dns
<1>8. ListFacts(Tunnels)
  BY DEF Tunnels
<1>9. ListFacts(Activity)
  BY DEF Activity
<1>10. ListFacts(ApiKeys)
  BY DEF ApiKeys
<1>11. ListFacts(Users)
  BY DEF Users
<1>12. ListFacts(Templates)
  BY DEF Templates
<1>13. ListFacts(Webhooks)
  BY DEF Webhooks
<1>14. ListFacts(Announcements)
  BY DEF Announcements
<1>15. ListFacts(PanelSettings)
  BY DEF PanelSettings
<1>16. ListFacts(Nothing)
  BY DEF Nothing
<1>17. ListFacts(Header)
  BY DEF Header
<1>18. ListFacts(Stats)
  BY DEF Stats
<1>19. ListFacts(Logs)
  BY DEF Logs
<1>20. ListFacts(Schedules)
  BY DEF Schedules
<1>21. ListFacts(Backups)
  BY DEF Backups
<1>22. ListFacts(Members)
  BY DEF Members
<1>23. ListFacts(ServerActivity)
  BY DEF ServerActivity
<1>24. ListFacts(Files)
  BY DEF Files
<1> HIDE DEF ListFacts, List
<1> QED
  BY <1>1, <1>2, <1>3, <1>4, <1>5, <1>6, <1>7, <1>8, <1>9, <1>10, <1>11, <1>12,
     <1>13, <1>14, <1>15, <1>16, <1>17, <1>18, <1>19, <1>20, <1>21, <1>22,
     <1>23, <1>24 DEF Lists

-----------------------------------------------------------------------------
(* The rows and lists as the page looks them up.                           *)

LEMMA Looked ==
  ASSUME NEW n \in DOMAIN Row
  PROVE  \E h \in Offers : /\ h.name = n /\ Row[n].does = h.does
                           /\ Row[n].tabs = {t \in Tabs : h \in t.offers}
                           /\ RowFacts(h)
BY RowIs, EachRow

LEMMA RowRules ==
  ASSUME NEW h \in DOMAIN Row
  PROVE  /\ Does(h, "asks") => ~Does(h, "flag") /\ ~Does(h, "overwrites")
         /\ Does(h, "overwrites") => Does(h, "form")
         /\ Does(h, "overwrites") /\ Does(h, "server")
              => h \in {"saveServerSettings", "saveFileContent", "renameFile"}
         /\ Does(h, "leaves") => h = "deleteServer"
         /\ Does(h, "reselects") => h = "saveServerSettings"
         /\ h = "saveServerSettings"
              => /\ Does(h, "closes") /\ Does(h, "detail") /\ Does(h, "server")
                 /\ Does(h, "overwrites") /\ ~Does(h, "inline")
         /\ h = "saveFileContent" => /\ Does(h, "overwrites") /\ Does(h, "server")
                                     /\ Does(h, "inline")
         /\ \/ Does(h, "idle") \/ Does(h, "refetches")
            \/ Does(h, "all") /\ h \in Rereading
         /\ h = "saveTemplate" => Does(h, "overwrites") /\ ~Does(h, "server")
         /\ Does(h, "detail") => Does(h, "form")
BY Looked DEF Does, RowFacts

\* A handler that needs a server, or the editor, is offered on a server's page.
LEMMA OfferedOn ==
  ASSUME NEW h \in DOMAIN Row, Offered(h),
         \/ Does(h, "server") /\ ~Does(h, "detail")
         \/ h \in {"saveFileContent", "saveServerSettings"}
  PROVE  selected # None
<1>1. PICK t \in Row[h].tabs : Open(t)
  BY DEF Offered
<1>2. PICK g \in Offers : /\ g.name = h /\ Row[h].does = g.does
                          /\ Row[h].tabs = {u \in Tabs : g \in u.offers}
  BY Looked
<1>3. t \in Tabs /\ g \in t.offers /\ TabFacts(t)
  BY <1>1, <1>2, EachTab
<1>4. t.page # "list"
  BY <1>2, <1>3 DEF TabFacts, Does
<1>5. QED
  BY <1>1, <1>4 DEF Open

LEMMA OursAreRows ==
  ASSUME NEW n \in DOMAIN View
  PROVE  /\ View[n].ours \subseteq DOMAIN Row
         /\ \A h \in View[n].ours :
              /\ h \in {"saveServerSettings", "deleteServer"} => n = "servers"
              /\ h = "saveFileContent" => n = "files"
              /\ h \in Rereading => n \in {"servers", "nodes", "allocations", "networks", "groups"}
<1>1. View[n].ours = {h.name : h \in {g \in Offers : g.view = n}}
  BY DEF View
<1>2. View[n].ours \subseteq DOMAIN Row
  BY <1>1, RowIs
<1>3. QED
  BY <1>1, <1>2, EachRow DEF RowFacts

LEMMA Owners ==
  /\ "createCloudflareRecord" \in View["dns"].ours /\ "saveTemplate" \in View["templates"].ours
  /\ "saveFileContent" \in View["files"].ours /\ {"dns", "templates", "files"} \subseteq DOMAIN View
<1>1. createCloudflareRecord \in Offers /\ saveTemplate \in Offers /\ saveFileContent \in Offers
  BY DEF Offers, Tabs, ServersTab, TemplatesTab, FilesTab, Tab
<1>2. /\ createCloudflareRecord.name = "createCloudflareRecord"
      /\ createCloudflareRecord.view = "dns"
      /\ saveTemplate.name = "saveTemplate" /\ saveTemplate.view = "templates"
      /\ saveFileContent.name = "saveFileContent" /\ saveFileContent.view = "files"
  BY DEF createCloudflareRecord, saveTemplate, saveFileContent, Handler, List, Dns, Templates, Files
<1>3. Dns \in Lists /\ Templates \in Lists /\ Files \in Lists
  BY DEF Lists
<1>4. {"dns", "templates", "files"} \subseteq DOMAIN View
  <2>1. DOMAIN View = {l.name : l \in Lists}
    BY DEF View
  <2>2. Dns.name = "dns" /\ Templates.name = "templates" /\ Files.name = "files"
    BY DEF Dns, Templates, Files, List
  <2>3. QED
    BY <1>3, <2>1, <2>2
<1>5. \A n \in DOMAIN View : View[n].ours = {h.name : h \in {g \in Offers : g.view = n}}
  BY DEF View
<1>6. QED
  BY <1>1, <1>2, <1>4, <1>5

LEMMA ViewRules ==
  ASSUME v \in Watch
  PROVE  /\ v \in DOMAIN View /\ Ours \subseteq DOMAIN Row
         /\ Is("flags") => v = "dns"
         /\ Is("server") => Is("select") \/ Is("click")
         /\ ~Is("server") => ~Is("click")
         /\ Is("server") => ~Is("all") /\ ~Is("dashboard")
         /\ Is("object") => Is("server")
         /\ v \in {"servers", "nodes", "allocations", "networks", "groups"}
              => Is("all") /\ ~Is("server")
         /\ v = "files" => Is("server")
         /\ Is("server") /\ Visible
              => /\ selected # None
                 /\ \/ v \in {"header", "files"} \/ ~Is("select") \/ detail \in View[v].read
<1>1. v \in DOMAIN View
  BY WatchAssumption
<1>2. PICK l \in Lists : l.name = v /\ View[v].read = l.read
  BY <1>1 DEF View
<1>3. ListFacts(l)
  BY EachList
<1>4. ASSUME Is("server"), Visible
      PROVE  /\ selected # None
             /\ \/ v \in {"header", "files"} \/ ~Is("select") \/ detail \in View[v].read
  <2>1. View[v].shows = {t \in Tabs : v \in t.shows}
    BY <1>1 DEF View
  <2>2. PICK t \in Tabs : v \in t.shows /\ Open(t)
    BY <1>4, <2>1 DEF Visible
  <2>3. TabFacts(t)
    BY EachTab
  <2>4. v \in {"header", "stats", "logs", "schedules", "backups", "members",
               "serverActivity", "files"}
    BY <1>2, <1>3, <1>4 DEF Is, ListFacts
  <2>5. t.page # "list" /\ selected # None /\ t.name \in {"", detail}
    BY <2>2, <2>3, <2>4 DEF TabFacts, Open
  <2>6. v \in {"logs", "schedules"} => ~Is("select")
    BY <1>2, <1>3, <1>4 DEF Is, ListFacts
  <2>7. v \in {"stats", "backups", "members"} => t.name = v /\ v \in View[v].read
    BY <1>2, <1>3, <1>4, <2>2, <2>3, <2>5 DEF Is, ListFacts, TabFacts
  <2>8. v = "serverActivity" => t.name = "activity" /\ "activity" \in View[v].read
    BY <1>2, <1>3, <1>4, <2>2, <2>3, <2>5 DEF Is, ListFacts, TabFacts
  <2>9. QED
    BY <2>4, <2>5, <2>6, <2>7, <2>8
<1>5. QED
  BY <1>1, <1>2, <1>3, <1>4, OursAreRows DEF Is, Ours, ListFacts

-----------------------------------------------------------------------------
(* Invariants.                                                             *)

Place == Server \cup {Panel}
Forms == {None, "blank", "copied"} \cup Item \cup Server

\* What a handler sends.
Message ==
  [op: Ours, server: Place, from: Forms, to: {None} \cup Item \cup Server]
Sound(q) == q \in Message /\ (Does(q.op, "server") => q.server \in Server)

RequestInv ==
  \A r \in BagToSet(requests) :
    r \in [req: Message, state: {"sent", "done", "refused"}] /\ Sound(r.req)

PopupInv == popup \notin {None, Note} => Sound(popup) /\ Does(popup.op, "asks")

ReadInv ==
  \A r \in BagToSet(reads) :
    /\ r \in [of: Place, by: {"fetch", "all", "file"}, version: Nat \cup {None}]
    /\ r.by = "file" => v = "files" /\ r.of \in Server

PanelInv ==
  /\ version \in [Place -> Nat]
  /\ shown \in [of: Place \cup {None}, version: Nat]
  /\ later \subseteq {2, 5} \X Place

TInv == v \in Watch /\ TypeOK /\ RequestInv /\ PopupInv /\ ReadInv /\ PanelInv

\* A form holds what it was loaded from for as long as it can be saved.
FormInv ==
  /\ editing # None =>
       /\ form \in {editing, "copied"}
       /\ dialog # None => Does(dialog, "overwrites") /\ ~Does(dialog, "server")
  /\ dialog = "saveServerSettings" /\ "mixed" \notin faults
       => selected # None /\ form = selected
  /\ dialog = "saveFileContent" /\ "mixed" \notin faults
       => selected = None \/ form = selected

\* A button's flag is up while the one request that raised it is under way.
OnceInv ==
  v # "dns" =>
    \A r \in BagToSet(requests) :
      Does(r.req.op, "flag") =>
        /\ r.req.op \in busy /\ requests[r] = 1
        /\ \A q \in BagToSet(requests) : q.req.op = r.req.op => q = r

\* When the list should have been read for the server that is selected.
Due ==
  /\ ~Is("object")
  /\ Is("server") =>
       /\ selected # None
       /\ v \in {"header", "files"} \/ ~Is("select") \/ detail \in View[v].read

Outdated == \E r \in BagToSet(reads) :
  r.by # "file" /\ r.of = Current /\ r.version # None /\ r.version < version[Current]

Good == shown = [of |-> Current, version |-> version[Current]]
WillReread == \E r \in BagToSet(requests) :
  r.state = "done" /\ r.req.server = Current /\ ~Does(r.req.op, "idle")
WillShow == \E r \in BagToSet(reads) :
  r.by # "file" /\ r.of = Current /\ r.version \in {None, version[Current]}

\* An old list on the page, or on its way there, is one that is read again.
ShownInv ==
  /\ Is("object") => shown = Unread
  /\ "unread" \in faults => Is("click") /\ ~Is("select")
  /\ (shown # Unread \/ Outdated) /\ faults \cap {"stale", "unread"} = {} /\ Due
       => Good \/ WillReread \/ WillShow

-----------------------------------------------------------------------------
(* What the actions leave alone.                                           *)

LEMMA SameList == [Next]_vars => v' = v
<1> SUFFICES ASSUME [Next]_vars PROVE v' = v
  OBVIOUS
<1>1. ASSUME NEW r \in BagToSet(reads), Serve(r) \/ Arrive(r) \/ ReadFails(r) \/ FileOpens(r)
      PROVE  v' = v
  BY <1>1 DEF Serve, Arrive, ReadFails, FileOpens
<1>2. ASSUME (\E t \in later : Later(t)) \/ Timer \/ Poll \/ Refresh PROVE v' = v
  BY <1>2 DEF Later, Timer, Poll, Refresh
<1>3. ASSUME NEW s, Manage(s) \/ OpenTab(s) \/ OpenDetailTab(s) PROVE v' = v
  BY <1>3 DEF Manage, OpenTab, OpenDetailTab
<1>4. ASSUME NEW h, NEW i, New(h) \/ EditServer(h) \/ Edit(h, i) PROVE v' = v
  BY <1>4 DEF New, EditServer, Edit, Show
<1>5. ASSUME NEW h, Start(h) \/ Incomplete(h) \/ Ask(h) PROVE v' = v
  BY <1>5 DEF Start, Incomplete, Ask
<1>6. ASSUME CopyToTemplate \/ ApplyTemplate \/ Cancel \/ OpenFile \/ Confirm \/ Dismiss
      PROVE  v' = v
  BY <1>6 DEF CopyToTemplate, ApplyTemplate, Cancel, OpenFile, Confirm, Dismiss, Show
<1>7. ASSUME NEW r, Process(r) \/ Succeeds(r) \/ Refused(r) \/ Lost(r) PROVE v' = v
  BY <1>7 DEF Process, Succeeds, Refused, Lost
<1>8. CASE UNCHANGED vars
  BY <1>8 DEF vars
<1>9. QED
  BY <1>1, <1>2, <1>3, <1>4, <1>5, <1>6, <1>7, <1>8 DEF Next, Answer

\* Requests are made by Start and Confirm, and nothing but the panel and the
\* answers touches them; the flags go up and down with them, and those of a list
\* that shares them with its reads go down with a read.
LEMMA RequestsQuiet ==
  ASSUME [Next]_vars
  PROVE  \/ UNCHANGED requests /\ (UNCHANGED busy \/ (Is("flags") /\ busy' = {}))
         \/ \E h \in Ours : Start(h)
         \/ Confirm
         \/ \E r \in BagToSet(requests) : Process(r) \/ Succeeds(r) \/ Refused(r) \/ Lost(r)
<1> DEFINE Quiet == UNCHANGED requests /\ (UNCHANGED busy \/ (Is("flags") /\ busy' = {}))
<1> USE DEF net
<1>1. ASSUME NEW r \in BagToSet(reads), Serve(r) \/ Arrive(r) \/ ReadFails(r) \/ FileOpens(r)
      PROVE  Quiet
  BY <1>1 DEF Serve, Arrive, ReadFails, FileOpens
<1>2. ASSUME (\E t \in later : Later(t)) \/ Timer \/ Poll \/ Refresh PROVE Quiet
  BY <1>2 DEF Later, Timer, Poll, Refresh
<1>3. ASSUME NEW s, Manage(s) \/ OpenTab(s) \/ OpenDetailTab(s) PROVE Quiet
  BY <1>3 DEF Manage, OpenTab, OpenDetailTab
<1>4. ASSUME NEW h, New(h) \/ EditServer(h) \/ (\E i \in Item : Edit(h, i)) PROVE Quiet
  BY <1>4 DEF New, EditServer, Edit, Show
<1>5. ASSUME NEW h, Incomplete(h) \/ Ask(h) PROVE Quiet
  BY <1>5 DEF Incomplete, Ask
<1>6. ASSUME CopyToTemplate \/ ApplyTemplate \/ Cancel \/ OpenFile \/ Dismiss
      PROVE  Quiet
  BY <1>6 DEF CopyToTemplate, ApplyTemplate, Cancel, OpenFile, Dismiss, Show
<1>7. ASSUME UNCHANGED vars PROVE Quiet
  BY <1>7 DEF vars
<1> HIDE DEF Quiet
<1>8. \/ Quiet \/ (\E h \in Ours : Start(h)) \/ Confirm
      \/ \E r \in BagToSet(requests) : Process(r) \/ Succeeds(r) \/ Refused(r) \/ Lost(r)
  BY <1>1, <1>2, <1>3, <1>4, <1>5, <1>6, <1>7 DEF Next, Answer
<1>9. QED
  BY <1>8 DEF Quiet

\* Reads begin with no answer, for a place of the page; only Serve gives one.
LEMMA ReadsMove ==
  ASSUME TInv, [Next]_vars
  PROVE  \A r \in BagToSet(reads') :
           \/ r \in BagToSet(reads)
           \/ \E s \in Place, by \in {"fetch", "all"} : r = [of |-> s, by |-> by, version |-> None]
           \/ v = "files" /\ \E s \in Server : r = [of |-> s, by |-> "file", version |-> None]
           \/ \E o \in BagToSet(reads) :
                o.by # "file" /\ o.version = None /\ r = [o EXCEPT !.version = version[o.of]]
<1> DEFINE New1(s, by) == [of |-> s, by |-> by, version |-> None]
           Kept == BagToSet(reads') \subseteq BagToSet(reads)
           One(s, by) == BagToSet(reads') \subseteq BagToSet(reads) \cup {New1(s, by)}
<1>0. \A s, by : Reread(s, by) => One(s, by)
  BY Added DEF Reread
<1>1. selected \in Server \cup {None} /\ Panel \in Place /\ Server \subseteq Place
  BY DEF TInv, TypeOK, Place
<1>2. ASSUME NEW c, NEW s \in Place, ReadIf(c, s)
      PROVE  Kept \/ One(s, "fetch")
  BY <1>0, <1>2 DEF ReadIf, Read
<1>3. ASSUME NEW r \in BagToSet(reads), Arrive(r) \/ ReadFails(r) \/ FileOpens(r)
      PROVE  Kept
  BY <1>3, Removed DEF Arrive, ReadFails, FileOpens
<1>4. ASSUME NEW o \in BagToSet(reads), Serve(o)
      PROVE  /\ o.by # "file" /\ o.version = None
             /\ BagToSet(reads') \subseteq
                  BagToSet(reads) \cup {[o EXCEPT !.version = version[o.of]]}
  BY <1>4, Added, Removed DEF Serve
<1>5. ASSUME NEW t \in later, Later(t) PROVE \E s \in Place : One(s, "fetch")
  <2>1. t[2] \in Place
    BY DEF TInv, PanelInv
  <2>2. QED
    BY <1>0, <1>5, <2>1 DEF Later, Read
<1>6. ASSUME Timer \/ Poll \/ Refresh PROVE \E s \in Place, by \in {"fetch", "all"} : One(s, by)
  BY <1>0, <1>1, <1>6 DEF Timer, Poll, Refresh, Read
<1>7. ASSUME NEW s \in Server, Manage(s) PROVE Kept \/ One(s, "fetch")
  BY <1>1, <1>2, <1>7 DEF Manage, Select
<1>8. ASSUME NEW t, OpenTab(t) PROVE Kept \/ One(Panel, "fetch")
  BY <1>1, <1>2, <1>8 DEF OpenTab
<1>9. ASSUME NEW t, OpenDetailTab(t) PROVE Kept \/ (One(selected, "fetch") /\ selected \in Place)
  BY <1>1, <1>2, <1>9 DEF OpenDetailTab
<1>10. ASSUME NEW h, NEW i, New(h) \/ EditServer(h) \/ Edit(h, i) PROVE Kept
  BY <1>10 DEF New, EditServer, Edit, Show, net
<1>11. ASSUME NEW h, Start(h) \/ Incomplete(h) \/ Ask(h) PROVE Kept
  BY <1>11 DEF Start, Incomplete, Ask, net
<1>12. ASSUME CopyToTemplate \/ ApplyTemplate \/ Cancel \/ Dismiss \/ Confirm PROVE Kept
  BY <1>12 DEF CopyToTemplate, ApplyTemplate, Cancel, Dismiss, Confirm, Show, net
<1>13. ASSUME OpenFile PROVE One(selected, "file") /\ selected \in Server /\ v = "files"
  <2>1. v = "files" /\ selected # None
    BY <1>13, ViewRules DEF OpenFile, TInv
  <2>2. QED
    BY <1>0, <1>1, <1>13, <2>1 DEF OpenFile, Read
<1>14. ASSUME NEW r \in BagToSet(requests), Process(r) \/ Refused(r) \/ Lost(r) PROVE Kept
  BY <1>14 DEF Process, Refused, Lost
<1>15. ASSUME NEW r \in BagToSet(requests), Succeeds(r)
       PROVE  Kept \/ (One(r.req.server, "fetch") /\ r.req.server \in Place)
  BY <1>0, <1>15 DEF Succeeds, TInv, RequestInv, Message
<1>16. ASSUME UNCHANGED vars PROVE Kept
  BY <1>16 DEF vars, net
<1> DEFINE Goal ==
      \/ Kept
      \/ \E s \in Place, by \in {"fetch", "all"} : One(s, by)
      \/ v = "files" /\ \E s \in Server : One(s, "file")
      \/ \E o \in BagToSet(reads) :
           /\ o.by # "file" /\ o.version = None
           /\ BagToSet(reads') \subseteq BagToSet(reads) \cup {[o EXCEPT !.version = version[o.of]]}
<1> HIDE DEF Kept, One
<1>17. ASSUME NEW r \in BagToSet(reads), Serve(r) \/ Arrive(r) \/ ReadFails(r) \/ FileOpens(r)
       PROVE  Goal
  BY <1>3, <1>4, <1>17
<1>18. ASSUME (\E t \in later : Later(t)) \/ Timer \/ Poll \/ Refresh PROVE Goal
  BY <1>5, <1>6, <1>18
<1>19. ASSUME NEW s \in Server, Manage(s) PROVE Goal
  BY <1>1, <1>7, <1>19
<1>20. ASSUME NEW t, OpenTab(t) \/ OpenDetailTab(t) PROVE Goal
  BY <1>1, <1>8, <1>9, <1>20
<1>21. ASSUME NEW r \in BagToSet(requests), Process(r) \/ Succeeds(r) \/ Refused(r) \/ Lost(r)
       PROVE  Goal
  BY <1>14, <1>15, <1>21
<1>22. ASSUME OpenFile \/ CopyToTemplate \/ ApplyTemplate \/ Cancel \/ Dismiss \/ Confirm
       PROVE  Goal
  BY <1>12, <1>13, <1>22
<1>23. ASSUME NEW h, \/ New(h) \/ EditServer(h) \/ (\E i \in Item : Edit(h, i))
                     \/ Start(h) \/ Incomplete(h) \/ Ask(h)
       PROVE  Goal
  BY <1>10, <1>11, <1>23
<1>24. ASSUME UNCHANGED vars PROVE Goal
  BY <1>16, <1>24
<1> HIDE DEF Goal
<1>25. Goal
  BY <1>17, <1>18, <1>19, <1>20, <1>21, <1>22, <1>23, <1>24 DEF Next, Answer
<1>26. QED
  BY <1>25 DEF Goal, Kept, One

-----------------------------------------------------------------------------
(* Types.                                                                  *)

LEMMA ListOf ==
  ASSUME TInv
  PROVE  /\ v \in DOMAIN View /\ Ours \subseteq DOMAIN Row /\ None \notin Ours
         /\ Is("flags") => v = "dns"
BY ViewRules, NoneAssumption DEF TInv

\* What a button starts is a message to the server that is selected.
LEMMA Sending ==
  ASSUME TInv, NEW h \in Ours, Startable(h)
  PROVE  Sound(Request(h)) /\ Request(h).op = h
<1>1. h \in DOMAIN Row
  BY ListOf
<1>2. Does(h, "server") => selected \in Server
  <2> SUFFICES ASSUME Does(h, "server") PROVE selected # None
    BY DEF TInv, TypeOK
  <2>1. CASE Does(h, "detail")
    BY <1>1, <2>1, RowRules DEF Startable, Rendered
  <2>2. CASE ~Does(h, "detail")
    <3>1. Offered(h)
      BY <2>2 DEF Startable, Rendered
    <3>2. QED
      BY <1>1, <2>2, <3>1, OfferedOn
  <2>3. QED
    BY <2>1, <2>2
<1>3. /\ Request(h).op = h
      /\ Request(h).server = IF Does(h, "server") THEN selected ELSE Panel
  BY DEF Request
<1>4. (IF Does(h, "form") THEN form ELSE None) \in Forms
  BY DEF TInv, TypeOK, Forms
<1>5. (CASE ~Does(h, "overwrites") -> None
         [] Does(h, "server") -> selected
         [] OTHER -> editing) \in {None} \cup Item \cup Server
  BY DEF TInv, TypeOK
<1>6. (IF Does(h, "server") THEN selected ELSE Panel) \in Place
  BY <1>2 DEF Place
<1>7. QED
  BY <1>2, <1>3, <1>4, <1>5, <1>6 DEF Request, Sound, Message

LEMMA RequestsMove ==
  ASSUME TInv, [Next]_vars
  PROVE  \A r \in BagToSet(requests') :
           \/ r \in BagToSet(requests)
           \/ \E h \in Ours : Start(h) /\ r = [req |-> Request(h), state |-> "sent"]
           \/ Confirm /\ Sound(popup) /\ r = [req |-> popup, state |-> "sent"]
           \/ \E o \in BagToSet(requests), result \in {"done", "refused"} :
                o.state = "sent" /\ r = [o EXCEPT !.state = result]
<1>1. ASSUME NEW h \in Ours, Start(h)
      PROVE  BagToSet(requests') = BagToSet(requests) \cup {[req |-> Request(h), state |-> "sent"]}
  BY <1>1, Added DEF Start, Send
<1>2. ASSUME Confirm
      PROVE  /\ BagToSet(requests') = BagToSet(requests) \cup {[req |-> popup, state |-> "sent"]}
             /\ Sound(popup)
  BY <1>2, Added DEF Confirm, Send, TInv, PopupInv
<1>3. ASSUME NEW o \in BagToSet(requests), Process(o)
      PROVE  \E result \in {"done", "refused"} :
               /\ o.state = "sent"
               /\ BagToSet(requests') \subseteq
                    BagToSet(requests) \cup {[o EXCEPT !.state = result]}
  BY <1>3, Added, Removed DEF Process
<1>4. ASSUME NEW o \in BagToSet(requests), Succeeds(o) \/ Refused(o) \/ Lost(o)
      PROVE  BagToSet(requests') \subseteq BagToSet(requests)
  BY <1>4, Removed DEF Succeeds, Refused, Lost, Ends
<1>5. QED
  BY <1>1, <1>2, <1>3, <1>4, RequestsQuiet

LEMMA RequestTypes ==
  ASSUME TInv, [Next]_vars PROVE RequestInv'
<1>1. Ours' = Ours
  BY SameList DEF Ours
<1>2. ASSUME NEW r \in BagToSet(requests')
      PROVE  r \in [req: Message, state: {"sent", "done", "refused"}] /\ Sound(r.req)
  <2>1. CASE r \in BagToSet(requests)
    BY <2>1 DEF TInv, RequestInv
  <2>2. CASE \E q : Sound(q) /\ r = [req |-> q, state |-> "sent"]
    BY <2>2 DEF Sound
  <2>3. CASE \E o \in BagToSet(requests), result \in {"done", "refused"} :
               o.state = "sent" /\ r = [o EXCEPT !.state = result]
    BY <2>3 DEF TInv, RequestInv
  <2>4. QED
    BY <2>1, <2>2, <2>3, RequestsMove, Sending DEF Start
<1>3. QED
  BY <1>1, <1>2 DEF RequestInv, Sound, Message

LEMMA ReadTypes ==
  ASSUME TInv, [Next]_vars PROVE ReadInv'
<1>1. ASSUME NEW r \in BagToSet(reads')
      PROVE  /\ r \in [of: Place, by: {"fetch", "all", "file"}, version: Nat \cup {None}]
             /\ r.by = "file" => v = "files" /\ r.of \in Server
  <2>1. CASE r \in BagToSet(reads)
    BY <2>1 DEF TInv, ReadInv
  <2>2. CASE \E s \in Place, by \in {"fetch", "all"} : r = [of |-> s, by |-> by, version |-> None]
    BY <2>2
  <2>3. CASE v = "files" /\ \E s \in Server : r = [of |-> s, by |-> "file", version |-> None]
    BY <2>3 DEF Place
  <2>4. CASE \E o \in BagToSet(reads) :
               o.by # "file" /\ o.version = None /\ r = [o EXCEPT !.version = version[o.of]]
    BY <2>4 DEF TInv, ReadInv, PanelInv
  <2>5. QED
    BY <2>1, <2>2, <2>3, <2>4, ReadsMove
<1>2. QED
  BY <1>1, SameList DEF ReadInv

LEMMA PopupTypes ==
  ASSUME TInv, [Next]_vars PROVE PopupInv'
<1> DEFINE Same == popup' \in {popup, None, Note}
<1>1. ASSUME NEW r, Serve(r) \/ Arrive(r) \/ ReadFails(r) \/ FileOpens(r) PROVE Same
  BY <1>1 DEF Serve, Arrive, ReadFails, FileOpens
<1>2. ASSUME (\E t \in later : Later(t)) \/ Timer \/ Poll \/ Refresh PROVE Same
  BY <1>2 DEF Later, Timer, Poll, Refresh
<1>3. ASSUME NEW s, Manage(s) \/ OpenTab(s) \/ OpenDetailTab(s) PROVE Same
  BY <1>3 DEF Manage, OpenTab, OpenDetailTab
<1>4. ASSUME NEW h, New(h) \/ EditServer(h) \/ (\E i \in Item : Edit(h, i)) PROVE Same
  BY <1>4 DEF New, EditServer, Edit, Show
<1>5. ASSUME NEW h, Start(h) \/ Incomplete(h) PROVE Same
  BY <1>5 DEF Start, Incomplete
<1>6. ASSUME CopyToTemplate \/ ApplyTemplate \/ Cancel \/ OpenFile \/ Confirm \/ Dismiss
      PROVE  Same
  BY <1>6 DEF CopyToTemplate, ApplyTemplate, Cancel, OpenFile, Confirm, Dismiss, Show
<1>7. ASSUME NEW r, Process(r) \/ Succeeds(r) \/ Refused(r) \/ Lost(r) PROVE Same
  BY <1>7 DEF Process, Succeeds, Refused, Lost, Says
<1>8. ASSUME UNCHANGED vars PROVE Same
  BY <1>8 DEF vars
<1>9. ASSUME NEW h \in Ours, Ask(h) PROVE Sound(popup') /\ Does(popup'.op, "asks")
  BY <1>9, Sending DEF Ask
<1> HIDE DEF Same
<1>10. Same \/ \E h \in Ours : Ask(h)
  BY <1>1, <1>2, <1>3, <1>4, <1>5, <1>6, <1>7, <1>8 DEF Next, Answer
<1>11. popup' \notin {None, Note} => Sound(popup') /\ Does(popup'.op, "asks")
  BY <1>9, <1>10 DEF Same, TInv, PopupInv
<1>12. Ours' = Ours
  BY SameList DEF Ours
<1>13. QED
  BY <1>11, <1>12 DEF PopupInv, Sound, Message

LEMMA PanelTypes ==
  ASSUME TInv, [Next]_vars PROVE PanelInv'
<1> DEFINE Same == UNCHANGED <<version, shown, later>>
<1>1. ASSUME NEW r \in BagToSet(reads), Serve(r) \/ ReadFails(r) \/ FileOpens(r) PROVE Same
  BY <1>1 DEF Serve, ReadFails, FileOpens, panel
<1>2. ASSUME NEW r \in BagToSet(reads), Arrive(r) PROVE PanelInv'
  <2>1. r.of \in Place /\ r.version \in Nat
    BY <1>2 DEF Arrive, TInv, ReadInv
  <2>2. shown' \in [of: Place \cup {None}, version: Nat]
    BY <1>2, <2>1 DEF Arrive, Unread
  <2>3. QED
    BY <1>2, <2>2 DEF Arrive, TInv, PanelInv
<1>3. ASSUME Timer \/ Poll \/ Refresh PROVE Same
  BY <1>3 DEF Timer, Poll, Refresh, panel
<1>4. ASSUME NEW t \in later, Later(t) PROVE PanelInv'
  BY <1>4 DEF Later, panel, TInv, PanelInv
<1>5. ASSUME NEW s, Manage(s) \/ OpenTab(s) \/ OpenDetailTab(s) PROVE Same
  BY <1>5 DEF Manage, OpenTab, OpenDetailTab, panel
<1>6. ASSUME NEW h, New(h) \/ EditServer(h) \/ (\E i \in Item : Edit(h, i)) PROVE Same
  BY <1>6 DEF New, EditServer, Edit, Show, net, panel
<1>7. ASSUME NEW h, Start(h) \/ Incomplete(h) \/ Ask(h) PROVE Same
  BY <1>7 DEF Start, Incomplete, Ask, net, panel
<1>8. ASSUME CopyToTemplate \/ ApplyTemplate \/ Cancel \/ OpenFile \/ Confirm \/ Dismiss
      PROVE  Same
  BY <1>8 DEF CopyToTemplate, ApplyTemplate, Cancel, OpenFile, Confirm, Dismiss, Show, net, panel
<1>9. ASSUME NEW r \in BagToSet(requests), Process(r) PROVE PanelInv'
  BY <1>9 DEF Process, TInv, PanelInv
<1>10. ASSUME NEW r \in BagToSet(requests), Refused(r) \/ Lost(r) PROVE Same
  BY <1>10 DEF Refused, Lost, panel
<1>11. ASSUME NEW r \in BagToSet(requests), Succeeds(r) PROVE PanelInv'
  <2>1. r.req.server \in Place
    BY DEF TInv, RequestInv, Message
  <2>2. later' \subseteq later \cup ({2, 5} \X {r.req.server}) /\ UNCHANGED <<version, shown>>
    BY <1>11 DEF Succeeds
  <2>3. {2, 5} \X {r.req.server} \subseteq {2, 5} \X Place
    BY <2>1
  <2>4. QED
    BY <2>2, <2>3 DEF TInv, PanelInv
<1>12. ASSUME UNCHANGED vars PROVE Same
  BY <1>12 DEF vars, net, panel
<1>13. Same => PanelInv'
  BY DEF TInv, PanelInv
<1> HIDE DEF Same
<1>14. QED
  BY <1>1, <1>2, <1>3, <1>4, <1>5, <1>6, <1>7, <1>8, <1>9, <1>10, <1>11, <1>12, <1>13
     DEF Next, Answer

LEMMA PageTypes ==
  ASSUME TInv, [Next]_vars PROVE TypeOK'
<1> DEFINE Edited ==
      /\ dialog' \in Ours \cup {None} /\ form' \in Forms /\ editing' \in Item \cup {None}
           Moved == selected' \in Server \cup {None}
           Flagged == busy' \subseteq Ours /\ faults' \subseteq {"stale", "unread", "mixed"}
           All3 == Edited /\ Moved /\ Flagged
<1> USE DEF edit, nav, net, panel, Forms
<1>1. dialog \in Ours \cup {None} /\ form \in Forms /\ editing \in Item \cup {None}
      /\ selected \in Server \cup {None}
      /\ busy \subseteq Ours /\ faults \subseteq {"stale", "unread", "mixed"}
  BY DEF TInv, TypeOK
<1>2. ASSUME NEW r \in BagToSet(reads), Serve(r) \/ Arrive(r) \/ ReadFails(r) PROVE All3
  BY <1>1, <1>2 DEF Serve, Arrive, ReadFails
<1>3. ASSUME NEW r \in BagToSet(reads), FileOpens(r) PROVE All3
  <2>1. r.of \in Server /\ v = "files"
    BY <1>3 DEF FileOpens, TInv, ReadInv
  <2>2. "saveFileContent" \in Ours
    BY <2>1, Owners DEF Ours
  <2>3. QED
    BY <1>1, <1>3, <2>1, <2>2 DEF FileOpens
<1>4. ASSUME (\E t \in later : Later(t)) \/ Timer \/ Poll \/ Refresh PROVE All3
  BY <1>1, <1>4 DEF Later, Timer, Poll, Refresh
<1>5. ASSUME NEW s \in Server, Manage(s) PROVE All3
  BY <1>1, <1>5 DEF Manage, Select
<1>6. ASSUME NEW t, OpenTab(t) \/ OpenDetailTab(t) PROVE All3
  BY <1>1, <1>6 DEF OpenTab, OpenDetailTab
<1>7. ASSUME NEW h \in Ours, New(h) \/ EditServer(h) \/ (\E i \in Item : Edit(h, i)) PROVE All3
  BY <1>1, <1>7 DEF New, EditServer, Edit, Show
<1>8. ASSUME NEW h \in Ours, Start(h) \/ Incomplete(h) \/ Ask(h) PROVE All3
  BY <1>1, <1>8 DEF Start, Incomplete, Ask
<1>9. ASSUME CopyToTemplate PROVE All3
  <2>1. "saveTemplate" \in Ours
    BY <1>9, Owners DEF CopyToTemplate, Ours
  <2>2. QED
    BY <1>1, <1>9, <2>1 DEF CopyToTemplate, Show
<1>10. ASSUME ApplyTemplate \/ Cancel \/ OpenFile \/ Confirm \/ Dismiss PROVE All3
  BY <1>1, <1>10 DEF ApplyTemplate, Cancel, OpenFile, Confirm, Dismiss
<1>11. ASSUME NEW r \in BagToSet(requests), Process(r) \/ Refused(r) \/ Lost(r) PROVE All3
  BY <1>1, <1>11 DEF Process, Refused, Lost, Ends
<1>12. ASSUME NEW r \in BagToSet(requests), Succeeds(r) PROVE All3
  <2> DEFINE h == r.req.op
  <2>1. h \in Ours /\ h \in DOMAIN Row /\ (Does(h, "server") => r.req.server \in Server)
    BY ListOf DEF TInv, RequestInv, Sound, Message
  <2>2. Closes(h) /\ Moves(h, r.req.server)
    BY <1>12 DEF Succeeds
  <2>3. Edited
    BY <1>1, <2>2 DEF Closes
  <2>4. Moved
    <3>1. Does(h, "reselects") => r.req.server \in Server
      BY <2>1, RowRules
    <3>2. selected' \in {None, selected} \/ (Does(h, "reselects") /\ selected' = r.req.server)
      BY <2>2 DEF Moves
    <3>3. QED
      BY <1>1, <3>1, <3>2
  <2>5. Is("flags") => "createCloudflareRecord" \in Ours
    BY ListOf, Owners DEF Ours
  <2>6. busy' \subseteq busy \cup IF Is("flags") THEN {"createCloudflareRecord"} ELSE {}
    BY <1>12 DEF Succeeds
  <2>7. faults' \subseteq faults \cup {"mixed"}
    BY <2>2 DEF Moves
  <2>8. QED
    BY <1>1, <2>3, <2>4, <2>5, <2>6, <2>7
<1>13. ASSUME UNCHANGED vars PROVE All3
  BY <1>1, <1>13 DEF vars
<1> HIDE DEF All3
<1>14. All3
  BY <1>2, <1>3, <1>4, <1>5, <1>6, <1>7, <1>8, <1>9, <1>10, <1>11, <1>12, <1>13
     DEF Next, Answer
<1>15. Ours' = Ours
  BY SameList DEF Ours
<1>16. shown'.of \in Server \cup {Panel, None}
  BY PanelTypes DEF PanelInv, Place
<1>17. QED
  BY <1>14, <1>15, <1>16 DEF All3, TypeOK

LEMMA TInvInit == Init => TInv
<1> SUFFICES ASSUME Init PROVE TInv
  OBVIOUS
<1>1. BagToSet(requests) = {} /\ BagToSet(reads) = {}
  BY DEF Init, BagToSet, EmptyBag, SetToBag
<1>2. TypeOK
  BY DEF Init, TypeOK, Unread
<1>3. PanelInv
  BY DEF Init, PanelInv, Place, Unread
<1>4. QED
  BY <1>1, <1>2, <1>3 DEF Init, TInv, RequestInv, PopupInv, ReadInv

LEMMA TInvStep == TInv /\ [Next]_vars => TInv'
BY SameList, RequestTypes, PopupTypes, ReadTypes, PanelTypes, PageTypes DEF TInv

\* The bookkeeping of the page holds in every state.
THEOREM Bookkeeping == Spec => []TInv
BY TInvInit, TInvStep, PTL DEF Spec

\* The dialog, what it edits, the flags and the faults have their types, for any
\* lists, servers and items: every handler is one of the list's rows.
THEOREM TypeCorrect == Spec => []TypeOK
<1>1. TInv => TypeOK
  BY DEF TInv
<1>2. QED
  BY <1>1, Bookkeeping, PTL

-----------------------------------------------------------------------------
(* What is saved goes back to where it was loaded from.                    *)

LEMMA SettingsRow == "saveServerSettings" \in DOMAIN Row /\ "saveFileContent" \in DOMAIN Row
<1>1. saveServerSettings \in Offers /\ saveFileContent \in Offers
  <2>1. saveServerSettings \in DetailHead.offers /\ saveFileContent \in FilesTab.offers
    BY DEF DetailHead, FilesTab, Tab
  <2>2. DetailHead \in Tabs /\ FilesTab \in Tabs
    BY DEF Tabs
  <2>3. QED
    BY <2>1, <2>2 DEF Offers
<1>2. /\ saveServerSettings.name = "saveServerSettings"
      /\ saveFileContent.name = "saveFileContent"
  BY DEF saveServerSettings, saveFileContent, Handler
<1>3. QED
  BY <1>1, <1>2, RowIs

LEMMA FormStep ==
  ASSUME TInv, FormInv, [Next]_vars
  PROVE  FormInv' /\ ("mixed" \in faults => "mixed" \in faults')
<1> DEFINE Goal == FormInv' /\ ("mixed" \in faults => "mixed" \in faults')
           Quiet == /\ UNCHANGED <<dialog, form, editing, selected>>
                    /\ "mixed" \in faults' <=> "mixed" \in faults
<1>1. Quiet => Goal
  BY DEF FormInv
<1>2. /\ dialog \in Ours \cup {None} /\ Ours \subseteq DOMAIN Row /\ None \notin DOMAIN Row
      /\ \A h \in Ours : /\ h = "saveServerSettings" => v = "servers"
                         /\ h = "saveFileContent" => v = "files"
  BY ListOf, OursAreRows, NoneAssumption DEF TInv, TypeOK, Ours
<1> USE DEF edit, nav, net, panel
<1>3. ASSUME NEW r \in BagToSet(reads), Serve(r) \/ Arrive(r) \/ ReadFails(r) PROVE Goal
  BY <1>1, <1>3 DEF Serve, Arrive, ReadFails
<1>4. ASSUME NEW r \in BagToSet(reads), FileOpens(r) PROVE Goal
  BY <1>4 DEF FileOpens, FormInv
<1>5. ASSUME (\E t \in later : Later(t)) \/ Timer \/ Poll \/ Refresh PROVE Goal
  BY <1>1, <1>5 DEF Later, Timer, Poll, Refresh
<1>6. ASSUME NEW s \in Server, Manage(s) PROVE Goal
  <2>1. selected = None /\ selected' = s /\ ("mixed" \in faults' <=> "mixed" \in faults)
    BY <1>6 DEF Manage, Select
  <2>2. dialog = "saveServerSettings" => "mixed" \in faults
    BY <2>1 DEF FormInv
  <2>3. CASE dialog = "saveFileContent"
    <3>1. dialog' = None /\ form' = None /\ editing' = editing
      BY <1>6, <2>3 DEF Manage, Select
    <3>2. editing = None
      BY <1>2, <2>3, SettingsRow, RowRules DEF FormInv
    <3>3. QED
      BY <1>2, SettingsRow, <2>1, <2>3, <3>1, <3>2 DEF FormInv
  <2>4. CASE dialog # "saveFileContent"
    <3>1. dialog' = dialog /\ form' = form /\ editing' = editing
      BY <1>6, <2>4 DEF Manage, Select
    <3>2. QED
      BY <2>1, <2>2, <2>4, <3>1 DEF FormInv
  <2>5. QED
    BY <2>3, <2>4
<1>7. ASSUME NEW t, OpenTab(t) PROVE Goal
  <2>1. /\ UNCHANGED <<dialog, form, editing, faults>> /\ selected' = None
        /\ dialog # None => (Does(dialog, "inline") \/ ~Rendered(dialog))
    BY <1>7 DEF OpenTab, Free
  <2>2. dialog = "saveServerSettings" => "mixed" \in faults
    BY <1>2, <2>1, SettingsRow, RowRules DEF Rendered, FormInv
  <2>3. QED
    BY <2>1, <2>2 DEF FormInv
<1>8. ASSUME NEW t, OpenDetailTab(t) PROVE Goal
  BY <1>1, <1>8 DEF OpenDetailTab
<1>9. ASSUME NEW h \in Ours, New(h) PROVE Goal
  <2>1. h \notin {"saveServerSettings", "saveFileContent"}
    BY <1>2, <1>9, RowRules DEF New
  <2>2. QED
    BY <1>9, <2>1 DEF New, Show, FormInv
<1>10. ASSUME NEW h \in Ours, NEW i \in Item, Edit(h, i) PROVE Goal
  <2>1. h \notin {"saveServerSettings", "saveFileContent"}
    BY <1>2, <1>10, RowRules DEF Edit
  <2>2. QED
    BY <1>10, <2>1 DEF Edit, Show, FormInv
<1>11. ASSUME NEW h \in Ours, EditServer(h) PROVE Goal
  <2>1. /\ h \in {"saveServerSettings", "renameFile"} /\ Offered(h)
        /\ dialog' = h /\ form' = selected /\ editing' = None /\ UNCHANGED <<selected, faults>>
    BY <1>11 DEF EditServer, Show
  <2>2. h = "saveServerSettings" => selected # None
    BY <1>2, <2>1, OfferedOn
  <2>3. QED
    BY <2>1, <2>2 DEF FormInv
<1>12. ASSUME NEW h \in Ours, Start(h) \/ Incomplete(h) \/ Ask(h) PROVE Goal
  BY <1>1, <1>12 DEF Start, Incomplete, Ask
<1>13. ASSUME CopyToTemplate PROVE Goal
  <2>1. /\ dialog' = "saveTemplate" /\ form' = "copied" /\ editing' = editing
        /\ UNCHANGED <<selected, faults>>
    BY <1>13 DEF CopyToTemplate, Show
  <2>2. "saveTemplate" \in DOMAIN Row
    BY Owners, OursAreRows
  <2>3. QED
    BY <2>1, <2>2, RowRules DEF FormInv
<1>14. ASSUME Cancel PROVE Goal
  <2>1. dialog' = None /\ UNCHANGED <<selected, faults>>
        /\ (UNCHANGED <<form, editing>> \/ editing' = None)
    BY <1>14 DEF Cancel
  <2>2. None \notin {"saveServerSettings", "saveFileContent"}
    BY <1>2, SettingsRow
  <2>3. QED
    BY <2>1, <2>2 DEF FormInv
<1>15. ASSUME ApplyTemplate \/ OpenFile \/ Confirm \/ Dismiss PROVE Goal
  BY <1>1, <1>15 DEF ApplyTemplate, OpenFile, Confirm, Dismiss
<1>16. ASSUME NEW r \in BagToSet(requests), Process(r) \/ Refused(r) \/ Lost(r) PROVE Goal
  BY <1>1, <1>16 DEF Process, Refused, Lost, Ends
<1>17. ASSUME NEW r \in BagToSet(requests), Succeeds(r) PROVE Goal
  <2> DEFINE h == r.req.op
  <2>1. h \in Ours /\ h \in DOMAIN Row
    BY <1>2 DEF TInv, RequestInv, Message
  <2>2. Closes(h) /\ Moves(h, r.req.server)
    BY <1>17 DEF Succeeds
  <2> HIDE DEF h
  <2>3. /\ "mixed" \in faults => "mixed" \in faults'
        /\ Does(h, "leaves") /\ dialog # None => "mixed" \in faults'
        /\ ~Does(h, "leaves") /\ ~Does(h, "reselects") => selected' = selected
    BY <2>2 DEF Moves
  <2>4. \/ dialog' = dialog /\ form' = form /\ editing' \in {None, editing}
        \/ dialog = h /\ dialog' = None /\ editing' \in {None, editing}
           /\ (Does(h, "overwrites") => editing' = None)
    BY <2>2 DEF Closes
  <2>5. None \notin {"saveServerSettings", "saveFileContent"}
    BY <1>2, SettingsRow
  <2>6. CASE dialog = h /\ dialog' = None /\ editing' \in {None, editing}
             /\ (Does(h, "overwrites") => editing' = None)
    <3>1. editing' = None
      BY <1>2, <2>1, <2>6 DEF FormInv
    <3>2. QED
      BY <2>3, <2>5, <2>6, <3>1 DEF FormInv
  <2>7. CASE dialog' = dialog /\ form' = form /\ editing' \in {None, editing}
    <3>1. editing' # None => /\ form' \in {editing', "copied"}
                             /\ dialog' # None => /\ Does(dialog', "overwrites")
                                                 /\ ~Does(dialog', "server")
      BY <2>7 DEF FormInv
    <3>2. CASE Does(h, "reselects")
      <4>1. h = "saveServerSettings" /\ v = "servers" /\ Does(h, "closes")
        BY <1>2, <2>1, <3>2, RowRules
      <4>2. dialog # h \/ dialog' = None
        BY <2>2, <4>1 DEF Closes
      <4>3. dialog' \notin {"saveServerSettings", "saveFileContent"}
        BY <1>2, <2>5, <2>7, <4>1, <4>2
      <4>4. QED
        BY <2>3, <3>1, <4>3 DEF FormInv
    <3>3. CASE ~Does(h, "reselects")
      BY <2>3, <2>5, <2>7, <3>1, <3>3 DEF FormInv
    <3>4. QED
      BY <3>2, <3>3
  <2>8. QED
    BY <2>4, <2>6, <2>7
<1>18. ASSUME UNCHANGED vars PROVE Goal
  BY <1>1, <1>18 DEF vars
<1> HIDE DEF Goal
<1>19. Goal
  BY <1>3, <1>4, <1>5, <1>6, <1>7, <1>8, <1>9, <1>10, <1>11, <1>12, <1>13, <1>14, <1>15,
     <1>16, <1>17, <1>18 DEF Next, Answer
<1>20. QED
  BY <1>19 DEF Goal

LEMMA SaveStep ==
  ASSUME TInv, FormInv, SavesGoBack, [Next]_vars PROVE SavesGoBack'
<1>1. "mixed" \in faults => "mixed" \in faults'
  BY FormStep
<1>2. ASSUME NEW r \in BagToSet(requests'), Does(r.req.op, "overwrites"), r.req.to # None
      PROVE  \/ r.req.from \in {r.req.to, "copied"}
             \/ "mixed" \in faults
             \/ r.req.op = "renameFile"
  <2>1. CASE r \in BagToSet(requests)
    BY <1>2, <2>1 DEF SavesGoBack
  <2>2. ASSUME NEW h \in Ours, Start(h), r = [req |-> Request(h), state |-> "sent"]
        PROVE  \/ r.req.from \in {r.req.to, "copied"}
               \/ "mixed" \in faults
               \/ r.req.op = "renameFile"
    <3>1. h \in DOMAIN Row /\ Does(h, "overwrites") /\ Does(h, "form") /\ Rendered(h)
      <4>1. r.req.op = h /\ h \in DOMAIN Row
        BY <2>2, ListOf DEF Request
      <4>2. Does(h, "overwrites") /\ Does(h, "form")
        BY <1>2, <4>1, RowRules
      <4>3. QED
        BY <2>2, <4>1, <4>2 DEF Start, Startable
    <3>2. /\ r.req.op = h /\ r.req.from = form /\ dialog = h
          /\ r.req.to = IF Does(h, "server") THEN selected ELSE editing
      BY <2>2, <3>1 DEF Request, Rendered
    <3>3. CASE ~Does(h, "server")
      BY <1>2, <3>2, <3>3 DEF FormInv
    <3>4. CASE Does(h, "server")
      <4>1. h \in {"saveServerSettings", "saveFileContent", "renameFile"}
        BY <3>1, <3>4, RowRules
      <4>2. QED
        BY <1>2, <3>2, <3>4, <4>1 DEF FormInv
    <3>5. QED
      BY <3>3, <3>4
  <2>3. ASSUME Confirm, Sound(popup), r = [req |-> popup, state |-> "sent"] PROVE FALSE
    <3>1. r.req = popup /\ popup.op \in DOMAIN Row /\ Does(popup.op, "asks")
      BY <2>3, ListOf DEF Confirm, TInv, PopupInv, Sound, Message
    <3>2. QED
      BY <1>2, <3>1, RowRules
  <2>4. ASSUME NEW o \in BagToSet(requests), NEW result, r = [o EXCEPT !.state = result]
        PROVE  r.req = o.req
    BY <2>4 DEF TInv, RequestInv
  <2>5. QED
    BY <1>2, <2>1, <2>2, <2>3, <2>4, RequestsMove DEF SavesGoBack
<1>3. QED
  BY <1>1, <1>2 DEF SavesGoBack

\* What a form is saved over is what it was loaded from, but for the courses that
\* the property names, however the dialogs, tabs and answers interleave.
THEOREM SavedWhereLoaded == Spec => []SavesGoBack
<1>1. Init => FormInv /\ SavesGoBack
  <2> SUFFICES ASSUME Init PROVE FormInv /\ SavesGoBack
    OBVIOUS
  <2>1. BagToSet(requests) = {}
    BY DEF Init, BagToSet, EmptyBag, SetToBag
  <2>2. None \notin {"saveServerSettings", "saveFileContent"}
    BY SettingsRow, NoneAssumption
  <2>3. QED
    BY <2>1, <2>2 DEF Init, FormInv, SavesGoBack
<1>2. TInv /\ FormInv /\ SavesGoBack /\ [Next]_vars => FormInv' /\ SavesGoBack'
  BY FormStep, SaveStep
<1>3. QED
  BY <1>1, <1>2, Bookkeeping, PTL DEF Spec

-----------------------------------------------------------------------------
(* Flags.                                                                  *)

\* A flag stays up with the request, or the read, that holds it up.
FlagsHeld ==
  \A h \in busy :
    \/ \E r \in BagToSet(requests) : r.req.op = h
    \/ Is("flags") /\ \E r \in BagToSet(reads) : r.by = "fetch"

\* What is under way stays under way until it is answered.
LEMMA ReadsKept ==
  ASSUME TInv, [Next]_vars, NEW y \in BagToSet(reads)
  PROVE  \/ y \in BagToSet(reads')
         \/ Arrive(y) \/ ReadFails(y) \/ FileOpens(y)
         \/ y.version = None /\ [y EXCEPT !.version = version[y.of]] \in BagToSet(reads')
<1> DEFINE Goal == \/ y \in BagToSet(reads')
                   \/ Arrive(y) \/ ReadFails(y) \/ FileOpens(y)
                   \/ y.version = None /\ [y EXCEPT !.version = version[y.of]] \in BagToSet(reads')
           Grown == BagToSet(reads) \subseteq BagToSet(reads')
<1>1. Grown => Goal
  OBVIOUS
<1>2. \A s, by : Reread(s, by) => Grown
  BY Added DEF Reread
<1>3. ASSUME NEW c, NEW s, ReadIf(c, s) PROVE Grown
  BY <1>2, <1>3 DEF ReadIf, Read
<1> USE DEF net, Read
<1>4. ASSUME NEW r \in BagToSet(reads), Serve(r) PROVE Goal
  <2>1. reads' = BagAdd(BagRemove(reads, r), [r EXCEPT !.version = version[r.of]])
        /\ r.version = None
    BY <1>4 DEF Serve
  <2>2. CASE y = r
    BY <2>1, <2>2, Added
  <2>3. CASE y # r
    BY <2>1, <2>3, Added, Removed
  <2>4. QED
    BY <2>2, <2>3
<1>5. ASSUME NEW r \in BagToSet(reads), Arrive(r) \/ ReadFails(r) \/ FileOpens(r) PROVE Goal
  <2>1. reads' = BagRemove(reads, r)
    BY <1>5 DEF Arrive, ReadFails, FileOpens
  <2>2. QED
    BY <1>5, <2>1, Removed
<1>6. ASSUME (\E t \in later : Later(t)) \/ Timer \/ Poll \/ Refresh PROVE Grown
  BY <1>2, <1>6 DEF Later, Timer, Poll, Refresh
<1>7. ASSUME NEW s, Manage(s) \/ OpenTab(s) \/ OpenDetailTab(s) PROVE Grown
  BY <1>3, <1>7 DEF Manage, Select, OpenTab, OpenDetailTab
<1>8. ASSUME NEW h, New(h) \/ EditServer(h) \/ (\E i \in Item : Edit(h, i)) PROVE Grown
  BY <1>8 DEF New, EditServer, Edit, Show
<1>9. ASSUME NEW h, Start(h) \/ Incomplete(h) \/ Ask(h) PROVE Grown
  BY <1>9 DEF Start, Incomplete, Ask
<1>10. ASSUME CopyToTemplate \/ ApplyTemplate \/ Cancel \/ OpenFile \/ Confirm \/ Dismiss
       PROVE  Grown
  BY <1>2, <1>10 DEF CopyToTemplate, ApplyTemplate, Cancel, OpenFile, Confirm, Dismiss, Show
<1>11. ASSUME NEW r, Process(r) \/ Succeeds(r) \/ Refused(r) \/ Lost(r) PROVE Grown
  BY <1>2, <1>11 DEF Process, Succeeds, Refused, Lost
<1>12. ASSUME UNCHANGED vars PROVE Grown
  BY <1>12 DEF vars
<1> HIDE DEF Goal, Grown
<1>13. Goal
  BY <1>1, <1>4, <1>5, <1>6, <1>7, <1>8, <1>9, <1>10, <1>11, <1>12 DEF Next, Answer
<1>14. QED
  BY <1>13 DEF Goal

LEMMA RequestsKept ==
  ASSUME TInv, [Next]_vars, NEW y \in BagToSet(requests)
  PROVE  \/ y \in BagToSet(requests')
         \/ Succeeds(y) \/ Refused(y) \/ Lost(y)
         \/ /\ y.state = "sent"
            /\ \E result \in {"done", "refused"} :
                 [y EXCEPT !.state = result] \in BagToSet(requests')
<1>1. ASSUME NEW h, Start(h) PROVE y \in BagToSet(requests')
  BY <1>1, Added DEF Start, Send
<1>2. ASSUME Confirm PROVE y \in BagToSet(requests')
  BY <1>2, Added DEF Confirm, Send
<1>3. ASSUME NEW r \in BagToSet(requests), Process(r)
      PROVE  \/ y \in BagToSet(requests')
             \/ /\ y.state = "sent"
                /\ \E result \in {"done", "refused"} :
                     [y EXCEPT !.state = result] \in BagToSet(requests')
  <2>1. PICK result \in {"done", "refused"} :
          /\ r.state = "sent"
          /\ requests' = BagAdd(BagRemove(requests, r), [r EXCEPT !.state = result])
    BY <1>3 DEF Process
  <2>2. CASE y = r
    <3>1. [y EXCEPT !.state = result] \in BagToSet(requests')
      BY <2>1, <2>2, Added
    <3>2. QED
      BY <2>1, <2>2, <3>1
  <2>3. CASE y # r
    BY <2>1, <2>3, Added, Removed
  <2>4. QED
    BY <2>2, <2>3
<1>4. ASSUME NEW r \in BagToSet(requests), Succeeds(r) \/ Refused(r) \/ Lost(r)
      PROVE  y \in BagToSet(requests') \/ Succeeds(y) \/ Refused(y) \/ Lost(y)
  <2>1. requests' = BagRemove(requests, r)
    BY <1>4 DEF Succeeds, Refused, Lost, Ends
  <2>2. QED
    BY <1>4, <2>1, Removed
<1>5. QED
  BY <1>1, <1>2, <1>3, <1>4, RequestsQuiet

LEMMA FlagsHeldStep ==
  ASSUME TInv, FlagsHeld, [Next]_vars PROVE FlagsHeld'
<1> DEFINE Held(h) == \/ \E r \in BagToSet(requests') : r.req.op = h
                      \/ Is("flags") /\ \E r \in BagToSet(reads') : r.by = "fetch"
<1>1. ASSUME NEW h \in busy', NEW y \in BagToSet(requests), y.req.op = h PROVE Held(h)
  <2>1. CASE y \in BagToSet(requests')
    BY <1>1, <2>1
  <2>2. CASE Succeeds(y)
    <3>1. Is("flags") /\ Reread(y.req.server, "fetch")
      BY <1>1, <2>2 DEF Succeeds
    <3>2. QED
      BY <3>1, Added DEF Reread
  <2>3. CASE Refused(y) \/ Lost(y)
    BY <1>1, <2>3 DEF Refused, Lost, Ends
  <2>4. ASSUME NEW result, [y EXCEPT !.state = result] \in BagToSet(requests') PROVE Held(h)
    <3>1. [y EXCEPT !.state = result].req = y.req
      BY DEF TInv, RequestInv
    <3>2. QED
      BY <1>1, <2>4, <3>1
  <2>5. QED
    BY <2>1, <2>2, <2>3, <2>4, RequestsKept
<1>2. ASSUME NEW h \in busy', Is("flags"), NEW y \in BagToSet(reads), y.by = "fetch" PROVE Held(h)
  <2>1. CASE y \in BagToSet(reads')
    BY <1>2, <2>1
  <2>2. CASE Arrive(y) \/ ReadFails(y) \/ FileOpens(y)
    BY <1>2, <2>2 DEF Arrive, ReadFails, FileOpens
  <2>3. CASE [y EXCEPT !.version = version[y.of]] \in BagToSet(reads')
    <3>1. [y EXCEPT !.version = version[y.of]].by = y.by
      BY DEF TInv, ReadInv
    <3>2. QED
      BY <1>2, <2>3, <3>1
  <2>4. QED
    BY <2>1, <2>2, <2>3, ReadsKept
<1>3. ASSUME NEW h \in busy', h \notin busy PROVE Held(h)
  <2>1. ASSUME NEW g \in Ours, Start(g) PROVE Held(h)
    <3>1. h = g /\ requests' = BagAdd(requests, [req |-> Request(g), state |-> "sent"])
      BY <1>3, <2>1 DEF Start, Send
    <3>2. Request(g).op = g
      BY DEF Request
    <3>3. QED
      BY <3>1, <3>2, Added
  <2>2. ASSUME NEW r \in BagToSet(requests), Succeeds(r) PROVE Held(h)
    <3>1. Is("flags") /\ Reread(r.req.server, "fetch")
      BY <1>3, <2>2 DEF Succeeds
    <3>2. QED
      BY <3>1, Added DEF Reread
  <2>3. ASSUME NEW r, Refused(r) \/ Lost(r) PROVE FALSE
    BY <1>3, <2>3 DEF Refused, Lost, Ends
  <2>4. QED
    BY <1>3, <2>1, <2>2, <2>3, RequestsQuiet DEF Confirm, Process
<1>4. \A h \in busy' : Held(h)
  BY <1>1, <1>2, <1>3 DEF FlagsHeld
<1>5. QED
  BY <1>4, SameList DEF FlagsHeld, Is

\* No flag stays up without a request, or a read that shares it, under way.
THEOREM FlagsAlwaysComeDown == Spec => []FlagsComeDown
<1>1. Init => FlagsHeld
  BY DEF Init, FlagsHeld
<1>2. TInv /\ FlagsHeld /\ [Next]_vars => FlagsHeld'
  BY FlagsHeldStep
<1>3. FlagsHeld => FlagsComeDown
  BY DEF FlagsHeld, FlagsComeDown, EmptyBag, SetToBag, BagToSet
<1>4. QED
  BY <1>1, <1>2, <1>3, Bookkeeping, PTL DEF Spec

-----------------------------------------------------------------------------
(* One save at a time.                                                     *)

LEMMA OnceStep ==
  ASSUME TInv, OnceInv, [Next]_vars PROVE OnceInv'
<1> DEFINE Once(r, p, b, n) ==
      Does(r.req.op, "flag") =>
        /\ r.req.op \in b /\ n[r] = 1
        /\ \A q \in p : q.req.op = r.req.op => q = r
           Goal == \A r \in BagToSet(requests') : Once(r, BagToSet(requests'), busy', requests')
<1> SUFFICES ASSUME v # "dns" PROVE Goal
  BY SameList DEF OnceInv
<1>1. \A r \in BagToSet(requests) :
        /\ r \in [req: Message, state: {"sent", "done", "refused"}]
        /\ Once(r, BagToSet(requests), busy, requests)
  BY DEF TInv, RequestInv, OnceInv
<1>2. ~Is("flags") /\ Ours \subseteq DOMAIN Row
  BY ListOf
<1>3. ASSUME UNCHANGED <<requests, busy>> PROVE Goal
  BY <1>1, <1>3
<1>4. ASSUME NEW m, requests' = BagAdd(requests, [req |-> m, state |-> "sent"]),
             Does(m.op, "flag") => m.op \notin busy /\ m.op \in busy',
             busy \subseteq busy'
      PROVE  Goal
  <2> DEFINE new == [req |-> m, state |-> "sent"]
  <2>1. /\ BagToSet(requests') = BagToSet(requests) \cup {new} /\ new.req = m
        /\ \A y \in BagToSet(requests) \ {new} : requests'[y] = requests[y]
        /\ new \notin BagToSet(requests) => requests'[new] = 1
    BY <1>4, Added
  <2> HIDE DEF new
  <2>2. CASE Does(m.op, "flag")
    <3>1. \A y \in BagToSet(requests) : y.req.op # m.op
      BY <1>1, <1>4, <2>2
    <3>2. new \notin BagToSet(requests)
      BY <2>1, <3>1
    <3>3. QED
      BY <1>1, <1>4, <2>1, <2>2, <3>1, <3>2
  <2>3. CASE ~Does(m.op, "flag")
    <3>1. \A r \in BagToSet(requests') : Does(r.req.op, "flag") => r \in BagToSet(requests) \ {new}
      BY <2>1, <2>3
    <3>2. \A r \in BagToSet(requests') : Does(r.req.op, "flag") =>
            \A q \in BagToSet(requests') : q.req.op = r.req.op => q \in BagToSet(requests)
      BY <2>1, <2>3
    <3>3. QED
      BY <1>1, <1>4, <2>1, <3>1, <3>2
  <2>4. QED
    BY <2>2, <2>3
<1>5. ASSUME NEW h \in Ours, Start(h) PROVE Goal
  <2>1. /\ requests' = BagAdd(requests, [req |-> Request(h), state |-> "sent"])
        /\ h \notin busy /\ busy' = IF Does(h, "flag") THEN busy \cup {h} ELSE busy
    BY <1>5 DEF Start, Send
  <2>2. Request(h).op = h
    BY DEF Request
  <2>3. QED
    BY <1>4, <2>1, <2>2
<1>6. ASSUME Confirm PROVE Goal
  <2>1. requests' = BagAdd(requests, [req |-> popup, state |-> "sent"]) /\ busy' = busy
    BY <1>6 DEF Confirm, Send
  <2>2. ~Does(popup.op, "flag")
    BY <1>2, <1>6, RowRules DEF Confirm, TInv, PopupInv, Sound, Message
  <2>3. QED
    BY <1>4, <2>1, <2>2
<1>7. ASSUME NEW o \in BagToSet(requests), Process(o) PROVE Goal
  <2>1. PICK result \in {"done", "refused"} :
          requests' = BagAdd(BagRemove(requests, o), [o EXCEPT !.state = result])
    BY <1>7 DEF Process
  <2> DEFINE new == [o EXCEPT !.state = result]
             left == BagRemove(requests, o)
  <2>2. new.req = o.req /\ busy' = busy
    BY <1>1, <1>7 DEF Process
  <2>3. /\ BagToSet(left) \subseteq BagToSet(requests)
        /\ \A y \in BagToSet(requests) \ {o} : left[y] = requests[y]
        /\ requests[o] = 1 => o \notin BagToSet(left)
    BY Removed
  <2>4. /\ BagToSet(requests') = BagToSet(left) \cup {new}
        /\ \A y \in BagToSet(left) \ {new} : requests'[y] = left[y]
        /\ new \notin BagToSet(left) => requests'[new] = 1
    BY <2>1, Added
  <2> HIDE DEF new, left
  <2>5. CASE Does(o.req.op, "flag")
    <3>1. requests[o] = 1 /\ \A y \in BagToSet(requests) : y.req.op = o.req.op => y = o
      BY <1>1, <2>5
    <3>2. \A y \in BagToSet(left) : y \in BagToSet(requests) \ {o} /\ y.req.op # o.req.op
      BY <2>3, <3>1
    <3>3. new \notin BagToSet(left)
      BY <2>2, <3>2
    <3>4. Once(new, BagToSet(requests'), busy', requests')
      BY <1>1, <2>2, <2>4, <3>2, <3>3
    <3>5. \A y \in BagToSet(left) : Once(y, BagToSet(requests'), busy', requests')
      BY <1>1, <2>2, <2>3, <2>4, <3>2, <3>3
    <3>6. QED
      BY <2>4, <3>4, <3>5
  <2>6. CASE ~Does(o.req.op, "flag")
    <3>1. \A y \in BagToSet(requests') : Does(y.req.op, "flag") =>
            /\ y \in BagToSet(requests) \ {o} /\ y \in BagToSet(left) \ {new}
            /\ \A q \in BagToSet(requests') : q.req.op = y.req.op => q \in BagToSet(requests)
      BY <2>2, <2>3, <2>4, <2>6
    <3>2. QED
      BY <1>1, <2>2, <2>3, <2>4, <3>1
  <2>7. QED
    BY <2>5, <2>6
<1>8. ASSUME NEW o \in BagToSet(requests), Succeeds(o) \/ Refused(o) \/ Lost(o) PROVE Goal
  <2>1. requests' = BagRemove(requests, o) /\ busy' = busy \ {o.req.op}
    BY <1>2, <1>8 DEF Succeeds, Refused, Lost, Ends
  <2>2. /\ BagToSet(requests') \subseteq BagToSet(requests)
        /\ \A y \in BagToSet(requests) \ {o} : requests'[y] = requests[y]
        /\ requests[o] = 1 => o \notin BagToSet(requests')
    BY <2>1, Removed
  <2>3. \A y \in BagToSet(requests') : Does(y.req.op, "flag") => y # o /\ y.req.op # o.req.op
    BY <1>1, <2>2
  <2>4. QED
    BY <1>1, <2>1, <2>2, <2>3
<1> HIDE DEF Goal
<1>9. QED
  BY <1>2, <1>3, <1>5, <1>6, <1>7, <1>8, RequestsQuiet

\* A button that a flag disables never has two requests under way, on any list but
\* the DNS records: the popup's requests have no flag, and the panel's answer
\* takes the place of the request it answers.
THEOREM NeverTwoSaves == Spec => []OneSaveAtATime
<1>1. Init => OnceInv
  BY DEF Init, OnceInv, BagToSet, EmptyBag, SetToBag
<1>2. TInv /\ OnceInv /\ [Next]_vars => OnceInv'
  BY OnceStep
<1>3. OnceInv => OneSaveAtATime
  BY DEF OnceInv, OneSaveAtATime
<1>4. QED
  BY <1>1, <1>2, <1>3, Bookkeeping, PTL DEF Spec

-----------------------------------------------------------------------------
(* The page comes to show what the panel has.                              *)

LEMMA SameWords ==
  ASSUME [Next]_vars
  PROVE  /\ \A w : Is(w)' = Is(w)
         /\ \A h, w : Does(h, w)' = Does(h, w)
BY SameList DEF Is, Does

\* An answer on its way is old only if the list was written meanwhile.
LEMMA OutdatedKept ==
  ASSUME TInv, [Next]_vars, Current' = Current, version'[Current] = version[Current], Outdated'
  PROVE  Outdated
<1>1. PICK r \in BagToSet(reads') :
        r.by # "file" /\ r.of = Current /\ r.version # None /\ r.version < version[Current]
  BY DEF Outdated
<1>2. CASE r \in BagToSet(reads)
  BY <1>1, <1>2 DEF Outdated
<1>3. ASSUME NEW s, NEW by, r = [of |-> s, by |-> by, version |-> None] PROVE FALSE
  BY <1>1, <1>3
<1>4. ASSUME NEW o \in BagToSet(reads), r = [o EXCEPT !.version = version[o.of]] PROVE FALSE
  <2>1. r.of = o.of /\ r.version = version[o.of] /\ version[o.of] \in Nat
    BY <1>4 DEF TInv, ReadInv, PanelInv
  <2>2. QED
    BY <1>1, <2>1
<1>5. QED
  BY <1>2, <1>3, <1>4, ReadsMove

\* What will bring the list up to date does, or is still under way, or fails.
LEMMA WitnessKept ==
  ASSUME TInv, [Next]_vars, Current' = Current, version'[Current] = version[Current],
         "stale" \notin faults', ~Is("object"), WillReread \/ WillShow
  PROVE  Good' \/ WillReread' \/ WillShow'
<1>1. \A s, by : Reread(s, by) => [of |-> s, by |-> by, version |-> None] \in BagToSet(reads')
  BY Added DEF Reread
<1>2. ASSUME NEW y \in BagToSet(requests), y.state = "done", y.req.server = Current,
             ~Does(y.req.op, "idle")
      PROVE  WillReread' \/ WillShow'
  <2>1. CASE y \in BagToSet(requests')
    BY <1>2, <2>1, SameWords DEF WillReread
  <2>2. CASE Succeeds(y)
    <3>1. y.req.op \in Ours /\ v \in DOMAIN View /\ y.req.op \in DOMAIN Row
      BY ListOf DEF TInv, RequestInv, Message
    <3>2. Rereads(y.req.op)
      BY <1>2, <3>1, RowRules, OursAreRows, ViewRules DEF Rereads, TInv, Ours
    <3>3. [of |-> Current, by |-> "fetch", version |-> None] \in BagToSet(reads')
      BY <1>1, <1>2, <2>2, <3>2 DEF Succeeds
    <3>4. QED
      BY <3>3 DEF WillShow
  <2>3. ~Refused(y) /\ ~Lost(y)
    BY <1>2 DEF Refused, Lost
  <2>4. QED
    BY <1>2, <2>1, <2>2, <2>3, RequestsKept
<1>3. ASSUME NEW y \in BagToSet(reads), y.by # "file", y.of = Current,
             y.version \in {None, version[Current]}
      PROVE  Good' \/ WillShow'
  <2>1. CASE y \in BagToSet(reads')
    BY <1>3, <2>1 DEF WillShow
  <2>2. CASE Arrive(y)
    BY <1>3, <2>2 DEF Arrive, Good
  <2>3. ~ReadFails(y) /\ ~FileOpens(y)
    BY <1>3 DEF ReadFails, FileOpens
  <2>4. CASE [y EXCEPT !.version = version[y.of]] \in BagToSet(reads')
    <3>1. PICK z : z = [y EXCEPT !.version = version[y.of]]
      OBVIOUS
    <3>2. z.by = y.by /\ z.of = y.of /\ z.version = version[Current]
      BY <1>3, <3>1 DEF TInv, ReadInv
    <3>3. QED
      BY <1>3, <2>4, <3>1, <3>2 DEF WillShow
  <2>5. QED
    BY <2>1, <2>2, <2>3, <2>4, ReadsKept
<1>4. QED
  BY <1>2, <1>3 DEF WillReread, WillShow

\* A step that leaves alone what is shown, what should be and when.
Steady ==
  /\ Current' = Current /\ version'[Current] = version[Current] /\ shown' = shown
  /\ Due' => Due
  /\ faults \cap {"stale", "unread"} \subseteq faults'
  /\ "unread" \in faults' => "unread" \in faults

LEMMA SteadyStep ==
  ASSUME TInv, ShownInv, [Next]_vars, Steady PROVE ShownInv'
<1>1. "unread" \in faults' => Is("click")' /\ ~Is("select")'
  BY SameWords DEF ShownInv, Steady
<1>2. ASSUME shown' # Unread' \/ Outdated', faults' \cap {"stale", "unread"} = {}, Due'
      PROVE  Good' \/ WillReread' \/ WillShow'
  <2>1. shown # Unread \/ Outdated
    BY <1>2, OutdatedKept DEF Steady, Unread
  <2>2. Good \/ WillReread \/ WillShow
    BY <1>2, <2>1 DEF ShownInv, Steady
  <2>3. Good => Good'
    BY DEF Steady, Good
  <2>4. ~Is("object")
    BY <1>2 DEF Steady, Due
  <2>5. QED
    BY <1>2, <2>2, <2>3, <2>4, WitnessKept DEF Steady
<1>3. Is("object")' => shown' = Unread'
  BY SameWords DEF ShownInv, Steady, Unread
<1>4. QED
  BY <1>1, <1>2, <1>3 DEF ShownInv

\* An old answer that comes is one of those for whose sake the list is read
\* again, and is not put in the place of a newer one.
LEMMA ArriveShows ==
  ASSUME TInv, ShownInv, [Next]_vars, NEW r \in BagToSet(reads), Arrive(r)
  PROVE  ShownInv'
<1>1. Current' = Current /\ version' = version /\ (Due' <=> Due)
  BY SameWords DEF Arrive, nav, Current, Due
<1>2. "unread" \in faults' => Is("click")' /\ ~Is("select")'
  BY SameWords DEF Arrive, ShownInv
<1>3. ASSUME "stale" \notin faults', "unread" \notin faults', Due'
      PROVE  Good' \/ WillReread' \/ WillShow'
  <2> ~Is("object")
    BY <1>1, <1>3 DEF Due
  <2>1. CASE r.of = Current /\ r.version = version[r.of]
    BY <1>1, <2>1 DEF Arrive, Good
  <2>2. CASE /\ r.of = Current /\ r.version < version[r.of]
             /\ shown.of = Current => shown.version <= r.version
             /\ UNCHANGED faults
    <3>1. Outdated
      BY <2>2 DEF Arrive, Outdated
    <3>2. r.version \in Nat /\ version[Current] \in Nat /\ shown.version \in Nat
      <4>1. r.of \in Place /\ r.version \in Nat \cup {None} /\ r.version # None
        BY DEF Arrive, TInv, ReadInv
      <4>2. QED
        BY <2>2, <4>1 DEF TInv, PanelInv
    <3>3. ~Good
      BY <2>2, <3>2 DEF Good
    <3>4. WillReread \/ WillShow
      BY <1>1, <1>3, <2>2, <3>1, <3>3 DEF ShownInv
    <3>5. QED
      BY <1>1, <1>3, <3>4, WitnessKept
  <2>3. QED
    BY <1>3, <2>1, <2>2 DEF Arrive
<1>4. Is("object")' => shown' = Unread'
  BY SameWords DEF Arrive, Unread
<1>5. QED
  BY <1>2, <1>3, <1>4 DEF ShownInv

\* A server that is selected, or a tab that is opened, makes the page read what
\* it needs, or is left to a click.
LEMMA ReadShows ==
  ASSUME [Next]_vars, Read(Current', "fetch")
  PROVE  WillShow'
<1>1. PICK z : z = [of |-> Current', by |-> "fetch", version |-> None]
  OBVIOUS
<1>2. z \in BagToSet(reads')
  BY <1>1, Added DEF Read, Reread
<1>3. z.by = "fetch" /\ z.of = Current' /\ z.version = None
  BY <1>1
<1>4. QED
  BY <1>2, <1>3 DEF WillShow

LEMMA ManageShows ==
  ASSUME TInv, ShownInv, [Next]_vars, NEW s \in Server, Manage(s)
  PROVE  ShownInv'
<1>1. /\ selected' = s /\ detail' = detail /\ version' = version /\ shown' = shown
      /\ faults' = IF Is("click") /\ ~Is("select") THEN faults \cup {"unread"} ELSE faults
      /\ ReadIf(Is("select") /\ (v \in {"header", "files"} \/ detail \in View[v].read), s)
  BY DEF Manage, Select
<1>2. /\ Is("server") => Is("select") \/ Is("click")
      /\ ~Is("server") => ~Is("click")
  BY ViewRules DEF TInv
<1>3. v' = v /\ (Is("object")' => shown' = Unread')
  BY <1>1, SameList, SameWords DEF ShownInv, Unread
<1>4. CASE ~Is("server")
  <2>1. Steady
    BY <1>1, <1>2, <1>4, SameWords DEF Steady, Current, Due
  <2>2. QED
    BY <2>1, SteadyStep
<1>5. CASE Is("server")
  <2>1. "unread" \in faults' => Is("click")' /\ ~Is("select")'
    BY <1>1, SameWords DEF ShownInv
  <2>2. ASSUME "unread" \notin faults', Due' PROVE WillShow'
    <3>1. Is("select")
      BY <1>1, <1>2, <1>5, <2>2
    <3>2. v \in {"header", "files"} \/ detail \in View[v].read
      BY <1>1, <1>3, <1>5, <2>2, <3>1, SameWords DEF Due
    <3>3. Read(s, "fetch") /\ Current' = s
      BY <1>1, <1>5, <3>1, <3>2, SameWords DEF ReadIf, Current
    <3>4. QED
      BY <3>3, ReadShows
  <2>3. QED
    BY <1>3, <2>1, <2>2 DEF ShownInv
<1>6. QED
  BY <1>4, <1>5

LEMMA DetailTabShows ==
  ASSUME TInv, ShownInv, [Next]_vars, NEW t, OpenDetailTab(t)
  PROVE  ShownInv'
<1> DEFINE ours == t \in View[v].detailTabs
           reading == \/ Is("server") /\ t # detail /\ t \in View[v].read
                      \/ Is("click") /\ ours
<1>1. /\ selected # None /\ selected' = selected /\ detail' = t
      /\ version' = version /\ shown' = shown
      /\ faults' = IF ours THEN faults \ {"unread"} ELSE faults
      /\ ReadIf(reading, selected)
  BY DEF OpenDetailTab
<1>2. ~Is("server") => ~Is("click")
  BY ViewRules DEF TInv
<1>3. v' = v /\ Current' = Current /\ (Is("object")' => shown' = Unread')
  BY <1>1, SameList, SameWords DEF Current, ShownInv, Unread
<1>4. CASE reading
  <2>1. Read(Current', "fetch")
    BY <1>1, <1>2, <1>3, <1>4 DEF ReadIf, Current
  <2>2. WillShow'
    BY <2>1, ReadShows
  <2>3. "unread" \in faults' => Is("click")' /\ ~Is("select")'
    BY <1>1, SameWords DEF ShownInv
  <2>4. QED
    BY <1>3, <2>2, <2>3 DEF ShownInv
<1>5. CASE ~reading
  <2>1. Due' => Due
    BY <1>1, <1>3, <1>5, SameWords DEF Due
  <2>2. faults' = faults
    BY <1>1, <1>5 DEF ShownInv
  <2>3. QED
    BY <1>1, <1>3, <2>1, <2>2, SteadyStep DEF Steady
<1>6. QED
  BY <1>4, <1>5

LEMMA TabShows ==
  ASSUME TInv, ShownInv, [Next]_vars, NEW t, OpenTab(t)
  PROVE  ShownInv'
<1>1. selected' = None /\ detail' = detail /\ UNCHANGED panel
  BY DEF OpenTab
<1>2. CASE Is("server")
  <2>1. ~Due'
    BY <1>1, <1>2, SameWords DEF Due
  <2>2. QED
    BY <1>1, <2>1, SameWords DEF ShownInv, panel, Unread
<1>3. CASE ~Is("server")
  <2>1. Steady
    BY <1>1, <1>3, SameWords DEF Steady, Current, Due, panel
  <2>2. QED
    BY <2>1, SteadyStep
<1>4. QED
  BY <1>2, <1>3

\* What the panel does is read again once its answer comes.
LEMMA ProcessShows ==
  ASSUME TInv, ShownInv, [Next]_vars, NEW r \in BagToSet(requests), Process(r)
  PROVE  ShownInv'
<1>1. UNCHANGED <<selected, detail, shown, faults>>
  BY DEF Process, nav
<1>2. Current' = Current /\ (Due' <=> Due)
  BY <1>1, SameList, SameWords DEF Current, Due
<1>3. PICK result \in {"done", "refused"} :
        /\ requests' = BagAdd(BagRemove(requests, r), [r EXCEPT !.state = result])
        /\ IF result = "done" /\ ~Does(r.req.op, "idle")
           THEN version' = [version EXCEPT ![r.req.server] = @ + 1]
           ELSE UNCHANGED version
  BY DEF Process
<1>4. CASE version'[Current] = version[Current]
  BY <1>1, <1>2, <1>4, SteadyStep DEF Steady
<1>5. CASE ~Due
  BY <1>1, <1>2, <1>5, SameWords DEF ShownInv, Unread
<1>6. CASE Due /\ version'[Current] # version[Current]
  <2>1. Current \in Place
    BY <1>6 DEF Due, Current, Place, TInv, TypeOK
  <2>2. result = "done" /\ ~Does(r.req.op, "idle") /\ r.req.server = Current
    BY <1>3, <1>6, <2>1 DEF TInv, PanelInv
  <2>3. PICK q : q = [r EXCEPT !.state = "done"]
    OBVIOUS
  <2>4. q.state = "done" /\ q.req = r.req
    BY <2>3 DEF TInv, RequestInv
  <2>5. q \in BagToSet(requests')
    BY <1>3, <2>2, <2>3, Added
  <2>6. WillReread'
    BY <1>2, <2>2, <2>4, <2>5, SameWords DEF WillReread
  <2>7. QED
    BY <1>1, <2>6, SameWords DEF ShownInv, Unread
<1>7. QED
  BY <1>4, <1>5, <1>6

\* The handlers that leave a server's page or select another one are those of
\* the list of servers, which is read whatever is selected.
LEMMA SucceedsSteady ==
  ASSUME TInv, [Next]_vars, NEW r \in BagToSet(requests), Succeeds(r)
  PROVE  Steady
<1> DEFINE h == r.req.op
<1>1. h \in Ours /\ h \in DOMAIN Row /\ v \in DOMAIN View
  BY ListOf DEF TInv, RequestInv, Message
<1>2. Moves(h, r.req.server) /\ UNCHANGED <<detail, version, shown>>
  BY DEF Succeeds
<1>3. Is("server") => ~Does(h, "leaves") /\ ~Does(h, "reselects")
  BY <1>1, RowRules, OursAreRows, ViewRules DEF TInv, Ours
<1>4. Is("server") => selected' = selected
  BY <1>2, <1>3 DEF Moves
<1>5. Current' = Current /\ (Due' <=> Due)
  BY <1>2, <1>4, SameList, SameWords DEF Current, Due
<1>6. faults' \in {faults, faults \cup {"mixed"}}
  BY <1>2 DEF Moves
<1>7. QED
  BY <1>2, <1>5, <1>6 DEF Steady

LEMMA ShownStep ==
  ASSUME TInv, ShownInv, [Next]_vars PROVE ShownInv'
<1> DEFINE Still == /\ UNCHANGED <<selected, detail, version, shown>>
                    /\ faults \subseteq faults' /\ ("unread" \in faults' => "unread" \in faults)
<1>1. Still => ShownInv'
  <2>1. Still => Steady
    BY SameList, SameWords DEF Steady, Current, Due
  <2>2. QED
    BY <2>1, SteadyStep
<1> USE DEF nav, net, panel
<1>2. ASSUME NEW r \in BagToSet(reads), Serve(r) \/ ReadFails(r) \/ FileOpens(r) PROVE Still
  BY <1>2 DEF Serve, ReadFails, FileOpens
<1>3. ASSUME (\E t \in later : Later(t)) \/ Timer \/ Poll \/ Refresh PROVE Still
  BY <1>3 DEF Later, Timer, Poll, Refresh
<1>4. ASSUME NEW h, New(h) \/ EditServer(h) \/ (\E i \in Item : Edit(h, i)) PROVE Still
  BY <1>4 DEF New, EditServer, Edit, Show
<1>5. ASSUME NEW h, Start(h) \/ Incomplete(h) \/ Ask(h) PROVE Still
  BY <1>5 DEF Start, Incomplete, Ask
<1>6. ASSUME CopyToTemplate \/ ApplyTemplate \/ Cancel \/ OpenFile \/ Confirm \/ Dismiss
      PROVE  Still
  BY <1>6 DEF CopyToTemplate, ApplyTemplate, Cancel, OpenFile, Confirm, Dismiss, Show
<1>7. ASSUME NEW r, Refused(r) \/ Lost(r) PROVE Still
  BY <1>7 DEF Refused, Lost
<1>8. ASSUME UNCHANGED vars PROVE Still
  BY <1>8 DEF vars
<1>9. ASSUME NEW r \in BagToSet(requests), Succeeds(r) PROVE ShownInv'
  BY <1>9, SucceedsSteady, SteadyStep
<1> HIDE DEF Still
<1>10. QED
  BY <1>1, <1>2, <1>3, <1>4, <1>5, <1>6, <1>7, <1>8, <1>9, ArriveShows, ManageShows,
     DetailTabShows, TabShows, ProcessShows DEF Next, Answer

\* When nothing is under way, a list that is on the page is as the panel has it,
\* but for the faults that ShowsThePanel names: whatever was written, read,
\* selected and opened before, and in whatever order the answers came.  A list
\* whose answer the page does not take for one is never on it.
THEOREM PageFollowsPanel == Spec => []ShowsThePanel
<1>1. Init => ShownInv
  <2> SUFFICES ASSUME Init PROVE ShownInv
    OBVIOUS
  <2>1. BagToSet(reads) = {}
    BY DEF Init, BagToSet, EmptyBag, SetToBag
  <2>2. ~Outdated
    BY <2>1 DEF Outdated
  <2>3. faults = {} /\ version = [s \in Place |-> 0]
    BY DEF Init, Place
  <2>4. shown # Unread => shown = [of |-> Panel, version |-> 0] /\ ~Is("server")
    BY ViewRules DEF Init
  <2>5. shown # Unread => Good
    BY <2>3, <2>4 DEF Good, Current, Place
  <2>6. Is("object") => shown = Unread
    BY ViewRules DEF Init
  <2>7. QED
    BY <2>2, <2>3, <2>5, <2>6 DEF ShownInv
<1>2. TInv /\ ShownInv /\ [Next]_vars => ShownInv'
  BY ShownStep
<1>3. TInv /\ ShownInv => ShowsThePanel
  <2> SUFFICES ASSUME TInv, ShownInv, Visible, shown # Unread, requests = EmptyBag,
                      reads = EmptyBag, faults \subseteq {"mixed"}
               PROVE  Good
    BY DEF ShowsThePanel, Good
  <2>1. BagToSet(requests) = {} /\ BagToSet(reads) = {}
    BY DEF BagToSet, EmptyBag, SetToBag
  <2>2. Due
    BY ViewRules DEF TInv, Due, ShownInv
  <2>3. QED
    BY <2>1, <2>2 DEF ShownInv, WillReread, WillShow
<1>4. QED
  BY <1>1, <1>2, <1>3, Bookkeeping, PTL DEF Spec

=============================================================================
