---------------------------- MODULE WidgetVersions ----------------------------
(***************************************************************************)
(* The versions of a bot's chat widget: WidgetVersionService, called by    *)
(* administrators (create, edit, publish, roll back, archive, delete a     *)
(* version; change the settings of the active one) and by the visitors'    *)
(* browsers, which ask for the active version through a cache.             *)
(*                                                                         *)
(* Nothing is done in a transaction.  save(copy) writes every column in    *)
(* which the copy differs from the row as it is then: it makes the row     *)
(* equal to the copy, and inserts it again if it has been removed.  A      *)
(* request that fails leaves what it has saved before.  Of the config only *)
(* its identity is kept, and version numbers are not used a second time.   *)
(***************************************************************************)
EXTENDS Naturals

CONSTANTS Versions,      \* ids of the widget_version rows of one bot
          NoVersion,     \* no version
          Configs,       \* configs a version may have
          NoConfig,      \* no config
          Admins,        \* administrators; each waits for its answers
          Visitors,      \* browsers that ask for the widget
          MaxRequests,   \* bound on the administrators' requests
          MaxFaults      \* bound on the calls that fail

ASSUME WidgetAssumption ==
    /\ NoVersion \notin Versions /\ NoConfig \notin Configs
    /\ Admins \cap Visitors = {}
    /\ MaxRequests \in Nat /\ MaxFaults \in Nat

VARIABLES row,           \* the widget_version table
          activeId,      \* activeVersionId of the bot
          lastDeployed,  \* widgetVersionId of the deployment saved last
          cache,         \* the entry widget:active:<bot>
          pc,            \* where a request is
          op,            \* what an administrator asked for
          target,        \* the version it is about
          copy,          \* the copy of the target's row it holds
          found,         \* the active version a request found, with its row
          requests,      \* requests of administrators so far
          overlapped,    \* two of them have been in progress at once
          faults         \* calls that failed so far

dbVars == <<row, activeId, lastDeployed>>
requestVars == <<pc, op, target, copy, found>>
vars == <<dbVars, cache, requestVars, requests, overlapped, faults>>

Actors == Admins \cup Visitors
Ops == {"create", "settings", "update", "publish", "rollback", "archive", "delete"}

(* "none": not created yet; "gone": removed.                               *)
Rows == [status : {"none", "draft", "published", "archived", "gone"},
         isActive : BOOLEAN, config : Configs \cup {NoConfig}]
NoRow(s) == [status |-> s, isActive |-> FALSE, config |-> NoConfig]
Exists(v) == row[v].status \notin {"none", "gone"}

(* What findOne, or the cache, returns for the active version.             *)
Finds == [id : Versions \cup {NoVersion}, row : Rows]
Nothing == [id |-> NoVersion, row |-> NoRow("none")]
Find(v) == [id |-> v, row |-> row[v]]

TypeOK ==
    /\ row \in [Versions -> Rows]
    /\ activeId \in Versions \cup {NoVersion}
    /\ lastDeployed \in Versions \cup {NoVersion}
    /\ cache \in Finds
    /\ pc \in [Actors -> {"idle", "ask", "fill", "insert", "find", "change",
                          "findActive", "deactivate", "activate", "syncBot",
                          "deploy", "invalidate"}]
    /\ op \in [Admins -> Ops \cup {"none"}]
    /\ \A a \in Admins : pc[a] = "idle" <=> op[a] = "none"
    /\ target \in [Admins -> Versions \cup {NoVersion}]
    /\ copy \in [Admins -> Rows]
    /\ found \in [Actors -> Finds]
    /\ requests \in 0 .. MaxRequests
    /\ overlapped \in BOOLEAN
    /\ faults \in 0 .. MaxFaults

Init ==
    /\ row = [v \in Versions |-> NoRow("none")]
    /\ activeId = NoVersion /\ lastDeployed = NoVersion
    /\ cache = Nothing
    /\ pc = [p \in Actors |-> "idle"]
    /\ op = [a \in Admins |-> "none"]
    /\ target = [a \in Admins |-> NoVersion]
    /\ copy = [a \in Admins |-> NoRow("none")]
    /\ found = [p \in Actors |-> Nothing]
    /\ requests = 0 /\ overlapped = FALSE /\ faults = 0

countVars == <<requests, overlapped, faults>>

Goto(p, place) == pc' = [pc EXCEPT ![p] = place]

(* The request of a is answered, or throws.                                *)
Done(a) ==
    /\ Goto(a, "idle")
    /\ op' = [op EXCEPT ![a] = "none"]
    /\ target' = [target EXCEPT ![a] = NoVersion]
    /\ copy' = [copy EXCEPT ![a] = NoRow("none")]
    /\ found' = [found EXCEPT ![a] = Nothing]

Save(v, r) == row' = [row EXCEPT ![v] = r]

-------------------------------------------------------------------------------
(* The endpoints are called with the id of a version there is or was.      *)
Request(a, o, v) ==
    /\ pc[a] = "idle" /\ requests < MaxRequests
    /\ IF o \in {"create", "settings"} THEN v = NoVersion
                                       ELSE v \in Versions /\ row[v].status # "none"
    /\ Goto(a, IF o = "create" THEN "insert" ELSE IF o = "settings" THEN "ask" ELSE "find")
    /\ op' = [op EXCEPT ![a] = o]
    /\ target' = [target EXCEPT ![a] = v]
    /\ requests' = requests + 1
    /\ overlapped' = (overlapped \/ \E b \in Admins \ {a} : pc[b] # "idle")
    /\ UNCHANGED <<dbVars, cache, copy, found, faults>>

-------------------------------------------------------------------------------
(* getActiveVersion, for a visitor or for a change of the settings.        *)

Asks(p) == IF p \in Visitors THEN pc[p] = "idle" ELSE pc[p] = "ask"
Asked(p) == IF p \in Visitors THEN Goto(p, "idle") ELSE Goto(p, "insert")

(* The cache has no entry, and the database has an active version.         *)
ReadActive(p, v) ==
    /\ Asks(p) /\ cache = Nothing
    /\ row[v].isActive /\ row[v].status = "published"
    /\ found' = [found EXCEPT ![p] = Find(v)]
    /\ Goto(p, "fill")
    /\ UNCHANGED <<dbVars, cache, op, target, copy, countVars>>

FillCache(p) ==
    /\ pc[p] = "fill"
    /\ cache' = found[p]
    /\ found' = [found EXCEPT ![p] = Nothing]
    /\ Asked(p)
    /\ UNCHANGED <<dbVars, op, target, copy, countVars>>

(* A change of the settings goes on from a cached version, or, in          *)
(* BotAppearanceService and at the creation of a bot, from none.           *)
AskSettings(a) ==
    /\ pc[a] = "ask"
    /\ cache # Nothing \/ ~ \E v \in Versions : row[v].isActive /\ row[v].status = "published"
    /\ Goto(a, "insert")
    /\ UNCHANGED <<dbVars, cache, op, target, copy, found, countVars>>

(* The entry lives for 300 time units.                                     *)
Expire ==
    /\ cache # Nothing
    /\ cache' = Nothing
    /\ UNCHANGED <<dbVars, requestVars, countVars>>

-------------------------------------------------------------------------------
(* createVersion, or the draft updateActiveVersionConfig publishes next.   *)
InsertDraft(a, v, k) ==
    /\ pc[a] = "insert" /\ row[v].status = "none"
    /\ Save(v, [status |-> "draft", isActive |-> FALSE, config |-> k])
    /\ \/ op[a] = "create" /\ Done(a)
       \/ /\ op[a] = "settings" /\ Goto(a, "find")
          /\ target' = [target EXCEPT ![a] = v]
          /\ UNCHANGED <<op, copy, found>>
    /\ UNCHANGED <<activeId, lastDeployed, cache, countVars>>

(* Mutants: what an endpoint does not check.                               *)
AcceptsArchive(o, r) ==
    CASE o \in {"publish", "settings"} -> ~ (r.status = "published" /\ r.isActive)
      [] o = "rollback" -> r.status = "published" /\ ~ r.isActive
      [] o \in {"update", "delete"} -> r.status = "draft"
      [] o = "archive" -> TRUE
AcceptsUpdate(o, r) ==
    CASE o \in {"publish", "settings"} -> ~ (r.status = "published" /\ r.isActive)
      [] o = "rollback" -> r.status = "published" /\ ~ r.isActive
      [] o = "delete" -> r.status = "draft"
      [] o = "archive" -> ~ r.isActive
      [] o = "update" -> TRUE

(* Which rows an endpoint goes on with.                                    *)
Accepts(o, r) ==
    CASE o \in {"publish", "settings"} -> ~ (r.status = "published" /\ r.isActive)
      [] o = "rollback" -> r.status = "published" /\ ~ r.isActive
      [] o \in {"update", "delete"} -> r.status = "draft"
      [] o = "archive" -> ~ r.isActive

FindVersion(a) ==
    /\ pc[a] = "find"
    /\ IF Exists(target[a]) /\ Accepts(op[a], row[target[a]])
         THEN /\ copy' = [copy EXCEPT ![a] = row[target[a]]]
              /\ Goto(a, IF op[a] \in {"update", "archive", "delete"} THEN "change"
                                                                      ELSE "findActive")
              /\ UNCHANGED <<op, target, found>>
         ELSE Done(a)
    /\ UNCHANGED <<dbVars, cache, countVars>>

(* The save of updateVersion and archiveVersion, with the copy read before.*)
SaveChange(a) ==
    /\ pc[a] = "change"
    /\ \/ op[a] = "update" /\ \E k \in Configs : Save(target[a], [copy[a] EXCEPT !.config = k])
       \/ op[a] = "archive" /\ Save(target[a], [copy[a] EXCEPT !.status = "archived"])
    /\ Done(a)
    /\ UNCHANGED <<activeId, lastDeployed, cache, countVars>>

(* remove deletes by id.  The bot's foreign key refuses its own version.   *)
RemoveVersion(a) ==
    /\ pc[a] = "change" /\ op[a] = "delete"
    /\ IF activeId = target[a] THEN UNCHANGED row ELSE Save(target[a], NoRow("gone"))
    /\ Done(a)
    /\ UNCHANGED <<activeId, lastDeployed, cache, countVars>>

-------------------------------------------------------------------------------
(* publishVersion and rollbackVersion.                                     *)

FindActive(a) ==
    /\ pc[a] = "findActive"
    /\ \/ \E v \in Versions :
              /\ row[v].isActive
              /\ found' = [found EXCEPT ![a] = Find(v)]
              /\ Goto(a, "deactivate")
       \/ /\ \A v \in Versions : ~ row[v].isActive
          /\ Goto(a, "activate")
          /\ UNCHANGED found
    /\ UNCHANGED <<dbVars, cache, op, target, copy, countVars>>

(* Mutant: the version that was active is put away.                        *)
DeactivateArchive(a) ==
    /\ pc[a] = "deactivate"
    /\ Save(found[a].id, [found[a].row EXCEPT !.isActive = FALSE, !.status = "archived"])
    /\ Goto(a, "activate")
    /\ UNCHANGED <<activeId, lastDeployed, cache, op, target, copy, found, countVars>>

(* Mutant: the version that was active stays so.                           *)
DeactivateNot(a) ==
    /\ pc[a] = "deactivate"
    /\ Goto(a, "activate")
    /\ UNCHANGED <<dbVars, cache, op, target, copy, found, countVars>>

Deactivate(a) ==
    /\ pc[a] = "deactivate"
    /\ Save(found[a].id, [found[a].row EXCEPT !.isActive = FALSE])
    /\ Goto(a, "activate")
    /\ UNCHANGED <<activeId, lastDeployed, cache, op, target, copy, found, countVars>>

Activate(a) ==
    /\ pc[a] = "activate"
    /\ Save(target[a], [copy[a] EXCEPT !.status = "published", !.isActive = TRUE])
    /\ Goto(a, IF op[a] = "rollback" THEN "deploy" ELSE "syncBot")
    /\ UNCHANGED <<activeId, lastDeployed, cache, op, target, copy, found, countVars>>

(* A foreign key refuses a version that has been removed.                  *)
SyncBot(a) ==
    /\ pc[a] = "syncBot"
    /\ IF Exists(target[a])
         THEN activeId' = target[a] /\ Goto(a, "deploy") /\ UNCHANGED <<op, target, copy, found>>
         ELSE Done(a) /\ UNCHANGED activeId
    /\ UNCHANGED <<row, lastDeployed, cache, countVars>>

(* Mutant: a rollback is not recorded.                                     *)
SaveDeploymentPublish(a) ==
    /\ pc[a] = "deploy"
    /\ IF Exists(target[a])
         THEN /\ lastDeployed' = IF op[a] = "rollback" THEN lastDeployed ELSE target[a]
              /\ Goto(a, "invalidate") /\ UNCHANGED <<op, target, copy, found>>
         ELSE Done(a) /\ UNCHANGED lastDeployed
    /\ UNCHANGED <<row, activeId, cache, countVars>>

SaveDeployment(a) ==
    /\ pc[a] = "deploy"
    /\ IF Exists(target[a])
         THEN /\ lastDeployed' = target[a]
              /\ Goto(a, "invalidate") /\ UNCHANGED <<op, target, copy, found>>
         ELSE Done(a) /\ UNCHANGED lastDeployed
    /\ UNCHANGED <<row, activeId, cache, countVars>>

(* Mutant: the request is answered and stays open.                         *)
InvalidateOpen(a) ==
    /\ pc[a] = "invalidate"
    /\ cache' = Nothing
    /\ Goto(a, "idle")
    /\ UNCHANGED <<dbVars, op, target, copy, found, countVars>>

Invalidate(a) ==
    /\ pc[a] = "invalidate"
    /\ cache' = Nothing
    /\ Done(a)
    /\ UNCHANGED <<dbVars, countVars>>

-------------------------------------------------------------------------------
(* A call of a request fails, or its process dies.                         *)
Throw(a) ==
    /\ pc[a] # "idle"
    /\ faults < MaxFaults /\ faults' = faults + 1
    /\ Done(a)
    /\ UNCHANGED <<dbVars, cache, requests, overlapped>>

AdminStep(a) ==
    \/ \E o \in Ops, v \in Versions \cup {NoVersion} : Request(a, o, v)
    \/ AskSettings(a)
    \/ \E v \in Versions, k \in Configs : InsertDraft(a, v, k)
    \/ FindVersion(a) \/ SaveChange(a) \/ RemoveVersion(a)
    \/ FindActive(a) \/ Deactivate(a) \/ Activate(a) \/ SyncBot(a)
    \/ SaveDeployment(a) \/ Invalidate(a) \/ Throw(a)

Next ==
    \/ \E a \in Admins : AdminStep(a)
    \/ \E p \in Actors : FillCache(p) \/ \E v \in Versions : ReadActive(p, v)
    \/ Expire

Spec == Init /\ [][Next]_vars

-------------------------------------------------------------------------------
(* Properties.  Without a lock, most of what the service promises depends  *)
(* on requests that do not overlap; the failures of single calls, and the  *)
(* visitors, are in all of them.                                           *)

(* A version that is active is published, in every order of overlapping    *)
(* saves of old copies: archiving or editing never leaves one behind that  *)
(* getActiveVersion would not find.                                        *)
ActiveIsPublished ==
    \A v \in Versions : row[v].isActive => row[v].status = "published"

(* At no time, and after no failure between the two saves of a publication *)
(* or a rollback, are two versions active.                                 *)
OneActive ==
    ~ overlapped =>
        \A v, w \in Versions : row[v].isActive /\ row[w].isActive => v = w

(* What visitors get from the cache, however old the read it was filled    *)
(* with, is a version that still exists, as it was published.              *)
CacheIsPublished ==
    ~ overlapped /\ cache # Nothing =>
        /\ row[cache.id].status \in {"published", "archived"}
        /\ row[cache.id].config = cache.row.config

(* Between requests, if none has failed, the active version is the one the *)
(* deployment history names last, and there is one as soon as there is a   *)
(* deployment.                                                             *)
HistoryNamesActive ==
    ~ overlapped /\ faults = 0 /\ (\A a \in Admins : pc[a] = "idle") =>
        \A v \in Versions : row[v].isActive <=> v = lastDeployed

-------------------------------------------------------------------------------
(* What administrators and visitors see.  A version that a publication has *)
(* deactivated stays live until the new one is activated.                  *)
Publication == INSTANCE WidgetPublication WITH
    live   <- {v \in Versions : \/ row[v].isActive
                                \/ \E a \in Admins : pc[a] = "activate" /\ found[a].id = v},
    status <- [v \in Versions |-> row[v].status],
    config <- [v \in Versions |-> row[v].config],
    shown  <- IF cache = Nothing THEN {} ELSE {<<cache.id, cache.row.config>>}

(* As long as requests do not overlap, the service publishes, edits and    *)
(* archives versions in single steps, whatever fails between its saves.    *)
ImplementsPublication ==
    /\ Publication!Init
    /\ [][overlapped' \/ Publication!Next]_(Publication!vars)
===============================================================================
