------------------------------- MODULE FileStore -------------------------------
(***************************************************************************)
(* Uploaded files and the rows that refer to them by url: the table of     *)
(* files, the MinIO store, the services that confirm and delete files when *)
(* an avatar, a thumbnail, an icon is changed, and the nightly job that    *)
(* removes files nobody has confirmed.                                     *)
(*                                                                         *)
(* An owner is one column that holds a url: the avatar of a user, the      *)
(* thumbnail of a template, or a column of the Keepers, which confirm new  *)
(* files and never delete old ones: the avatar of a bot, the icon of a     *)
(* category, the icon or the cover of a creation tool.  The list of media  *)
(* of a template is left out.                                              *)
(* An owner without a file may also be one that has not been created.      *)
(* Rows of owners are deleted softly and keep their url: that is left out. *)
(***************************************************************************)
EXTENDS Naturals

CONSTANTS Files, NoFile,   \* ids of the files
          Users, Templates, Keepers,   \* the owners, by service
          NoOwner,
          Clients,         \* browsers
          Cron,            \* the nightly job
          Stuck,           \* files that the store refuses to remove
          MaxRequests,     \* bound on the requests
          MaxFaults        \* bound on calls that fail and on crashes

Owners == Users \cup Templates \cup Keepers
Actors == Clients \cup {Cron}

ASSUME FileAssumption ==
    /\ NoFile \notin Files /\ Stuck \subseteq Files
    /\ NoOwner \notin Owners \cup Files /\ Cron \notin Clients
    /\ Users \cap (Templates \cup Keepers) = {} /\ Templates \cap Keepers = {}
    /\ Owners \cap Files = {}
    /\ MaxRequests \in Nat /\ MaxFaults \in Nat

VARIABLES row,       \* a file's row: temporary, kept, deleted
          object,    \* what the store has under its key
          old,       \* the files created more than a day ago
          ref,       \* the url each owner holds
          pc, target,      \* where a request or the job is, and what it deletes
          owner, op, wish, \* what a request is about, and the url it sends
          before, copy,    \* the url it has read, and the one it will save, then confirm
          todo,      \* the files the job has listed and not come to
          claimed,   \* the owner a file was first given to
          exposed,   \* owners and files whose use was not protected (see below)
          requests, faults   \* how many so far

historyVars == <<claimed, exposed, requests>>
requestVars == <<owner, op, wish, before, copy>>
fileVars == <<row, object, old>>
vars == <<fileVars, ref, pc, target, requestVars, todo, historyVars, faults>>

MaybeFile == Files \cup {NoFile}
Confirming == {"confirm", "keep", "confirm again", "keep again"}
Deleting == {"find", "remove", "drop"}

TypeOK ==
    /\ row \in [Files -> {"unused", "temp", "kept", "deleted"}]
    /\ object \in [Files -> {"none", "stored", "removed"}]
    /\ old \subseteq Files
    /\ ref \in [Owners -> MaybeFile]
    /\ pc \in [Actors -> {"idle", "read", "load", "save", "reread"} \cup Confirming
                            \cup Deleting]
    /\ target \in [Actors -> MaybeFile]
    /\ owner \in [Clients -> Owners \cup {NoOwner}]
    /\ op \in [Clients -> {"create", "set", "touch", "flag", "bulk", "discard"}]
    /\ wish \in [Clients -> MaybeFile]
    /\ before \in [Clients -> MaybeFile]
    /\ copy \in [Clients -> MaybeFile]
    /\ \A c \in Clients : pc[c] \in Confirming => copy[c] \in Files
    /\ \A a \in Actors : pc[a] \in Deleting => target[a] \in Files
    /\ todo \subseteq Files
    /\ claimed \in [Files -> Owners \cup {NoOwner}]
    /\ exposed \subseteq Owners \cup Files
    /\ requests \in 0 .. MaxRequests /\ faults \in 0 .. MaxFaults

Init ==
    /\ row = [f \in Files |-> "unused"]
    /\ object = [f \in Files |-> "none"]
    /\ old = {}
    /\ ref = [o \in Owners |-> NoFile]
    /\ pc = [a \in Actors |-> "idle"]
    /\ target = [a \in Actors |-> NoFile]
    /\ owner = [c \in Clients |-> NoOwner]
    /\ op = [c \in Clients |-> "discard"]
    /\ wish = [c \in Clients |-> NoFile]
    /\ before = [c \in Clients |-> NoFile]
    /\ copy = [c \in Clients |-> NoFile]
    /\ todo = {}
    /\ claimed = [f \in Files |-> NoOwner]
    /\ exposed = {}
    /\ requests = 0 /\ faults = 0

Goto(a, place) == pc' = [pc EXCEPT ![a] = place]

Busy(o) == \E c \in Clients : owner[c] = o

(* An owner whose row is not inserted yet: nobody else can name it.        *)
Unborn(o) == \E c \in Clients : owner[c] = o /\ op[c] = "create" /\ pc[c] = "save"

-------------------------------------------------------------------------------
(* Uploading: the row is saved, temporary by default; the browser puts the *)
(* file under the url it gets, for which it has an hour, and hands the url *)
(* on only after that: one step.  A row whose file was never put is left   *)
(* out: its url is given to nobody.                                        *)
Upload(f) ==
    /\ row[f] = "unused"
    /\ row' = [row EXCEPT ![f] = "temp"]
    /\ object' = [object EXCEPT ![f] = "stored"]
    /\ UNCHANGED <<old, ref, pc, target, requestVars, todo, historyVars, faults>>

(* A day has passed since a file was created, which matters as long as it  *)
(* is temporary.  No request takes that long.                              *)
Age(f) ==
    /\ row[f] = "temp" /\ f \notin old
    /\ \A c \in Clients : f \notin {wish[c], copy[c]}
    /\ old' = old \cup {f}
    /\ UNCHANGED <<row, object, ref, pc, target, requestVars, todo, historyVars, faults>>

-------------------------------------------------------------------------------
(* A request.  Nothing protects what it refers to when another request is  *)
(* under way for the same owner (a copy read by one is saved over what the *)
(* other saved), when the file has been given to another owner (a template *)
(* imported or a tool cloned keeps the url, and the first to change it     *)
(* deletes the file), or when it was uploaded more than a day ago and not  *)
(* used since.                                                             *)
Request(c, o, kind, f, place) ==
    /\ pc[c] = "idle" /\ requests < MaxRequests /\ ~Unborn(o)
    /\ requests' = requests + 1
    /\ f # NoFile => object[f] = "stored"
    /\ owner' = [owner EXCEPT ![c] = o]
    /\ op' = [op EXCEPT ![c] = kind]
    /\ wish' = [wish EXCEPT ![c] = f]
    /\ claimed' = [g \in Files |-> IF g = f /\ claimed[g] = NoOwner THEN o ELSE claimed[g]]
    /\ exposed' = exposed
         \cup {p \in {o} : Busy(p)}
         \cup {g \in {f} \cap Files : \/ claimed[g] \notin {o, NoOwner}
                                      \/ row[g] = "temp" /\ g \in old}
    /\ Goto(c, place)
    /\ UNCHANGED <<fileVars, ref, target, before, copy, todo, faults>>

(* create, which reads nothing.                                            *)
CreateOwner(c, o, f) ==
    /\ ref[o] = NoFile /\ ~Busy(o)
    /\ Request(c, o, "create", f, "save")

(* update with a url, or with null.                                        *)
Update(c, o, f) ==
    Request(c, o, "set", f, IF o \in Keepers THEN "load" ELSE "read")

(* update of other fields.                                                 *)
Touch(c, o) ==
    Request(c, o, "touch", NoFile, IF o \in Keepers THEN "load" ELSE "read")

(* activate, deactivate, verifyEmail, or other columns of the row: the     *)
(* repository's update alone.                                              *)
Flag(c, o) == Request(c, o, "flag", NoFile, "load")

(* bulkUpdate: one statement, and nothing about files.                     *)
BulkUpdate(c, o, f) ==
    /\ o \in Templates
    /\ Request(c, o, "bulk", f, "save")

(* DELETE /files/:id, of whatever file.                                    *)
Discard(c, f) ==
    /\ pc[c] = "idle" /\ requests < MaxRequests /\ object[f] = "stored"
    /\ requests' = requests + 1
    /\ op' = [op EXCEPT ![c] = "discard"]
    /\ target' = [target EXCEPT ![c] = f]
    /\ exposed' = exposed \cup {f}
    /\ Goto(c, "find")
    /\ UNCHANGED <<fileVars, ref, owner, wish, before, copy, todo, claimed, faults>>

(* A request is answered or throws; the job goes on to the next file.      *)
Finish(a) ==
    /\ Goto(a, "idle")
    /\ target' = [target EXCEPT ![a] = NoFile]
    /\ owner' = [c \in Clients |-> IF c = a THEN NoOwner ELSE owner[c]]
    /\ op' = [c \in Clients |-> IF c = a THEN "discard" ELSE op[c]]
    /\ wish' = [c \in Clients |-> IF c = a THEN NoFile ELSE wish[c]]
    /\ before' = [c \in Clients |-> IF c = a THEN NoFile ELSE before[c]]
    /\ copy' = [c \in Clients |-> IF c = a THEN NoFile ELSE copy[c]]

(* currentUser, oldTemplate.                                               *)
ReadBefore(c) ==
    /\ pc[c] = "read"
    /\ before' = [before EXCEPT ![c] = ref[owner[c]]]
    /\ Goto(c, "load")
    /\ UNCHANGED <<fileVars, ref, target, owner, op, wish, copy, todo, historyVars, faults>>

(* The entity that the repository reads, to save it with the changes.      *)
Load(c) ==
    /\ pc[c] = "load"
    /\ copy' = [copy EXCEPT ![c] = ref[owner[c]]]
    /\ Goto(c, "save")
    /\ UNCHANGED <<fileVars, ref, target, owner, op, wish, before, todo, historyVars, faults>>

(* A template's update without a url passes undefined, which is not saved. *)
Unsent(c) == op[c] = "touch" /\ owner[c] \in Templates

Saved(c) ==
    IF Unsent(c) THEN ref[owner[c]]
    ELSE IF op[c] \in {"touch", "flag"} THEN copy[c] ELSE wish[c]

(* The url that the service goes by when it confirms and compares.         *)
Given(c) == IF Unsent(c) THEN NoFile ELSE Saved(c)

Confirmed(c) ==
    IF \/ op[c] \in {"flag", "bulk"}
       \/ op[c] # "create" /\ owner[c] \in Users /\ Given(c) = before[c]
    THEN NoFile ELSE Given(c)

(* Mutant: the old url is deleted without a look at the new one.           *)
ObsoleteUnlooked(c) ==
    IF op[c] \in {"set", "touch"} /\ owner[c] \notin Keepers THEN before[c] ELSE NoFile

Obsolete(c) ==
    IF op[c] \in {"set", "touch"} /\ owner[c] \notin Keepers /\ Given(c) # before[c]
    THEN before[c] ELSE NoFile

(* Mutant: the old file goes first.                                        *)
ProceedOldFirst(c, fresh, stale) ==
    IF stale # NoFile THEN "find" ELSE IF fresh # NoFile THEN "confirm" ELSE "idle"

(* Mutant: whether there is an old file is not asked.                      *)
ProceedUnasked(c, fresh, stale) == IF fresh # NoFile THEN "confirm" ELSE "find"

(* What comes next: the new file is confirmed before the old one goes.     *)
Proceed(c, fresh, stale) ==
    IF fresh # NoFile THEN "confirm" ELSE IF stale # NoFile THEN "find" ELSE "idle"

Save(c) ==
    /\ pc[c] = "save"
    /\ ref' = [ref EXCEPT ![owner[c]] = Saved(c)]
    /\ exposed' = exposed \cup
         {o \in {owner[c]} : op[c] = "bulk" \/ Unsent(c)}
    /\ IF op[c] \in {"set", "touch"} /\ owner[c] \in Keepers
       THEN /\ Goto(c, "reread")
            /\ copy' = [copy EXCEPT ![c] = Saved(c)]
            /\ UNCHANGED <<target, owner, op, wish, before>>
       ELSE IF Proceed(c, Confirmed(c), Obsolete(c)) = "idle"
       THEN Finish(c)
       ELSE /\ Goto(c, Proceed(c, Confirmed(c), Obsolete(c)))
            /\ copy' = [copy EXCEPT ![c] = Confirmed(c)]
            /\ target' = [target EXCEPT ![c] = Obsolete(c)]
            /\ UNCHANGED <<owner, op, wish, before>>
    /\ UNCHANGED <<fileVars, todo, claimed, requests, faults>>

(* Bots confirm the url they saved; the repositories of categories and     *)
(* tools return the row as it is now, and its url is confirmed.            *)
Reread(c) ==
    /\ pc[c] = "reread"
    /\ \E f \in {copy[c], ref[owner[c]]} :
          IF f = NoFile
          THEN Finish(c)
          ELSE /\ copy' = [copy EXCEPT ![c] = f]
               /\ Goto(c, "confirm")
               /\ UNCHANGED <<target, owner, op, wish, before>>
    /\ UNCHANGED <<fileVars, ref, todo, historyVars, faults>>

AfterConfirm(c) ==
    IF target[c] = NoFile
    THEN Finish(c)
    ELSE Goto(c, "find") /\ UNCHANGED <<target, requestVars>>

(* confirm reads the row, and returns if there is none ...                 *)
Confirm(c) ==
    /\ pc[c] \in {"confirm", "confirm again"}
    /\ IF row[copy[c]] \in {"temp", "kept"}
       THEN Goto(c, IF pc[c] = "confirm" THEN "keep" ELSE "keep again") /\ UNCHANGED <<target, requestVars>>
       ELSE AfterConfirm(c)
    /\ UNCHANGED <<fileVars, ref, todo, historyVars, faults>>

(* ... then saves it, which inserts it again if it is gone by now.         *)
Keep(c) ==
    /\ pc[c] \in {"keep", "keep again"}
    /\ row' = [row EXCEPT ![copy[c]] = "kept"]
    /\ AfterConfirm(c)
    /\ UNCHANGED <<object, old, ref, todo, historyVars, faults>>

-------------------------------------------------------------------------------
(* deleteFile, for a request or for the job: NotFound, or the object and   *)
(* then the row.                                                           *)
FindFile(a) ==
    /\ pc[a] = "find"
    /\ IF row[target[a]] \in {"temp", "kept"}
       THEN Goto(a, "remove") /\ UNCHANGED <<target, requestVars>>
       ELSE Finish(a)
    /\ UNCHANGED <<fileVars, ref, todo, historyVars, faults>>

RemoveObject(a) ==
    /\ pc[a] = "remove" /\ target[a] \notin Stuck
    /\ object' = [object EXCEPT ![target[a]] = "removed"]
    /\ Goto(a, "drop")
    /\ UNCHANGED <<row, old, ref, target, requestVars, todo, historyVars, faults>>

(* Mutants: the store's error is logged, and the row deleted; the store's  *)
(* error ends the job.                                                     *)
RefusalLogged(a) ==
    Goto(a, "drop") /\ UNCHANGED <<fileVars, ref, target, requestVars, todo, historyVars>>

RefusalEndsJob(a) ==
    /\ Finish(a)
    /\ todo' = {f \in todo : a # Cron}
    /\ UNCHANGED <<fileVars, ref, historyVars>>

(* The store's error is thrown again, so that the row stays.               *)
RefuseRemoval(a) ==
    /\ Finish(a)
    /\ UNCHANGED <<fileVars, ref, todo, historyVars>>

Refused(a) ==
    /\ pc[a] = "remove" /\ target[a] \in Stuck
    /\ RefuseRemoval(a) /\ UNCHANGED faults

DropRow(a) ==
    /\ pc[a] = "drop"
    /\ row' = [row EXCEPT ![target[a]] = "deleted"]
    /\ Finish(a)
    /\ UNCHANGED <<object, old, ref, todo, historyVars, faults>>

DeleteStep(a) == FindFile(a) \/ RemoveObject(a) \/ Refused(a) \/ DropRow(a)

(* The job: files that are still temporary after a day, in any order; what *)
(* fails for one does not keep it from the others.                         *)
ListOrphans ==
    /\ pc[Cron] = "idle" /\ todo = {}
    /\ todo' = {f \in old : row[f] = "temp"}
    /\ UNCHANGED <<fileVars, ref, pc, target, requestVars, historyVars, faults>>

NextOrphan(f) ==
    /\ pc[Cron] = "idle" /\ f \in todo
    /\ todo' = todo \ {f}
    /\ target' = [target EXCEPT ![Cron] = f]
    /\ Goto(Cron, "find")
    /\ UNCHANGED <<fileVars, ref, requestVars, historyVars, faults>>

CronStep == ListOrphans \/ (\E f \in Files : NextOrphan(f)) \/ DeleteStep(Cron)

-------------------------------------------------------------------------------
(* A request cut off between its save and the end of its confirm leaves    *)
(* the owner with a file that the job will take for an orphan.             *)
Unconfirmed(c) == pc[c] \in {"reread"} \cup Confirming

(* confirmFromUrl catches an error, and confirms once more.                *)
ConfirmFails(c) ==
    /\ faults < MaxFaults /\ pc[c] \in {"confirm", "keep"}
    /\ faults' = faults + 1
    /\ Goto(c, "confirm again")
    /\ UNCHANGED <<fileVars, ref, target, requestVars, todo, historyVars>>

(* Any other call to the database fails, and the request or the file with it.      *)
DbFails(a) ==
    /\ faults < MaxFaults /\ pc[a] \notin {"idle", "remove", "confirm", "keep"}
    /\ faults' = faults + 1
    /\ exposed' = exposed \cup {owner[c] : c \in {d \in Clients : d = a /\ Unconfirmed(d)}}
    /\ Finish(a)
    /\ UNCHANGED <<fileVars, ref, todo, claimed, requests>>

(* The query that lists the files fails, or removeObject does.             *)
StorageFails(a) ==
    /\ faults < MaxFaults /\ pc[a] = "remove"
    /\ faults' = faults + 1
    /\ RefuseRemoval(a)

(* The process ends, and its requests and the job with it.                 *)
Crash ==
    /\ faults < MaxFaults
    /\ faults' = faults + 1
    /\ exposed' = exposed \cup {owner[c] : c \in {d \in Clients : Unconfirmed(d)}}
    /\ pc' = [a \in Actors |-> "idle"]
    /\ target' = [a \in Actors |-> NoFile]
    /\ owner' = [c \in Clients |-> NoOwner]
    /\ op' = [c \in Clients |-> "discard"]
    /\ wish' = [c \in Clients |-> NoFile]
    /\ before' = [c \in Clients |-> NoFile]
    /\ copy' = [c \in Clients |-> NoFile]
    /\ todo' = {}
    /\ UNCHANGED <<fileVars, ref, claimed, requests>>

-------------------------------------------------------------------------------
Begin(c) ==
    \/ \E o \in Owners : Touch(c, o) \/ Flag(c, o) \/ Update(c, o, NoFile)
    \/ \E o \in Owners, f \in Files :
          CreateOwner(c, o, f) \/ Update(c, o, f) \/ BulkUpdate(c, o, f)
    \/ \E f \in Files : Discard(c, f)

RequestStep(c) ==
    ReadBefore(c) \/ Load(c) \/ Save(c) \/ Reread(c) \/ Confirm(c) \/ Keep(c) \/ DeleteStep(c)

Next ==
    \/ \E f \in Files : Upload(f) \/ Age(f)
    \/ \E c \in Clients : Begin(c) \/ RequestStep(c) \/ ConfirmFails(c)
    \/ CronStep
    \/ \E a \in Actors : DbFails(a) \/ StorageFails(a)
    \/ Crash

(* The scheduler starts the job every night, and the container is          *)
(* restarted when it ends; requests may stop anywhere.                     *)
Fairness == WF_vars(CronStep)

Spec == Init /\ [][Next]_vars /\ Fairness

-------------------------------------------------------------------------------
(* A file in use stays: whatever an owner refers to is in the store, and   *)
(* its row is confirmed unless a request for the owner is still at it.     *)
(* Said of the owners and files whose use the services protect: neither    *)
(* requests that overlap nor any other exposure was met.  The nightly job  *)
(* deletes orphans only, and updates delete the file they replaced only.   *)
ReferencedIsStored ==
    \A o \in Owners \ exposed, f \in Files \ exposed :
        ref[o] = f => object[f] = "stored" /\ (row[f] = "kept" \/ Busy(o))

(* A request comes to delete the old file only when the job can no longer  *)
(* take the new one: "Only delete old avatar after confirming new avatar"; *)
(* the same of thumbnails and media, whatever fails and overlaps.          *)
NewBeforeOld ==
    \A c \in Clients :
        pc[c] \in Deleting /\ op[c] = "set" /\ wish[c] # NoFile =>
            row[wish[c]] # "temp"

(* Nothing in the store is forgotten: an object has a row, by which the    *)
(* job or a request can find it, even when deletions fail half way.        *)
ObjectsAreKnown ==
    \A f \in Files : object[f] = "stored" => row[f] \in {"temp", "kept"}

(* What nobody confirms goes away, though the removal of other files       *)
(* fails every night.                                                      *)
EveryOrphanGoes ==
    \A f \in Files \ Stuck : row[f] = "temp" /\ f \in old ~> row[f] # "temp"
===============================================================================
