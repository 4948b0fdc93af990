---------------------------- MODULE FileStoreProofs ----------------------------
(***************************************************************************)
(* Proofs about FileStore: types, that nothing in the store is forgotten,  *)
(* that the old file goes after the new one is confirmed, and that a file  *)
(* in use stays.                                                           *)
(***************************************************************************)
EXTENDS FileStore, TLAPS

(* A row that was given to somebody is not unused, and what is about to be *)
(* forgotten has been removed.                                             *)
FilesInv ==
    /\ \A f \in Files : row[f] = "unused" <=> object[f] = "none"
    /\ ObjectsAreKnown
Meant(c) ==
    /\ wish[c] # NoFile => row[wish[c]] # "unused"
    /\ pc[c] \in {"keep", "keep again"} => row[copy[c]] # "unused"
Linked(a) ==
    /\ pc[a] = "remove" => row[target[a]] # "unused"
    /\ pc[a] = "drop" => object[target[a]] = "removed"
ObjectInv ==
    FilesInv /\ (\A c \in Clients : Meant(c)) /\ (\A a \in Actors : Linked(a))

(* What the place of a request says of the request.                        *)
Holds(c) == {wish[c], before[c], copy[c], target[c]} \ {NoFile}

Placed(c) ==
    /\ owner[c] = NoOwner => wish[c] = NoFile /\ before[c] = NoFile /\ copy[c] = NoFile
    /\ pc[c] = "idle" => owner[c] = NoOwner /\ target[c] = NoFile
    /\ pc[c] \in {"read", "load", "save", "reread"} \cup Confirming => owner[c] # NoOwner
    /\ pc[c] \in {"read", "load", "save", "reread"} => target[c] = NoFile
    /\ pc[c] \in {"read", "load"} => copy[c] = NoFile
    /\ pc[c] \in {"read", "load"} => op[c] \notin {"create", "bulk"}
    /\ pc[c] \in {"read", "load", "save"} => op[c] # "discard"
    /\ pc[c] = "save" /\ op[c] \in {"create", "bulk"} => copy[c] = NoFile
PlaceInv == \A c \in Clients : Placed(c)

(* The file a request confirms before it deletes the old one is the one    *)
(* that it sent.                                                           *)
Sent(c) ==
    /\ pc[c] \in Confirming /\ target[c] # NoFile /\ op[c] = "set" => copy[c] = wish[c]
    /\ pc[c] \in Deleting /\ op[c] = "set" /\ wish[c] # NoFile => row[wish[c]] # "temp"
SentInv == \A c \in Clients : Sent(c)

(* Files are used by the owner they were given to first, or exposed.       *)
Belongs(f, o) == claimed[f] = o \/ f \in exposed
Owned(c) ==
    IF owner[c] = NoOwner THEN Holds(c) \subseteq exposed
    ELSE \A f \in Holds(c) : Belongs(f, owner[c])
ClaimInv ==
    /\ \A o \in Owners : ref[o] # NoFile => Belongs(ref[o], o)
    /\ \A c \in Clients : Owned(c)

(* A request for an owner that is not exposed is the only one, and what it *)
(* has read is still so.                                                   *)
Safe(c) == owner[c] # NoOwner /\ owner[c] \notin exposed
Only(c) == \A d \in Clients : owner[d] = owner[c] => d = c
UpToDate(c) ==
    /\ pc[c] \in {"load", "save"} /\ owner[c] \notin Keepers /\ op[c] \in {"set", "touch"} =>
           before[c] = ref[owner[c]]
    /\ pc[c] = "save" /\ op[c] \in {"touch", "flag"} => copy[c] = ref[owner[c]]
    /\ pc[c] = "reread" => copy[c] = ref[owner[c]]
    /\ copy[c] # NoFile => copy[c] = ref[owner[c]]
    /\ target[c] # NoFile => target[c] # ref[owner[c]]
AloneInv == \A c \in Clients : Safe(c) => Only(c) /\ UpToDate(c)

(* A file in use is in the store; only a request that is about to confirm  *)
(* it may leave it temporary meanwhile.                                    *)
Fresh(f) ==
    object[f] = "stored" /\ row[f] \in {"temp", "kept"} /\ (row[f] = "temp" => f \notin old)
Pending(c) == pc[c] \in {"read", "load", "save"}
Wished(f) == \E c \in Clients : Pending(c) /\ owner[c] \notin exposed /\ wish[c] = f
AtIt(o) == \E c \in Clients : owner[c] = o /\ Unconfirmed(c)

StoredInv ==
    \A f \in Files \ exposed :
        /\ \A o \in Owners \ exposed :
               ref[o] = f => Fresh(f) /\ (row[f] = "temp" => AtIt(o))
        /\ Wished(f) => Fresh(f)

(* What the job has listed is used by nobody, and nobody will use it.      *)
Listed(f) == f \in todo \/ f = target[Cron]
OrphanInv ==
    \A f \in Files \ exposed : Listed(f) =>
        /\ f \in old
        /\ row[f] = "kept" => claimed[f] \in exposed
        /\ \A o \in Owners \ exposed : ref[o] # f
        /\ ~Wished(f)

UseInv == ClaimInv /\ AloneInv /\ StoredInv /\ OrphanInv

-------------------------------------------------------------------------------
(* Types.                                                                  *)

LEMMA FinishType ==
    ASSUME TypeOK, NEW a \in Actors, Finish(a)
    PROVE  /\ pc' = [pc EXCEPT ![a] = "idle"]
           /\ target' = [target EXCEPT ![a] = NoFile]
           /\ owner' \in [Clients -> Owners \cup {NoOwner}]
           /\ op' \in [Clients -> {"create", "set", "touch", "flag", "bulk", "discard"}]
           /\ wish' \in [Clients -> MaybeFile]
           /\ before' \in [Clients -> MaybeFile]
           /\ copy' \in [Clients -> MaybeFile]
           /\ \A c \in Clients : c # a => copy'[c] = copy[c]
  BY DEF Finish, TypeOK, MaybeFile, Goto

(* The places and the files they need, kept by an actor that finishes.     *)
LEMMA FinishPlaces ==
    ASSUME TypeOK, NEW a \in Actors, Finish(a)
    PROVE  /\ pc' \in [Actors -> {"idle", "read", "load", "save", "reread"} \cup Confirming
                                    \cup Deleting]
           /\ target' \in [Actors -> MaybeFile]
           /\ \A c \in Clients : pc'[c] \in Confirming => copy'[c] \in Files
           /\ \A b \in Actors : pc'[b] \in Deleting => target'[b] \in Files
<1>1. /\ pc' = [pc EXCEPT ![a] = "idle"] /\ target' = [target EXCEPT ![a] = NoFile]
      /\ \A c \in Clients : c # a => copy'[c] = copy[c]
  BY FinishType
<1>2. /\ \A b \in Actors \ {a} : pc'[b] = pc[b] /\ target'[b] = target[b]
      /\ pc'[a] = "idle" /\ "idle" \notin Confirming \cup Deleting
  BY <1>1 DEF TypeOK, Confirming, Deleting
<1>3. /\ \A c \in Clients : pc'[c] \in Confirming => copy'[c] \in Files
      /\ \A b \in Actors : pc'[b] \in Deleting => target'[b] \in Files
  BY <1>1, <1>2 DEF TypeOK, Actors
<1> QED BY <1>1, <1>3 DEF TypeOK, MaybeFile

LEMMA RequestType ==
    ASSUME TypeOK, NEW c \in Clients, NEW o \in Owners, NEW f \in MaybeFile,
           NEW kind \in {"create", "set", "touch", "flag", "bulk"},
           NEW place \in {"read", "load", "save"}, Request(c, o, kind, f, place)
    PROVE  TypeOK'
<1>1. /\ pc' \in [Actors -> {"idle", "read", "load", "save", "reread"} \cup Confirming
                                    \cup Deleting]
      /\ \A d \in Clients : pc'[d] \in Confirming => copy'[d] \in Files
      /\ \A a \in Actors : pc'[a] \in Deleting => target'[a] \in Files
  BY DEF Request, TypeOK, Goto, Actors, Confirming, Deleting
<1>2. requests' \in 0 .. MaxRequests
  BY FileAssumption DEF Request, TypeOK
<1>3. claimed' \in [Files -> Owners \cup {NoOwner}] /\ exposed' \subseteq Owners \cup Files
  BY DEF Request, TypeOK
<1> QED BY <1>1, <1>2, <1>3 DEF Request, TypeOK, fileVars

LEMMA SaveType ==
    ASSUME TypeOK, NEW c \in Clients, Save(c), owner[c] \in Owners
    PROVE  TypeOK'
<1> USE DEF TypeOK, fileVars, Actors
<1>1. Saved(c) \in MaybeFile /\ Confirmed(c) \in MaybeFile /\ Obsolete(c) \in MaybeFile
  BY DEF Saved, Confirmed, Obsolete, Given, Unsent, MaybeFile
<1>2. ref' \in [Owners -> MaybeFile] /\ exposed' \subseteq Owners \cup Files
  BY <1>1 DEF Save
<1>3. CASE op[c] \in {"set", "touch"} /\ owner[c] \in Keepers
  <2>1. /\ pc' = [pc EXCEPT ![c] = "reread"] /\ copy' = [copy EXCEPT ![c] = Saved(c)]
        /\ UNCHANGED <<target, owner, op, wish, before>>
    BY <1>3 DEF Save, Goto
  <2>2. /\ \A d \in Clients : pc'[d] \in Confirming => copy'[d] \in Files
        /\ \A a \in Actors : pc'[a] \in Deleting => target'[a] \in Files
    BY <1>1, <2>1 DEF Confirming, Deleting
  <2>3. UNCHANGED <<row, object, old, todo, claimed, requests, faults>>
    BY DEF Save
  <2> QED BY <1>1, <1>2, <2>1, <2>2, <2>3
<1>4. CASE Finish(c)
  BY <1>2, <1>4, FinishType, FinishPlaces DEF Save
<1>5. CASE /\ Goto(c, Proceed(c, Confirmed(c), Obsolete(c)))
           /\ copy' = [copy EXCEPT ![c] = Confirmed(c)]
           /\ target' = [target EXCEPT ![c] = Obsolete(c)]
           /\ UNCHANGED <<owner, op, wish, before>>
  <2>1. /\ pc' = [pc EXCEPT ![c] = Proceed(c, Confirmed(c), Obsolete(c))]
        /\ Proceed(c, Confirmed(c), Obsolete(c)) \in {"idle", "confirm", "find"}
        /\ Proceed(c, Confirmed(c), Obsolete(c)) = "confirm" => Confirmed(c) \in Files
        /\ Proceed(c, Confirmed(c), Obsolete(c)) = "find" => Obsolete(c) \in Files
    BY <1>1, <1>5 DEF Goto, Proceed, MaybeFile
  <2>2. /\ \A d \in Clients : pc'[d] \in Confirming => copy'[d] \in Files
        /\ \A a \in Actors : pc'[a] \in Deleting => target'[a] \in Files
    BY <1>5, <2>1 DEF Confirming, Deleting
  <2> QED BY <1>1, <1>2, <1>5, <2>1, <2>2 DEF Save, Confirming, Deleting
<1> QED BY <1>3, <1>4, <1>5 DEF Save

(* What a new request may be.                                              *)
Fits(o, kind, f, place) ==
    /\ o \in Owners /\ f \in MaybeFile
    /\ \/ kind \in {"set", "touch"} /\ place = "read" /\ o \notin Keepers
       \/ kind \in {"set", "touch"} /\ place = "load" /\ o \in Keepers
       \/ kind = "flag" /\ place = "load"
       \/ kind \in {"create", "bulk"} /\ place = "save"

LEMMA BeginIsRequest ==
    ASSUME NEW c \in Clients, Begin(c)
    PROVE  \/ \E o \in Owners, f \in MaybeFile,
                 kind \in {"create", "set", "touch", "flag", "bulk"},
                 place \in {"read", "load", "save"} :
                 Request(c, o, kind, f, place) /\ Fits(o, kind, f, place)
           \/ \E f \in Files : Discard(c, f)
<1> DEFINE Goal == \E o \in Owners, f \in MaybeFile,
                      kind \in {"create", "set", "touch", "flag", "bulk"},
                      place \in {"read", "load", "save"} :
                      Request(c, o, kind, f, place) /\ Fits(o, kind, f, place)
<1>1. ASSUME NEW o \in Owners, Touch(c, o) PROVE Goal
  BY <1>1 DEF Touch, Fits, MaybeFile
<1>2. ASSUME NEW o \in Owners, Flag(c, o) PROVE Goal
  BY <1>2 DEF Flag, Fits, MaybeFile
<1>3. ASSUME NEW o \in Owners, NEW f \in MaybeFile, Update(c, o, f) PROVE Goal
  BY <1>3 DEF Update, Fits, MaybeFile
<1>4. ASSUME NEW o \in Owners, NEW f \in Files, CreateOwner(c, o, f) PROVE Goal
  BY <1>4 DEF CreateOwner, Fits, MaybeFile
<1>5. ASSUME NEW o \in Owners, NEW f \in Files, BulkUpdate(c, o, f) PROVE Goal
  BY <1>5 DEF BulkUpdate, Fits, MaybeFile
<1> QED BY <1>1, <1>2, <1>3, <1>4, <1>5 DEF Begin, MaybeFile

LEMMA TypeStep ==
    ASSUME TypeOK, PlaceInv, [Next]_vars
    PROVE  TypeOK'
<1> USE FileAssumption DEF TypeOK, fileVars, historyVars, requestVars, Actors
<1>1. ASSUME NEW f \in Files, Upload(f) \/ Age(f) PROVE TypeOK'
  BY <1>1 DEF Upload, Age
<1>2. ASSUME NEW c \in Clients, Begin(c) PROVE TypeOK'
  <2>1. ASSUME NEW f \in Files, Discard(c, f) PROVE TypeOK'
    <3>1. /\ pc' = [pc EXCEPT ![c] = "find"] /\ target' = [target EXCEPT ![c] = f]
          /\ UNCHANGED copy
      BY <2>1 DEF Discard, Goto
    <3>2. /\ \A d \in Clients : pc'[d] \in Confirming => copy'[d] \in Files
          /\ \A a \in Actors : pc'[a] \in Deleting => target'[a] \in Files
          /\ pc' \in [Actors -> {"idle", "read", "load", "save", "reread"} \cup Confirming
                                    \cup Deleting]
      BY <3>1 DEF Confirming, Deleting
    <3> QED BY <2>1, <3>1, <3>2 DEF Discard, MaybeFile
  <2>2. ASSUME NEW o \in Owners, NEW f \in MaybeFile,
               NEW kind \in {"create", "set", "touch", "flag", "bulk"},
               NEW place \in {"read", "load", "save"}, Request(c, o, kind, f, place)
        PROVE  TypeOK'
    <3> HIDE DEF TypeOK
    <3> QED BY <2>2, RequestType
  <2> HIDE DEF TypeOK
  <2> QED BY <1>2, <2>1, <2>2, BeginIsRequest
<1>3. ASSUME NEW c \in Clients, ReadBefore(c) \/ Load(c) PROVE TypeOK'
  <2>0. owner[c] \in Owners
    BY <1>3 DEF ReadBefore, Load, PlaceInv, Placed
  <2>1. /\ \A d \in Clients : pc'[d] \in Confirming => copy'[d] \in Files
        /\ \A a \in Actors : pc'[a] \in Deleting => target'[a] \in Files
    BY <1>3 DEF ReadBefore, Load, Goto, Confirming, Deleting
  <2> QED BY <1>3, <2>0, <2>1 DEF ReadBefore, Load, Goto
<1>4. ASSUME NEW c \in Clients, Save(c) PROVE TypeOK'
  BY <1>4, SaveType DEF Save, PlaceInv, Placed
<1>5. ASSUME NEW c \in Clients, Reread(c) PROVE TypeOK'
  <2>1. CASE Finish(c)
    BY <1>5, <2>1, FinishType, FinishPlaces DEF Reread
  <2>2. ASSUME NEW f \in Files, copy' = [copy EXCEPT ![c] = f], Goto(c, "confirm"),
               UNCHANGED <<target, owner, op, wish, before>>
        PROVE  TypeOK'
    <3>1. /\ \A d \in Clients : pc'[d] \in Confirming => copy'[d] \in Files
          /\ \A a \in Actors : pc'[a] \in Deleting => target'[a] \in Files
          /\ pc' \in [Actors -> {"idle", "read", "load", "save", "reread"} \cup Confirming
                                    \cup Deleting]
      BY <2>2 DEF Goto, Confirming, Deleting
    <3> QED BY <1>5, <2>2, <3>1 DEF Reread, MaybeFile
  <2>3. copy[c] \in MaybeFile /\ ref[owner[c]] \in MaybeFile
    BY <1>5 DEF Reread, PlaceInv, Placed
  <2> QED BY <1>5, <2>1, <2>2, <2>3 DEF Reread, MaybeFile
<1>6. ASSUME NEW c \in Clients, Confirm(c) \/ Keep(c) \/ ConfirmFails(c) PROVE TypeOK'
  <2>0. /\ row' \in [Files -> {"unused", "temp", "kept", "deleted"}]
        /\ faults' \in 0 .. MaxFaults
        /\ UNCHANGED <<object, old, ref, todo, historyVars>>
    <3>1. CASE Confirm(c)
      BY <3>1 DEF Confirm
    <3>2. CASE Keep(c)
      BY <3>2 DEF Keep
    <3>3. CASE ConfirmFails(c)
      <4>1. faults < MaxFaults /\ faults' = faults + 1
        BY <3>3 DEF ConfirmFails
      <4>2. UNCHANGED <<row, object, old, ref, todo, historyVars>>
        BY <3>3 DEF ConfirmFails
      <4> QED BY <4>1, <4>2
    <3> QED BY <1>6, <3>1, <3>2, <3>3
  <2>1. CASE Finish(c)
    BY <2>0, <2>1, FinishType, FinishPlaces
  <2>2. ASSUME NEW place \in {"keep", "keep again", "confirm again", "find"}, Goto(c, place),
               place = "find" => target[c] \in Files, pc[c] \in Confirming,
               UNCHANGED <<target, requestVars>>
        PROVE  TypeOK'
    <3>1. /\ \A d \in Clients : pc'[d] \in Confirming => copy'[d] \in Files
          /\ \A a \in Actors : pc'[a] \in Deleting => target'[a] \in Files
          /\ pc' \in [Actors -> {"idle", "read", "load", "save", "reread"} \cup Confirming
                                    \cup Deleting]
      BY <2>2 DEF Goto, Confirming, Deleting
    <3> QED BY <2>0, <2>2, <3>1
  <2> QED BY <1>6, <2>1, <2>2 DEF Confirm, Keep, ConfirmFails, AfterConfirm, Confirming, MaybeFile
<1>7. ASSUME NEW a \in Actors, DeleteStep(a) \/ DbFails(a) \/ StorageFails(a) PROVE TypeOK'
  <2>0. /\ row' \in [Files -> {"unused", "temp", "kept", "deleted"}]
        /\ object' \in [Files -> {"none", "stored", "removed"}]
        /\ faults' \in 0 .. MaxFaults /\ exposed' \subseteq Owners \cup Files
        /\ UNCHANGED <<old, ref, todo, claimed, requests>>
    <3>1. CASE FindFile(a)
      BY <3>1 DEF FindFile
    <3>2. CASE RemoveObject(a)
      BY <3>2 DEF RemoveObject
    <3>3. CASE Refused(a)
      BY <3>3 DEF Refused, RefuseRemoval
    <3>4. CASE DropRow(a)
      BY <3>4 DEF DropRow
    <3>5. CASE DbFails(a)
      <4>1. {owner[c] : c \in {d \in Clients : d = a /\ Unconfirmed(d)}} \subseteq Owners
        BY DEF PlaceInv, Placed, Unconfirmed
      <4> QED BY <3>5, <4>1 DEF DbFails
    <3>6. CASE StorageFails(a)
      BY <3>6 DEF StorageFails, RefuseRemoval
    <3> QED BY <1>7, <3>1, <3>2, <3>3, <3>4, <3>5, <3>6 DEF DeleteStep
  <2>1. CASE Finish(a)
    BY <2>0, <2>1, FinishType, FinishPlaces
  <2>2. ASSUME NEW place \in {"remove", "drop"}, Goto(a, place), pc[a] \in Deleting,
               UNCHANGED <<target, requestVars>>
        PROVE  TypeOK'
    <3>1. /\ \A d \in Clients : pc'[d] \in Confirming => copy'[d] \in Files
          /\ \A b \in Actors : pc'[b] \in Deleting => target'[b] \in Files
          /\ pc' \in [Actors -> {"idle", "read", "load", "save", "reread"} \cup Confirming
                                    \cup Deleting]
      BY <2>2 DEF Goto, Confirming, Deleting
    <3> QED BY <2>0, <2>2, <3>1
  <2> QED BY <1>7, <2>1, <2>2 DEF DeleteStep, FindFile, RemoveObject, Refused, RefuseRemoval,
                                  DropRow, DbFails, StorageFails, Deleting
<1>8. CASE ListOrphans
  BY <1>8 DEF ListOrphans
<1>9. ASSUME NEW f \in Files, NextOrphan(f) PROVE TypeOK'
  <2>1. /\ \A d \in Clients : pc'[d] \in Confirming => copy'[d] \in Files
        /\ \A a \in Actors : pc'[a] \in Deleting => target'[a] \in Files
        /\ pc' \in [Actors -> {"idle", "read", "load", "save", "reread"} \cup Confirming
                                    \cup Deleting]
    BY <1>9 DEF NextOrphan, Goto, Confirming, Deleting
  <2> QED BY <1>9, <2>1 DEF NextOrphan, MaybeFile
<1>10. CASE Crash
  <2>1. {owner[c] : c \in {d \in Clients : Unconfirmed(d)}} \subseteq Owners
    BY DEF PlaceInv, Placed, Unconfirmed
  <2>2. exposed' \subseteq Owners \cup Files /\ faults' \in 0 .. MaxFaults
    BY <1>10, <2>1 DEF Crash
  <2>3. /\ pc' \in [Actors -> {"idle", "read", "load", "save", "reread"} \cup Confirming
                                    \cup Deleting]
        /\ \A d \in Clients : pc'[d] \in Confirming => copy'[d] \in Files
        /\ \A a \in Actors : pc'[a] \in Deleting => target'[a] \in Files
    BY <1>10 DEF Crash, Confirming, Deleting
  <2> QED BY <1>10, <2>2, <2>3 DEF Crash, MaybeFile
<1>11. CASE UNCHANGED vars
  BY <1>11 DEF vars
<1> QED BY <1>1, <1>2, <1>3, <1>4, <1>5, <1>6, <1>7, <1>8, <1>9, <1>10, <1>11
        DEF Next, RequestStep, CronStep

(* What an action leaves alone of the other requests, and what is left of  *)
(* one that is over.                                                       *)
Same(c) ==
    /\ pc'[c] = pc[c] /\ target'[c] = target[c] /\ owner'[c] = owner[c] /\ op'[c] = op[c]
    /\ wish'[c] = wish[c] /\ before'[c] = before[c] /\ copy'[c] = copy[c]
Cleared(c) ==
    /\ pc'[c] = "idle" /\ target'[c] = NoFile /\ owner'[c] = NoOwner /\ op'[c] = "discard"
    /\ wish'[c] = NoFile /\ before'[c] = NoFile /\ copy'[c] = NoFile

(* A request that goes on without a change to its data.                    *)
Moved(c, place) ==
    /\ pc'[c] = place /\ target'[c] = target[c] /\ owner'[c] = owner[c] /\ op'[c] = op[c]
    /\ wish'[c] = wish[c] /\ before'[c] = before[c] /\ copy'[c] = copy[c]

(* A step of one actor, seen by the others.                                *)
Apart(a) ==
    /\ \A d \in Clients \ {a} : Same(d)
    /\ a # Cron => pc'[Cron] = pc[Cron] /\ target'[Cron] = target[Cron]

LEMMA FinishFrame ==
    ASSUME TypeOK, NEW a \in Actors, Finish(a)
    PROVE  /\ Apart(a)
           /\ a \in Clients => Cleared(a)
           /\ a = Cron => \A d \in Clients : Same(d)
           /\ target' = [target EXCEPT ![a] = NoFile] /\ pc' = [pc EXCEPT ![a] = "idle"]
  BY FileAssumption DEF Finish, Goto, TypeOK, Actors, Apart, Same, Cleared

LEMMA GotoFrame ==
    ASSUME TypeOK, NEW a \in Actors, NEW place, Goto(a, place),
           UNCHANGED <<target, requestVars>>
    PROVE  /\ Apart(a)
           /\ a \in Clients => Moved(a, place)
           /\ a = Cron => \A d \in Clients : Same(d)
           /\ target' = target /\ pc' = [pc EXCEPT ![a] = place]
  BY FileAssumption DEF Goto, TypeOK, Actors, Apart, Same, Moved, requestVars

LEMMA SamePlaced ==
    ASSUME NEW c, Placed(c), Same(c)
    PROVE  Placed(c)'
  BY DEF Same, Placed, Confirming

LEMMA ClearedPlaced ==
    ASSUME NEW c, Cleared(c)
    PROVE  Placed(c)'
  BY DEF Cleared, Placed, Confirming

(* The steps of one actor: the others' requests stay as they are.          *)
ActorStep(a) ==
    \/ a \in Clients /\ (Begin(a) \/ RequestStep(a) \/ ConfirmFails(a))
    \/ a = Cron /\ ((\E f \in Files : NextOrphan(f)) \/ DeleteStep(a))
    \/ DbFails(a) \/ StorageFails(a)

LEMMA Steps ==
    ASSUME [Next]_vars
    PROVE  \/ \E f \in Files : Upload(f) \/ Age(f)
           \/ \E a \in Actors : ActorStep(a)
           \/ ListOrphans \/ Crash \/ UNCHANGED vars
  BY DEF Next, ActorStep, CronStep, Actors

(* A new request, field by field.                                          *)
Started(c, o, kind, f, place) ==
    /\ pc[c] = "idle" /\ pc'[c] = place /\ owner'[c] = o /\ op'[c] = kind /\ wish'[c] = f
    /\ target'[c] = target[c] /\ before'[c] = before[c] /\ copy'[c] = copy[c]

LEMMA RequestFrame ==
    ASSUME TypeOK, NEW c \in Clients, NEW o \in Owners, NEW f \in MaybeFile,
           NEW kind \in {"create", "set", "touch", "flag", "bulk"},
           NEW place \in {"read", "load", "save"}, Request(c, o, kind, f, place)
    PROVE  /\ Apart(c)
           /\ Started(c, o, kind, f, place)
           /\ UNCHANGED <<row, object, old, ref, target, todo>>
  BY FileAssumption DEF Request, Goto, TypeOK, Actors, Apart, Same, Started, fileVars

LEMMA DiscardFrame ==
    ASSUME TypeOK, NEW c \in Clients, NEW f \in Files, Discard(c, f)
    PROVE  /\ Apart(c)
           /\ pc[c] = "idle" /\ pc'[c] = "find" /\ target'[c] = f /\ op'[c] = "discard"
           /\ owner'[c] = owner[c] /\ wish'[c] = wish[c] /\ before'[c] = before[c]
           /\ copy'[c] = copy[c]
           /\ UNCHANGED <<row, object, old, ref, claimed, todo>>
           /\ exposed' = exposed \cup {f} /\ object[f] = "stored"
  BY FileAssumption DEF Discard, Goto, TypeOK, Actors, Apart, Same, fileVars

(* The reads and the save.                                                 *)
LEMMA ReadFrame ==
    ASSUME TypeOK, NEW c \in Clients, ReadBefore(c)
    PROVE  /\ Apart(c)
           /\ pc[c] = "read" /\ pc'[c] = "load" /\ before'[c] = ref[owner[c]]
           /\ target' = target /\ owner'[c] = owner[c] /\ op'[c] = op[c]
           /\ wish'[c] = wish[c] /\ copy'[c] = copy[c]
           /\ UNCHANGED <<row, object, old, ref, claimed, exposed, todo>>
  BY FileAssumption DEF ReadBefore, Goto, TypeOK, Actors, Apart, Same, fileVars, historyVars

LEMMA LoadFrame ==
    ASSUME TypeOK, NEW c \in Clients, Load(c)
    PROVE  /\ Apart(c)
           /\ pc[c] = "load" /\ pc'[c] = "save" /\ copy'[c] = ref[owner[c]]
           /\ target' = target /\ owner'[c] = owner[c] /\ op'[c] = op[c]
           /\ wish'[c] = wish[c] /\ before'[c] = before[c]
           /\ UNCHANGED <<row, object, old, ref, claimed, exposed, todo>>
  BY FileAssumption DEF Load, Goto, TypeOK, Actors, Apart, Same, fileVars, historyVars

(* A save: what the owner holds then, and where the request goes.          *)
SavedToReread(c) ==
    /\ op[c] \in {"set", "touch"} /\ owner[c] \in Keepers
    /\ pc'[c] = "reread" /\ copy'[c] = Saved(c) /\ target'[c] = target[c]
    /\ owner'[c] = owner[c] /\ op'[c] = op[c] /\ wish'[c] = wish[c] /\ before'[c] = before[c]
SavedToConfirm(c) ==
    /\ ~(op[c] \in {"set", "touch"} /\ owner[c] \in Keepers)
    /\ Confirmed(c) # NoFile
    /\ pc'[c] = "confirm" /\ copy'[c] = Confirmed(c) /\ target'[c] = Obsolete(c)
    /\ owner'[c] = owner[c] /\ op'[c] = op[c] /\ wish'[c] = wish[c] /\ before'[c] = before[c]
SavedToDelete(c) ==
    /\ ~(op[c] \in {"set", "touch"} /\ owner[c] \in Keepers)
    /\ Confirmed(c) = NoFile /\ Obsolete(c) # NoFile
    /\ pc'[c] = "find" /\ copy'[c] = NoFile /\ target'[c] = Obsolete(c)
    /\ owner'[c] = owner[c] /\ op'[c] = op[c] /\ wish'[c] = wish[c] /\ before'[c] = before[c]
SavedToEnd(c) ==
    /\ ~(op[c] \in {"set", "touch"} /\ owner[c] \in Keepers)
    /\ Confirmed(c) = NoFile /\ Obsolete(c) = NoFile
    /\ Cleared(c)

LEMMA SaveFrame ==
    ASSUME TypeOK, NEW c \in Clients, Save(c), owner[c] \in Owners
    PROVE  /\ Apart(c)
           /\ pc[c] = "save"
           /\ SavedToReread(c) \/ SavedToConfirm(c) \/ SavedToDelete(c) \/ SavedToEnd(c)
           /\ ref' = [ref EXCEPT ![owner[c]] = Saved(c)]
           /\ exposed' = exposed \cup {o \in {owner[c]} : op[c] = "bulk" \/ Unsent(c)}
           /\ UNCHANGED <<row, object, old, claimed, todo>>
<1> c # Cron /\ c \in Actors /\ Cron \in Actors
  BY FileAssumption DEF Actors
<1>1. /\ pc[c] = "save" /\ UNCHANGED <<row, object, old, claimed, todo>>
      /\ ref' = [ref EXCEPT ![owner[c]] = Saved(c)]
      /\ exposed' = exposed \cup {o \in {owner[c]} : op[c] = "bulk" \/ Unsent(c)}
  BY DEF Save, fileVars
<1>2. CASE op[c] \in {"set", "touch"} /\ owner[c] \in Keepers
  <2>1. /\ Goto(c, "reread") /\ copy' = [copy EXCEPT ![c] = Saved(c)]
        /\ UNCHANGED <<target, owner, op, wish, before>>
    BY <1>2 DEF Save
  <2> QED BY <1>1, <1>2, <2>1 DEF Goto, TypeOK, Apart, Same, SavedToReread
<1>3. CASE ~(op[c] \in {"set", "touch"} /\ owner[c] \in Keepers)
  <2>1. CASE Proceed(c, Confirmed(c), Obsolete(c)) = "idle"
    <3>1. Finish(c) /\ Confirmed(c) = NoFile /\ Obsolete(c) = NoFile
      BY <1>3, <2>1 DEF Save, Proceed
    <3>2. /\ Apart(c)
          /\ Cleared(c) /\ target' = [target EXCEPT ![c] = NoFile]
      BY <3>1, FinishFrame
    <3> QED BY <1>1, <1>3, <3>1, <3>2 DEF SavedToEnd, TypeOK
  <2>2. CASE Proceed(c, Confirmed(c), Obsolete(c)) # "idle"
    <3>1. /\ Goto(c, Proceed(c, Confirmed(c), Obsolete(c)))
          /\ copy' = [copy EXCEPT ![c] = Confirmed(c)]
          /\ target' = [target EXCEPT ![c] = Obsolete(c)]
          /\ UNCHANGED <<owner, op, wish, before>>
      BY <1>3, <2>2 DEF Save
    <3>2. /\ Apart(c)
          /\ pc'[c] = Proceed(c, Confirmed(c), Obsolete(c))
          /\ copy'[c] = Confirmed(c) /\ target'[c] = Obsolete(c)
          /\ owner'[c] = owner[c] /\ op'[c] = op[c] /\ wish'[c] = wish[c]
          /\ before'[c] = before[c]
      BY <3>1 DEF Goto, TypeOK, Apart, Same
    <3> QED BY <1>1, <1>3, <2>2, <3>2 DEF Proceed, SavedToConfirm, SavedToDelete
  <2> QED BY <2>1, <2>2
<1> QED BY <1>2, <1>3

LEMMA RereadFrame ==
    ASSUME TypeOK, NEW c \in Clients, Reread(c)
    PROVE  /\ Apart(c) /\ pc[c] = "reread"
           /\ \/ Cleared(c)
              \/ /\ copy'[c] \in {copy[c], ref[owner[c]]} \ {NoFile}
                 /\ pc'[c] = "confirm" /\ target'[c] = target[c] /\ owner'[c] = owner[c]
                 /\ op'[c] = op[c] /\ wish'[c] = wish[c] /\ before'[c] = before[c]
           /\ UNCHANGED <<row, object, old, ref, claimed, exposed, todo>>
<1>1. CASE Finish(c)
  BY <1>1, FinishFrame DEF Reread, fileVars, historyVars, Actors
<1>2. ASSUME NEW f \in {copy[c], ref[owner[c]]}, f # NoFile,
             copy' = [copy EXCEPT ![c] = f], Goto(c, "confirm"),
             UNCHANGED <<target, owner, op, wish, before>>
      PROVE  /\ Apart(c) /\ copy'[c] = f
             /\ pc'[c] = "confirm" /\ target'[c] = target[c] /\ owner'[c] = owner[c]
             /\ op'[c] = op[c] /\ wish'[c] = wish[c] /\ before'[c] = before[c]
  BY <1>2, FileAssumption DEF Goto, TypeOK, Actors, Apart, Same
<1>3. /\ pc[c] = "reread" /\ UNCHANGED <<row, object, old, ref, claimed, exposed, todo>>
  BY DEF Reread, fileVars, historyVars
<1> QED BY <1>1, <1>2, <1>3 DEF Reread

(* The confirmation is over: the old file is next, or nothing.             *)
After(c) == \/ target[c] = NoFile /\ Cleared(c)
            \/ target[c] # NoFile /\ Moved(c, "find")

LEMMA AfterFrame ==
    ASSUME TypeOK, NEW c \in Clients, AfterConfirm(c)
    PROVE  Apart(c) /\ After(c)
  BY FinishFrame, GotoFrame DEF AfterConfirm, After, Actors

LEMMA ConfirmFrame ==
    ASSUME TypeOK, NEW c \in Clients, Confirm(c)
    PROVE  /\ Apart(c) /\ pc[c] \in {"confirm", "confirm again"}
           /\ \/ /\ row[copy[c]] \in {"temp", "kept"}
                 /\ Moved(c, "keep") \/ Moved(c, "keep again")
              \/ row[copy[c]] \notin {"temp", "kept"} /\ After(c)
           /\ UNCHANGED <<row, object, old, ref, claimed, exposed, todo>>
<1>1. /\ pc[c] \in {"confirm", "confirm again"}
      /\ UNCHANGED <<row, object, old, ref, claimed, exposed, todo>>
  BY DEF Confirm, fileVars, historyVars
<1>2. CASE row[copy[c]] \in {"temp", "kept"}
  <2>1. /\ Goto(c, "keep") \/ Goto(c, "keep again")
        /\ UNCHANGED <<target, requestVars>>
    BY <1>2 DEF Confirm
  <2> QED BY <1>1, <1>2, <2>1, GotoFrame DEF Actors
<1>3. CASE row[copy[c]] \notin {"temp", "kept"}
  BY <1>1, <1>3, AfterFrame DEF Confirm
<1> QED BY <1>2, <1>3

LEMMA KeepFrame ==
    ASSUME TypeOK, NEW c \in Clients, Keep(c)
    PROVE  /\ Apart(c) /\ pc[c] \in {"keep", "keep again"} /\ After(c)
           /\ row' = [row EXCEPT ![copy[c]] = "kept"]
           /\ UNCHANGED <<object, old, ref, claimed, exposed, todo>>
  BY AfterFrame DEF Keep, historyVars

LEMMA ConfirmFailsFrame ==
    ASSUME TypeOK, NEW c \in Clients, ConfirmFails(c)
    PROVE  /\ Apart(c) /\ pc[c] \in {"confirm", "keep"} /\ Moved(c, "confirm again")
           /\ UNCHANGED <<row, object, old, ref, claimed, exposed, todo>>
<1>1. /\ Goto(c, "confirm again") /\ UNCHANGED <<target, requestVars>>
      /\ pc[c] \in {"confirm", "keep"}
      /\ UNCHANGED <<row, object, old, ref, claimed, exposed, todo>>
  BY DEF ConfirmFails, fileVars, historyVars
<1> QED BY <1>1, GotoFrame DEF Actors

(* Deletion, for a request or for the job.                                 *)
Ends(a) == /\ a \in Clients => Cleared(a)
           /\ pc'[a] = "idle" /\ target'[a] = NoFile
Goes(a, place) == /\ a \in Clients => Moved(a, place)
                  /\ pc'[a] = place /\ target'[a] = target[a]

LEMMA EndsFrame ==
    ASSUME TypeOK, NEW a \in Actors, Finish(a)
    PROVE  Apart(a) /\ Ends(a)
  BY FinishFrame DEF Ends, TypeOK

LEMMA GoesFrame ==
    ASSUME TypeOK, NEW a \in Actors, NEW place, Goto(a, place),
           UNCHANGED <<target, requestVars>>
    PROVE  Apart(a) /\ Goes(a, place)
  BY GotoFrame DEF Goes, TypeOK

LEMMA FindFrame ==
    ASSUME TypeOK, NEW a \in Actors, FindFile(a)
    PROVE  /\ Apart(a) /\ pc[a] = "find"
           /\ \/ row[target[a]] \in {"temp", "kept"} /\ Goes(a, "remove")
              \/ row[target[a]] \notin {"temp", "kept"} /\ Ends(a)
           /\ UNCHANGED <<row, object, old, ref, claimed, exposed, todo>>
  BY EndsFrame, GoesFrame DEF FindFile, fileVars, historyVars

LEMMA RemoveFrame ==
    ASSUME TypeOK, NEW a \in Actors, RemoveObject(a)
    PROVE  /\ Apart(a) /\ pc[a] = "remove" /\ Goes(a, "drop")
           /\ object' = [object EXCEPT ![target[a]] = "removed"]
           /\ UNCHANGED <<row, old, ref, claimed, exposed, todo>>
  BY GoesFrame DEF RemoveObject, historyVars

LEMMA RefuseFrame ==
    ASSUME TypeOK, NEW a \in Actors, Refused(a) \/ StorageFails(a)
    PROVE  /\ Apart(a) /\ pc[a] = "remove" /\ Ends(a)
           /\ UNCHANGED <<row, object, old, ref, claimed, exposed, todo>>
  BY EndsFrame DEF Refused, StorageFails, RefuseRemoval, fileVars, historyVars

LEMMA DropFrame ==
    ASSUME TypeOK, NEW a \in Actors, DropRow(a)
    PROVE  /\ Apart(a) /\ pc[a] = "drop" /\ Ends(a)
           /\ row' = [row EXCEPT ![target[a]] = "deleted"]
           /\ UNCHANGED <<object, old, ref, claimed, exposed, todo>>
  BY EndsFrame DEF DropRow, historyVars

LEMMA DbFailsFrame ==
    ASSUME TypeOK, NEW a \in Actors, DbFails(a)
    PROVE  /\ Apart(a) /\ Ends(a)
           /\ exposed' = exposed
                \cup {owner[c] : c \in {d \in Clients : d = a /\ Unconfirmed(d)}}
           /\ UNCHANGED <<row, object, old, ref, claimed, todo>>
  BY EndsFrame DEF DbFails, fileVars

LEMMA NextOrphanFrame ==
    ASSUME TypeOK, NEW f \in Files, NextOrphan(f)
    PROVE  /\ \A d \in Clients : Same(d)
           /\ f \in todo /\ todo' = todo \ {f}
           /\ pc'[Cron] = "find" /\ target'[Cron] = f
           /\ UNCHANGED <<row, object, old, ref, claimed, exposed>>
  BY FileAssumption
     DEF NextOrphan, Goto, TypeOK, Actors, Same, fileVars, requestVars, historyVars

LEMMA CrashFrame ==
    ASSUME Crash
    PROVE  /\ \A d \in Clients : Cleared(d)
           /\ pc'[Cron] = "idle" /\ target'[Cron] = NoFile /\ todo' = {}
           /\ exposed' = exposed \cup {owner[c] : c \in {d \in Clients : Unconfirmed(d)}}
           /\ UNCHANGED <<row, object, old, ref, claimed>>
  BY DEF Crash, Actors, Cleared, fileVars

LEMMA QuietFrame ==
    ASSUME TypeOK, ListOrphans \/ (\E f \in Files : Upload(f) \/ Age(f)) \/ UNCHANGED vars
    PROVE  /\ \A d \in Clients : Same(d)
           /\ pc' = pc /\ target' = target
           /\ UNCHANGED <<ref, claimed, exposed>>
  BY DEF ListOrphans, Upload, Age, vars, Same, requestVars, historyVars

(* The places of requests, by the kinds of step.                           *)
LEMMA PlaceStep ==
    ASSUME TypeOK, PlaceInv, [Next]_vars
    PROVE  PlaceInv'
<1>1. ASSUME NEW a \in Actors, Apart(a), a \in Clients => Placed(a)'
      PROVE  PlaceInv'
  <2>1. ASSUME NEW d \in Clients, d # a PROVE Placed(d)'
    BY <1>1, <2>1, SamePlaced DEF Apart, PlaceInv
  <2> QED BY <1>1, <2>1 DEF PlaceInv
<1>2. ASSUME \A d \in Clients : Same(d) PROVE PlaceInv'
  BY <1>2, SamePlaced DEF PlaceInv
<1>3. ASSUME NEW a \in Actors, Apart(a), Ends(a) PROVE PlaceInv'
  BY <1>1, <1>3, ClearedPlaced DEF Ends
<1>4. ASSUME NEW a \in Actors, Apart(a), NEW place \in Deleting, Goes(a, place) PROVE PlaceInv'
  <2>1. a \in Clients => Placed(a)'
    BY <1>4 DEF Goes, Moved, Placed, PlaceInv, Confirming, Deleting
  <2> QED BY <1>1, <1>4, <2>1
<1>5. ASSUME NEW c \in Clients, Begin(c) PROVE PlaceInv'
  <2>1. ASSUME NEW f \in Files, Discard(c, f) PROVE PlaceInv'
    <3>1. Apart(c) /\ Placed(c)'
      BY <2>1, DiscardFrame DEF Placed, PlaceInv, Confirming
    <3> QED BY <1>1, <3>1 DEF Actors
  <2>2. ASSUME NEW o \in Owners, NEW f \in MaybeFile,
               NEW kind \in {"create", "set", "touch", "flag", "bulk"},
               NEW place \in {"read", "load", "save"}, Request(c, o, kind, f, place),
               Fits(o, kind, f, place)
        PROVE  PlaceInv'
    <3>1. Apart(c) /\ Started(c, o, kind, f, place)
      BY <2>2, RequestFrame
    <3>2. Placed(c)'
      BY <2>2, <3>1, FileAssumption DEF Started, Placed, PlaceInv, Confirming, Fits
    <3> QED BY <1>1, <3>1, <3>2 DEF Actors
  <2> QED BY <1>5, <2>1, <2>2, BeginIsRequest
<1>6. ASSUME NEW c \in Clients, ReadBefore(c) \/ Load(c) PROVE PlaceInv'
  <2>1. Apart(c) /\ Placed(c)'
    <3>1. CASE ReadBefore(c)
      BY <3>1, ReadFrame DEF Placed, PlaceInv, Confirming
    <3>2. CASE Load(c)
      BY <3>2, LoadFrame DEF Placed, PlaceInv, Confirming
    <3> QED BY <1>6, <3>1, <3>2
  <2> QED BY <1>1, <2>1 DEF Actors
<1>7. ASSUME NEW c \in Clients, Save(c) PROVE PlaceInv'
  <2>1. owner[c] \in Owners
    BY <1>7 DEF Save, PlaceInv, Placed, TypeOK
  <2>2. /\ Apart(c) /\ pc[c] = "save"
        /\ SavedToReread(c) \/ SavedToConfirm(c) \/ SavedToDelete(c) \/ SavedToEnd(c)
    BY <1>7, <2>1, SaveFrame
  <2>3. Placed(c)'
    <3>1. CASE SavedToEnd(c)
      BY <3>1, ClearedPlaced DEF SavedToEnd
    <3>2. CASE SavedToReread(c) \/ SavedToConfirm(c) \/ SavedToDelete(c)
      BY <2>1, <2>2, <3>2, FileAssumption
         DEF SavedToReread, SavedToConfirm, SavedToDelete, Placed, PlaceInv, Confirming
    <3> QED BY <2>2, <3>1, <3>2
  <2> QED BY <1>1, <2>2, <2>3 DEF Actors
<1>8. ASSUME NEW c \in Clients, Reread(c) PROVE PlaceInv'
  <2>1. Apart(c) /\ Placed(c)'
    BY <1>8, RereadFrame, ClearedPlaced DEF Placed, PlaceInv, Confirming
  <2> QED BY <1>1, <2>1 DEF Actors
<1>9. ASSUME NEW c \in Clients, Confirm(c) \/ Keep(c) \/ ConfirmFails(c) PROVE PlaceInv'
  <2>1. /\ Apart(c) /\ pc[c] \in Confirming
        /\ After(c) \/ Moved(c, "keep") \/ Moved(c, "keep again") \/ Moved(c, "confirm again")
    BY <1>9, ConfirmFrame, KeepFrame, ConfirmFailsFrame DEF Confirming
  <2>2. Placed(c)'
    BY <2>1, ClearedPlaced DEF After, Moved, Placed, PlaceInv, Confirming
  <2> QED BY <1>1, <2>1, <2>2 DEF Actors
<1>10. ASSUME NEW a \in Actors, DeleteStep(a) \/ DbFails(a) \/ StorageFails(a) PROVE PlaceInv'
  <2>1. Apart(a) /\ (Ends(a) \/ Goes(a, "remove") \/ Goes(a, "drop"))
    BY <1>10, FindFrame, RemoveFrame, RefuseFrame, DropFrame, DbFailsFrame DEF DeleteStep
  <2> QED BY <1>3, <1>4, <2>1 DEF Deleting
<1>11. CASE Crash
  BY <1>11, CrashFrame, ClearedPlaced DEF PlaceInv
<1>12. ASSUME NEW f \in Files, NextOrphan(f) PROVE PlaceInv'
  BY <1>2, <1>12, NextOrphanFrame
<1>13. CASE ListOrphans \/ (\E f \in Files : Upload(f) \/ Age(f)) \/ UNCHANGED vars
  BY <1>2, <1>13, QuietFrame
<1> QED BY <1>5, <1>6, <1>7, <1>8, <1>9, <1>10, <1>11, <1>12, <1>13
        DEF Next, RequestStep, CronStep, Actors

LEMMA InitTyped ==
    ASSUME Init
    PROVE  TypeOK /\ PlaceInv
  BY FileAssumption DEF Init, TypeOK, PlaceInv, Placed, MaybeFile, Actors, Confirming, Deleting

(* Every state of the files is well typed: a request that confirms has a   *)
(* file to confirm, and a deletion has one to delete.                      *)
THEOREM TypeCorrect == Spec => []TypeOK
<1>1. Init => TypeOK /\ PlaceInv
  BY InitTyped
<1>2. TypeOK /\ PlaceInv /\ [Next]_vars => (TypeOK /\ PlaceInv)'
  BY TypeStep, PlaceStep
<1> QED BY <1>1, <1>2, PTL DEF Spec

-------------------------------------------------------------------------------
(* Objects and rows.                                                       *)

(* A file that was uploaded stays uploaded, and one removed is not put back.*)
Onward == \A f \in Files : /\ row[f] # "unused" => row'[f] # "unused"
                           /\ object[f] = "removed" => object'[f] = "removed"

LEMMA LinksStay ==
    ASSUME TypeOK, ObjectInv, Onward, NEW a \in Actors, Apart(a), FilesInv',
           Linked(a)', a \in Clients => Meant(a)'
    PROVE  ObjectInv'
<1>1. ASSUME NEW d \in Clients, d # a PROVE Meant(d)'
  <2>1. Meant(d) /\ Same(d)
    BY <1>1 DEF Apart, ObjectInv
  <2>2. /\ wish[d] # NoFile => wish[d] \in Files
        /\ pc[d] \in {"keep", "keep again"} => copy[d] \in Files
    BY DEF TypeOK, MaybeFile, Confirming
  <2> QED BY <2>1, <2>2 DEF Meant, Same, Onward
<1>2. ASSUME NEW b \in Actors, b # a PROVE Linked(b)'
  <2>1. pc'[b] = pc[b] /\ target'[b] = target[b] /\ Linked(b)
    BY <1>2 DEF Apart, Same, Actors, ObjectInv
  <2>2. pc[b] \in {"remove", "drop"} => target[b] \in Files
    BY DEF TypeOK, Deleting
  <2> QED BY <2>1, <2>2 DEF Linked, Onward
<1> QED BY <1>1, <1>2 DEF ObjectInv

LEMMA LinksAllStay ==
    ASSUME TypeOK, ObjectInv, Onward, \A d \in Clients : Same(d), FilesInv', Linked(Cron)'
    PROVE  ObjectInv'
<1>1. ASSUME NEW d \in Clients PROVE Meant(d)' /\ Linked(d)'
  <2>1. Meant(d) /\ Linked(d) /\ Same(d)
    BY DEF ObjectInv, Actors
  <2>2. /\ wish[d] # NoFile => wish[d] \in Files
        /\ pc[d] \in {"keep", "keep again"} => copy[d] \in Files
        /\ pc[d] \in {"remove", "drop"} => target[d] \in Files
    BY DEF TypeOK, MaybeFile, Confirming, Deleting, Actors
  <2> QED BY <2>1, <2>2 DEF Meant, Linked, Same, Onward
<1> QED BY <1>1 DEF ObjectInv, Actors

LEMMA ObjectStep ==
    ASSUME TypeOK, PlaceInv, ObjectInv, [Next]_vars
    PROVE  ObjectInv'
<1>0. ASSUME UNCHANGED <<row, object>> PROVE Onward /\ FilesInv'
  BY <1>0 DEF Onward, ObjectInv, FilesInv, ObjectsAreKnown
<1>1. ASSUME NEW a \in Actors, Apart(a), Ends(a), Onward, FilesInv' PROVE ObjectInv'
  BY <1>1, LinksStay DEF Ends, Cleared, Linked, Meant
<1>2. ASSUME NEW c \in Clients, Begin(c) PROVE ObjectInv'
  <2>1. ASSUME NEW f \in Files, Discard(c, f) PROVE ObjectInv'
    <3>0. /\ Meant(c) /\ wish'[c] = wish[c] /\ pc'[c] = "find"
          /\ UNCHANGED <<row, object>>
      BY <2>1, DiscardFrame DEF ObjectInv
    <3>1. Linked(c)' /\ Meant(c)'
      BY <3>0 DEF Linked, Meant
    <3> QED BY <1>0, <2>1, <3>1, DiscardFrame, LinksStay DEF Actors
  <2>2. ASSUME NEW o \in Owners, NEW f \in MaybeFile,
               NEW kind \in {"create", "set", "touch", "flag", "bulk"},
               NEW place \in {"read", "load", "save"}, Request(c, o, kind, f, place)
        PROVE  ObjectInv'
    <3>1. /\ Apart(c) /\ Started(c, o, kind, f, place) /\ UNCHANGED <<row, object>>
          /\ f # NoFile => object[f] = "stored"
      BY <2>2, RequestFrame DEF Request
    <3>2. f # NoFile => row[f] # "unused"
      BY <3>1 DEF ObjectInv, FilesInv, MaybeFile
    <3>3. Linked(c)' /\ Meant(c)'
      BY <3>1, <3>2 DEF Linked, Meant, Started
    <3> QED BY <1>0, <3>1, <3>3, LinksStay DEF Actors
  <2> QED BY <1>2, <2>1, <2>2, BeginIsRequest
<1>3. ASSUME NEW c \in Clients, ReadBefore(c) \/ Load(c) \/ Reread(c) \/ ConfirmFails(c)
      PROVE  ObjectInv'
  <2>1. Apart(c) /\ UNCHANGED <<row, object>>
    BY <1>3, ReadFrame, LoadFrame, RereadFrame, ConfirmFailsFrame
  <2>2. Linked(c)' /\ (pc'[c] \notin {"keep", "keep again"})
    BY <1>3, ReadFrame, LoadFrame, RereadFrame, ConfirmFailsFrame
       DEF Linked, Cleared, Moved
  <2>3. wish'[c] \in {wish[c], NoFile}
    BY <1>3, ReadFrame, LoadFrame, RereadFrame, ConfirmFailsFrame DEF Cleared, Moved
  <2>4. Meant(c)'
    BY <2>1, <2>2, <2>3 DEF Meant, ObjectInv
  <2> QED BY <1>0, <2>1, <2>2, <2>4, LinksStay DEF Actors
<1>4. ASSUME NEW c \in Clients, Save(c) PROVE ObjectInv'
  <2>1. owner[c] \in Owners
    BY <1>4 DEF Save, PlaceInv, Placed, TypeOK
  <2>2. /\ Apart(c) /\ UNCHANGED <<row, object>>
        /\ SavedToReread(c) \/ SavedToConfirm(c) \/ SavedToDelete(c) \/ SavedToEnd(c)
    BY <1>4, <2>1, SaveFrame
  <2>3. Linked(c)' /\ pc'[c] \notin {"keep", "keep again"} /\ wish'[c] \in {wish[c], NoFile}
    BY <2>2 DEF SavedToReread, SavedToConfirm, SavedToDelete, SavedToEnd, Cleared, Linked
  <2>4. Meant(c)'
    BY <2>2, <2>3 DEF Meant, ObjectInv
  <2> QED BY <1>0, <2>2, <2>3, <2>4, LinksStay DEF Actors
<1>5. ASSUME NEW c \in Clients, Confirm(c) PROVE ObjectInv'
  <2>1. Apart(c) /\ UNCHANGED <<row, object>> /\ pc'[c] \notin {"remove", "drop"}
    BY <1>5, ConfirmFrame DEF After, Moved, Cleared
  <2>2. Meant(c)'
    <3>1. Meant(c) /\ row' = row
      BY <2>1 DEF ObjectInv
    <3>2. CASE row[copy[c]] \in {"temp", "kept"} /\ (Moved(c, "keep") \/ Moved(c, "keep again"))
      BY <3>1, <3>2 DEF Moved, Meant
    <3>3. CASE After(c)
      BY <3>1, <3>3 DEF After, Moved, Cleared, Meant
    <3> QED BY <1>5, <3>2, <3>3, ConfirmFrame
  <2> QED BY <1>0, <2>1, <2>2, LinksStay DEF Actors, Linked
<1>6. ASSUME NEW c \in Clients, Keep(c) PROVE ObjectInv'
  <2>1. /\ Apart(c) /\ UNCHANGED object /\ After(c)
        /\ row' = [row EXCEPT ![copy[c]] = "kept"]
        /\ copy[c] \in Files /\ row[copy[c]] # "unused"
    BY <1>6, KeepFrame DEF TypeOK, Confirming, ObjectInv, Meant
  <2>2. Onward /\ FilesInv'
    BY <2>1 DEF TypeOK, Onward, ObjectInv, FilesInv, ObjectsAreKnown
  <2>3. wish'[c] \in {wish[c], NoFile} /\ pc'[c] \in {"idle", "find"}
    BY <2>1 DEF After, Moved, Cleared
  <2>4. Meant(c)' /\ Linked(c)'
    BY <2>2, <2>3 DEF Meant, Linked, ObjectInv, Onward, TypeOK, MaybeFile
  <2> QED BY <2>1, <2>2, <2>4, LinksStay DEF Actors
<1>7. ASSUME NEW a \in Actors, FindFile(a) PROVE ObjectInv'
  <2>1. Apart(a) /\ UNCHANGED <<row, object>>
    BY <1>7, FindFrame
  <2>2. CASE Ends(a)
    BY <1>0, <1>1, <2>1, <2>2
  <2>3. CASE row[target[a]] \in {"temp", "kept"} /\ Goes(a, "remove")
    <3>1. Linked(a)' /\ (a \in Clients => Meant(a)')
      BY <2>1, <2>3 DEF Goes, Moved, Linked, Meant, ObjectInv
    <3> QED BY <1>0, <2>1, <3>1, LinksStay
  <2> QED BY <1>7, <2>2, <2>3, FindFrame
<1>8. ASSUME NEW a \in Actors, RemoveObject(a) PROVE ObjectInv'
  <2>1. /\ Apart(a) /\ UNCHANGED row /\ Goes(a, "drop") /\ target[a] \in Files
        /\ object' = [object EXCEPT ![target[a]] = "removed"]
        /\ row[target[a]] # "unused"
    BY <1>8, RemoveFrame DEF TypeOK, Deleting, ObjectInv, Linked
  <2>2. Onward /\ FilesInv'
    BY <2>1 DEF TypeOK, Onward, ObjectInv, FilesInv, ObjectsAreKnown
  <2>3. Linked(a)' /\ (a \in Clients => Meant(a)')
    BY <2>1 DEF Goes, Moved, Linked, Meant, ObjectInv, TypeOK
  <2> QED BY <2>1, <2>2, <2>3, LinksStay
<1>9. ASSUME NEW a \in Actors, DropRow(a) PROVE ObjectInv'
  <2>1. /\ Apart(a) /\ UNCHANGED object /\ Ends(a) /\ target[a] \in Files
        /\ row' = [row EXCEPT ![target[a]] = "deleted"]
        /\ object[target[a]] = "removed"
    BY <1>9, DropFrame DEF TypeOK, Deleting, ObjectInv, Linked
  <2>2. Onward /\ FilesInv'
    BY <2>1 DEF TypeOK, Onward, ObjectInv, FilesInv, ObjectsAreKnown
  <2> QED BY <1>1, <2>1, <2>2
<1>10. ASSUME NEW a \in Actors, Refused(a) \/ StorageFails(a) \/ DbFails(a) PROVE ObjectInv'
  BY <1>0, <1>1, <1>10, RefuseFrame, DbFailsFrame
<1>11. CASE Crash
  BY <1>0, <1>11, CrashFrame DEF ObjectInv, Actors, Cleared, Linked, Meant
<1>12. ASSUME NEW f \in Files, NextOrphan(f) PROVE ObjectInv'
  BY <1>0, <1>12, NextOrphanFrame, LinksAllStay DEF Linked
<1>13. ASSUME NEW f \in Files, Upload(f) PROVE ObjectInv'
  <2>1. /\ row' = [row EXCEPT ![f] = "temp"] /\ object' = [object EXCEPT ![f] = "stored"]
        /\ row[f] = "unused"
    BY <1>13 DEF Upload
  <2>2. Onward /\ FilesInv'
    BY <2>1 DEF TypeOK, Onward, ObjectInv, FilesInv, ObjectsAreKnown
  <2>3. (\A d \in Clients : Same(d)) /\ pc' = pc /\ target' = target
    BY <1>13, QuietFrame
  <2>4. Linked(Cron)'
    BY <2>2, <2>3 DEF Linked, ObjectInv, Actors, Onward, TypeOK, Deleting
  <2> QED BY <2>2, <2>3, <2>4, LinksAllStay
<1>14. CASE ListOrphans \/ (\E f \in Files : Age(f)) \/ UNCHANGED vars
  <2>1. (\A d \in Clients : Same(d)) /\ pc' = pc /\ target' = target
    BY <1>14, QuietFrame
  <2>2. UNCHANGED <<row, object>>
    BY <1>14 DEF ListOrphans, Age, vars, fileVars
  <2>3. Linked(Cron)'
    BY <2>1, <2>2 DEF Linked, ObjectInv, Actors
  <2> QED BY <1>0, <2>1, <2>2, <2>3, LinksAllStay
<1> QED BY <1>2, <1>3, <1>4, <1>5, <1>6, <1>7, <1>8, <1>9, <1>10, <1>11, <1>12, <1>13, <1>14
        DEF Next, RequestStep, CronStep, DeleteStep, Actors

LEMMA InitObjects ==
    ASSUME Init
    PROVE  ObjectInv
<1>1. FilesInv
  BY DEF Init, FilesInv, ObjectsAreKnown
<1>2. \A c \in Clients : Meant(c)
  BY DEF Init, Meant, Actors
<1>3. \A a \in Actors : Linked(a)
  BY DEF Init, Linked
<1> QED BY <1>1, <1>2, <1>3 DEF ObjectInv

(* An object in the store has a row that names it, whatever fails and      *)
(* overlaps: the object is removed first, and its row only then.           *)
THEOREM ObjectsKnown == Spec => []ObjectsAreKnown
<1>1. Init => TypeOK /\ PlaceInv /\ ObjectInv
  BY InitTyped, InitObjects
<1>2. TypeOK /\ PlaceInv /\ ObjectInv /\ [Next]_vars => (TypeOK /\ PlaceInv /\ ObjectInv)'
  BY TypeStep, PlaceStep, ObjectStep
<1>3. ObjectInv => ObjectsAreKnown
  BY DEF ObjectInv, FilesInv
<1> QED BY <1>1, <1>2, <1>3, PTL DEF Spec

-------------------------------------------------------------------------------
(* The new file is confirmed before the old one goes.                      *)

(* No file becomes temporary a second time.                                *)
Settled == \A f \in Files : row[f] \notin {"unused", "temp"} => row'[f] # "temp"

LEMMA SettledStep ==
    ASSUME TypeOK, [Next]_vars
    PROVE  Settled
<1>1. ASSUME row' = row PROVE Settled
  BY <1>1 DEF Settled
<1>2. ASSUME NEW f \in Files, Upload(f) \/ Age(f) PROVE Settled
  BY <1>2 DEF Upload, Age, Settled, TypeOK
<1>3. ASSUME NEW c \in Clients, Begin(c) PROVE Settled
  BY <1>1, <1>3, BeginIsRequest, DiscardFrame, RequestFrame
<1>4. ASSUME NEW c \in Clients, ReadBefore(c) \/ Load(c) \/ Save(c) \/ Reread(c) \/ Confirm(c)
                                  \/ ConfirmFails(c)
      PROVE  Settled
  BY <1>1, <1>4 DEF ReadBefore, Load, Save, Reread, Confirm, ConfirmFails, fileVars
<1>5. ASSUME NEW c \in Clients, Keep(c) PROVE Settled
  BY <1>5 DEF Keep, Settled, TypeOK
<1>6. ASSUME NEW a \in Actors, FindFile(a) \/ RemoveObject(a) \/ Refused(a) \/ DbFails(a)
                                  \/ StorageFails(a)
      PROVE  Settled
  BY <1>1, <1>6
     DEF FindFile, RemoveObject, Refused, RefuseRemoval, DbFails, StorageFails, fileVars
<1>7. ASSUME NEW a \in Actors, DropRow(a) PROVE Settled
  BY <1>7 DEF DropRow, Settled, TypeOK
<1>8. CASE ListOrphans \/ (\E f \in Files : NextOrphan(f)) \/ Crash \/ UNCHANGED vars
  BY <1>1, <1>8 DEF ListOrphans, NextOrphan, Crash, vars, fileVars
<1> QED BY <1>2, <1>3, <1>4, <1>5, <1>6, <1>7, <1>8
        DEF Next, RequestStep, CronStep, DeleteStep, Actors

LEMMA SentStep ==
    ASSUME TypeOK, PlaceInv, ObjectInv, SentInv, [Next]_vars
    PROVE  SentInv'
<1>1. Settled
  BY SettledStep
<1>2. ASSUME NEW d \in Clients, Same(d) PROVE Sent(d)'
  <2>1. Sent(d) /\ Meant(d) /\ (wish[d] # NoFile => wish[d] \in Files)
    BY DEF SentInv, ObjectInv, TypeOK, MaybeFile
  <2> QED BY <1>1, <1>2, <2>1 DEF Same, Sent, Meant, Settled
<1>3. ASSUME NEW a \in Actors, Apart(a), a \in Clients => Sent(a)' PROVE SentInv'
  BY <1>2, <1>3 DEF Apart, SentInv
<1>4. ASSUME NEW a \in Actors, Apart(a), Ends(a) PROVE SentInv'
  BY <1>3, <1>4 DEF Ends, Cleared, Sent
<1>5. ASSUME NEW a \in Actors, Apart(a), pc[a] \in Deleting, NEW place \in Deleting,
             Goes(a, place)
      PROVE  SentInv'
  <2>1. ASSUME a \in Clients PROVE Sent(a)'
    <3>1. Sent(a) /\ Meant(a) /\ (wish[a] # NoFile => wish[a] \in Files)
      BY <2>1 DEF SentInv, ObjectInv, TypeOK, MaybeFile
    <3> QED BY <1>1, <1>5, <2>1, <3>1
            DEF Goes, Moved, Sent, Meant, Settled, Confirming, Deleting
  <2> QED BY <1>3, <1>5, <2>1
<1>6. ASSUME NEW c \in Clients, Begin(c) PROVE SentInv'
  <2>1. ASSUME NEW f \in Files, Discard(c, f) PROVE SentInv'
    <3>1. Apart(c) /\ Sent(c)'
      BY <2>1, DiscardFrame DEF Sent, Confirming
    <3> QED BY <1>3, <3>1 DEF Actors
  <2>2. ASSUME NEW o \in Owners, NEW f \in MaybeFile,
               NEW kind \in {"create", "set", "touch", "flag", "bulk"},
               NEW place \in {"read", "load", "save"}, Request(c, o, kind, f, place)
        PROVE  SentInv'
    <3>1. Apart(c) /\ Started(c, o, kind, f, place)
      BY <2>2, RequestFrame
    <3>2. Sent(c)'
      BY <3>1 DEF Started, Sent, Confirming, Deleting
    <3> QED BY <1>3, <3>1, <3>2 DEF Actors
  <2> QED BY <1>6, <2>1, <2>2, BeginIsRequest
<1>7. ASSUME NEW c \in Clients, ReadBefore(c) \/ Load(c) PROVE SentInv'
  <2>1. Apart(c) /\ Sent(c)'
    BY <1>7, ReadFrame, LoadFrame DEF Sent, Confirming, Deleting
  <2> QED BY <1>3, <2>1 DEF Actors
<1>8. ASSUME NEW c \in Clients, Save(c) PROVE SentInv'
  <2>1. owner[c] \in Owners
    BY <1>8 DEF Save, PlaceInv, Placed, TypeOK
  <2>2. /\ Apart(c)
        /\ SavedToReread(c) \/ SavedToConfirm(c) \/ SavedToDelete(c) \/ SavedToEnd(c)
    BY <1>8, <2>1, SaveFrame
  <2>3. op[c] = "set" => Given(c) = wish[c]
    BY DEF Given, Saved, Unsent
  <2>4. CASE SavedToReread(c)
    BY <1>3, <2>2, <2>4 DEF SavedToReread, Sent, Confirming, Deleting, Actors
  <2>5. CASE SavedToConfirm(c)
    <3>1. op[c] = "set" => Confirmed(c) = wish[c]
      BY <2>3, <2>5 DEF SavedToConfirm, Confirmed
    <3>2. Sent(c)'
      BY <2>5, <3>1 DEF SavedToConfirm, Sent, Confirming, Deleting
    <3> QED BY <1>3, <2>2, <3>2 DEF Actors
  <2>6. CASE SavedToDelete(c)
    <3>1. op[c] = "set" => wish[c] = NoFile
      BY <2>3, <2>6 DEF SavedToDelete, Confirmed, Obsolete
    <3>2. Sent(c)'
      BY <2>6, <3>1 DEF SavedToDelete, Sent, Confirming, Deleting
    <3> QED BY <1>3, <2>2, <3>2 DEF Actors
  <2>7. CASE SavedToEnd(c)
    <3>1. Sent(c)'
      BY <2>7 DEF SavedToEnd, Cleared, Sent
    <3> QED BY <1>3, <2>2, <3>1 DEF Actors
  <2> QED BY <2>2, <2>4, <2>5, <2>6, <2>7
<1>9. ASSUME NEW c \in Clients, Reread(c) PROVE SentInv'
  <2>1. target[c] = NoFile
    BY <1>9 DEF Reread, PlaceInv, Placed
  <2>2. Apart(c) /\ Sent(c)'
    BY <1>9, <2>1, RereadFrame DEF Cleared, Sent, Confirming, Deleting
  <2> QED BY <1>3, <2>2 DEF Actors
<1>10. ASSUME NEW c \in Clients, pc[c] \in Confirming, Apart(c),
              row'[copy[c]] # "temp", After(c)
       PROVE  SentInv'
  <2>1. CASE target[c] = NoFile
    BY <1>4, <1>10, <2>1 DEF After, Ends, Cleared, Actors
  <2>2. CASE target[c] # NoFile
    <3>1. Moved(c, "find") /\ Sent(c)
      BY <1>10, <2>2 DEF After, SentInv
    <3>2. Sent(c)'
      BY <1>10, <2>2, <3>1 DEF Moved, Sent, Confirming, Deleting
    <3> QED BY <1>3, <1>10, <3>2 DEF Actors
  <2> QED BY <2>1, <2>2
<1>11. ASSUME NEW c \in Clients, pc[c] \in Confirming, Apart(c), NEW place \in Confirming,
              Moved(c, place)
       PROVE  SentInv'
  <2>1. Sent(c)'
    BY <1>11 DEF SentInv, Moved, Sent, Confirming, Deleting
  <2> QED BY <1>3, <1>11, <2>1 DEF Actors
<1>12. ASSUME NEW c \in Clients, Confirm(c) PROVE SentInv'
  <2>1. Apart(c) /\ pc[c] \in Confirming /\ row' = row
    BY <1>12, ConfirmFrame DEF Confirming
  <2>2. CASE After(c) /\ row[copy[c]] \notin {"temp", "kept"}
    BY <1>10, <2>1, <2>2
  <2>3. CASE Moved(c, "keep") \/ Moved(c, "keep again")
    BY <1>11, <2>1, <2>3 DEF Confirming
  <2> QED BY <1>12, <2>2, <2>3, ConfirmFrame
<1>13. ASSUME NEW c \in Clients, Keep(c) PROVE SentInv'
  <2>1. /\ Apart(c) /\ pc[c] \in Confirming /\ After(c) /\ copy[c] \in Files
        /\ row' = [row EXCEPT ![copy[c]] = "kept"]
    BY <1>13, KeepFrame DEF Confirming, TypeOK
  <2> QED BY <1>10, <2>1 DEF TypeOK
<1>14. ASSUME NEW c \in Clients, ConfirmFails(c) PROVE SentInv'
  BY <1>11, <1>14, ConfirmFailsFrame DEF Confirming
<1>15. ASSUME NEW a \in Actors, DeleteStep(a) \/ DbFails(a) \/ StorageFails(a) PROVE SentInv'
  <2>1. /\ Apart(a)
        /\ Ends(a) \/ (pc[a] \in Deleting /\ (Goes(a, "remove") \/ Goes(a, "drop")))
    BY <1>15, FindFrame, RemoveFrame, RefuseFrame, DropFrame, DbFailsFrame
       DEF DeleteStep, Deleting
  <2> QED BY <1>4, <1>5, <2>1 DEF Deleting
<1>16. CASE Crash
  BY <1>16, CrashFrame DEF SentInv, Sent, Cleared
<1>17. CASE ListOrphans \/ (\E f \in Files : Upload(f) \/ Age(f) \/ NextOrphan(f))
              \/ UNCHANGED vars
  BY <1>2, <1>17, QuietFrame, NextOrphanFrame DEF SentInv
<1> QED BY <1>6, <1>7, <1>8, <1>9, <1>12, <1>13, <1>14, <1>15, <1>16, <1>17
        DEF Next, RequestStep, CronStep, Actors

(* When an update deletes the file it replaced, the file it was sent is    *)
(* confirmed or gone by another's hand: it is not one that the nightly job *)
(* could still take.                                                       *)
THEOREM OldGoesLast == Spec => []NewBeforeOld
<1> DEFINE Inv == TypeOK /\ PlaceInv /\ ObjectInv /\ SentInv
<1>1. Init => Inv
  <2> SUFFICES ASSUME Init PROVE Inv
    OBVIOUS
  <2>1. SentInv
    BY DEF Init, SentInv, Sent, Confirming, Deleting, Actors
  <2> QED BY <2>1, InitTyped, InitObjects
<1>2. Inv /\ [Next]_vars => Inv'
  BY TypeStep, PlaceStep, ObjectStep, SentStep
<1>3. Inv => NewBeforeOld
  BY DEF SentInv, Sent, NewBeforeOld
<1> QED BY <1>1, <1>2, <1>3, PTL DEF Spec

-------------------------------------------------------------------------------
(* Who uses what.                                                          *)

(* Exposure is never taken back, and a file is first given to one owner    *)
(* for good.                                                               *)
LEMMA HistoryStep ==
    ASSUME TypeOK, [Next]_vars
    PROVE  /\ exposed \subseteq exposed'
           /\ \A f \in Files : claimed[f] # NoOwner => claimed'[f] = claimed[f]
<1>1. ASSUME NEW f \in Files, Upload(f) \/ Age(f) \/ NextOrphan(f)
      PROVE  UNCHANGED <<exposed, claimed>>
  BY <1>1 DEF Upload, Age, NextOrphan, historyVars
<1>2. ASSUME NEW c \in Clients, Begin(c)
      PROVE  /\ exposed \subseteq exposed'
             /\ \A f \in Files : claimed[f] # NoOwner => claimed'[f] = claimed[f]
  <2>1. ASSUME NEW f \in Files, Discard(c, f) PROVE exposed \subseteq exposed' /\ claimed' = claimed
    BY <2>1 DEF Discard
  <2>2. ASSUME NEW o \in Owners, NEW f \in MaybeFile,
               NEW kind \in {"create", "set", "touch", "flag", "bulk"},
               NEW place \in {"read", "load", "save"}, Request(c, o, kind, f, place)
        PROVE  /\ exposed \subseteq exposed'
               /\ \A g \in Files : claimed[g] # NoOwner => claimed'[g] = claimed[g]
    BY <2>2 DEF Request
  <2> QED BY <1>2, <2>1, <2>2, BeginIsRequest
<1>3. ASSUME NEW c \in Clients, RequestStep(c) \/ ConfirmFails(c)
      PROVE  exposed \subseteq exposed' /\ claimed' = claimed
  BY <1>3 DEF RequestStep, ReadBefore, Load, Save, Reread, Confirm, Keep, DeleteStep, FindFile,
              RemoveObject, Refused, RefuseRemoval, DropRow, ConfirmFails, historyVars
<1>4. ASSUME NEW a \in Actors, DeleteStep(a) \/ DbFails(a) \/ StorageFails(a)
      PROVE  exposed \subseteq exposed' /\ claimed' = claimed
  BY <1>4 DEF DeleteStep, FindFile, RemoveObject, Refused, RefuseRemoval, DropRow, DbFails,
              StorageFails, historyVars
<1>5. CASE ListOrphans \/ Crash \/ UNCHANGED vars
  BY <1>5 DEF ListOrphans, Crash, vars, historyVars
<1> QED BY <1>1, <1>2, <1>3, <1>4, <1>5 DEF Next, CronStep, Actors

LEMMA BelongsStays ==
    ASSUME TypeOK, [Next]_vars, NEW f \in Files, NEW o \in Owners, Belongs(f, o)
    PROVE  Belongs(f, o)'
  BY HistoryStep, FileAssumption DEF Belongs

LEMMA OwnedStays ==
    ASSUME TypeOK, [Next]_vars, NEW c \in Clients, owner[c] \in Owners, Owned(c),
           owner'[c] = owner[c],
           \A f \in Holds(c)' : f \in Holds(c) \/ (f \in Files /\ Belongs(f, owner[c]))
    PROVE  Owned(c)'
<1>1. Holds(c) \subseteq Files
  BY DEF Holds, TypeOK, MaybeFile, Actors
<1>2. ASSUME NEW f \in Holds(c)' PROVE Belongs(f, owner[c])'
  <2>1. f \in Files /\ Belongs(f, owner[c])
    BY <1>1, <1>2, FileAssumption DEF Owned
  <2> QED BY <2>1, BelongsStays
<1> QED BY <1>2, FileAssumption DEF Owned, Belongs

LEMMA DisownedStays ==
    ASSUME TypeOK, [Next]_vars, NEW c \in Clients, owner[c] = NoOwner, Owned(c),
           owner'[c] = NoOwner, Holds(c)' \subseteq Holds(c) \cup exposed'
    PROVE  Owned(c)'
  BY HistoryStep DEF Owned

LEMMA SameOwned ==
    ASSUME TypeOK, [Next]_vars, NEW c \in Clients, Owned(c), Same(c)
    PROVE  Owned(c)'
<1>1. Holds(c)' = Holds(c) /\ owner'[c] = owner[c]
  BY DEF Same, Holds
<1> QED BY <1>1, OwnedStays, DisownedStays DEF TypeOK

LEMMA ClearedOwned ==
    ASSUME NEW c \in Clients, Cleared(c)
    PROVE  Owned(c)'
  BY DEF Cleared, Owned, Holds

LEMMA ClaimStep ==
    ASSUME TypeOK, PlaceInv, ClaimInv, [Next]_vars
    PROVE  ClaimInv'
<1> DEFINE RefOwned == \A o \in Owners : ref[o] # NoFile => Belongs(ref[o], o)
<1>1. ASSUME ref' = ref PROVE RefOwned'
  <2>1. ASSUME NEW o \in Owners, ref[o] # NoFile PROVE Belongs(ref[o], o)'
    <3>1. ref[o] \in Files /\ Belongs(ref[o], o)
      BY <2>1 DEF TypeOK, MaybeFile, ClaimInv
    <3>2. ASSUME NEW f \in Files, f = ref[o] PROVE Belongs(f, o)'
      BY <3>1, <3>2, BelongsStays
    <3> QED BY <1>1, <3>1, <3>2 DEF Belongs
  <2> QED BY <1>1, <2>1 DEF Belongs
<1>2. ASSUME NEW a \in Actors, Apart(a), a \in Clients => Owned(a)', RefOwned' PROVE ClaimInv'
  <2>1. ASSUME NEW d \in Clients, d # a PROVE Owned(d)'
    BY <1>2, <2>1, SameOwned DEF Apart, ClaimInv
  <2> QED BY <1>2, <2>1 DEF ClaimInv
<1>3. ASSUME \A d \in Clients : Same(d), RefOwned' PROVE ClaimInv'
  BY <1>3, SameOwned DEF ClaimInv
<1>4. ASSUME NEW a \in Actors, Apart(a), Ends(a), ref' = ref PROVE ClaimInv'
  BY <1>1, <1>2, <1>4, ClearedOwned DEF Ends
<1>5. ASSUME NEW c \in Clients, Apart(c), ref' = ref, NEW place, Moved(c, place) PROVE ClaimInv'
  <2>1. Holds(c)' = Holds(c) /\ owner'[c] = owner[c]
    BY <1>5 DEF Moved, Holds
  <2>2. Owned(c)'
    BY <2>1, OwnedStays, DisownedStays DEF TypeOK, ClaimInv
  <2> QED BY <1>1, <1>2, <1>5, <2>2 DEF Actors
<1>6. ASSUME NEW c \in Clients, Begin(c) PROVE ClaimInv'
  <2>1. ASSUME NEW f \in Files, Discard(c, f) PROVE ClaimInv'
    <3>1. /\ Apart(c) /\ ref' = ref /\ exposed' = exposed \cup {f}
          /\ target'[c] = f /\ owner'[c] = owner[c] /\ wish'[c] = wish[c]
          /\ before'[c] = before[c] /\ copy'[c] = copy[c] /\ pc[c] = "idle"
      BY <2>1, DiscardFrame
    <3>2. owner[c] = NoOwner
      BY <3>1 DEF PlaceInv, Placed
    <3>3. Holds(c)' \subseteq Holds(c) \cup exposed'
      BY <3>1 DEF Holds
    <3>4. Owned(c)'
      BY <3>1, <3>2, <3>3, DisownedStays DEF ClaimInv
    <3> QED BY <1>1, <1>2, <3>1, <3>4 DEF Actors
  <2>2. ASSUME NEW o \in Owners, NEW f \in MaybeFile,
               NEW kind \in {"create", "set", "touch", "flag", "bulk"},
               NEW place \in {"read", "load", "save"}, Request(c, o, kind, f, place)
        PROVE  ClaimInv'
    <3>1. Apart(c) /\ Started(c, o, kind, f, place) /\ ref' = ref
      BY <2>2, RequestFrame
    <3>2. Holds(c)' \subseteq {f} \ {NoFile} /\ owner'[c] = o
      BY <3>1 DEF Started, PlaceInv, Placed, Holds
    <3>3. f \in Files => Belongs(f, o)'
      BY <2>2 DEF Request, Belongs, TypeOK
    <3>4. Owned(c)'
      BY <3>2, <3>3, FileAssumption DEF Owned, MaybeFile, Belongs
    <3> QED BY <1>1, <1>2, <3>1, <3>4 DEF Actors
  <2> QED BY <1>6, <2>1, <2>2, BeginIsRequest
<1>7. ASSUME NEW c \in Clients, owner[c] \in Owners, ref[owner[c]] # NoFile
      PROVE  ref[owner[c]] \in Files /\ Belongs(ref[owner[c]], owner[c])
  BY <1>7 DEF TypeOK, MaybeFile, ClaimInv
<1>8. ASSUME NEW c \in Clients, ReadBefore(c) \/ Load(c) \/ Reread(c) PROVE ClaimInv'
  <2>1. owner[c] \in Owners
    BY <1>8 DEF ReadBefore, Load, Reread, PlaceInv, Placed, TypeOK
  <2>2. Apart(c) /\ ref' = ref
    BY <1>8, ReadFrame, LoadFrame, RereadFrame
  <2>3. CASE Cleared(c)
    BY <1>1, <1>2, <2>2, <2>3, ClearedOwned DEF Actors
  <2>4. CASE ~Cleared(c)
    <3>1. /\ owner'[c] = owner[c] /\ wish'[c] = wish[c] /\ target'[c] = target[c]
          /\ before'[c] \in {before[c], ref[owner[c]]}
          /\ copy'[c] \in {copy[c], ref[owner[c]]}
      BY <1>8, <2>4, ReadFrame, LoadFrame, RereadFrame
    <3>2. \A f \in Holds(c)' : f \in Holds(c) \/ (f # NoFile /\ f = ref[owner[c]])
      BY <3>1 DEF Holds
    <3>3. Owned(c)'
      BY <1>7, <2>1, <3>1, <3>2, OwnedStays DEF ClaimInv
    <3> QED BY <1>1, <1>2, <2>2, <3>3 DEF Actors
  <2> QED BY <2>3, <2>4
<1>9. ASSUME NEW c \in Clients, Save(c) PROVE ClaimInv'
  <2>1. owner[c] \in Owners
    BY <1>9 DEF Save, PlaceInv, Placed, TypeOK
  <2>2. /\ Apart(c) /\ ref' = [ref EXCEPT ![owner[c]] = Saved(c)]
        /\ SavedToReread(c) \/ SavedToConfirm(c) \/ SavedToDelete(c) \/ SavedToEnd(c)
    BY <1>9, <2>1, SaveFrame
  <2>3. /\ Saved(c) \in {ref[owner[c]], copy[c], wish[c]}
        /\ Confirmed(c) \in {NoFile, ref[owner[c]], copy[c], wish[c]}
        /\ Obsolete(c) \in {NoFile, before[c]}
    BY DEF Saved, Confirmed, Obsolete, Given
  <2>4. Saved(c) # NoFile => Saved(c) \in Files /\ Belongs(Saved(c), owner[c])
    <3>1. CASE Saved(c) = ref[owner[c]]
      BY <1>7, <2>1, <3>1
    <3>2. CASE Saved(c) \in {copy[c], wish[c]} /\ Saved(c) # NoFile
      <4>1. Saved(c) \in Holds(c) /\ Saved(c) \in Files
        BY <3>2 DEF Holds, TypeOK, MaybeFile
      <4> QED BY <2>1, <4>1, FileAssumption DEF ClaimInv, Owned
    <3> QED BY <2>3, <3>1, <3>2
  <2>5. RefOwned'
    <3>1. ASSUME NEW o \in Owners, ref'[o] # NoFile PROVE Belongs(ref[o], o)'
      <4>1. ref'[o] \in Files /\ Belongs(ref'[o], o)
        BY <2>1, <2>2, <2>4, <3>1 DEF TypeOK, MaybeFile, ClaimInv
      <4>2. ASSUME NEW f \in Files, f = ref'[o] PROVE Belongs(f, o)'
        BY <4>1, <4>2, BelongsStays
      <4> QED BY <4>1, <4>2 DEF Belongs
    <3> QED BY <3>1 DEF Belongs
  <2>6. CASE SavedToEnd(c)
    BY <1>2, <2>2, <2>5, <2>6, ClearedOwned DEF SavedToEnd, Actors
  <2>7. CASE SavedToReread(c) \/ SavedToConfirm(c) \/ SavedToDelete(c)
    <3>1. /\ owner'[c] = owner[c] /\ wish'[c] = wish[c] /\ before'[c] = before[c]
          /\ target'[c] \in {target[c], before[c], NoFile}
          /\ copy'[c] \in {NoFile, ref[owner[c]], copy[c], wish[c]}
      BY <2>3, <2>7 DEF SavedToReread, SavedToConfirm, SavedToDelete
    <3>2. \A f \in Holds(c)' : f \in Holds(c) \/ (f # NoFile /\ f = ref[owner[c]])
      BY <3>1 DEF Holds
    <3>3. Owned(c)'
      BY <1>7, <2>1, <3>1, <3>2, OwnedStays DEF ClaimInv
    <3> QED BY <1>2, <2>2, <2>5, <3>3 DEF Actors
  <2> QED BY <2>2, <2>6, <2>7
<1>10. ASSUME NEW c \in Clients, Confirm(c) \/ Keep(c) \/ ConfirmFails(c) PROVE ClaimInv'
  <2>1. /\ Apart(c) /\ ref' = ref
        /\ Cleared(c) \/ Moved(c, "find") \/ Moved(c, "keep") \/ Moved(c, "keep again")
              \/ Moved(c, "confirm again")
    BY <1>10, ConfirmFrame, KeepFrame, ConfirmFailsFrame DEF After
  <2>2. CASE Cleared(c)
    BY <1>1, <1>2, <2>1, <2>2, ClearedOwned DEF Actors
  <2> QED BY <1>5, <2>1, <2>2
<1>11. ASSUME NEW a \in Actors, DeleteStep(a) \/ DbFails(a) \/ StorageFails(a) PROVE ClaimInv'
  <2>1. /\ Apart(a) /\ ref' = ref
        /\ Ends(a) \/ Goes(a, "remove") \/ Goes(a, "drop")
    BY <1>11, FindFrame, RemoveFrame, RefuseFrame, DropFrame, DbFailsFrame DEF DeleteStep
  <2>2. CASE a \in Clients /\ ~Ends(a)
    BY <1>5, <2>1, <2>2 DEF Goes
  <2>3. CASE a \notin Clients
    BY <1>1, <1>2, <2>1, <2>3
  <2> QED BY <1>4, <2>1, <2>2, <2>3
<1>12. CASE Crash
  BY <1>1, <1>12, CrashFrame, ClearedOwned DEF ClaimInv
<1>13. CASE ListOrphans \/ (\E f \in Files : Upload(f) \/ Age(f) \/ NextOrphan(f))
              \/ UNCHANGED vars
  BY <1>1, <1>3, <1>13, QuietFrame, NextOrphanFrame
<1> QED BY <1>6, <1>8, <1>9, <1>10, <1>11, <1>12, <1>13
        DEF Next, RequestStep, CronStep, Actors

(* Requests for owners that are not exposed.                               *)
LEMMA AloneKept ==
    ASSUME TypeOK, AloneInv, exposed \subseteq exposed', NEW a \in Actors, Apart(a),
           a \in Clients => owner'[a] \in {owner[a], NoOwner},
           \A o \in Owners : ref'[o] = ref[o] \/ (a \in Clients /\ o = owner[a]),
           a \in Clients /\ Safe(a) /\ Safe(a)' => UpToDate(a)'
    PROVE  AloneInv'
<1>1. ASSUME NEW d \in Clients PROVE owner'[d] \in {owner[d], NoOwner}
  BY DEF Apart, Same
<1>2. ASSUME NEW d \in Clients, Safe(d)' PROVE Safe(d) /\ Only(d)' /\ owner'[d] = owner[d]
  BY <1>1, <1>2 DEF Safe, Only, AloneInv
<1>3. ASSUME NEW d \in Clients, Safe(d)', d # a PROVE UpToDate(d)'
  <2>1. Safe(d) /\ Only(d) /\ UpToDate(d) /\ Same(d) /\ owner[d] \in Owners
    BY <1>2, <1>3 DEF AloneInv, Apart, Safe, TypeOK
  <2>2. ref'[owner[d]] = ref[owner[d]]
    BY <1>3, <2>1 DEF Only
  <2> QED BY <2>1, <2>2 DEF UpToDate, Same
<1> QED BY <1>2, <1>3 DEF AloneInv

LEMMA AloneAllKept ==
    ASSUME TypeOK, AloneInv, exposed \subseteq exposed', \A d \in Clients : Same(d), ref' = ref
    PROVE  AloneInv'
<1>1. ASSUME NEW d \in Clients, Safe(d)' PROVE Only(d)' /\ UpToDate(d)'
  <2>1. Only(d) /\ UpToDate(d) /\ Same(d)
    BY <1>1 DEF AloneInv, Safe, Same
  <2>2. Only(d)'
    BY <2>1 DEF Only, Same
  <2>3. UpToDate(d)'
    BY <2>1 DEF UpToDate, Same
  <2> QED BY <2>2, <2>3
<1> QED BY <1>1 DEF AloneInv

LEMMA AloneStep ==
    ASSUME TypeOK, PlaceInv, AloneInv, [Next]_vars
    PROVE  AloneInv'
<1>0. exposed \subseteq exposed'
  BY HistoryStep
<1>1. ASSUME NEW a \in Actors, Apart(a), Ends(a), ref' = ref PROVE AloneInv'
  BY <1>0, <1>1, AloneKept DEF Ends, Cleared, Safe
<1>2. ASSUME NEW c \in Clients, Apart(c), ref' = ref, pc[c] \in Confirming \cup Deleting,
             NEW place \in Confirming \cup Deleting, Moved(c, place)
      PROVE  AloneInv'
  <2>1. Safe(c) => UpToDate(c)'
    BY <1>2 DEF AloneInv, Moved, UpToDate, Confirming, Deleting
  <2> QED BY <1>0, <1>2, <2>1, AloneKept DEF Moved, Actors
<1>3. ASSUME NEW c \in Clients, Begin(c) PROVE AloneInv'
  <2>1. ASSUME NEW f \in Files, Discard(c, f) PROVE AloneInv'
    <3>1. /\ Apart(c) /\ ref' = ref /\ owner'[c] = owner[c] /\ owner[c] = NoOwner
      BY <2>1, DiscardFrame DEF PlaceInv, Placed
    <3> QED BY <1>0, <3>1, AloneKept DEF Actors, Safe
  <2>2. ASSUME NEW o \in Owners, NEW f \in MaybeFile,
               NEW kind \in {"create", "set", "touch", "flag", "bulk"},
               NEW place \in {"read", "load", "save"}, Request(c, o, kind, f, place),
               Fits(o, kind, f, place)
        PROVE  AloneInv'
    <3>1. /\ Apart(c) /\ Started(c, o, kind, f, place) /\ ref' = ref
          /\ Busy(o) => o \in exposed'
      BY <2>2, RequestFrame DEF Request
    <3>2. /\ owner'[c] = o /\ owner[c] = NoOwner
          /\ target'[c] = NoFile /\ before'[c] = NoFile /\ copy'[c] = NoFile
      BY <3>1 DEF Started, PlaceInv, Placed
    <3>3. ASSUME NEW d \in Clients, Safe(d)', d # c PROVE Only(d)' /\ UpToDate(d)'
      <4>1. Same(d) /\ Safe(d) /\ Only(d) /\ UpToDate(d) /\ owner'[d] # o
        BY <1>0, <3>1, <3>3 DEF Apart, Same, Safe, AloneInv, Busy
      <4>2. Only(d)'
        BY <3>1, <3>2, <4>1 DEF Only, Apart, Same
      <4>3. UpToDate(d)'
        BY <3>1, <4>1 DEF UpToDate, Same
      <4> QED BY <4>2, <4>3
    <3>4. ASSUME Safe(c)' PROVE Only(c)' /\ UpToDate(c)'
      <4>1. Only(c)'
        BY <3>1, <3>2, <3>4 DEF Only, Apart, Same, Safe, Busy
      <4>2. UpToDate(c)'
        BY <2>2, <3>1, <3>2 DEF UpToDate, Started, Fits
      <4> QED BY <4>1, <4>2
    <3> QED BY <3>3, <3>4 DEF AloneInv
  <2> QED BY <1>3, <2>1, <2>2, BeginIsRequest
<1>4. ASSUME NEW c \in Clients, ReadBefore(c) PROVE AloneInv'
  <2>1. Apart(c) /\ ref' = ref /\ owner'[c] = owner[c]
    BY <1>4, ReadFrame
  <2>2. Safe(c) => UpToDate(c)'
    BY <1>4, ReadFrame DEF AloneInv, UpToDate
  <2> QED BY <1>0, <2>1, <2>2, AloneKept DEF Actors
<1>5. ASSUME NEW c \in Clients, Load(c) PROVE AloneInv'
  <2>1. Apart(c) /\ ref' = ref /\ owner'[c] = owner[c]
    BY <1>5, LoadFrame
  <2>2. Safe(c) => UpToDate(c)'
    BY <1>5, LoadFrame DEF AloneInv, UpToDate
  <2> QED BY <1>0, <2>1, <2>2, AloneKept DEF Actors
<1>6. ASSUME NEW c \in Clients, Save(c) PROVE AloneInv'
  <2>1. owner[c] \in Owners /\ target[c] = NoFile
    BY <1>6 DEF Save, PlaceInv, Placed, TypeOK
  <2>2. /\ Apart(c) /\ pc[c] = "save" /\ ref' = [ref EXCEPT ![owner[c]] = Saved(c)]
        /\ SavedToReread(c) \/ SavedToConfirm(c) \/ SavedToDelete(c) \/ SavedToEnd(c)
        /\ exposed' = exposed \cup {o \in {owner[c]} : op[c] = "bulk" \/ Unsent(c)}
    BY <1>6, <2>1, SaveFrame
  <2>3. ref'[owner[c]] = Saved(c)
    BY <2>1, <2>2 DEF TypeOK
  <2>4. ASSUME Safe(c)', owner'[c] = owner[c] PROVE ~Unsent(c) /\ Given(c) = Saved(c)
    BY <2>2, <2>4 DEF Safe, Given
  <2>5. ASSUME Safe(c)' PROVE UpToDate(c)'
    <3>1. CASE SavedToReread(c)
      BY <2>1, <2>3, <3>1 DEF SavedToReread, UpToDate
    <3>2. CASE SavedToConfirm(c)
      <4>1. Confirmed(c) = Saved(c)
        BY <2>4, <2>5, <3>2 DEF SavedToConfirm, Confirmed
      <4>2. Obsolete(c) # NoFile => Obsolete(c) # Saved(c)
        BY <2>4, <2>5, <3>2 DEF SavedToConfirm, Obsolete
      <4> QED BY <2>3, <3>2, <4>1, <4>2 DEF SavedToConfirm, UpToDate
    <3>3. CASE SavedToDelete(c)
      <4>1. Obsolete(c) # NoFile => Obsolete(c) # Saved(c)
        BY <2>4, <2>5, <3>3 DEF SavedToDelete, Obsolete
      <4> QED BY <2>3, <3>3, <4>1 DEF SavedToDelete, UpToDate
    <3>4. CASE SavedToEnd(c)
      BY <2>5, <3>4 DEF SavedToEnd, Cleared, Safe
    <3> QED BY <2>2, <3>1, <3>2, <3>3, <3>4
  <2>6. owner'[c] \in {owner[c], NoOwner}
    BY <2>2 DEF SavedToReread, SavedToConfirm, SavedToDelete, SavedToEnd, Cleared
  <2>7. \A o \in Owners : ref'[o] = ref[o] \/ o = owner[c]
    BY <2>2 DEF TypeOK
  <2> QED BY <1>0, <2>2, <2>5, <2>6, <2>7, AloneKept DEF Actors
<1>7. ASSUME NEW c \in Clients, Reread(c) PROVE AloneInv'
  <2>1. Apart(c) /\ ref' = ref /\ owner'[c] \in {owner[c], NoOwner}
    BY <1>7, RereadFrame DEF Cleared
  <2>2. ASSUME Safe(c), Safe(c)' PROVE UpToDate(c)'
    <3>1. copy[c] = ref[owner[c]] /\ UpToDate(c) /\ ~Cleared(c)
      BY <1>7, <2>2, RereadFrame DEF AloneInv, UpToDate, Cleared, Safe
    <3> QED BY <1>7, <3>1, RereadFrame DEF UpToDate
  <2> QED BY <1>0, <2>1, <2>2, AloneKept DEF Actors
<1>8. ASSUME NEW c \in Clients, Confirm(c) \/ Keep(c) \/ ConfirmFails(c) PROVE AloneInv'
  <2>1. /\ Apart(c) /\ ref' = ref /\ pc[c] \in Confirming
        /\ Cleared(c) \/ Moved(c, "find") \/ Moved(c, "keep") \/ Moved(c, "keep again")
              \/ Moved(c, "confirm again")
    BY <1>8, ConfirmFrame, KeepFrame, ConfirmFailsFrame DEF After, Confirming
  <2>2. CASE Cleared(c)
    BY <1>1, <2>1, <2>2 DEF Ends, Cleared, Actors
  <2> QED BY <1>2, <2>1, <2>2 DEF Confirming, Deleting
<1>9. ASSUME NEW a \in Actors, DeleteStep(a) \/ DbFails(a) \/ StorageFails(a) PROVE AloneInv'
  <2>1. /\ Apart(a) /\ ref' = ref
        /\ Ends(a) \/ (pc[a] \in Deleting /\ (Goes(a, "remove") \/ Goes(a, "drop")))
    BY <1>9, FindFrame, RemoveFrame, RefuseFrame, DropFrame, DbFailsFrame
       DEF DeleteStep, Deleting
  <2>2. CASE a \in Clients /\ ~Ends(a)
    BY <1>2, <2>1, <2>2 DEF Goes, Deleting
  <2>3. CASE a \notin Clients
    BY <1>0, <2>1, <2>3, AloneKept
  <2> QED BY <1>1, <2>1, <2>2, <2>3
<1>10. CASE Crash
  BY <1>10, CrashFrame DEF AloneInv, Cleared, Safe
<1>11. CASE ListOrphans \/ (\E f \in Files : Upload(f) \/ Age(f) \/ NextOrphan(f))
              \/ UNCHANGED vars
  BY <1>0, <1>11, QuietFrame, NextOrphanFrame, AloneAllKept
<1> QED BY <1>3, <1>4, <1>5, <1>6, <1>7, <1>8, <1>9, <1>10, <1>11
        DEF Next, RequestStep, CronStep, Actors

-------------------------------------------------------------------------------
(* Files in use, and those the job has listed.                             *)

(* A file that no owner and no request has use for, but exposed ones.      *)
Unused(f) == (\A o \in Owners \ exposed : ref[o] # f) /\ ~Wished(f)

LEMMA WishedBack ==
    ASSUME NEW a, Apart(a), exposed \subseteq exposed', NEW f, Wished(f)',
           a \in Clients /\ Pending(a)' =>
               Pending(a) /\ owner'[a] = owner[a] /\ wish'[a] = wish[a]
    PROVE  Wished(f)
<1>1. PICK c \in Clients : (Pending(c) /\ owner[c] \notin exposed /\ wish[c] = f)'
  BY DEF Wished
<1>2. Pending(c) /\ owner[c] = owner'[c] /\ wish[c] = wish'[c]
  BY <1>1 DEF Apart, Same, Pending
<1> QED BY <1>1, <1>2 DEF Wished

LEMMA AtItStays ==
    ASSUME NEW a, Apart(a), NEW o, AtIt(o),
           a \in Clients /\ owner[a] = o /\ Unconfirmed(a) =>
               owner'[a] = o /\ Unconfirmed(a)'
    PROVE  AtIt(o)'
<1>1. PICK c \in Clients : owner[c] = o /\ Unconfirmed(c)
  BY DEF AtIt
<1>2. owner'[c] = o /\ Unconfirmed(c)'
  BY <1>1 DEF Apart, Same, Unconfirmed
<1> QED BY <1>2 DEF AtIt

LEMMA CalmUse ==
    ASSUME TypeOK, [Next]_vars, StoredInv, OrphanInv, UNCHANGED <<old, ref>>,
           \A f \in Files \ exposed :
               \/ row'[f] = row[f] /\ object'[f] = object[f]
               \/ Unused(f) /\ (row'[f] = "kept" => row[f] = "kept"),
           \A f \in Files : Listed(f)' => Listed(f),
           \A f \in Files : Wished(f)' => Wished(f),
           \A o \in Owners \ exposed' :
               AtIt(o) => AtIt(o)' \/ (ref[o] \in Files => row[ref[o]] # "temp")
    PROVE  StoredInv' /\ OrphanInv'
<1>1. /\ exposed \subseteq exposed'
      /\ \A f \in Files : claimed[f] # NoOwner => claimed'[f] = claimed[f]
  BY HistoryStep
<1>2. NoOwner \notin exposed
  BY FileAssumption DEF TypeOK
<1>3. ASSUME NEW f \in Files, f \notin exposed',
             (\E o \in Owners : o \notin exposed' /\ ref[o] = f) \/ Wished(f)'
      PROVE  row'[f] = row[f] /\ object'[f] = object[f] /\ (Fresh(f) => Fresh(f)')
  <2>1. ~Unused(f)
    BY <1>1, <1>3 DEF Unused
  <2> QED BY <1>1, <1>3, <2>1 DEF Fresh
<1>4. ASSUME NEW f \in Files, f \notin exposed', NEW o \in Owners, o \notin exposed', ref'[o] = f
      PROVE  Fresh(f)' /\ (row'[f] = "temp" => AtIt(o)')
  <2>1. Fresh(f) /\ (row[f] = "temp" => AtIt(o)) /\ ref[o] = f
    BY <1>1, <1>4 DEF StoredInv
  <2> QED BY <1>3, <1>4, <2>1
<1>5. ASSUME NEW f \in Files, f \notin exposed', Wished(f)' PROVE Fresh(f)'
  BY <1>1, <1>3, <1>5 DEF StoredInv
<1>6. StoredInv'
  BY <1>4, <1>5 DEF StoredInv
<1>7. ASSUME NEW f \in Files, f \notin exposed', Listed(f)'
      PROVE  /\ f \in old' /\ (\A o \in Owners \ exposed' : ref'[o] # f) /\ ~Wished(f)'
             /\ row'[f] = "kept" => claimed'[f] \in exposed'
  <2>1. /\ f \in old /\ (\A o \in Owners \ exposed : ref[o] # f) /\ ~Wished(f)
        /\ row[f] = "kept" => claimed[f] \in exposed
    BY <1>1, <1>7 DEF OrphanInv
  <2>2. row'[f] = "kept" => row[f] = "kept"
    BY <1>1, <1>7
  <2> QED BY <1>1, <1>2, <1>7, <2>1, <2>2
<1>8. OrphanInv'
  BY <1>7 DEF OrphanInv
<1> QED BY <1>6, <1>8

(* What is deleted is used by nobody.                                      *)
LEMMA DeletedUnused ==
    ASSUME TypeOK, PlaceInv, ClaimInv, AloneInv, OrphanInv,
           NEW a \in Actors, pc[a] \in Deleting, target[a] \notin exposed
    PROVE  Unused(target[a])
<1> DEFINE f == target[a]
<1>0. f \in Files /\ f # NoFile /\ f \notin exposed
  BY FileAssumption DEF TypeOK
<1>1. CASE a = Cron
  BY <1>0, <1>1 DEF OrphanInv, Listed, Unused
<1>2. CASE a \in Clients
  <2>1. f \in Holds(a)
    BY <1>0 DEF Holds
  <2>2. owner[a] # NoOwner /\ claimed[f] = owner[a]
    BY <1>0, <1>2, <2>1 DEF ClaimInv, Owned, Belongs
  <2>3. ASSUME NEW o \in Owners, o \notin exposed, ref[o] = f PROVE FALSE
    <3>1. o = owner[a]
      BY <1>0, <2>2, <2>3 DEF ClaimInv, Belongs
    <3> QED BY <1>0, <1>2, <2>2, <2>3, <3>1 DEF AloneInv, Safe, UpToDate
  <2>4. ASSUME NEW c \in Clients, Pending(c), owner[c] \notin exposed, wish[c] = f PROVE FALSE
    <3>1. owner[c] # NoOwner /\ f \in Holds(c)
      BY <1>0, <2>4 DEF Pending, PlaceInv, Placed, Holds
    <3>2. owner[c] = owner[a]
      BY <1>0, <2>2, <3>1 DEF ClaimInv, Owned, Belongs
    <3>3. a = c
      BY <1>2, <2>2, <2>4, <3>2 DEF AloneInv, Safe, Only
    <3> QED BY <2>4, <3>3 DEF Pending, Deleting
  <2> QED BY <2>3, <2>4 DEF Unused, Wished
<1> QED BY <1>1, <1>2 DEF Actors

FilesUsedInv ==
    /\ TypeOK /\ PlaceInv /\ ObjectInv /\ ClaimInv /\ AloneInv
    /\ StoredInv /\ OrphanInv

(* A request that is to confirm for a safe owner holds what the owner has. *)
LEMMA ConfirmsOwn ==
    ASSUME TypeOK, PlaceInv, AloneInv, NEW c \in Clients, Unconfirmed(c), owner[c] \notin exposed
    PROVE  copy[c] = ref[owner[c]] /\ owner[c] \in Owners
<1>1. owner[c] # NoOwner /\ owner[c] \in Owners
  BY DEF Unconfirmed, PlaceInv, Placed, TypeOK
<1>2. pc[c] = "reread" \/ copy[c] # NoFile
  BY FileAssumption DEF Unconfirmed, TypeOK
<1> QED BY <1>1, <1>2 DEF AloneInv, Safe, UpToDate

LEMMA AgeUse ==
    ASSUME FilesUsedInv, NEW f \in Files, Age(f)
    PROVE  StoredInv' /\ OrphanInv'
<1>1. /\ UNCHANGED <<row, object, ref, exposed, claimed, todo, pc, target, owner, wish>>
      /\ old' = old \cup {f} /\ \A c \in Clients : f # wish[c] /\ f # copy[c]
  BY DEF Age, requestVars, historyVars
<1>2. \A g \in Files : Wished(g)' <=> Wished(g)
  BY <1>1 DEF Wished, Pending
<1>3. \A o \in Owners : AtIt(o)' <=> AtIt(o)
  BY <1>1 DEF AtIt, Unconfirmed
<1>4. ASSUME NEW o \in Owners, o \notin exposed, ref[o] = f, AtIt(o) PROVE FALSE
  BY <1>1, <1>4, ConfirmsOwn DEF AtIt, FilesUsedInv
<1>5. ~Wished(f)
  BY <1>1 DEF Wished
<1>6. row[f] = "temp"
  BY DEF Age
<1>7. ASSUME NEW g \in Files, g \notin exposed,
             Wished(g) \/ (\E o \in Owners : o \notin exposed /\ ref[o] = g)
      PROVE  g # f
  BY <1>4, <1>5, <1>6, <1>7 DEF FilesUsedInv, StoredInv
<1>8. \A g \in Files : g # f /\ Fresh(g) => Fresh(g)'
  BY <1>1 DEF Fresh
<1>9. StoredInv'
  BY <1>1, <1>2, <1>3, <1>7, <1>8 DEF FilesUsedInv, StoredInv
<1>10. \A g \in Files : Listed(g)' <=> Listed(g)
  BY <1>1 DEF Listed
<1>11. OrphanInv'
  BY <1>1, <1>2, <1>10 DEF FilesUsedInv, OrphanInv
<1> QED BY <1>9, <1>11

LEMMA KeepUse ==
    ASSUME FilesUsedInv, [Next]_vars, NEW c \in Clients, Keep(c)
    PROVE  StoredInv' /\ OrphanInv'
<1> USE DEF FilesUsedInv
<1> DEFINE f == copy[c]
<1>1. /\ Apart(c) /\ Unconfirmed(c) /\ After(c) /\ f \in Files
      /\ row' = [row EXCEPT ![f] = "kept"]
      /\ UNCHANGED <<object, old, ref, claimed, exposed, todo>>
  BY KeepFrame DEF Unconfirmed, Confirming, TypeOK
<1>2. \A g \in Files : /\ row'[g] = IF g = f THEN "kept" ELSE row[g]
                       /\ Fresh(g) => Fresh(g)'
  BY <1>1 DEF TypeOK, Fresh
<1>3. \A g \in Files : Wished(g)' => Wished(g)
  BY <1>1, WishedBack DEF After, Moved, Cleared, Pending
<1>4. ASSUME NEW o \in Owners, o \notin exposed, ref[o] # f, AtIt(o) PROVE AtIt(o)'
  <2>1. owner[c] # o
    BY <1>1, <1>4, ConfirmsOwn
  <2> QED BY <1>1, <1>4, <2>1, AtItStays
<1>5. StoredInv'
  <2>1. ASSUME NEW g \in Files, g \notin exposed, NEW o \in Owners, o \notin exposed, ref[o] = g
        PROVE  Fresh(g)' /\ (row'[g] = "temp" => AtIt(o)')
    <3>1. Fresh(g) /\ (row[g] = "temp" => AtIt(o))
      BY <2>1 DEF StoredInv
    <3> QED BY <1>2, <1>4, <2>1, <3>1
  <2>2. ASSUME NEW g \in Files, g \notin exposed, Wished(g)' PROVE Fresh(g)'
    BY <1>2, <1>3, <2>2 DEF StoredInv
  <2> QED BY <1>1, <2>1, <2>2 DEF StoredInv
<1>6. \A g \in Files : Listed(g)' => Listed(g)
  BY <1>1, FileAssumption DEF Listed, Apart
<1>7. f \notin exposed /\ Listed(f) => claimed[f] \in exposed
  <2>1. owner[c] # NoOwner /\ f \in Holds(c)
    BY <1>1, FileAssumption DEF PlaceInv, Placed, Unconfirmed, Holds
  <2>2. Belongs(f, owner[c])
    BY <2>1 DEF ClaimInv, Owned
  <2> QED BY <1>1, <2>2, ConfirmsOwn DEF Belongs, OrphanInv
<1>8. OrphanInv'
  <2>1. ASSUME NEW g \in Files, g \notin exposed, Listed(g)'
        PROVE  /\ g \in old /\ (\A o \in Owners \ exposed : ref[o] # g) /\ ~Wished(g)'
               /\ row'[g] = "kept" => claimed[g] \in exposed
    BY <1>2, <1>3, <1>6, <1>7, <2>1 DEF OrphanInv
  <2> QED BY <1>1, <2>1 DEF OrphanInv
<1> QED BY <1>5, <1>8

LEMMA ListUse ==
    ASSUME FilesUsedInv, ListOrphans
    PROVE  StoredInv' /\ OrphanInv'
<1> USE DEF FilesUsedInv
<1>1. /\ todo' = {f \in old : row[f] = "temp"} /\ target' = target
      /\ UNCHANGED <<row, object, old, ref, claimed, exposed, pc, owner, wish>>
  BY DEF ListOrphans, fileVars, requestVars, historyVars
<1>2. \A g \in Files : (Wished(g)' <=> Wished(g)) /\ (Fresh(g)' <=> Fresh(g))
  BY <1>1 DEF Wished, Pending, Fresh
<1>3. \A o \in Owners : AtIt(o)' <=> AtIt(o)
  BY <1>1 DEF AtIt, Unconfirmed
<1>4. StoredInv'
  BY <1>1, <1>2, <1>3 DEF StoredInv
<1>5. ASSUME NEW g \in Files, g \notin exposed, Listed(g)'
      PROVE  /\ g \in old /\ (\A o \in Owners \ exposed : ref[o] # g) /\ ~Wished(g)
             /\ row[g] = "kept" => claimed[g] \in exposed
  <2>1. CASE Listed(g)
    BY <1>5, <2>1 DEF OrphanInv
  <2>2. CASE ~Listed(g)
    <3>1. g \in old /\ row[g] = "temp" /\ ~Fresh(g)
      BY <1>1, <1>5, <2>2 DEF Listed, Fresh
    <3> QED BY <1>5, <3>1 DEF StoredInv
  <2> QED BY <2>1, <2>2
<1>6. OrphanInv'
  BY <1>1, <1>2, <1>5 DEF OrphanInv
<1> QED BY <1>4, <1>6

LEMMA RequestUse ==
    ASSUME FilesUsedInv, [Next]_vars, NEW c \in Clients, NEW o \in Owners, NEW f \in MaybeFile,
           NEW kind \in {"create", "set", "touch", "flag", "bulk"},
           NEW place \in {"read", "load", "save"}, Request(c, o, kind, f, place)
    PROVE  StoredInv' /\ OrphanInv'
<1> USE DEF FilesUsedInv
<1>1. /\ Apart(c) /\ Started(c, o, kind, f, place)
      /\ UNCHANGED <<row, object, old, ref, target, todo>>
  BY RequestFrame
<1>2. /\ f # NoFile => object[f] = "stored"
      /\ \A g \in Files : claimed'[g] = IF g = f /\ claimed[g] = NoOwner THEN o ELSE claimed[g]
      /\ f \in Files /\ f \notin exposed' =>
             claimed[f] \in {o, NoOwner} /\ ~(row[f] = "temp" /\ f \in old)
  BY DEF Request
<1>3. /\ exposed \subseteq exposed' /\ NoOwner \notin exposed
      /\ \A g \in Files : claimed[g] # NoOwner => claimed'[g] = claimed[g]
  BY HistoryStep, FileAssumption DEF TypeOK
<1>4. ASSUME NEW g \in Files, Wished(g)' PROVE Wished(g) \/ (g = f /\ o \notin exposed')
  <2>1. PICK d \in Clients : (Pending(d) /\ owner[d] \notin exposed /\ wish[d] = g)'
    BY <1>4 DEF Wished
  <2>2. CASE d = c
    BY <1>1, <2>1, <2>2 DEF Started
  <2>3. CASE d # c
    BY <1>1, <1>3, <2>1, <2>3 DEF Wished, Apart, Same, Pending
  <2> QED BY <2>2, <2>3
<1>5. \A g \in Files : Fresh(g)' <=> Fresh(g)
  BY <1>1 DEF Fresh
<1>6. f \in Files /\ f \notin exposed' => Fresh(f)
  BY <1>2, FileAssumption DEF ObjectInv, FilesInv, ObjectsAreKnown, Fresh
<1>7. \A p : AtIt(p) => AtIt(p)'
  BY <1>1, AtItStays DEF Started, Unconfirmed, Confirming
<1>8. StoredInv'
  <2>1. ASSUME NEW g \in Files, g \notin exposed', NEW p \in Owners, p \notin exposed', ref[p] = g
        PROVE  Fresh(g)' /\ (row'[g] = "temp" => AtIt(p)')
    BY <1>1, <1>3, <1>5, <1>7, <2>1 DEF StoredInv
  <2>2. ASSUME NEW g \in Files, g \notin exposed', Wished(g)' PROVE Fresh(g)'
    BY <1>3, <1>4, <1>5, <1>6, <2>2 DEF StoredInv
  <2> QED BY <1>1, <2>1, <2>2 DEF StoredInv
<1>9. ASSUME NEW g \in Files, g \notin exposed', Listed(g)'
      PROVE  /\ g \in old /\ (\A p \in Owners \ exposed : ref[p] # g) /\ ~Wished(g)
             /\ row[g] = "kept" => claimed[g] \in exposed
  BY <1>1, <1>3, <1>9 DEF OrphanInv, Listed
<1>10. ASSUME NEW g \in Files, g \notin exposed', Listed(g)', Wished(g)' PROVE FALSE
  <2>1. g = f /\ o \notin exposed' /\ g \in old /\ (row[g] = "kept" => claimed[g] \in exposed)
    BY <1>4, <1>9, <1>10
  <2>2. claimed[f] \in {o, NoOwner} /\ Fresh(f) /\ row[f] # "temp"
    BY <1>2, <1>6, <1>10, <2>1
  <2>3. row[f] = "kept"
    BY <2>2 DEF Fresh
  <2> QED BY <1>3, <2>1, <2>2, <2>3
<1>11. OrphanInv'
  <2>1. ASSUME NEW g \in Files, g \notin exposed', Listed(g)'
        PROVE  /\ g \in old' /\ (\A p \in Owners \ exposed' : ref'[p] # g) /\ ~Wished(g)'
               /\ row'[g] = "kept" => claimed'[g] \in exposed'
    BY <1>1, <1>3, <1>9, <1>10, <2>1
  <2> QED BY <2>1 DEF OrphanInv
<1> QED BY <1>8, <1>11

LEMMA SaveUse ==
    ASSUME FilesUsedInv, [Next]_vars, NEW c \in Clients, Save(c)
    PROVE  StoredInv' /\ OrphanInv'
<1> USE DEF FilesUsedInv
<1>0. owner[c] \in Owners /\ pc[c] = "save" /\ op[c] # "discard"
  BY DEF Save, PlaceInv, Placed, TypeOK
<1>1. PICK o \in Owners : o = owner[c]
  BY <1>0
<1>2. /\ Apart(c) /\ ref' = [ref EXCEPT ![o] = Saved(c)]
      /\ SavedToReread(c) \/ SavedToConfirm(c) \/ SavedToDelete(c) \/ SavedToEnd(c)
      /\ exposed' = exposed \cup {p \in {o} : op[c] = "bulk" \/ Unsent(c)}
      /\ UNCHANGED <<row, object, old, claimed, todo>>
  BY <1>0, <1>1, SaveFrame
<1>3. exposed \subseteq exposed' /\ \A p \in Owners : p # o => ref'[p] = ref[p]
  BY <1>2 DEF TypeOK
<1>4. ref'[o] = Saved(c)
  BY <1>1, <1>2 DEF TypeOK
<1>5. \A g \in Files : (Wished(g)' => Wished(g)) /\ (Fresh(g)' <=> Fresh(g))
  <2>1. pc'[c] \notin {"read", "load", "save"}
    BY <1>2 DEF SavedToReread, SavedToConfirm, SavedToDelete, SavedToEnd, Cleared
  <2> QED BY <1>2, <1>3, <2>1, WishedBack DEF Pending, Fresh
<1>6. \A p : AtIt(p) => AtIt(p)'
  BY <1>0, <1>1, <1>2, AtItStays DEF Unconfirmed, Confirming
<1>7. ASSUME o \notin exposed'
      PROVE  /\ op[c] # "bulk" /\ ~Unsent(c) /\ Given(c) = Saved(c) /\ o \notin exposed
             /\ Only(c) /\ UpToDate(c)
  BY <1>0, <1>1, <1>2, <1>7, FileAssumption DEF Given, AloneInv, Safe
<1>8. ASSUME o \notin exposed', Saved(c) \in Files, Saved(c) # ref[o]
      PROVE  Wished(Saved(c))
  <2>1. Saved(c) = wish[c]
    BY <1>0, <1>1, <1>7, <1>8 DEF Saved, UpToDate
  <2> QED BY <1>0, <1>1, <1>7, <1>8, <2>1 DEF Wished, Pending
<1>9. ASSUME o \notin exposed', Saved(c) \in Files, Saved(c) \notin exposed
      PROVE  Fresh(Saved(c))
  BY <1>1, <1>7, <1>8, <1>9 DEF StoredInv
<1>10. ASSUME o \notin exposed', Saved(c) \in Files, Saved(c) \notin exposed,
              row[Saved(c)] = "temp"
       PROVE  AtIt(o)'
  <2>1. CASE SavedToReread(c) \/ SavedToConfirm(c)
    BY <1>1, <2>1 DEF SavedToReread, SavedToConfirm, AtIt, Unconfirmed, Confirming
  <2>2. CASE SavedToDelete(c) \/ SavedToEnd(c)
    <3>1. Saved(c) = ref[o]
      <4>1. Confirmed(c) = NoFile /\ ~(op[c] \in {"set", "touch"} /\ o \in Keepers)
        BY <1>1, <2>2 DEF SavedToDelete, SavedToEnd
      <4>2. CASE op[c] = "flag"
        BY <1>0, <1>1, <1>7, <1>10, <4>2 DEF Saved, UpToDate
      <4>3. CASE op[c] \in {"set", "touch"} /\ o \in Users /\ Given(c) = before[c]
        BY <1>0, <1>1, <1>7, <1>10, <4>1, <4>3 DEF UpToDate
      <4>4. Saved(c) # NoFile
        BY <1>10, FileAssumption
      <4> QED BY <1>0, <1>1, <1>7, <1>10, <4>1, <4>2, <4>3, <4>4 DEF Confirmed, TypeOK
    <3>2. PICK d \in Clients : owner[d] = o /\ Unconfirmed(d)
      BY <1>1, <1>7, <1>10, <3>1 DEF StoredInv, AtIt
    <3>3. d = c
      BY <1>1, <1>7, <1>10, <3>2 DEF Only
    <3> QED BY <1>0, <1>1, <3>2, <3>3 DEF Unconfirmed, Confirming
  <2> QED BY <1>2, <2>1, <2>2
<1>11. StoredInv'
  <2>1. ASSUME NEW g \in Files, g \notin exposed', NEW p \in Owners, p \notin exposed', ref'[p] = g
        PROVE  Fresh(g)' /\ (row'[g] = "temp" => AtIt(p)')
    <3>1. CASE p = o
      BY <1>2, <1>3, <1>4, <1>5, <1>9, <1>10, <2>1, <3>1
    <3>2. CASE p # o
      BY <1>2, <1>3, <1>5, <1>6, <2>1, <3>2 DEF StoredInv
    <3> QED BY <3>1, <3>2
  <2>2. ASSUME NEW g \in Files, g \notin exposed', Wished(g)' PROVE Fresh(g)'
    BY <1>3, <1>5, <2>2 DEF StoredInv
  <2> QED BY <2>1, <2>2 DEF StoredInv
<1>12. OrphanInv'
  <2>1. \A g \in Files : Listed(g)' => Listed(g)
    BY <1>2, FileAssumption DEF Listed, Apart
  <2>2. ASSUME NEW g \in Files, g \notin exposed', Listed(g)', NEW p \in Owners, p \notin exposed',
               ref'[p] = g
        PROVE  FALSE
    <3>1. (\A q \in Owners \ exposed : ref[q] # g) /\ ~Wished(g)
      BY <1>3, <2>1, <2>2 DEF OrphanInv
    <3>2. p = o
      BY <1>3, <2>2, <3>1
    <3> QED BY <1>1, <1>3, <1>4, <1>8, <2>2, <3>1, <3>2
  <2>3. ASSUME NEW g \in Files, g \notin exposed', Listed(g)'
        PROVE  /\ g \in old' /\ ~Wished(g)'
               /\ row'[g] = "kept" => claimed'[g] \in exposed'
    BY <1>2, <1>3, <1>5, <2>1, <2>3 DEF OrphanInv
  <2> QED BY <2>2, <2>3 DEF OrphanInv
<1> QED BY <1>11, <1>12

LEMMA UseStep ==
    ASSUME FilesUsedInv, [Next]_vars
    PROVE  StoredInv' /\ OrphanInv'
<1> USE DEF FilesUsedInv
<1> DEFINE Kept == UNCHANGED <<row, object, old, ref, todo>>
<1>1. exposed \subseteq exposed'
  BY HistoryStep
<1>2. ASSUME NEW c \in Clients, Apart(c), Kept,
             Pending(c)' => Pending(c) /\ owner'[c] = owner[c] /\ wish'[c] = wish[c],
             Unconfirmed(c) /\ owner[c] \notin exposed' =>
                 \/ owner'[c] = owner[c] /\ Unconfirmed(c)'
                 \/ copy[c] \in Files => row[copy[c]] # "temp"
      PROVE  StoredInv' /\ OrphanInv'
  <2>1. \A f \in Files : Wished(f)' => Wished(f)
    BY <1>1, <1>2, WishedBack
  <2>2. \A f \in Files : Listed(f)' => Listed(f)
    BY <1>2, FileAssumption DEF Listed, Apart
  <2>3. ASSUME NEW o \in Owners, o \notin exposed', AtIt(o)
        PROVE  AtIt(o)' \/ (ref[o] \in Files => row[ref[o]] # "temp")
    <3>1. CASE Unconfirmed(c) /\ owner[c] = o /\ ~(owner'[c] = o /\ Unconfirmed(c)')
      BY <1>1, <1>2, <2>3, <3>1, ConfirmsOwn
    <3>2. CASE ~(Unconfirmed(c) /\ owner[c] = o /\ ~(owner'[c] = o /\ Unconfirmed(c)'))
      BY <1>2, <2>3, <3>2, AtItStays
    <3> QED BY <3>1, <3>2
  <2> QED BY <1>2, <2>1, <2>2, <2>3, CalmUse
<1>3. ASSUME NEW a \in Actors, Apart(a), Ends(a) \/ Goes(a, "remove") \/ Goes(a, "drop"),
             UNCHANGED <<old, ref, todo>>,
             a \in Clients /\ Unconfirmed(a) => owner[a] \in exposed',
             \A f \in Files \ exposed :
                 \/ row'[f] = row[f] /\ object'[f] = object[f]
                 \/ Unused(f) /\ (row'[f] = "kept" => row[f] = "kept")
      PROVE  StoredInv' /\ OrphanInv'
  <2>1. \A f \in Files : Wished(f)' => Wished(f)
    BY <1>1, <1>3, WishedBack DEF Ends, Goes, Cleared, Moved, Pending
  <2>2. \A f \in Files : Listed(f)' => Listed(f)
    BY <1>3, FileAssumption DEF Listed, Apart, Ends, Goes
  <2>3. ASSUME NEW o \in Owners, o \notin exposed', AtIt(o) PROVE AtIt(o)'
    BY <1>3, <2>3, AtItStays
  <2> QED BY <1>3, <2>1, <2>2, <2>3, CalmUse
<1>4. ASSUME \A d \in Clients : Same(d) PROVE \A p : (Wished(p)' => Wished(p)) /\ (AtIt(p) => AtIt(p)')
  BY <1>1, <1>4 DEF Wished, AtIt, Same, Pending, Unconfirmed
<1>5. ASSUME NEW c \in Clients, Begin(c) PROVE StoredInv' /\ OrphanInv'
  <2>1. ASSUME NEW f \in Files, Discard(c, f) PROVE StoredInv' /\ OrphanInv'
    <3>1. Apart(c) /\ Kept /\ pc[c] = "idle" /\ pc'[c] = "find"
      BY <2>1, DiscardFrame
    <3> QED BY <1>2, <3>1 DEF Pending, Unconfirmed, Confirming
  <2>2. ASSUME NEW o \in Owners, NEW f \in MaybeFile,
               NEW kind \in {"create", "set", "touch", "flag", "bulk"},
               NEW place \in {"read", "load", "save"}, Request(c, o, kind, f, place)
        PROVE  StoredInv' /\ OrphanInv'
    BY <2>2, RequestUse
  <2> QED BY <1>5, <2>1, <2>2, BeginIsRequest
<1>6. ASSUME NEW c \in Clients, ReadBefore(c) \/ Load(c) PROVE StoredInv' /\ OrphanInv'
  <2>1. /\ Apart(c) /\ Kept /\ pc[c] \in {"read", "load"}
        /\ owner'[c] = owner[c] /\ wish'[c] = wish[c]
    BY <1>6, ReadFrame, LoadFrame
  <2> QED BY <1>2, <2>1 DEF Pending, Unconfirmed, Confirming
<1>7. ASSUME NEW c \in Clients, Reread(c) PROVE StoredInv' /\ OrphanInv'
  <2>1. Apart(c) /\ Kept /\ pc[c] = "reread" /\ pc'[c] \in {"idle", "confirm"}
    BY <1>7, RereadFrame DEF Cleared
  <2>2. CASE Cleared(c) /\ copy[c] \in Files
    <3>1. owner[c] \notin exposed => FALSE
      <4>1. ASSUME owner[c] \notin exposed PROVE copy[c] = ref[owner[c]] /\ owner[c] \in Owners
        BY <2>1, <4>1, ConfirmsOwn DEF Unconfirmed
      <4>2. ASSUME NEW f \in {copy[c], ref[owner[c]]}, f = NoFile, owner[c] \notin exposed
            PROVE  FALSE
        BY <2>2, <4>1, <4>2, FileAssumption
      <4>3. ASSUME pc'[c] = "confirm" PROVE FALSE
        BY <2>2, <4>3 DEF Cleared
      <4>4. \/ \E f \in {copy[c], ref[owner[c]]} : f = NoFile
            \/ Goto(c, "confirm")
        BY <1>7 DEF Reread
      <4>5. ~Goto(c, "confirm")
        BY <4>3 DEF Goto, TypeOK, Actors
      <4> QED BY <4>2, <4>4, <4>5
    <3> QED BY <1>1, <1>2, <2>1, <3>1 DEF Pending, Unconfirmed, Confirming
  <2>3. CASE copy[c] \notin Files
    BY <1>2, <2>1, <2>3 DEF Pending, Unconfirmed, Confirming
  <2>4. CASE ~Cleared(c)
    <3>1. pc'[c] = "confirm" /\ owner'[c] = owner[c]
      BY <1>7, <2>4, RereadFrame
    <3> QED BY <1>2, <2>1, <3>1 DEF Pending, Unconfirmed, Confirming
  <2> QED BY <2>2, <2>3, <2>4
<1>8. ASSUME NEW c \in Clients, Confirm(c) PROVE StoredInv' /\ OrphanInv'
  <2>1. Apart(c) /\ Kept /\ pc'[c] \in {"idle", "find", "keep", "keep again"}
    BY <1>8, ConfirmFrame DEF After, Moved, Cleared
  <2>2. \/ owner'[c] = owner[c] /\ Unconfirmed(c)'
        \/ row[copy[c]] # "temp"
    BY <1>8, ConfirmFrame DEF Moved, Unconfirmed, Confirming
  <2> QED BY <1>2, <2>1, <2>2 DEF Pending
<1>9. ASSUME NEW c \in Clients, ConfirmFails(c) PROVE StoredInv' /\ OrphanInv'
  <2>1. Apart(c) /\ Kept /\ pc'[c] = "confirm again" /\ owner'[c] = owner[c]
    BY <1>9, ConfirmFailsFrame DEF Moved
  <2> QED BY <1>2, <2>1 DEF Pending, Unconfirmed, Confirming
<1>10. ASSUME NEW a \in Actors, FindFile(a) \/ Refused(a) \/ StorageFails(a)
       PROVE  StoredInv' /\ OrphanInv'
  <2>1. /\ Apart(a) /\ (Ends(a) \/ Goes(a, "remove")) /\ Kept
        /\ pc[a] \in Deleting
    BY <1>10, FindFrame, RefuseFrame DEF Deleting
  <2> QED BY <1>3, <2>1 DEF Unconfirmed, Confirming, Deleting
<1>11. ASSUME NEW a \in Actors, RemoveObject(a) PROVE StoredInv' /\ OrphanInv'
  <2>1. /\ Apart(a) /\ Goes(a, "drop") /\ UNCHANGED <<row, old, ref, todo>>
        /\ object' = [object EXCEPT ![target[a]] = "removed"]
        /\ pc[a] \in Deleting /\ pc[a] = "remove" /\ target[a] \in Files
    BY <1>11, RemoveFrame DEF Deleting, TypeOK
  <2>2. ASSUME NEW f \in Files, f \notin exposed
        PROVE  \/ row'[f] = row[f] /\ object'[f] = object[f]
               \/ Unused(f) /\ (row'[f] = "kept" => row[f] = "kept")
    BY <2>1, <2>2, DeletedUnused DEF TypeOK
  <2> QED BY <1>3, <2>1, <2>2 DEF Unconfirmed, Confirming, Deleting
<1>12. ASSUME NEW a \in Actors, DropRow(a) PROVE StoredInv' /\ OrphanInv'
  <2>1. /\ Apart(a) /\ Ends(a) /\ UNCHANGED <<object, old, ref, todo>>
        /\ row' = [row EXCEPT ![target[a]] = "deleted"]
        /\ pc[a] \in Deleting /\ target[a] \in Files
    BY <1>12, DropFrame DEF Deleting, TypeOK
  <2>2. ASSUME NEW f \in Files, f \notin exposed
        PROVE  \/ row'[f] = row[f] /\ object'[f] = object[f]
               \/ Unused(f) /\ row'[f] # "kept"
    BY <2>1, <2>2, DeletedUnused DEF TypeOK
  <2> QED BY <1>3, <2>1, <2>2 DEF Unconfirmed, Confirming, Deleting
<1>13. ASSUME NEW a \in Actors, DbFails(a) PROVE StoredInv' /\ OrphanInv'
  <2>1. /\ Apart(a) /\ Ends(a) /\ Kept
        /\ a \in Clients /\ Unconfirmed(a) => owner[a] \in exposed'
    BY <1>13, DbFailsFrame
  <2> QED BY <1>3, <2>1
<1>14. CASE Crash
  <2>1. \A f \in Files : ~Wished(f)' /\ ~Listed(f)'
    BY <1>14, CrashFrame, FileAssumption DEF Wished, Listed, Pending, Cleared
  <2>2. \A o \in Owners \ exposed' : ~AtIt(o)
    BY <1>14, CrashFrame DEF AtIt
  <2> QED BY <1>14, <2>1, <2>2, CrashFrame, CalmUse
<1>15. ASSUME NEW f \in Files, NextOrphan(f) PROVE StoredInv' /\ OrphanInv'
  <2>1. \A g \in Files : Listed(g)' => Listed(g)
    BY <1>15, NextOrphanFrame DEF Listed
  <2> QED BY <1>4, <1>15, <2>1, NextOrphanFrame, CalmUse
<1>16. ASSUME NEW f \in Files, Upload(f) PROVE StoredInv' /\ OrphanInv'
  <2>1. /\ row[f] = "unused" /\ row' = [row EXCEPT ![f] = "temp"]
        /\ object' = [object EXCEPT ![f] = "stored"]
        /\ UNCHANGED <<old, ref, todo, target>>
    BY <1>16 DEF Upload
  <2>2. f \notin exposed => Unused(f)
    BY <2>1 DEF StoredInv, Fresh, Unused
  <2>3. \A g \in Files \ exposed : \/ row'[g] = row[g] /\ object'[g] = object[g]
                                   \/ Unused(g) /\ row'[g] # "kept"
    BY <2>1, <2>2 DEF TypeOK
  <2>4. \A d \in Clients : Same(d)
    BY <1>16, QuietFrame
  <2> QED BY <1>4, <2>1, <2>3, <2>4, CalmUse DEF Listed
<1>17. CASE UNCHANGED vars
  <2>1. /\ UNCHANGED <<row, object, old, ref, todo, target>>
        /\ \A d \in Clients : Same(d)
    BY <1>17, QuietFrame DEF vars, fileVars
  <2> QED BY <1>4, <2>1, CalmUse DEF Listed
<1> QED BY <1>5, <1>6, <1>7, <1>8, <1>9, <1>10, <1>11, <1>12, <1>13, <1>14, <1>15, <1>16, <1>17,
           SaveUse, KeepUse, ListUse, AgeUse
        DEF Next, RequestStep, CronStep, DeleteStep, Actors

(* Whatever the numbers of files, owners and browsers, and whatever fails: *)
(* neither an update nor the nightly job takes a file away from an owner   *)
(* that refers to it, as long as the use of both is protected.             *)
THEOREM UsedFilesStay == Spec => []ReferencedIsStored
<1>1. Init => FilesUsedInv
  <2> SUFFICES ASSUME Init PROVE FilesUsedInv
    OBVIOUS
  <2>1. ClaimInv
    BY DEF Init, ClaimInv, Owned, Holds, Actors
  <2>2. AloneInv
    BY DEF Init, AloneInv, Safe
  <2>3. \A f \in Files : ~Wished(f) /\ ~Listed(f)
    BY FileAssumption DEF Init, Wished, Listed, Pending, Actors
  <2>4. StoredInv /\ OrphanInv
    BY <2>3, FileAssumption DEF Init, StoredInv, OrphanInv
  <2> QED BY <2>1, <2>2, <2>4, InitTyped, InitObjects DEF FilesUsedInv
<1>2. FilesUsedInv /\ [Next]_vars => FilesUsedInv'
  BY TypeStep, PlaceStep, ObjectStep, ClaimStep, AloneStep, UseStep DEF FilesUsedInv
<1>3. FilesUsedInv => ReferencedIsStored
  BY DEF FilesUsedInv, StoredInv, Fresh, AtIt, Busy, ReferencedIsStored
<1> QED BY <1>1, <1>2, <1>3, PTL DEF Spec
================================================================================
