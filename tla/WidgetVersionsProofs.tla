------------------------- MODULE WidgetVersionsProofs -------------------------
(***************************************************************************)
(* Theorems about WidgetVersions, for any number of versions, configs,     *)
(* administrators, visitors, requests and faults.                          *)
(***************************************************************************)
EXTENDS WidgetVersions, TLAPS

Publishing == {"findActive", "deactivate", "activate", "syncBot", "deploy", "invalidate"}

(* What a request has in hand where it is.                                 *)
PlaceInv ==
    /\ \A a \in Admins :
          /\ pc[a] \in {"find", "change"} \cup Publishing =>
                target[a] \in Versions /\ op[a] \in Ops \ {"create"}
          /\ pc[a] = "change" => op[a] \in {"update", "archive", "delete"}
          /\ pc[a] \in Publishing => op[a] \in {"publish", "settings", "rollback"}
          /\ pc[a] = "deactivate" => found[a].id \in Versions
    /\ \A u \in Visitors : pc[u] \in {"idle", "fill"}
    /\ \A p \in Actors : pc[p] = "fill" => found[p].id \in Versions

TypeInv == TypeOK /\ PlaceInv

LEMMA NothingType == Nothing \in Finds
BY DEF Nothing, Finds, NoRow, Rows

LEMMA DoneRow ==
    ASSUME TypeInv, NEW a \in Admins, Done(a), row' \in [Versions -> Rows],
           UNCHANGED <<activeId, lastDeployed, requests, overlapped>>,
           cache' \in Finds, faults' \in 0 .. MaxFaults
    PROVE  TypeInv'
<1>1. NoRow("none") \in Rows /\ Nothing \in Finds
  BY NothingType DEF NoRow, Rows
<1>2. TypeOK'
  BY <1>1 DEF TypeInv, TypeOK, Done, Goto, Actors
<1>3. PlaceInv'
  BY WidgetAssumption DEF TypeInv, TypeOK, PlaceInv, Done, Goto, Actors, Publishing
<1> QED BY <1>2, <1>3 DEF TypeInv

LEMMA StepTypeInv == TypeInv /\ Next => TypeInv'
<1> SUFFICES ASSUME TypeInv, Next PROVE TypeInv'
  OBVIOUS
<1>0. /\ NoRow("none") \in Rows /\ NoRow("gone") \in Rows /\ Nothing \in Finds
      /\ \A v \in Versions : row[v] \in Rows /\ Find(v) \in Finds
  BY NothingType DEF NoRow, Rows, Find, Finds, TypeInv, TypeOK
<1> USE DEF TypeInv, TypeOK, PlaceInv, Goto, dbVars, countVars, Actors, Publishing
<1>1. ASSUME NEW a \in Admins, NEW o \in Ops, NEW v \in Versions \cup {NoVersion},
             Request(a, o, v)
      PROVE  TypeInv'
  BY <1>0, <1>1, WidgetAssumption DEF Request, Ops
<1>2. ASSUME NEW p \in Actors, NEW v \in Versions, ReadActive(p, v) PROVE TypeInv'
  <2>1. Find(v).id = v
    BY DEF Find
  <2> QED BY <1>0, <1>2, <2>1, WidgetAssumption DEF ReadActive, Asks
<1>3. ASSUME NEW p \in Actors, FillCache(p) PROVE TypeInv'
  BY <1>0, <1>3, WidgetAssumption DEF FillCache, Asked
<1>4. ASSUME NEW a \in Admins, AskSettings(a) PROVE TypeInv'
  BY <1>0, <1>4, WidgetAssumption DEF AskSettings
<1>5. CASE Expire
  BY <1>0, <1>5 DEF Expire, requestVars
<1>6. ASSUME NEW a \in Admins, NEW v \in Versions, NEW k \in Configs, InsertDraft(a, v, k)
      PROVE  TypeInv'
  <2>1. row' \in [Versions -> Rows]
    BY <1>6 DEF InsertDraft, Save, Rows
  <2>2. CASE Done(a)
    BY <1>6, <2>1, <2>2, DoneRow DEF InsertDraft
  <2>3. CASE ~ Done(a)
    BY <1>6, <2>1, <2>3, WidgetAssumption DEF InsertDraft, Ops
  <2> QED BY <2>2, <2>3
<1>7. ASSUME NEW a \in Admins, FindVersion(a) PROVE TypeInv'
  <2>1. CASE Done(a)
    BY <1>7, <2>1, DoneRow DEF FindVersion
  <2>2. CASE ~ Done(a)
    BY <1>0, <1>7, <2>2, WidgetAssumption DEF FindVersion, Ops
  <2> QED BY <2>1, <2>2
<1>8. ASSUME NEW a \in Admins, SaveChange(a) \/ RemoveVersion(a) PROVE TypeInv'
  <2>1. row' \in [Versions -> Rows]
    <3>1. /\ \A k \in Configs : [copy[a] EXCEPT !.config = k] \in Rows
          /\ [copy[a] EXCEPT !.status = "archived"] \in Rows
      BY DEF Rows
    <3> QED BY <1>0, <1>8, <3>1 DEF SaveChange, RemoveVersion, Save
  <2> QED BY <1>8, <2>1, DoneRow DEF SaveChange, RemoveVersion
<1>9. ASSUME NEW a \in Admins, FindActive(a) PROVE TypeInv'
  <2>1. \A v \in Versions : Find(v).id = v
    BY DEF Find
  <2> QED BY <1>0, <1>9, <2>1, WidgetAssumption DEF FindActive
<1>10. ASSUME NEW a \in Admins, Deactivate(a) \/ Activate(a) PROVE TypeInv'
  <2>1. row' \in [Versions -> Rows]
    <3>1. /\ found[a].row \in Rows /\ copy[a] \in Rows
      BY DEF Finds
    <3>2. /\ [found[a].row EXCEPT !.isActive = FALSE] \in Rows
          /\ [copy[a] EXCEPT !.status = "published", !.isActive = TRUE] \in Rows
      BY <3>1 DEF Rows
    <3> QED BY <1>10, <3>2 DEF Deactivate, Activate, Save
  <2>2. /\ \E q \in {"activate", "deploy", "syncBot"} : pc' = [pc EXCEPT ![a] = q]
        /\ pc[a] \in {"deactivate", "activate"}
        /\ UNCHANGED <<activeId, lastDeployed, cache, op, target, copy, found, requests,
                       overlapped, faults>>
    BY <1>10 DEF Deactivate, Activate
  <2>3. TypeOK'
    BY <2>1, <2>2
  <2>4. PlaceInv'
    BY <2>2, WidgetAssumption
  <2> QED BY <2>3, <2>4
<1>11. ASSUME NEW a \in Admins, SyncBot(a) PROVE TypeInv'
  <2>1. CASE Done(a)
    BY <1>11, <2>1, DoneRow DEF SyncBot
  <2>2. CASE ~ Done(a)
    BY <1>11, <2>2, WidgetAssumption DEF SyncBot
  <2> QED BY <2>1, <2>2
<1>12. ASSUME NEW a \in Admins, SaveDeployment(a) PROVE TypeInv'
  <2>1. CASE Done(a)
    BY <1>12, <2>1, DoneRow DEF SaveDeployment
  <2>2. CASE ~ Done(a)
    BY <1>12, <2>2, WidgetAssumption DEF SaveDeployment
  <2> QED BY <2>1, <2>2
<1>13. ASSUME NEW a \in Admins, Invalidate(a) PROVE TypeInv'
  BY <1>0, <1>13, DoneRow DEF Invalidate
<1>14. ASSUME NEW a \in Admins, Throw(a) PROVE TypeInv'
  <2>1. faults' \in 0 .. MaxFaults
    BY <1>14, WidgetAssumption DEF Throw
  <2> QED BY <1>14, <2>1, DoneRow DEF Throw
<1> QED
  BY <1>1, <1>2, <1>3, <1>4, <1>5, <1>6, <1>7, <1>8, <1>9, <1>10, <1>11, <1>12, <1>13,
     <1>14 DEF Next, AdminStep

-------------------------------------------------------------------------------
(* Whatever the order of the saves: the copies that are saved as active    *)
(* are saved as published.                                                 *)
RowInv ==
    /\ ActiveIsPublished
    /\ \A a \in Admins : /\ copy[a].isActive => copy[a].status = "published"
                         /\ pc[a] = "change" => ~ copy[a].isActive

LEMMA StepRowInv == TypeInv /\ RowInv /\ Next => RowInv'
<1> SUFFICES ASSUME TypeInv, RowInv, Next PROVE RowInv'
  OBVIOUS
<1> USE DEF RowInv, ActiveIsPublished
<1>0. ASSUME NEW a \in Admins, Done(a),
             \A v \in Versions : row'[v].isActive => row'[v].status = "published"
      PROVE  RowInv'
  BY <1>0 DEF Done, Goto, NoRow, TypeInv, TypeOK, Actors
<1>1. ASSUME NEW a \in Admins, NEW o \in Ops, NEW v \in Versions \cup {NoVersion},
             Request(a, o, v)
      PROVE  RowInv'
  BY <1>1 DEF Request, Goto, dbVars, TypeInv, TypeOK, Actors
<1>2. ASSUME NEW p \in Actors, FillCache(p) \/ \E v \in Versions : ReadActive(p, v)
      PROVE  RowInv'
  <2>1. /\ UNCHANGED <<row, copy>>
        /\ \E q \in {"idle", "insert", "fill"} : pc' = [pc EXCEPT ![p] = q]
    BY <1>2 DEF FillCache, ReadActive, Goto, Asked, dbVars
  <2> QED BY <2>1 DEF TypeInv, TypeOK, Actors
<1>3. ASSUME NEW a \in Admins, AskSettings(a) \/ FindActive(a) PROVE RowInv'
  <2>1. /\ UNCHANGED <<row, copy>>
        /\ \E q \in {"insert", "deactivate", "activate"} : pc' = [pc EXCEPT ![a] = q]
    BY <1>3 DEF AskSettings, FindActive, Goto, dbVars
  <2> QED BY <2>1 DEF TypeInv, TypeOK, Actors
<1>4. ASSUME NEW a \in Admins, NEW v \in Versions, NEW k \in Configs, InsertDraft(a, v, k)
      PROVE  RowInv'
  <2>1. \A w \in Versions : row'[w].isActive => row'[w].status = "published"
    BY <1>4 DEF InsertDraft, Save, TypeInv, TypeOK
  <2>2. CASE ~ Done(a)
    BY <1>4, <2>1, <2>2 DEF InsertDraft, Goto, TypeInv, TypeOK, Actors
  <2> QED BY <1>0, <2>1, <2>2
<1>5. ASSUME NEW a \in Admins, FindVersion(a) PROVE RowInv'
  <2>1. CASE Done(a)
    BY <1>0, <1>5, <2>1 DEF FindVersion, dbVars
  <2>2. CASE ~ Done(a)
    <3>1. /\ target[a] \in Versions /\ op[a] \in Ops \ {"create"}
          /\ Accepts(op[a], row[target[a]]) /\ row' = row
          /\ copy' = [copy EXCEPT ![a] = row[target[a]]]
          /\ \E q \in {"change", "findActive"} :
                /\ pc' = [pc EXCEPT ![a] = q]
                /\ q = "change" => op[a] \in {"update", "archive", "delete"}
      BY <1>5, <2>2 DEF FindVersion, Goto, dbVars, TypeInv, PlaceInv
    <3>2. op[a] \in {"update", "archive", "delete"} => ~ row[target[a]].isActive
      BY <3>1 DEF Accepts
    <3> QED BY <3>1, <3>2 DEF TypeInv, TypeOK, Actors
  <2> QED BY <2>1, <2>2
<1>6. ASSUME NEW a \in Admins, SaveChange(a) \/ RemoveVersion(a) PROVE RowInv'
  <2>1. \A v \in Versions : row'[v] # row[v] => ~ row'[v].isActive
    <3>1. copy[a] \in Rows /\ (pc[a] = "change" => ~ copy[a].isActive)
      BY DEF TypeInv, TypeOK
    <3>2. /\ \A k \in Configs : [copy[a] EXCEPT !.config = k].isActive = copy[a].isActive
          /\ [copy[a] EXCEPT !.status = "archived"].isActive = copy[a].isActive
          /\ ~ NoRow("gone").isActive
      BY <3>1 DEF Rows, NoRow
    <3>3. PICK r : /\ row' = [row EXCEPT ![target[a]] = r] \/ row' = row
                   /\ ~ r.isActive
      BY <1>6, <3>1, <3>2 DEF SaveChange, RemoveVersion, Save
    <3> QED BY <3>3 DEF TypeInv, TypeOK
  <2>2. \A v \in Versions : row'[v].isActive => row'[v].status = "published"
    BY <2>1
  <2>3. Done(a)
    BY <1>6 DEF SaveChange, RemoveVersion
  <2> QED BY <1>0, <2>2, <2>3
<1>7. ASSUME NEW a \in Admins, Deactivate(a) \/ Activate(a) PROVE RowInv'
  <2>1. found[a].row \in Rows /\ copy[a] \in Rows
    BY DEF TypeInv, TypeOK, Finds, Actors
  <2>2. /\ ~ [found[a].row EXCEPT !.isActive = FALSE].isActive
        /\ [copy[a] EXCEPT !.status = "published", !.isActive = TRUE].status = "published"
    BY <2>1 DEF Rows
  <2>3. \A v \in Versions : row'[v].isActive => row'[v].status = "published"
    BY <1>7, <2>2 DEF Deactivate, Activate, Save, TypeInv, TypeOK
  <2>4. /\ copy' = copy
        /\ \E q \in {"activate", "deploy", "syncBot"} : pc' = [pc EXCEPT ![a] = q]
    BY <1>7 DEF Deactivate, Activate, Goto
  <2> QED BY <2>3, <2>4 DEF TypeInv, TypeOK, Actors
<1>8. ASSUME NEW a \in Admins,
             SyncBot(a) \/ SaveDeployment(a) \/ Invalidate(a) \/ Throw(a)
      PROVE  RowInv'
  <2>1. /\ row' = row
        /\ \/ Done(a)
           \/ copy' = copy /\ \E q \in {"deploy", "invalidate"} : pc' = [pc EXCEPT ![a] = q]
    BY <1>8 DEF SyncBot, SaveDeployment, Invalidate, Throw, Goto, dbVars
  <2> QED BY <1>0, <2>1 DEF TypeInv, TypeOK, Actors
<1>9. CASE Expire
  BY <1>9 DEF Expire, dbVars, requestVars
<1> QED
  BY <1>1, <1>2, <1>3, <1>4, <1>5, <1>6, <1>7, <1>8, <1>9 DEF Next, AdminStep

-------------------------------------------------------------------------------
(* As long as requests have not overlapped, the copies are up to date.     *)

Alone == \A a, b \in Admins : pc[a] # "idle" /\ pc[b] # "idle" => a = b
One == \A v, w \in Versions : row[v].isActive /\ row[w].isActive => v = w

Fresh(a) ==
    /\ pc[a] \in {"change", "findActive", "deactivate", "activate"} =>
          copy[a] = row[target[a]] /\ ~ copy[a].isActive /\ Exists(target[a])
    /\ pc[a] = "change" /\ op[a] # "archive" => copy[a].status = "draft"
    /\ pc[a] = "deactivate" => row[found[a].id] = found[a].row /\ found[a].row.isActive
    /\ pc[a] = "activate" => \A v \in Versions : ~ row[v].isActive
    /\ pc[a] \in {"syncBot", "deploy", "invalidate"} =>
          row[target[a]].isActive /\ row[target[a]].status = "published"

SerialInv == ~ overlapped => Alone /\ One /\ \A a \in Admins : Fresh(a)

(* What a step of a does to the others.                                    *)
LEMMA OthersIdle ==
    ASSUME TypeInv, SerialInv, NEW a \in Admins,
           \/ AdminStep(a)
           \/ FillCache(a) \/ \E v \in Versions : ReadActive(a, v),
           ~ overlapped'
    PROVE  /\ ~ overlapped
           /\ \A b \in Admins \ {a} : pc[b] = "idle" /\ pc'[b] = "idle"
           /\ Alone'
<1>1. ~ overlapped
  BY DEF AdminStep, Request, AskSettings, InsertDraft, FindVersion, SaveChange,
         RemoveVersion, FindActive, Deactivate, Activate, SyncBot, SaveDeployment,
         Invalidate, Throw, FillCache, ReadActive, countVars
<1>2. \A b \in Admins \ {a} : pc'[b] = pc[b]
  BY DEF AdminStep, Request, AskSettings, InsertDraft, FindVersion, SaveChange,
         RemoveVersion, FindActive, Deactivate, Activate, SyncBot, SaveDeployment,
         Invalidate, Throw, FillCache, ReadActive, Asked, Goto, Done, TypeInv, TypeOK, Actors
<1>3. (\E o \in Ops, v \in Versions \cup {NoVersion} : Request(a, o, v)) \/ pc[a] # "idle"
  BY WidgetAssumption
     DEF AdminStep, AskSettings, InsertDraft, FindVersion, SaveChange, RemoveVersion,
         FindActive, Deactivate, Activate, SyncBot, SaveDeployment, Invalidate, Throw,
         FillCache, ReadActive, Asks
<1>4. \A b \in Admins \ {a} : pc[b] = "idle"
  BY <1>1, <1>3 DEF Request, SerialInv, Alone
<1> QED BY <1>1, <1>2, <1>4 DEF Alone

LEMMA SerialFrom ==
    ASSUME NEW a \in Admins, \A b \in Admins \ {a} : pc'[b] = "idle",
           Alone', One', Fresh(a)'
    PROVE  SerialInv'
BY DEF SerialInv, Fresh

LEMMA StepSerialInv == TypeInv /\ RowInv /\ SerialInv /\ Next => SerialInv'
<1> SUFFICES ASSUME TypeInv, RowInv, SerialInv, Next, ~ overlapped' PROVE SerialInv'
  BY DEF SerialInv
<1>0. ASSUME NEW a \in Admins, Done(a), One', Alone',
             \A b \in Admins \ {a} : pc'[b] = "idle"
      PROVE  SerialInv'
  <2>1. pc'[a] = "idle"
    BY <1>0 DEF Done, Goto, TypeInv, TypeOK, Actors
  <2> QED BY <1>0, <2>1, SerialFrom DEF Fresh
<1>1. ASSUME NEW a \in Admins, AdminStep(a)
      PROVE  SerialInv'
  <2>0. /\ ~ overlapped /\ One /\ Fresh(a)
        /\ \A b \in Admins \ {a} : pc[b] = "idle" /\ pc'[b] = "idle"
        /\ Alone'
    BY <1>1, OthersIdle DEF SerialInv
  <2>1. ASSUME row' = row, pc'[a] \in {"idle", "ask", "insert", "find"} PROVE SerialInv'
    BY <2>0, <2>1, SerialFrom DEF Fresh, One
  <2>2. CASE \/ \E o \in Ops, v \in Versions \cup {NoVersion} : Request(a, o, v)
             \/ AskSettings(a) \/ Invalidate(a) \/ Throw(a)
    BY <2>1, <2>2
       DEF Request, AskSettings, Invalidate, Throw, Done, Goto, dbVars, TypeInv, TypeOK, Actors
  <2>3. ASSUME NEW v \in Versions, NEW k \in Configs, InsertDraft(a, v, k)
        PROVE  SerialInv'
    <3>1. One'
      BY <2>0, <2>3 DEF InsertDraft, Save, One, TypeInv, TypeOK
    <3>2. pc'[a] \in {"idle", "find"}
      BY <2>3 DEF InsertDraft, Done, Goto, TypeInv, TypeOK, Actors
    <3> QED BY <2>0, <3>1, <3>2, SerialFrom DEF Fresh
  <2>4. CASE FindVersion(a)
    <3>1. CASE Done(a)
      BY <2>1, <2>4, <3>1 DEF FindVersion, Done, Goto, dbVars, TypeInv, TypeOK, Actors
    <3>2. CASE ~ Done(a)
      <4>1. /\ target[a] \in Versions /\ op[a] \in Ops \ {"create"}
            /\ Exists(target[a]) /\ Accepts(op[a], row[target[a]])
            /\ UNCHANGED <<row, op, target>>
            /\ copy'[a] = row[target[a]]
            /\ pc'[a] = IF op[a] \in {"update", "archive", "delete"} THEN "change"
                                                                     ELSE "findActive"
        BY <2>4, <3>2
           DEF FindVersion, Goto, dbVars, TypeInv, TypeOK, PlaceInv, Actors
      <4>2. ~ row[target[a]].isActive
        BY <4>1 DEF Accepts, RowInv, ActiveIsPublished, Ops
      <4>3. op[a] \in {"update", "delete"} => row[target[a]].status = "draft"
        BY <4>1 DEF Accepts
      <4>4. Fresh(a)'
        BY <4>1, <4>2, <4>3 DEF Fresh, Exists
      <4> QED BY <2>0, <4>1, <4>4, SerialFrom DEF One
    <3> QED BY <3>1, <3>2
  <2>5. CASE SaveChange(a) \/ RemoveVersion(a)
    <3>1. copy[a] \in Rows /\ ~ copy[a].isActive
      BY <2>0, <2>5 DEF SaveChange, RemoveVersion, Fresh, TypeInv, TypeOK
    <3>2. /\ \A k \in Configs : ~ [copy[a] EXCEPT !.config = k].isActive
          /\ ~ [copy[a] EXCEPT !.status = "archived"].isActive
          /\ ~ NoRow("gone").isActive
      BY <3>1 DEF Rows, NoRow
    <3>3. \A v \in Versions : row'[v] = row[v] \/ ~ row'[v].isActive
      BY <2>5, <3>2 DEF SaveChange, RemoveVersion, Save, TypeInv, TypeOK
    <3>4. One'
      BY <2>0, <3>3 DEF One
    <3> QED BY <1>0, <2>0, <2>5, <3>4 DEF SaveChange, RemoveVersion
  <2>6. CASE FindActive(a)
    <3>1. /\ UNCHANGED <<row, op, target, copy>>
          /\ pc[a] = "findActive"
          /\ \/ /\ pc'[a] = "deactivate"
                /\ \E v \in Versions : row[v].isActive /\ found'[a] = Find(v)
             \/ pc'[a] = "activate" /\ \A v \in Versions : ~ row[v].isActive
      BY <2>6 DEF FindActive, Goto, dbVars, TypeInv, TypeOK, Actors
    <3>2. copy[a] = row[target[a]] /\ ~ copy[a].isActive /\ Exists(target[a])
      BY <2>0, <3>1 DEF Fresh
    <3>3. ASSUME pc'[a] = "deactivate" PROVE Fresh(a)'
      <4>1. PICK v \in Versions : row[v].isActive /\ found'[a] = Find(v)
        BY <3>1, <3>3
      <4>2. found'[a].id = v /\ found'[a].row = row[v]
        BY <4>1 DEF Find
      <4> QED BY <3>1, <3>2, <3>3, <4>1, <4>2 DEF Fresh, Exists
    <3>4. ASSUME pc'[a] = "activate" PROVE Fresh(a)'
      BY <3>1, <3>2, <3>4 DEF Fresh, Exists
    <3>5. Fresh(a)'
      BY <3>1, <3>3, <3>4
    <3> QED BY <2>0, <3>1, <3>5, SerialFrom DEF One
  <2>7. CASE Deactivate(a)
    <3>1. /\ found[a].id \in Versions /\ target[a] \in Versions /\ found[a].row \in Rows
          /\ row[found[a].id].isActive /\ copy[a] = row[target[a]]
          /\ ~ row[target[a]].isActive /\ Exists(target[a])
      BY <2>0, <2>7
         DEF Deactivate, Fresh, TypeInv, TypeOK, PlaceInv, Actors, Finds, Publishing
    <3>2. ~ [found[a].row EXCEPT !.isActive = FALSE].isActive
      BY <3>1 DEF Rows
    <3>3. /\ pc'[a] = "activate" /\ UNCHANGED <<target, copy>>
          /\ row' = [row EXCEPT ![found[a].id] = [found[a].row EXCEPT !.isActive = FALSE]]
      BY <2>7 DEF Deactivate, Save, Goto, TypeInv, TypeOK, Actors
    <3>4. row'[target[a]] = row[target[a]]
      BY <3>1, <3>3 DEF TypeInv, TypeOK
    <3>5. \A v \in Versions : ~ row'[v].isActive
      BY <2>0, <3>1, <3>2, <3>3 DEF One, TypeInv, TypeOK
    <3>6. Fresh(a)'
      BY <3>1, <3>3, <3>4, <3>5 DEF Fresh, Exists
    <3> QED BY <2>0, <3>5, <3>6, SerialFrom DEF One
  <2>8. CASE Activate(a)
    <3>1. /\ target[a] \in Versions /\ copy[a] \in Rows
          /\ \A v \in Versions : ~ row[v].isActive
      BY <2>0, <2>8 DEF Activate, Fresh, TypeInv, TypeOK, PlaceInv, Publishing
    <3> DEFINE r == [copy[a] EXCEPT !.status = "published", !.isActive = TRUE]
    <3>2. r.isActive /\ r.status = "published"
      BY <3>1 DEF Rows
    <3>3. /\ pc'[a] \in {"deploy", "syncBot"} /\ target' = target
          /\ row' = [row EXCEPT ![target[a]] = r]
      BY <2>8 DEF Activate, Save, Goto, TypeInv, TypeOK, Actors
    <3> HIDE DEF r
    <3>4. /\ row'[target[a]] = r
          /\ \A v \in Versions \ {target[a]} : row'[v] = row[v]
      BY <3>1, <3>3 DEF TypeInv, TypeOK
    <3>5. Fresh(a)'
      BY <3>2, <3>3, <3>4 DEF Fresh
    <3> QED BY <2>0, <3>1, <3>4, <3>5, SerialFrom DEF One
  <2>9. CASE SyncBot(a) \/ SaveDeployment(a)
    <3>1. row' = row /\ target[a] \in Versions
          /\ row[target[a]].isActive /\ row[target[a]].status = "published"
      BY <2>0, <2>9
         DEF SyncBot, SaveDeployment, Fresh, TypeInv, PlaceInv, Publishing
    <3>2. pc'[a] \in {"deploy", "invalidate"} /\ target' = target
      BY <2>9, <3>1 DEF SyncBot, SaveDeployment, Exists, Goto, TypeInv, TypeOK, Actors
    <3>3. Fresh(a)'
      BY <3>1, <3>2 DEF Fresh
    <3> QED BY <2>0, <3>1, <3>3, SerialFrom DEF One
  <2> QED
    BY <1>1, <2>2, <2>3, <2>4, <2>5, <2>6, <2>7, <2>8, <2>9 DEF AdminStep
<1>2. ASSUME NEW p \in Actors, FillCache(p) \/ \E v \in Versions : ReadActive(p, v)
      PROVE  SerialInv'
  <2>1. /\ UNCHANGED <<row, op, target, copy, overlapped>>
        /\ \E q \in {"idle", "insert", "fill"} : pc' = [pc EXCEPT ![p] = q]
        /\ \E f : found' = [found EXCEPT ![p] = f]
    BY <1>2 DEF FillCache, ReadActive, Goto, Asked, dbVars, countVars
  <2>2. One'
    BY <2>1 DEF SerialInv, One
  <2>3. CASE p \in Admins
    <3>1. Alone' /\ \A b \in Admins \ {p} : pc'[b] = "idle"
      BY <1>2, <2>3, OthersIdle
    <3>2. pc'[p] \in {"idle", "insert", "fill"}
      BY <2>1 DEF TypeInv, TypeOK
    <3>3. Fresh(p)'
      BY <3>2 DEF Fresh
    <3> QED BY <2>2, <2>3, <3>1, <3>3, SerialFrom
  <2>4. CASE p \notin Admins
    <3>1. \A a \in Admins : pc'[a] = pc[a] /\ found'[a] = found[a]
      BY <2>1, <2>4 DEF TypeInv, TypeOK, Actors
    <3> QED BY <2>1, <2>2, <3>1 DEF SerialInv, Alone, Fresh, Exists
  <2> QED BY <2>3, <2>4
<1>3. CASE Expire
  BY <1>3 DEF Expire, dbVars, requestVars, countVars, SerialInv, Alone, One, Fresh, Exists
<1> QED BY <1>1, <1>2, <1>3 DEF Next

-------------------------------------------------------------------------------
(* The cache.                                                              *)

Public == {"published", "archived"}
Good(v, k) == v \in Versions /\ row[v].status \in Public /\ row[v].config = k

CacheInv ==
    ~ overlapped =>
        /\ cache # Nothing => Good(cache.id, cache.row.config)
        /\ \A p \in Actors : pc[p] = "fill" => Good(found[p].id, found[p].row.config)

(* What has been published keeps its config.                               *)
LEMMA PublicKeeps ==
    ASSUME TypeInv, RowInv, SerialInv, Next, ~ overlapped'
    PROVE  \A v, k : Good(v, k) => Good(v, k)'
<1>1. ASSUME NEW a \in Admins, NEW v \in Versions, NEW k \in Configs, InsertDraft(a, v, k)
      PROVE  \A w \in Versions : row[w].status \in Public => row'[w] = row[w]
  BY <1>1 DEF InsertDraft, Save, Public, TypeInv, TypeOK
<1>2. ASSUME NEW a \in Admins, SaveChange(a) \/ RemoveVersion(a)
      PROVE  \A w \in Versions : row[w].status \in Public =>
                 row'[w].status \in Public /\ row'[w].config = row[w].config
  <2>1. /\ copy[a] = row[target[a]] /\ target[a] \in Versions /\ copy[a] \in Rows
        /\ op[a] # "archive" => copy[a].status = "draft"
    BY <1>2, OthersIdle
       DEF SaveChange, RemoveVersion, AdminStep, SerialInv, Fresh, TypeInv, TypeOK, PlaceInv
  <2>2. /\ [copy[a] EXCEPT !.status = "archived"].status = "archived"
        /\ [copy[a] EXCEPT !.status = "archived"].config = copy[a].config
    BY <2>1 DEF Rows
  <2>3. CASE op[a] = "archive"
    <3>1. row' = [row EXCEPT ![target[a]] = [copy[a] EXCEPT !.status = "archived"]]
      BY <1>2, <2>3 DEF SaveChange, RemoveVersion, Save
    <3> QED BY <2>1, <2>2, <3>1 DEF Public, TypeInv, TypeOK
  <2>4. CASE op[a] # "archive"
    <3>1. \A w \in Versions : w # target[a] => row'[w] = row[w]
      BY <1>2, <2>4 DEF SaveChange, RemoveVersion, Save, TypeInv, TypeOK
    <3> QED BY <2>1, <2>4, <3>1 DEF Public
  <2> QED BY <2>3, <2>4
<1>3. ASSUME NEW a \in Admins, Deactivate(a)
      PROVE  \A w \in Versions : row[w].status \in Public =>
                 row'[w].status \in Public /\ row'[w].config = row[w].config
  <2>1. row[found[a].id] = found[a].row /\ found[a].row \in Rows
    BY <1>3, OthersIdle DEF Deactivate, AdminStep, SerialInv, Fresh, TypeInv, TypeOK, Finds, Actors
  <2>2. /\ [found[a].row EXCEPT !.isActive = FALSE].status = found[a].row.status
        /\ [found[a].row EXCEPT !.isActive = FALSE].config = found[a].row.config
    BY <2>1 DEF Rows
  <2>3. row' = [row EXCEPT ![found[a].id] = [found[a].row EXCEPT !.isActive = FALSE]]
    BY <1>3 DEF Deactivate, Save
  <2> QED BY <2>1, <2>2, <2>3 DEF TypeInv, TypeOK
<1>4. ASSUME NEW a \in Admins, Activate(a)
      PROVE  \A w \in Versions : row[w].status \in Public =>
                 row'[w].status \in Public /\ row'[w].config = row[w].config
  <2>1. row[target[a]] = copy[a] /\ copy[a] \in Rows
    BY <1>4, OthersIdle DEF Activate, AdminStep, SerialInv, Fresh, TypeInv, TypeOK
  <2> DEFINE r == [copy[a] EXCEPT !.status = "published", !.isActive = TRUE]
  <2>2. r.status = "published" /\ r.config = copy[a].config
    BY <2>1 DEF Rows
  <2>3. row' = [row EXCEPT ![target[a]] = r]
    BY <1>4 DEF Activate, Save
  <2> HIDE DEF r
  <2> QED BY <2>1, <2>2, <2>3 DEF TypeInv, TypeOK, Public
<1>5. \/ row' = row
      \/ \E a \in Admins : \/ \E v \in Versions, k \in Configs : InsertDraft(a, v, k)
                           \/ SaveChange(a) \/ RemoveVersion(a)
                           \/ Deactivate(a) \/ Activate(a)
  BY DEF Next, AdminStep, Request, AskSettings, FindVersion, FindActive, SyncBot,
         SaveDeployment, Invalidate, Throw, FillCache, ReadActive, Expire, dbVars
<1> QED BY <1>1, <1>2, <1>3, <1>4, <1>5 DEF Good

LEMMA StepCacheInv == TypeInv /\ RowInv /\ SerialInv /\ CacheInv /\ Next => CacheInv'
<1> SUFFICES ASSUME TypeInv, RowInv, SerialInv, CacheInv, Next, ~ overlapped'
             PROVE  CacheInv'
  BY DEF CacheInv
<1>0. ~ overlapped
  BY DEF Next, AdminStep, Request, AskSettings, InsertDraft, FindVersion, SaveChange,
         RemoveVersion, FindActive, Deactivate, Activate, SyncBot, SaveDeployment,
         Invalidate, Throw, FillCache, ReadActive, Expire, countVars
<1>1. \A v, k : Good(v, k) => Good(v, k)'
  BY PublicKeeps
<1>2. /\ cache # Nothing => Good(cache.id, cache.row.config) /\ cache.id \in Versions
      /\ \A p \in Actors : pc[p] = "fill" =>
            Good(found[p].id, found[p].row.config) /\ found[p].id \in Versions
  BY <1>0 DEF CacheInv, Good
<1>3. ASSUME cache' \in {cache, Nothing},
             \A p \in Actors : pc'[p] = "fill" => pc[p] = "fill" /\ found'[p] = found[p]
      PROVE  CacheInv'
  BY <1>1, <1>2, <1>3 DEF CacheInv
<1>4. ASSUME NEW a \in Admins, AdminStep(a) PROVE CacheInv'
  <2>1. cache' \in {cache, Nothing}
    BY <1>4
       DEF AdminStep, Request, AskSettings, InsertDraft, FindVersion, SaveChange,
           RemoveVersion, FindActive, Deactivate, Activate, SyncBot, SaveDeployment,
           Invalidate, Throw
  <2>2. /\ pc'[a] # "fill" /\ \A p \in Actors : p # a => pc'[p] = pc[p] /\ found'[p] = found[p]
    BY <1>4
       DEF AdminStep, Request, AskSettings, InsertDraft, FindVersion, SaveChange,
           RemoveVersion, FindActive, Deactivate, Activate, SyncBot, SaveDeployment,
           Invalidate, Throw, Goto, Done, TypeInv, TypeOK, Actors
  <2> QED BY <1>3, <2>1, <2>2
<1>5. ASSUME NEW p \in Actors, FillCache(p) PROVE CacheInv'
  <2>1. /\ pc[p] = "fill" /\ cache' = found[p]
        /\ \A q \in Actors : pc'[q] = "fill" => pc[q] = "fill" /\ found'[q] = found[q]
    BY <1>5 DEF FillCache, Asked, Goto, TypeInv, TypeOK, Actors
  <2> QED BY <1>1, <1>2, <2>1 DEF CacheInv
<1>6. ASSUME NEW p \in Actors, NEW v \in Versions, ReadActive(p, v) PROVE CacheInv'
  <2>1. /\ UNCHANGED <<row, cache>> /\ row[v].status = "published" /\ found'[p] = Find(v)
        /\ \A q \in Actors \ {p} : pc'[q] = "fill" => pc[q] = "fill" /\ found'[q] = found[q]
    BY <1>6 DEF ReadActive, Goto, dbVars, TypeInv, TypeOK, Actors
  <2>2. found'[p].id = v /\ found'[p].row = row[v]
    BY <2>1 DEF Find
  <2>3. Good(found[p].id, found[p].row.config)'
    BY <2>1, <2>2 DEF Good, Public
  <2> QED BY <1>1, <1>2, <2>1, <2>3 DEF CacheInv
<1>7. CASE Expire
  BY <1>3, <1>7 DEF Expire, requestVars
<1> QED BY <1>4, <1>5, <1>6, <1>7 DEF Next

-------------------------------------------------------------------------------
(* The deployment history.                                                 *)

Between == {"activate", "syncBot", "deploy"}
Names == \A v \in Versions : row[v].isActive <=> v = lastDeployed

HistInv ==
    ~ overlapped /\ faults = 0 /\ (\A a \in Admins : pc[a] \notin Between) => Names

LEMMA StepHistInv == TypeInv /\ RowInv /\ SerialInv /\ HistInv /\ Next => HistInv'
<1> SUFFICES ASSUME TypeInv, RowInv, SerialInv, HistInv, Next,
                    ~ overlapped', faults' = 0, \A a \in Admins : pc'[a] \notin Between
             PROVE  Names'
  BY DEF HistInv
<1>0. ~ overlapped /\ faults = 0
  <2>0. ~ overlapped
    BY DEF Next, AdminStep, Request, AskSettings, InsertDraft, FindVersion, SaveChange,
           RemoveVersion, FindActive, Deactivate, Activate, SyncBot, SaveDeployment,
           Invalidate, Throw, FillCache, ReadActive, Expire, countVars
  <2>1. faults' = faults \/ faults' = faults + 1
    BY DEF Next, AdminStep, Request, AskSettings, InsertDraft, FindVersion, SaveChange,
           RemoveVersion, FindActive, Deactivate, Activate, SyncBot, SaveDeployment,
           Invalidate, Throw, FillCache, ReadActive, Expire, countVars
  <2>2. faults \in Nat
    BY WidgetAssumption DEF TypeInv, TypeOK
  <2> QED BY <2>0, <2>1, <2>2
<1>1. ASSUME NEW a \in Admins, AdminStep(a), pc[a] \notin Between, lastDeployed' = lastDeployed,
             \A v \in Versions : row'[v].isActive <=> row[v].isActive
      PROVE  Names'
  <2>1. \A b \in Admins : pc[b] \notin Between
    BY <1>1, OthersIdle DEF Between
  <2> QED BY <1>0, <1>1, <2>1 DEF HistInv, Names
<1>2. ASSUME NEW a \in Admins,
             \/ \E o \in Ops, v \in Versions \cup {NoVersion} : Request(a, o, v)
             \/ AskSettings(a) \/ FindVersion(a) \/ FindActive(a) \/ Invalidate(a)
      PROVE  Names'
  <2>1. pc[a] \notin Between /\ UNCHANGED <<row, lastDeployed>>
    BY <1>2 DEF Request, AskSettings, FindVersion, FindActive, Invalidate, dbVars, Between
  <2> QED BY <1>1, <1>2, <2>1 DEF AdminStep
<1>3. ASSUME NEW a \in Admins, NEW v \in Versions, NEW k \in Configs, InsertDraft(a, v, k)
      PROVE  Names'
  <2>1. pc[a] \notin Between /\ lastDeployed' = lastDeployed
    BY <1>3 DEF InsertDraft, Between
  <2>2. \A w \in Versions : row'[w].isActive <=> row[w].isActive
    BY <1>3 DEF InsertDraft, Save, RowInv, ActiveIsPublished, TypeInv, TypeOK
  <2> QED BY <1>1, <1>3, <2>1, <2>2 DEF AdminStep
<1>4. ASSUME NEW a \in Admins, SaveChange(a) \/ RemoveVersion(a) PROVE Names'
  <2>1. pc[a] \notin Between /\ lastDeployed' = lastDeployed
    BY <1>4 DEF SaveChange, RemoveVersion, Between
  <2>2. /\ copy[a] = row[target[a]] /\ ~ copy[a].isActive /\ target[a] \in Versions
        /\ copy[a] \in Rows
    BY <1>0, <1>4 DEF SaveChange, RemoveVersion, SerialInv, Fresh, TypeInv, TypeOK, PlaceInv
  <2>3. /\ \A k \in Configs : ~ [copy[a] EXCEPT !.config = k].isActive
        /\ ~ [copy[a] EXCEPT !.status = "archived"].isActive
        /\ ~ NoRow("gone").isActive
    BY <2>2 DEF Rows, NoRow
  <2>4. \A v \in Versions : row'[v] = row[v] \/ (v = target[a] /\ ~ row'[v].isActive)
    BY <1>4, <2>3 DEF SaveChange, RemoveVersion, Save, TypeInv, TypeOK
  <2>5. \A v \in Versions : row'[v].isActive <=> row[v].isActive
    BY <2>2, <2>4
  <2> QED BY <1>1, <1>4, <2>1, <2>5 DEF AdminStep
<1>5. ASSUME NEW a \in Admins, Deactivate(a) \/ Activate(a) \/ SyncBot(a) PROVE FALSE
  <2>1. pc'[a] \in Between \cup {"idle"}
    BY <1>5 DEF Deactivate, Activate, SyncBot, Done, Goto, Between, TypeInv, TypeOK, Actors
  <2>2. pc[a] = "syncBot" => Exists(target[a])
    BY <1>0 DEF SerialInv, Fresh, Exists
  <2>3. pc'[a] # "idle"
    BY <1>5, <2>2 DEF Deactivate, Activate, SyncBot, Goto, TypeInv, TypeOK, Actors
  <2> QED BY <2>1, <2>3
<1>6. ASSUME NEW a \in Admins, SaveDeployment(a) PROVE Names'
  <2>1. row[target[a]].isActive /\ Exists(target[a]) /\ target[a] \in Versions /\ One
    BY <1>0, <1>6
       DEF SaveDeployment, SerialInv, Fresh, Exists, TypeInv, PlaceInv, Publishing
  <2>2. lastDeployed' = target[a] /\ row' = row
    BY <1>6, <2>1 DEF SaveDeployment
  <2> QED BY <2>1, <2>2 DEF Names, One
<1>7. ASSUME NEW a \in Admins, Throw(a) PROVE FALSE
  BY <1>0, <1>7 DEF Throw
<1>8. ASSUME NEW p \in Actors, FillCache(p) \/ \E v \in Versions : ReadActive(p, v)
      PROVE  Names'
  <2>1. /\ UNCHANGED <<row, lastDeployed>>
        /\ \A q \in Actors : q # p => pc'[q] = pc[q]
        /\ pc[p] \notin Between
    BY <1>8, WidgetAssumption
       DEF FillCache, ReadActive, Asks, Asked, Goto, dbVars, Between, TypeInv, TypeOK,
           PlaceInv, Actors
  <2>2. \A a \in Admins : pc[a] \notin Between
    BY <2>1 DEF Actors
  <2> QED BY <1>0, <2>1, <2>2 DEF HistInv, Names
<1>9. CASE Expire
  BY <1>0, <1>9 DEF Expire, dbVars, requestVars, HistInv, Names
<1> QED
  BY <1>2, <1>3, <1>4, <1>5, <1>6, <1>7, <1>8, <1>9 DEF Next, AdminStep

-------------------------------------------------------------------------------
(* The inductive invariant.                                                *)

IInv == TypeInv /\ RowInv /\ SerialInv /\ CacheInv /\ HistInv

LEMMA InitIInv == Init => IInv
<1> SUFFICES ASSUME Init PROVE IInv
  OBVIOUS
<1>1. /\ NoRow("none") \in Rows /\ ~ NoRow("none").isActive /\ Nothing \in Finds
  BY NothingType DEF NoRow, Rows
<1>2. TypeOK
  <2>1. \A a \in Admins : pc[a] = "idle" /\ op[a] = "none"
    BY DEF Init, Actors
  <2>2. requests \in 0 .. MaxRequests /\ overlapped \in BOOLEAN /\ faults \in 0 .. MaxFaults
    <3>1. requests = 0 /\ overlapped = FALSE /\ faults = 0
      BY DEF Init
    <3>2. requests \in 0 .. MaxRequests
      BY <3>1, WidgetAssumption
    <3>3. faults \in 0 .. MaxFaults
      BY <3>1, WidgetAssumption
    <3>4. overlapped \in BOOLEAN
      BY <3>1
    <3> QED BY <3>2, <3>3, <3>4
  <2>3. row \in [Versions -> Rows] /\ copy \in [Admins -> Rows] /\ found \in [Actors -> Finds]
    BY <1>1 DEF Init
  <2>4. /\ pc \in [Actors -> {"idle", "ask", "fill", "insert", "find", "change",
                              "findActive", "deactivate", "activate", "syncBot",
                              "deploy", "invalidate"}]
        /\ op \in [Admins -> Ops \cup {"none"}]
    BY DEF Init
  <2>5. /\ target \in [Admins -> Versions \cup {NoVersion}] /\ cache \in Finds
        /\ activeId \in Versions \cup {NoVersion} /\ lastDeployed \in Versions \cup {NoVersion}
    BY <1>1 DEF Init
  <2> QED BY <2>1, <2>2, <2>3, <2>4, <2>5 DEF TypeOK
<1>3. \A p \in Actors : pc[p] = "idle"
  BY DEF Init
<1>4. \A v \in Versions : ~ row[v].isActive /\ v # lastDeployed
  BY <1>1, WidgetAssumption DEF Init
<1>5. PlaceInv
  BY <1>3 DEF PlaceInv, Publishing, Actors
<1>6. RowInv
  BY <1>1, <1>3, <1>4 DEF Init, RowInv, ActiveIsPublished, Actors
<1>7. SerialInv /\ CacheInv /\ HistInv
  BY <1>3, <1>4
     DEF Init, SerialInv, Alone, One, Fresh, CacheInv, HistInv, Names, Actors
<1> QED BY <1>2, <1>5, <1>6, <1>7 DEF IInv, TypeInv

LEMMA NextIInv == IInv /\ [Next]_vars => IInv'
<1>1. ASSUME IInv, Next PROVE IInv'
  BY <1>1, StepTypeInv, StepRowInv, StepSerialInv, StepCacheInv, StepHistInv DEF IInv
<1>2. ASSUME IInv, UNCHANGED vars PROVE IInv'
  <2>1. UNCHANGED <<row, activeId, lastDeployed, cache, pc, op, target, copy, found,
                    requests, overlapped, faults>>
    BY <1>2 DEF vars, dbVars, requestVars
  <2>2. TypeInv' /\ RowInv'
    BY <1>2, <2>1 DEF IInv, TypeInv, TypeOK, PlaceInv, RowInv, ActiveIsPublished
  <2>3. SerialInv' /\ CacheInv' /\ HistInv'
    BY <1>2, <2>1
       DEF IInv, SerialInv, Alone, One, Fresh, Exists, CacheInv, Good, HistInv, Names
  <2> QED BY <2>2, <2>3 DEF IInv
<1> QED BY <1>1, <1>2

LEMMA InvariantIInv == Spec => []IInv
BY InitIInv, NextIInv, PTL DEF Spec

LEMMA IInvProperties ==
    IInv => /\ TypeOK /\ ActiveIsPublished /\ OneActive /\ CacheIsPublished
            /\ HistoryNamesActive
<1> SUFFICES ASSUME IInv
             PROVE  /\ TypeOK /\ ActiveIsPublished /\ OneActive /\ CacheIsPublished
                    /\ HistoryNamesActive
  OBVIOUS
<1>1. TypeOK /\ ActiveIsPublished
  BY DEF IInv, TypeInv, RowInv
<1>2. OneActive
  BY DEF IInv, SerialInv, One, OneActive
<1>3. CacheIsPublished
  BY DEF IInv, CacheInv, Good, Public, CacheIsPublished
<1>4. HistoryNamesActive
  BY DEF IInv, HistInv, Names, Between, HistoryNamesActive
<1> QED BY <1>1, <1>2, <1>3, <1>4

-------------------------------------------------------------------------------
(* Rows, requests and the cache stay well-formed; a request that is        *)
(* answered or has failed leaves nothing open.                             *)
THEOREM TypeCorrect == Spec => []TypeOK
BY InvariantIInv, IInvProperties, PTL

(* publishVersion, rollbackVersion and archiveVersion: an active version   *)
(* is published, however their saves of old copies are interleaved.        *)
THEOREM ActivePublished == Spec => []ActiveIsPublished
BY InvariantIInv, IInvProperties, PTL

(* publishVersion and rollbackVersion: one active version at most, through *)
(* every failure, as long as administrators wait for each other.           *)
THEOREM AtMostOneActive == Spec => []OneActive
BY InvariantIInv, IInvProperties, PTL

(* getActiveVersion: a cached version is one that was published, with the  *)
(* config it was published with.                                           *)
THEOREM CachePublished == Spec => []CacheIsPublished
BY InvariantIInv, IInvProperties, PTL

(* publishVersion and rollbackVersion record what they activate.           *)
THEOREM HistoryActive == Spec => []HistoryNamesActive
BY InvariantIInv, IInvProperties, PTL

-------------------------------------------------------------------------------
(* Refinement of WidgetPublication.  A request holds an active version     *)
(* only between the two saves of a switch, and not the one it switches to. *)
FoundInv ==
    /\ \A a \in Admins :
          pc[a] \notin {"fill", "deactivate", "activate", "syncBot", "deploy", "invalidate"} =>
              found[a] = Nothing
    /\ ~ overlapped => \A a \in Admins : pc[a] = "activate" => found[a].id # target[a]

LEMMA StepFoundInv == TypeInv /\ SerialInv /\ FoundInv /\ Next => FoundInv'
<1> SUFFICES ASSUME TypeInv, SerialInv, FoundInv, Next PROVE FoundInv'
  OBVIOUS
<1> USE DEF FoundInv
<1>1. ASSUME NEW a \in Admins, AdminStep(a) PROVE FoundInv'
  <2>1. /\ \A b \in Admins \ {a} :
              pc'[b] = pc[b] /\ found'[b] = found[b] /\ target'[b] = target[b]
        /\ overlapped => overlapped'
    BY <1>1
       DEF AdminStep, Request, AskSettings, InsertDraft, FindVersion, SaveChange,
           RemoveVersion, FindActive, Deactivate, Activate, SyncBot, SaveDeployment,
           Invalidate, Throw, Goto, Done, countVars, TypeInv, TypeOK, Actors
  <2>2. ASSUME found'[a] = Nothing, pc'[a] # "activate" PROVE FoundInv'
    BY <2>1, <2>2
  <2>3. CASE Done(a)
    BY <2>2, <2>3 DEF Done, Goto, TypeInv, TypeOK, Actors
  <2>4. CASE /\ ~ Done(a)
             /\ \/ \E o \in Ops, v \in Versions \cup {NoVersion} : Request(a, o, v)
                \/ AskSettings(a) \/ \E v \in Versions, k \in Configs : InsertDraft(a, v, k)
                \/ FindVersion(a) \/ SaveChange(a) \/ RemoveVersion(a) \/ Throw(a)
    <3>1. /\ pc[a] \in {"idle", "ask", "insert", "find"} /\ found' = found
          /\ \E q \in {"insert", "ask", "find", "change", "findActive"} :
                pc' = [pc EXCEPT ![a] = q]
      BY <2>4
         DEF Request, AskSettings, InsertDraft, FindVersion, SaveChange, RemoveVersion, Throw,
             Goto, Ops
    <3> QED BY <2>2, <3>1 DEF TypeInv, TypeOK, Actors
  <2>5. CASE FindActive(a)
    <3>1. CASE pc'[a] = "deactivate"
      BY <2>1, <2>5, <3>1
    <3>2. CASE pc'[a] # "deactivate"
      <4>1. pc[a] = "findActive" /\ found' = found /\ target' = target /\ pc'[a] = "activate"
        BY <2>5, <3>2 DEF FindActive, Goto, TypeInv, TypeOK, Actors
      <4>2. found'[a].id = NoVersion /\ target'[a] \in Versions
        BY <4>1 DEF Nothing, TypeInv, PlaceInv, Publishing
      <4> QED BY <2>1, <4>1, <4>2, WidgetAssumption
    <3> QED BY <3>1, <3>2
  <2>6. CASE Deactivate(a)
    <3>1. pc[a] = "deactivate" /\ UNCHANGED <<found, target, overlapped>> /\ pc'[a] = "activate"
      BY <2>6 DEF Deactivate, Goto, countVars, TypeInv, TypeOK, Actors
    <3>2. ~ overlapped => row[found[a].id].isActive /\ ~ row[target[a]].isActive
      BY <3>1 DEF SerialInv, Fresh
    <3> QED BY <2>1, <3>1, <3>2
  <2>7. CASE ~ Done(a) /\ (Activate(a) \/ SyncBot(a) \/ SaveDeployment(a) \/ Invalidate(a))
    <3>1. pc'[a] \in {"syncBot", "deploy", "invalidate"}
      BY <2>7 DEF Activate, SyncBot, SaveDeployment, Invalidate, Goto, TypeInv, TypeOK, Actors
    <3> QED BY <2>1, <3>1
  <2> QED BY <1>1, <2>3, <2>4, <2>5, <2>6, <2>7 DEF AdminStep
<1>2. ASSUME NEW p \in Actors, FillCache(p) PROVE FoundInv'
  <2>1. /\ found' = [found EXCEPT ![p] = Nothing] /\ UNCHANGED <<target, overlapped>>
        /\ \E q \in {"idle", "insert"} : pc' = [pc EXCEPT ![p] = q]
    BY <1>2 DEF FillCache, Asked, Goto, countVars
  <2> QED BY <2>1 DEF TypeInv, TypeOK, Actors
<1>3. ASSUME NEW p \in Actors, NEW v \in Versions, ReadActive(p, v) PROVE FoundInv'
  <2>1. /\ \E f : found' = [found EXCEPT ![p] = f] /\ UNCHANGED <<target, overlapped>>
        /\ pc' = [pc EXCEPT ![p] = "fill"]
    BY <1>3 DEF ReadActive, Goto, countVars
  <2>2. \A a \in Admins : /\ a # p => pc'[a] = pc[a] /\ found'[a] = found[a]
                          /\ a = p => pc'[a] = "fill"
    BY <2>1 DEF TypeInv, TypeOK, Actors
  <2> QED BY <2>1, <2>2
<1>4. CASE Expire
  BY <1>4 DEF Expire, requestVars, countVars
<1> QED BY <1>1, <1>2, <1>3, <1>4 DEF Next

(* The four parts of the abstract state.                                   *)
Live(v) == row[v].isActive \/ \E a \in Admins : pc[a] = "activate" /\ found[a].id = v
Li == {v \in Versions : Live(v)}
St == [v \in Versions |-> row[v].status]
Cf == [v \in Versions |-> row[v].config]
Sh == IF cache = Nothing THEN {} ELSE {<<cache.id, cache.row.config>>}

LEMMA StutterMap ==
    ASSUME UNCHANGED <<Li, St, Cf, Sh>>
    PROVE  UNCHANGED Publication!vars
BY DEF Publication!vars, Li, Live, St, Cf, Sh

LEMMA RowsMap == ASSUME row' = row PROVE UNCHANGED <<St, Cf>>
BY DEF St, Cf

LEMMA CacheMap == ASSUME cache' = cache PROVE UNCHANGED Sh
BY DEF Sh

(* What is live when only a may be at work.                                *)
LEMMA LiveOf ==
    ASSUME NEW a \in Admins, \A b \in Admins \ {a} : pc[b] = "idle",
           NEW v \in Versions
    PROVE  Live(v) <=> row[v].isActive \/ (pc[a] = "activate" /\ found[a].id = v)
BY DEF Live

(* Away from the two saves of a switch, what is live depends on the rows.  *)
LEMMA LiveKept ==
    ASSUME NEW p \in Actors, pc[p] # "activate", pc'[p] # "activate",
           \A q \in Actors \ {p} : pc'[q] = pc[q] /\ found'[q] = found[q],
           \A v \in Versions : row'[v].isActive <=> row[v].isActive
    PROVE  UNCHANGED Li
BY DEF Li, Live, Actors

(* A request that begins, reads, or ends outside a switch is not seen.     *)
LEMMA UnseenStep ==
    ASSUME TypeInv, NEW p \in Actors, pc[p] # "activate", pc'[p] # "activate",
           \A q \in Actors \ {p} : pc'[q] = pc[q] /\ found'[q] = found[q],
           UNCHANGED <<row, cache>>
    PROVE  UNCHANGED Publication!vars
BY LiveKept, RowsMap, CacheMap, StutterMap

LEMMA InsertMaps ==
    ASSUME TypeInv, RowInv, NEW a \in Admins, NEW v \in Versions, NEW k \in Configs,
           InsertDraft(a, v, k)
    PROVE  Publication!Draft(v, k)
<1>1. /\ pc[a] = "insert" /\ row[v].status = "none" /\ cache' = cache
      /\ row' = [row EXCEPT ![v] = [status |-> "draft", isActive |-> FALSE, config |-> k]]
      /\ pc'[a] # "activate"
      /\ \A q \in Actors \ {a} : pc'[q] = pc[q] /\ found'[q] = found[q]
  BY DEF InsertDraft, Save, Goto, Done, TypeInv, TypeOK, Actors
<1>2. UNCHANGED Li
  <2>1. \A w \in Versions : row'[w].isActive <=> row[w].isActive
    BY <1>1 DEF RowInv, ActiveIsPublished, TypeInv, TypeOK
  <2> QED BY <1>1, <2>1, LiveKept DEF Actors
<1>3. St' = [St EXCEPT ![v] = "draft"] /\ Cf' = [Cf EXCEPT ![v] = k]
  BY <1>1 DEF St, Cf, TypeInv, TypeOK
<1>4. St[v] = "none"
  BY <1>1 DEF St
<1> QED BY <1>1, <1>2, <1>3, <1>4, CacheMap DEF Publication!Draft, Li, Live, St, Cf, Sh

(* The save of an update, an archive or a removal, made on an up-to-date   *)
(* copy of a row that is not active.                                       *)
LEMMA ChangeMaps ==
    ASSUME TypeInv, SerialInv, NEW a \in Admins, SaveChange(a) \/ RemoveVersion(a),
           ~ overlapped', NEW t \in Versions, t = target[a]
    PROVE  Publication!Next \/ UNCHANGED Publication!vars
<1>0. /\ ~ overlapped /\ \A b \in Admins \ {a} : pc[b] = "idle"
      /\ t \in Versions /\ copy[a] \in Rows /\ pc[a] = "change"
      /\ copy[a] = row[t] /\ ~ row[t].isActive /\ Exists(t)
      /\ op[a] # "archive" => row[t].status = "draft"
  <2>1. ~ overlapped /\ \A b \in Admins \ {a} : pc[b] = "idle"
    BY OthersIdle DEF AdminStep
  <2>2. pc[a] = "change"
    BY DEF SaveChange, RemoveVersion
  <2>3. Fresh(a) /\ t \in Versions /\ copy[a] \in Rows
    BY <2>1, <2>2 DEF SerialInv, TypeInv, TypeOK, PlaceInv
  <2> QED BY <2>1, <2>2, <2>3 DEF Fresh
<1>1. t \notin Li
  BY <1>0, LiveOf DEF Li
<1>2. /\ cache' = cache /\ pc'[a] = "idle"
      /\ \A q \in Actors \ {a} : pc'[q] = pc[q] /\ found'[q] = found[q]
  BY DEF SaveChange, RemoveVersion, Done, Goto, TypeInv, TypeOK, Actors
<1>3. ASSUME NEW r \in Rows, row' = [row EXCEPT ![t] = r], ~ r.isActive
      PROVE  /\ UNCHANGED <<Li, Sh>>
             /\ St' = [St EXCEPT ![t] = r.status] /\ Cf' = [Cf EXCEPT ![t] = r.config]
  <2>1. \A w \in Versions : row'[w].isActive <=> row[w].isActive
    BY <1>0, <1>3 DEF TypeInv, TypeOK
  <2>2. UNCHANGED Li
    BY <1>0, <1>2, <2>1, LiveKept DEF Actors
  <2>3. St' = [St EXCEPT ![t] = r.status] /\ Cf' = [Cf EXCEPT ![t] = r.config]
    BY <1>0, <1>3 DEF St, Cf, TypeInv, TypeOK
  <2> QED BY <1>2, <2>2, <2>3, CacheMap
<1>4. St[t] = row[t].status /\ Cf[t] = row[t].config
  BY <1>0 DEF St, Cf
<1>5. ASSUME NEW k \in Configs, op[a] = "update", Save(t, [copy[a] EXCEPT !.config = k])
      PROVE  Publication!Edit(t, k)
  <2> DEFINE r == [copy[a] EXCEPT !.config = k]
  <2>1. r \in Rows /\ ~ r.isActive /\ r.status = row[t].status /\ r.config = k
    BY <1>0 DEF Rows
  <2>2. row' = [row EXCEPT ![t] = r]
    BY <1>5 DEF Save
  <2> HIDE DEF r
  <2>3. UNCHANGED <<Li, Sh>> /\ St' = [St EXCEPT ![t] = row[t].status]
                              /\ Cf' = [Cf EXCEPT ![t] = k]
    BY <1>3, <2>1, <2>2
  <2>4. St[t] = "draft" /\ St' = St
    BY <1>0, <1>4, <1>5, <2>3 DEF St
  <2> QED BY <2>3, <2>4 DEF Publication!Edit, Li, Live, St, Cf, Sh
<1>6. ASSUME op[a] = "archive", Save(t, [copy[a] EXCEPT !.status = "archived"])
      PROVE  Publication!Archive(t) \/ UNCHANGED Publication!vars
  <2> DEFINE r == [copy[a] EXCEPT !.status = "archived"]
  <2>1. r \in Rows /\ ~ r.isActive /\ r.status = "archived" /\ r.config = row[t].config
    BY <1>0 DEF Rows
  <2>2. row' = [row EXCEPT ![t] = r]
    BY <1>6 DEF Save
  <2> HIDE DEF r
  <2>3. UNCHANGED <<Li, Sh>> /\ St' = [St EXCEPT ![t] = "archived"]
                              /\ Cf' = [Cf EXCEPT ![t] = row[t].config]
    BY <1>3, <2>1, <2>2
  <2>4. Cf' = Cf
    BY <2>3 DEF Cf
  <2>5. row[t].status \in {"draft", "published", "archived"}
    BY <1>0 DEF Exists, Rows
  <2>6. CASE row[t].status = "archived"
    <3>1. St' = St
      BY <2>3, <2>6 DEF St
    <3> QED BY <2>3, <2>4, <3>1, StutterMap
  <2>7. CASE row[t].status # "archived"
    BY <1>1, <1>4, <2>3, <2>4, <2>5, <2>7 DEF Publication!Archive, Li, Live, St, Cf, Sh
  <2> QED BY <2>6, <2>7
<1>7. ASSUME RemoveVersion(a)
      PROVE  Publication!Remove(t) \/ UNCHANGED Publication!vars
  <2>1. CASE row' = row
    BY <1>0, <1>2, <2>1, UnseenStep DEF Actors
  <2>2. CASE row' = [row EXCEPT ![t] = NoRow("gone")]
    <3>1. NoRow("gone") \in Rows /\ ~ NoRow("gone").isActive
          /\ NoRow("gone").status = "gone" /\ NoRow("gone").config = NoConfig
      BY DEF NoRow, Rows
    <3>2. UNCHANGED <<Li, Sh>> /\ St' = [St EXCEPT ![t] = "gone"]
                                /\ Cf' = [Cf EXCEPT ![t] = NoConfig]
      BY <1>3, <2>2, <3>1
    <3>3. St[t] = "draft"
      BY <1>0, <1>4, <1>7 DEF RemoveVersion
    <3> QED BY <3>2, <3>3 DEF Publication!Remove, Li, Live, St, Cf, Sh
  <2> QED BY <1>7, <2>1, <2>2 DEF RemoveVersion, Save
<1>8. \/ RemoveVersion(a)
      \/ op[a] = "archive" /\ Save(t, [copy[a] EXCEPT !.status = "archived"])
      \/ \E k \in Configs : op[a] = "update" /\ Save(t, [copy[a] EXCEPT !.config = k])
  BY DEF SaveChange
<1>9. CASE RemoveVersion(a)
  <2>1. Publication!Remove(t) => Publication!Next
    BY <1>0 DEF Publication!Next
  <2> QED BY <1>7, <1>9, <2>1
<1>10. CASE op[a] = "archive" /\ Save(t, [copy[a] EXCEPT !.status = "archived"])
  <2>1. Publication!Archive(t) => Publication!Next
    BY <1>0 DEF Publication!Next
  <2> QED BY <1>6, <1>10, <2>1
<1>11. CASE \E k \in Configs : op[a] = "update" /\ Save(t, [copy[a] EXCEPT !.config = k])
  <2>1. PICK k \in Configs : op[a] = "update" /\ Save(t, [copy[a] EXCEPT !.config = k])
    BY <1>11
  <2>2. Publication!Edit(t, k)
    BY <1>5, <2>1
  <2> QED BY <1>0, <2>2 DEF Publication!Next
<1> QED BY <1>8, <1>9, <1>10, <1>11

(* The first save of a switch is not seen ...                              *)
LEMMA DeactivateMaps ==
    ASSUME TypeInv, SerialInv, NEW a \in Admins, Deactivate(a), ~ overlapped'
    PROVE  UNCHANGED Publication!vars
<1> DEFINE f == found[a].id
           r == [found[a].row EXCEPT !.isActive = FALSE]
<1>1. /\ \A b \in Admins \ {a} : pc[b] = "idle" /\ pc'[b] = "idle"
      /\ One /\ f \in Versions /\ found[a].row \in Rows
      /\ row[f] = found[a].row /\ row[f].isActive
  BY OthersIdle
     DEF Deactivate, AdminStep, SerialInv, Fresh, TypeInv, TypeOK, PlaceInv, Finds, Actors
<1>2. ~ r.isActive /\ r.status = row[f].status /\ r.config = row[f].config
  BY <1>1 DEF Rows
<1>3. /\ pc[a] = "deactivate" /\ pc'[a] = "activate" /\ found' = found /\ cache' = cache
      /\ row' = [row EXCEPT ![f] = r]
  BY DEF Deactivate, Save, Goto, TypeInv, TypeOK, Actors
<1> HIDE DEF f, r
<1>4. \A v \in Versions : /\ row'[v].isActive <=> FALSE
                          /\ row'[v].status = row[v].status
                          /\ row'[v].config = row[v].config
                          /\ row[v].isActive <=> v = f
  BY <1>1, <1>2, <1>3 DEF One, TypeInv, TypeOK
<1>5. UNCHANGED <<St, Cf>>
  BY <1>4 DEF St, Cf
<1>6. \A v \in Versions : Live(v)' <=> v = f
  BY <1>1, <1>3, <1>4 DEF Live, f
<1>7. \A v \in Versions : Live(v) <=> v = f
  BY <1>1, <1>3, <1>4, LiveOf
<1>8. UNCHANGED Li
  BY <1>6, <1>7 DEF Li
<1> QED BY <1>3, <1>5, <1>8, CacheMap, StutterMap

(* ... and the second one is the switch.                                   *)
LEMMA ActivateMaps ==
    ASSUME TypeInv, SerialInv, FoundInv, NEW a \in Admins, Activate(a), ~ overlapped',
           NEW t \in Versions, t = target[a]
    PROVE  Publication!Publish(t)
<1> DEFINE r == [copy[a] EXCEPT !.status = "published", !.isActive = TRUE]
<1>1. /\ \A b \in Admins \ {a} : pc[b] = "idle" /\ pc'[b] = "idle"
      /\ t \in Versions /\ copy[a] \in Rows /\ copy[a] = row[t] /\ Exists(t)
      /\ \A v \in Versions : ~ row[v].isActive
      /\ found[a].id # t
  BY OthersIdle
     DEF Activate, AdminStep, SerialInv, Fresh, FoundInv, TypeInv, TypeOK, PlaceInv, Publishing
<1>2. r.isActive /\ r.status = "published" /\ r.config = row[t].config
  BY <1>1 DEF Rows
<1>3. /\ pc'[a] # "activate" /\ cache' = cache /\ row' = [row EXCEPT ![t] = r]
  BY DEF Activate, Save, Goto, TypeInv, TypeOK, Actors
<1> HIDE DEF r
<1>4. \A v \in Versions : /\ row'[v].isActive <=> v = t
                          /\ row'[v].status = IF v = t THEN "published" ELSE row[v].status
                          /\ row'[v].config = row[v].config
  BY <1>1, <1>2, <1>3 DEF TypeInv, TypeOK
<1>5. St' = [St EXCEPT ![t] = "published"] /\ Cf' = Cf
  BY <1>1, <1>4 DEF St, Cf
<1>6. \A v \in Versions : Live(v)' <=> v = t
  BY <1>1, <1>3, <1>4 DEF Live
<1>7. Li' = {t}
  BY <1>1, <1>6 DEF Li
<1>8. t \notin Li
  BY <1>1, LiveOf DEF Li
<1>9. St[t] \in {"draft", "published", "archived"}
  BY <1>1 DEF St, Exists, Rows
<1>10. Sh' = Sh
  BY <1>3, CacheMap
<1> QED
  BY <1>5, <1>7, <1>8, <1>9, <1>10 DEF Publication!Publish, Li, Live, St, Cf, Sh

LEMMA ThrowMaps ==
    ASSUME TypeInv, SerialInv, NEW a \in Admins, Throw(a), ~ overlapped'
    PROVE  Publication!Lapse \/ UNCHANGED Publication!vars
<1>1. /\ \A b \in Admins \ {a} : pc[b] = "idle" /\ pc'[b] = "idle"
      /\ pc[a] = "activate" => \A v \in Versions : ~ row[v].isActive
  BY OthersIdle DEF AdminStep, SerialInv, Fresh
<1>2. /\ row' = row /\ cache' = cache /\ pc'[a] = "idle"
      /\ \A q \in Actors \ {a} : pc'[q] = pc[q] /\ found'[q] = found[q]
  BY DEF Throw, Done, Goto, dbVars, TypeInv, TypeOK, Actors
<1>3. CASE pc[a] # "activate"
  BY <1>2, <1>3, UnseenStep DEF Actors
<1>4. CASE pc[a] = "activate"
  <2>1. \A v \in Versions : ~ Live(v)'
    BY <1>1, <1>2, <1>4 DEF Live
  <2>2. Li' = {}
    BY <2>1 DEF Li
  <2>3. Publication!Lapse
    BY <1>2, <2>2, RowsMap, CacheMap DEF Publication!Lapse, Li, Live, St, Cf, Sh
  <2> QED BY <2>3
<1> QED BY <1>3, <1>4

(* FindActive either finds the version that is live, or nothing is live.   *)
LEMMA FindActiveMaps ==
    ASSUME TypeInv, SerialInv, FoundInv, NEW a \in Admins, FindActive(a), ~ overlapped'
    PROVE  UNCHANGED Publication!vars
<1>1. \A b \in Admins \ {a} : pc[b] = "idle" /\ pc'[b] = "idle"
  BY OthersIdle DEF AdminStep
<1>2. /\ pc[a] = "findActive" /\ row' = row /\ cache' = cache
      /\ \A q \in Actors \ {a} : pc'[q] = pc[q] /\ found'[q] = found[q]
      /\ \/ pc'[a] = "deactivate"
         \/ pc'[a] = "activate" /\ found' = found
  BY DEF FindActive, Goto, dbVars, TypeInv, TypeOK, Actors
<1>3. CASE pc'[a] = "deactivate"
  BY <1>2, <1>3, UnseenStep DEF Actors
<1>4. CASE pc'[a] = "activate" /\ found' = found
  <2>1. found[a].id \notin Versions
    BY <1>2, WidgetAssumption DEF FoundInv, Nothing
  <2>2. \A v \in Versions : Live(v)' <=> row[v].isActive
    BY <1>1, <1>2, <1>4, <2>1 DEF Live
  <2>3. \A v \in Versions : Live(v) <=> row[v].isActive
    BY <1>1, <1>2, LiveOf
  <2>4. UNCHANGED Li
    BY <2>2, <2>3 DEF Li
  <2> QED BY <1>2, <2>4, RowsMap, CacheMap, StutterMap
<1> QED BY <1>2, <1>3, <1>4

LEMMA FillMaps ==
    ASSUME TypeInv, CacheInv, NEW p \in Actors, FillCache(p), ~ overlapped
    PROVE  \E v \in Versions : Publication!Show(v)
<1> DEFINE v == found[p].id
           k == found[p].row.config
<1>1. /\ pc[p] = "fill" /\ pc'[p] # "activate" /\ row' = row /\ cache' = found[p]
      /\ \A q \in Actors \ {p} : pc'[q] = pc[q] /\ found'[q] = found[q]
  BY DEF FillCache, Asked, Goto, dbVars, TypeInv, TypeOK
<1>2. v \in Versions /\ row[v].status \in {"published", "archived"} /\ row[v].config = k
  BY <1>1 DEF CacheInv, Good, Public
<1>3. UNCHANGED <<Li, St, Cf>>
  BY <1>1, LiveKept, RowsMap
<1>4. found[p] # Nothing
  BY <1>2, WidgetAssumption DEF Nothing
<1>5. Sh' = {<<v, k>>}
  BY <1>1, <1>4 DEF Sh
<1>6. St[v] = row[v].status /\ Cf[v] = k
  BY <1>2 DEF St, Cf
<1> HIDE DEF v, k
<1>7. Publication!Show(v)
  BY <1>2, <1>3, <1>5, <1>6 DEF Publication!Show, Li, Live, St, Cf, Sh
<1> QED BY <1>2, <1>7

LEMMA ForgetMaps ==
    ASSUME cache' = Nothing, UNCHANGED <<Li, row>>
    PROVE  Publication!Forget
<1>1. Sh' = {}
  BY DEF Sh
<1> QED BY <1>1, RowsMap DEF Publication!Forget, Li, Live, St, Cf, Sh

LEMMA SimulationStep ==
    ASSUME IInv, FoundInv, [Next]_vars
    PROVE  [overlapped' \/ Publication!Next]_(Publication!vars)
<1>0. TypeInv /\ RowInv /\ SerialInv /\ CacheInv
  BY DEF IInv
<1> SUFFICES ASSUME ~ overlapped' PROVE Publication!Next \/ UNCHANGED Publication!vars
  OBVIOUS
<1>1. CASE UNCHANGED vars
  BY <1>1, StutterMap DEF vars, dbVars, requestVars, Li, Live, St, Cf, Sh
<1>2. ASSUME NEW a \in Admins, AdminStep(a)
      PROVE  Publication!Next \/ UNCHANGED Publication!vars
  <2>1. ASSUME \/ \E o \in Ops, v \in Versions \cup {NoVersion} : Request(a, o, v)
               \/ AskSettings(a) \/ FindVersion(a) \/ SyncBot(a) \/ SaveDeployment(a)
        PROVE  UNCHANGED Publication!vars
    <3>1. /\ UNCHANGED <<row, cache>> /\ pc[a] # "activate" /\ pc'[a] # "activate"
          /\ \A q \in Actors \ {a} : pc'[q] = pc[q] /\ found'[q] = found[q]
      BY <1>0, <2>1
         DEF Request, AskSettings, FindVersion, SyncBot, SaveDeployment, Done, Goto, dbVars,
             TypeInv, TypeOK, Actors
    <3> QED BY <1>0, <3>1, UnseenStep DEF Actors
  <2>2. CASE \E v \in Versions, k \in Configs : InsertDraft(a, v, k)
    <3>1. PICK v \in Versions, k \in Configs : InsertDraft(a, v, k)
      BY <2>2
    <3>2. Publication!Draft(v, k)
      BY <1>0, <3>1, InsertMaps
    <3> QED BY <3>2 DEF Publication!Next
  <2>3. CASE SaveChange(a) \/ RemoveVersion(a)
    <3>1. PICK t \in Versions : t = target[a]
      BY <1>0, <2>3 DEF SaveChange, RemoveVersion, TypeInv, PlaceInv
    <3> QED BY <1>0, <2>3, <3>1, ChangeMaps
  <2>4. CASE FindActive(a)
    BY <1>0, <2>4, FindActiveMaps
  <2>5. CASE Deactivate(a)
    BY <1>0, <2>5, DeactivateMaps
  <2>6. CASE Activate(a)
    <3>1. PICK t \in Versions : t = target[a]
      BY <1>0, <2>6 DEF Activate, TypeInv, PlaceInv, Publishing
    <3>2. Publication!Publish(t)
      BY <1>0, <2>6, <3>1, ActivateMaps
    <3> QED BY <3>2 DEF Publication!Next
  <2>7. CASE Invalidate(a)
    <3>1. /\ cache' = Nothing /\ row' = row /\ pc[a] # "activate" /\ pc'[a] # "activate"
          /\ \A q \in Actors \ {a} : pc'[q] = pc[q] /\ found'[q] = found[q]
      BY <1>0, <2>7 DEF Invalidate, Done, Goto, dbVars, TypeInv, TypeOK, Actors
    <3>2. UNCHANGED Li
      BY <3>1, LiveKept DEF Actors
    <3>3. Publication!Forget
      BY <3>1, <3>2, ForgetMaps
    <3> QED BY <3>3 DEF Publication!Next
  <2>8. CASE Throw(a)
    <3>1. Publication!Lapse \/ UNCHANGED Publication!vars
      BY <1>0, <2>8, ThrowMaps
    <3>2. Publication!Lapse => Publication!Next
      BY DEF Publication!Next
    <3> QED BY <3>1, <3>2
  <2> QED BY <1>2, <2>1, <2>2, <2>3, <2>4, <2>5, <2>6, <2>7, <2>8 DEF AdminStep
<1>3. ASSUME NEW p \in Actors, FillCache(p)
      PROVE  Publication!Next
  <2>1. ~ overlapped
    BY <1>3 DEF FillCache, countVars
  <2>2. PICK v \in Versions : Publication!Show(v)
    BY <1>0, <1>3, <2>1, FillMaps
  <2> QED BY <2>2 DEF Publication!Next
<1>4. ASSUME NEW p \in Actors, NEW v \in Versions, ReadActive(p, v)
      PROVE  UNCHANGED Publication!vars
  <2>1. /\ UNCHANGED <<row, cache>> /\ pc[p] # "activate" /\ pc'[p] # "activate"
        /\ \A q \in Actors \ {p} : pc'[q] = pc[q] /\ found'[q] = found[q]
    BY <1>0, <1>4 DEF ReadActive, Asks, Goto, dbVars, TypeInv, TypeOK
  <2> QED BY <1>0, <2>1, UnseenStep
<1>5. CASE Expire
  <2>1. cache' = Nothing /\ UNCHANGED <<row, pc, found>>
    BY <1>5 DEF Expire, dbVars, requestVars
  <2>2. UNCHANGED Li
    BY <2>1 DEF Li, Live
  <2>3. Publication!Forget
    BY <2>1, <2>2, ForgetMaps
  <2> QED BY <2>3 DEF Publication!Next
<1> QED BY <1>1, <1>2, <1>3, <1>4, <1>5 DEF Next

LEMMA InvariantFoundInv == Spec => [](IInv /\ FoundInv)
<1>1. Init => IInv /\ FoundInv
  <2> SUFFICES ASSUME Init PROVE IInv /\ FoundInv
    OBVIOUS
  <2>1. \A a \in Admins : pc[a] = "idle" /\ found[a] = Nothing
    BY DEF Init, Actors
  <2> QED BY <2>1, InitIInv DEF FoundInv
<1>2. IInv /\ FoundInv /\ [Next]_vars => (IInv /\ FoundInv)'
  <2> SUFFICES ASSUME IInv, FoundInv, [Next]_vars PROVE (IInv /\ FoundInv)'
    OBVIOUS
  <2>1. IInv'
    BY NextIInv
  <2>2. CASE Next
    BY <2>1, <2>2, StepFoundInv DEF IInv
  <2>3. CASE UNCHANGED vars
    BY <2>1, <2>3 DEF vars, requestVars, FoundInv
  <2> QED BY <2>2, <2>3
<1> QED BY <1>1, <1>2, PTL DEF Spec

(* publishVersion, rollbackVersion, archiveVersion, updateVersion and      *)
(* remove, with getActiveVersion: between requests that do not overlap, in *)
(* spite of failed calls, two saves make one switch, and nobody edits,     *)
(* removes, archives or shows another version than WidgetPublication lets. *)
THEOREM PublicationRefinement == Spec => ImplementsPublication
<1>1. Init => Publication!Init
  <2> SUFFICES ASSUME Init PROVE Publication!Init
    OBVIOUS
  <2>1. \A v \in Versions : row[v] = NoRow("none")
    BY DEF Init
  <2>2. \A v \in Versions : ~ row[v].isActive /\ row[v].status = "none" /\ row[v].config = NoConfig
    <3>1. /\ ~ NoRow("none").isActive /\ NoRow("none").status = "none"
          /\ NoRow("none").config = NoConfig
      BY DEF NoRow
    <3> QED BY <2>1, <3>1
  <2>3. \A a \in Admins : pc[a] = "idle"
    BY DEF Init, Actors
  <2>4. cache = Nothing
    BY DEF Init
  <2> QED BY <2>2, <2>3, <2>4 DEF Publication!Init
<1>2. IInv /\ FoundInv /\ [Next]_vars => [overlapped' \/ Publication!Next]_(Publication!vars)
  BY SimulationStep
<1> QED
  BY <1>1, <1>2, InvariantFoundInv, PTL DEF Spec, ImplementsPublication

(* While requests have not overlapped, what a visitor may have been shown  *)
(* is not rewritten: a version that has once been published is neither     *)
(* edited nor removed, and never a draft again, although publishing,       *)
(* rolling back and archiving all save whole rows from copies read before. *)
PublishedIsFixed ==
    [][~ overlapped' =>
          \A v \in Versions : row[v].status \in {"published", "archived"} =>
              /\ row'[v].status \in {"published", "archived"}
              /\ row'[v].config = row[v].config]_vars

LEMMA FixedStep ==
    ASSUME Publication!Next \/ UNCHANGED Publication!vars,
           NEW v \in Versions, row[v].status \in {"published", "archived"}
    PROVE  /\ row'[v].status \in {"published", "archived"}
           /\ row'[v].config = row[v].config
<1>1. /\ St[v] = row[v].status /\ Cf[v] = row[v].config
      /\ St'[v] = row'[v].status /\ Cf'[v] = row'[v].config
  BY DEF St, Cf
<1>2. /\ DOMAIN St = Versions /\ DOMAIN Cf = Versions
  BY DEF St, Cf
<1>3. St'[v] \in {"published", "archived"} /\ Cf'[v] = Cf[v]
  <2>1. CASE UNCHANGED <<St, Cf>>
    BY <1>1, <2>1
  <2>2. ASSUME NEW w \in Versions, St[w] \in {"none", "draft"},
               \/ \E k : Cf' = [Cf EXCEPT ![w] = k]
               \/ Cf' = Cf,
               \/ \E s : St' = [St EXCEPT ![w] = s]
               \/ St' = St
        PROVE  St'[v] \in {"published", "archived"} /\ Cf'[v] = Cf[v]
    <3>1. v # w
      BY <1>1, <2>2
    <3> QED BY <1>1, <1>2, <2>2, <3>1
  <2>3. ASSUME NEW w \in Versions, NEW s \in {"published", "archived"},
               St' = [St EXCEPT ![w] = s], Cf' = Cf
        PROVE  St'[v] \in {"published", "archived"} /\ Cf'[v] = Cf[v]
    BY <1>1, <1>2, <2>3
  <2>4. CASE \E w \in Versions : Publication!Publish(w) \/ Publication!Archive(w)
    BY <2>3, <2>4 DEF Publication!Publish, Publication!Archive, St, Cf
  <2>5. CASE \E w \in Versions : \/ Publication!Remove(w)
                                 \/ \E k \in Configs : \/ Publication!Draft(w, k)
                                                       \/ Publication!Edit(w, k)
    BY <2>2, <2>5 DEF Publication!Remove, Publication!Draft, Publication!Edit, St, Cf
  <2>6. CASE \/ Publication!Lapse \/ Publication!Forget
             \/ \E w \in Versions : Publication!Show(w)
             \/ UNCHANGED Publication!vars
    BY <2>1, <2>6
       DEF Publication!Lapse, Publication!Forget, Publication!Show, Publication!vars, St, Cf
  <2> QED BY <2>4, <2>5, <2>6 DEF Publication!Next
<1> QED BY <1>1, <1>3

(* From the refinement: WidgetPublication edits and removes only drafts.   *)
THEOREM PublishedStays == Spec => PublishedIsFixed
<1>1. IInv /\ FoundInv /\ [Next]_vars =>
        [~ overlapped' =>
            \A v \in Versions : row[v].status \in {"published", "archived"} =>
                /\ row'[v].status \in {"published", "archived"}
                /\ row'[v].config = row[v].config]_vars
  BY SimulationStep, FixedStep
<1> QED BY <1>1, InvariantFoundInv, PTL DEF Spec, PublishedIsFixed
===============================================================================
