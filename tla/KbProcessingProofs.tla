-------------------------- MODULE KbProcessingProofs --------------------------
(***************************************************************************)
(* Theorems about KbProcessing, for any number of documents, requests,     *)
(* worker slots, batches, stalls and faults.                               *)
(***************************************************************************)
EXTENDS KbProcessing, JobQueueProofs

(* A worker in one of its loops has a batch to do, of a text; and a        *)
(* request that adds or cancels a job knows it.                            *)
WorkInv ==
    /\ \A w \in Workers : /\ part[w] < Parts
                          /\ pc[w] \in {"chunk", "embed"} => copy[w].text # NoText
    /\ \A c \in Clients : /\ pc[c] \in {"confirm", "enqueue"} => c \in Jobs
                          /\ pc[c] = "dequeue" => job[c] \in Jobs
                          /\ pc[c] = "edit" => Op[c] \in {"edit", "rename"}

TypeInv == TypeOK /\ QueueInv /\ WorkInv

LEMMA InitTypeInv == Init => TypeInv
<1> SUFFICES ASSUME Init PROVE TypeInv
  OBVIOUS
<1>1. NoDoc \in Documents /\ Parts \in Nat /\ Parts > 0
  BY KbAssumption DEF Documents, NoDoc
<1>2. QueueTypeOK /\ QueueInv
  BY QueueInitTypeInv DEF Init
<1>3. TypeOK
  BY <1>1, <1>2, QueueAssumption, KbAssumption DEF Init, TypeOK, Actors, Places
<1>4. WorkInv
  BY <1>1 DEF Init, WorkInv, Actors
<1> QED BY <1>2, <1>3, <1>4 DEF TypeInv

LEMMA DocumentTypes ==
    /\ NoDoc \in Documents
    /\ \A t \in Texts \cup {NoText} : NewDoc(t) \in Documents
BY DEF Documents, NoDoc, NewDoc

LEMMA DiesTypeInv ==
    ASSUME TypeInv, Dies, UNCHANGED queue,
           doc' = doc, chunks' \subseteq Chunks, faults' \in 0 .. MaxFaults
    PROVE  TypeInv'
<1>1. QueueTypeOK' /\ QueueInv'
  BY DEF TypeInv, TypeOK, QueueTypeOK, QueueInv
<1>2. /\ pc' \in [Actors -> Places]
      /\ \A w \in Workers : pc'[w] = "idle"
      /\ \A c \in Clients : pc'[c] \in {"idle", "done", "aborted"}
  BY KbAssumption DEF Dies, TypeInv, TypeOK, Places, Actors
<1>3. job' \in [Actors -> Jobs \cup {NoJob}]
  BY DEF Dies, TypeInv, TypeOK
<1>4. /\ run' \in [Workers -> 0 .. MaxStalls + 1]
      /\ part' \in [Workers -> 0 .. Parts] /\ \A w \in Workers : part'[w] < Parts
  BY QueueAssumption, KbAssumption DEF Dies
<1>5. TypeOK'
  BY <1>1, <1>2, <1>3, <1>4, DocumentTypes DEF Dies, TypeInv, TypeOK
<1> QED BY <1>1, <1>2, <1>4, <1>5 DEF TypeInv, WorkInv, Actors

LEMMA FaultType ==
    ASSUME TypeOK, NEW k, Fault(k)
    PROVE  faults' \in 0 .. MaxFaults
BY KbAssumption DEF TypeOK, Fault

(* A step that leaves the queue and the actors' work alone.                *)
LEMMA ServerTypeInv ==
    ASSUME TypeInv, Crash \/ Restart \/ FindStuck \/ (\E d \in Docs : CleanUp(d))
                      \/ (\E j \in Jobs : StalledCheck(j))
    PROVE  TypeInv'
<1>1. CASE Crash
  <2>1. faults' \in 0 .. MaxFaults
    BY <1>1, FaultType DEF Crash, TypeInv
  <2> QED BY <1>1, <2>1, DiesTypeInv DEF Crash, TypeInv, TypeOK
<1>2. CASE Restart \/ FindStuck
  BY <1>2, DocumentTypes
     DEF Restart, FindStuck, TypeInv, TypeOK, QueueTypeOK, QueueInv, WorkInv, actorVars
<1>3. ASSUME NEW d \in Docs, CleanUp(d) PROVE TypeInv'
  <2>1. stuck[d] \in Documents
    BY DEF TypeInv, TypeOK
  <2>2. [stuck[d] EXCEPT !.status = "failed"] \in Documents
    BY <2>1 DEF Documents
  <2>3. doc' \in [Docs -> Documents] /\ stuck' \in [Docs -> Documents]
    BY <1>3, <2>2, DocumentTypes DEF CleanUp, Save, TypeInv, TypeOK
  <2> QED
    BY <1>3, <2>3 DEF CleanUp, TypeInv, TypeOK, QueueTypeOK, QueueInv, WorkInv, actorVars
<1>4. ASSUME NEW j \in Jobs, StalledCheck(j) PROVE TypeInv'
  <2>1. faults' \in 0 .. MaxFaults
    BY <1>4, FaultType DEF StalledCheck, TypeInv, TypeOK
  <2>2. QueueTypeOK' /\ QueueInv'
    BY <1>4, StallTypeInv DEF StalledCheck, TypeInv, TypeOK
  <2> QED BY <1>4, <2>1, <2>2 DEF StalledCheck, TypeInv, TypeOK, WorkInv, actorVars
<1> QED BY <1>1, <1>2, <1>3, <1>4

LEMMA RequestTypeInv ==
    ASSUME TypeInv, NEW c \in Clients, Request(c)
    PROVE  TypeInv'
<1> USE DEF TypeInv, TypeOK, WorkInv, Goto, Save, Accepts, Actors, Places, workVars
<1> c \notin Workers
  BY KbAssumption
<1> HIDE DEF TypeOK, WorkInv
<1>1. CASE Create(c)
  <2>1. c \in Jobs /\ QueueTypeOK' /\ QueueInv'
    BY <1>1, KbAssumption DEF Create, TypeOK, QueueTypeOK, QueueInv
  <2> QED BY <1>1, <2>1, KbAssumption, DocumentTypes DEF Create, TypeOK, WorkInv
<1>2. CASE EditRead(c)
  BY <1>2, KbAssumption DEF EditRead, TypeOK, QueueTypeOK, QueueInv, WorkInv
<1>3. CASE RemoveRead(c)
  BY <1>3 DEF RemoveRead, ChunksOf, TypeOK, QueueTypeOK, QueueInv, WorkInv
<1>4. CASE Cancel(c)
  BY <1>4 DEF Cancel, TypeOK, QueueTypeOK, QueueInv, WorkInv
<1> QED BY <1>1, <1>2, <1>3, <1>4 DEF Request

LEMMA ClientTypeInv ==
    ASSUME TypeInv, NEW c \in Clients, ClientStep(c)
    PROVE  TypeInv'
<1> USE DEF TypeInv, Goto, Save, Actors, Places, workVars
<1> c \notin Workers
  BY KbAssumption
<1>1. CASE Confirm(c)
  BY <1>1 DEF Confirm, TypeOK, QueueTypeOK, QueueInv, WorkInv
<1>2. CASE Enqueue(c)
  <2>1. QueueTypeOK' /\ QueueInv'
    BY <1>2, AddRemoveTypeInv DEF Enqueue, TypeOK, WorkInv
  <2> QED BY <1>2, <2>1 DEF Enqueue, TypeOK, WorkInv
<1>3. CASE EditSave(c)
  <2>1. copy[c] \in Documents
    BY DEF TypeOK
  <2>2. copy' \in [Actors -> Documents]
    BY <1>3, DocumentTypes DEF EditSave, TypeOK
  <2>3. CASE Op[c] = "rename"
    BY <1>3, <2>1, <2>2, <2>3
       DEF EditSave, TypeOK, QueueTypeOK, QueueInv, WorkInv
  <2>4. CASE Op[c] = "edit"
    <3>1. PICK t \in Texts :
             doc' = [doc EXCEPT ![DocOf[c]] = [copy[c] EXCEPT !.status = "pending",
                                                              !.text = t]]
      BY <1>3, <2>4 DEF EditSave
    <3>2. [copy[c] EXCEPT !.status = "pending", !.text = t] \in Documents
      BY <2>1 DEF Documents
    <3>3. doc' \in [Docs -> Documents]
      BY <3>1, <3>2 DEF TypeOK
    <3>4. c \in Jobs
      BY <2>4, KbAssumption
    <3>5. /\ track' = [track EXCEPT ![c] = "queued"] /\ pc' = [pc EXCEPT ![c] = "enqueue"]
          /\ UNCHANGED <<queue, chunks, server, stuck, job, found, run, part, good, faults>>
      BY <1>3, <2>4 DEF EditSave
    <3>6. QueueTypeOK' /\ QueueInv'
      BY <3>5 DEF TypeOK, QueueTypeOK, QueueInv
    <3>7. /\ pc' \in [Actors -> Places] /\ track' \in [Jobs -> {"none", "queued",
                                     "processing", "completed", "failed", "cancelled"}]
          /\ \A w \in Workers : pc'[w] = pc[w]
      BY <3>4, <3>5 DEF TypeOK
    <3>8. TypeOK'
      BY <2>2, <3>3, <3>5, <3>6, <3>7 DEF TypeOK
    <3>9. \A w \in Workers : copy'[w] = copy[w]
      BY <1>3 DEF EditSave, TypeOK
    <3> QED BY <3>4, <3>5, <3>6, <3>7, <3>8, <3>9 DEF TypeOK, WorkInv
  <2> QED BY <1>3, <2>3, <2>4 DEF EditSave
<1>4. CASE RemoveChunks(c)
  BY <1>4 DEF RemoveChunks, TypeOK, QueueTypeOK, QueueInv, WorkInv
<1>5. CASE RemoveDoc(c)
  BY <1>5, DocumentTypes DEF RemoveDoc, TypeOK, QueueTypeOK, QueueInv, WorkInv
<1>6. CASE Dequeue(c)
  <2>1. QueueTypeOK' /\ QueueInv'
    BY <1>6, AddRemoveTypeInv DEF Dequeue, TypeOK, WorkInv
  <2> QED BY <1>6, <2>1 DEF Dequeue, TypeOK, WorkInv
<1>7. CASE RequestThrows(c)
  <2>1. faults' \in 0 .. MaxFaults
    BY <1>7, FaultType DEF RequestThrows
  <2> QED
    BY <1>7, <2>1, DocumentTypes
       DEF RequestThrows, TypeOK, QueueTypeOK, QueueInv, WorkInv
<1> QED BY <1>1, <1>2, <1>3, <1>4, <1>5, <1>6, <1>7 DEF ClientStep

(* The steps of a pass from its first await to its end.                    *)
LEMMA PassTypeInv ==
    ASSUME TypeInv, NEW w \in Workers, pc[w] # "idle",
           UNCHANGED <<queue, job, run, server, stuck, found>>,
           doc' \in [Docs -> Documents], chunks' \subseteq Chunks,
           NEW p \in Places, p # "idle", pc' = [pc EXCEPT ![w] = p],
           NEW t \in Documents, copy' = [copy EXCEPT ![w] = t],
           p \in {"chunk", "embed"} => t.text # NoText,
           NEW n \in 0 .. Parts, part' = [part EXCEPT ![w] = n], n < Parts,
           good' \in [Workers -> BOOLEAN],
           track' \in [Jobs -> {"none", "queued", "processing", "completed",
                                "failed", "cancelled"}],
           faults' \in 0 .. MaxFaults
    PROVE  TypeInv'
<1>1. QueueTypeOK' /\ QueueInv'
  BY DEF TypeInv, TypeOK, QueueTypeOK, QueueInv
<1>2. /\ w \in Actors /\ job[w] \in Jobs /\ run[w] \in 0 .. MaxStalls + 1
      /\ good'[w] \in BOOLEAN
      /\ job' = [job EXCEPT ![w] = job[w]] /\ run' = [run EXCEPT ![w] = run[w]]
  BY DEF Actors, TypeInv, TypeOK
<1>3. TypeOK'
  <2>1. /\ pc' \in [Actors -> Places] /\ copy' \in [Actors -> Documents]
        /\ part' \in [Workers -> 0 .. Parts]
    BY <1>2 DEF TypeInv, TypeOK
  <2>2. \A v \in Workers : pc'[v] # "idle" => job'[v] \in Jobs
    BY <1>2 DEF TypeInv, TypeOK, Actors
  <2> QED BY <1>1, <2>1, <2>2 DEF TypeInv, TypeOK
<1>4. WorkInv'
  <2>1. \A v \in Workers : /\ part'[v] < Parts
                           /\ pc'[v] \in {"chunk", "embed"} => copy'[v].text # NoText
    BY <1>2 DEF TypeInv, TypeOK, WorkInv, Actors
  <2>2. \A c \in Clients : pc'[c] = pc[c]
    BY <1>2, KbAssumption DEF TypeInv, TypeOK, Actors
  <2> QED BY <2>1, <2>2 DEF TypeInv, WorkInv
<1> QED BY <1>1, <1>3, <1>4 DEF TypeInv

LEMMA TrackedType ==
    ASSUME TypeOK, NEW j \in Jobs,
           NEW s \in {"queued", "processing", "completed", "failed"}, Tracked(j, s)
    PROVE  track' \in [Jobs -> {"none", "queued", "processing", "completed",
                                "failed", "cancelled"}]
BY DEF TypeOK, Tracked

LEMMA StatusType ==
    ASSUME NEW r \in Documents, NEW s \in {"processing", "completed", "failed", "cancelled"}
    PROVE  /\ [r EXCEPT !.status = s] \in Documents
           /\ [r EXCEPT !.status = s].text = r.text
           /\ [r EXCEPT !.status = s, !.count = Parts] \in Documents
BY DEF Documents

(* A job is taken up, or given back.                                       *)
LEMMA EndsTypeInv ==
    ASSUME TypeInv, NEW w \in Workers, (\E j \in Jobs : Start(w, j)) \/ EndJob(w)
    PROVE  TypeInv'
<1> USE DEF Goto
<1>1. w \in Actors /\ w \notin Clients /\ Parts \in Nat \ {0} /\ MaxStalls \in Nat
  BY KbAssumption, QueueAssumption DEF Actors
<1>2. ASSUME NEW j \in Jobs, Start(w, j) PROVE TypeInv'
  <2>1. QueueTypeOK' /\ QueueInv'
    BY <1>2, TakeTypeInv DEF Start, TypeInv, TypeOK
  <2>2. queue[j].stalls \in 0 .. MaxStalls + 1
    BY DEF TypeInv, TypeOK, QueueTypeOK, Entry
  <2>3. track' \in [Jobs -> {"none", "queued", "processing", "completed", "failed",
                            "cancelled"}]
    BY <1>2, TrackedType DEF Start, TypeInv
  <2>4. TypeOK'
    BY <1>1, <1>2, <2>1, <2>2, <2>3 DEF Start, TypeInv, TypeOK, Places, Actors
  <2>5. WorkInv'
    BY <1>1, <1>2 DEF Start, TypeInv, TypeOK, WorkInv, Actors
  <2> QED BY <2>1, <2>4, <2>5 DEF TypeInv
<1>3. ASSUME EndJob(w) PROVE TypeInv'
  <2>1. QueueTypeOK' /\ QueueInv'
    BY <1>3, EndTypeInv DEF EndJob, TypeInv, TypeOK
  <2>2. TypeOK'
    BY <1>1, <1>3, <2>1, DocumentTypes DEF EndJob, TypeInv, TypeOK, Places, Actors
  <2>3. WorkInv'
    BY <1>1, <1>3 DEF EndJob, TypeInv, TypeOK, WorkInv, Actors
  <2> QED BY <2>1, <2>2, <2>3 DEF TypeInv
<1> QED BY <1>2, <1>3

(* The pass of a worker over its job.                                      *)
LEMMA PassStepTypeInv ==
    ASSUME TypeInv, NEW w \in Workers,
           \/ Load(w) \/ Mark(w) \/ Extract(w) \/ SaveText(w) \/ SaveChunks(w)
           \/ EmbedChunks(w) \/ Complete(w) \/ WorkThrows(w)
           \/ CatchRead(w) \/ CatchSave(w) \/ CatchThrows(w)
    PROVE  TypeInv'
<1>1. w \in Actors /\ Parts \in Nat \ {0}
  BY KbAssumption DEF Actors
<1>2. pc[w] # "idle"
  BY DEF Load, Mark, Extract, SaveText, SaveChunks, EmbedChunks, Complete, WorkThrows,
         CatchRead, CatchSave, CatchThrows
<1> DEFINE j == job[w]
           d == DocOf[j]
<1>3. /\ j \in Jobs /\ d \in Docs /\ doc[d] \in Documents /\ copy[w] \in Documents
      /\ part[w] \in 0 .. Parts /\ part[w] < Parts /\ run[w] \in 0 .. MaxStalls + 1
      /\ copy = [copy EXCEPT ![w] = copy[w]] /\ part = [part EXCEPT ![w] = part[w]]
      /\ copy[w].text \in Texts \cup {NoText}
      /\ pc[w] \in {"chunk", "embed"} => copy[w].text # NoText
  BY <1>1, <1>2, KbAssumption DEF TypeInv, TypeOK, WorkInv, Documents
<1> DEFINE Tracks == [Jobs -> {"none", "queued", "processing", "completed", "failed",
                              "cancelled"}]
<1>4. /\ doc \in [Docs -> Documents] /\ chunks \subseteq Chunks /\ track \in Tracks
      /\ good \in [Workers -> BOOLEAN] /\ faults \in 0 .. MaxFaults
  BY DEF TypeInv, TypeOK
<1> HIDE DEF j, d, Tracks
<1> USE DEF Goto, Save, Check, workVars
<1>5. ASSUME Load(w) PROVE TypeInv'
  <2>1. PICK p \in {"mark", "failed"} : pc' = [pc EXCEPT ![w] = p]
    BY <1>5 DEF Load
  <2>2. p \in Places /\ p # "idle" /\ p \notin {"chunk", "embed"}
    BY DEF Places
  <2> QED BY <1>2, <1>3, <1>4, <1>5, <2>1, <2>2, PassTypeInv DEF Load, Tracks, j, d
<1>6. ASSUME Mark(w) PROVE TypeInv'
  <2>1. [copy[w] EXCEPT !.status = "processing"] \in Documents
        /\ [copy[w] EXCEPT !.status = "processing"].text = copy[w].text
    BY <1>3, StatusType
  <2>2. /\ copy' = [copy EXCEPT ![w] = [copy[w] EXCEPT !.status = "processing"]]
        /\ doc' = [doc EXCEPT ![d] = copy'[w]]
    BY <1>6 DEF Mark, d, j
  <2>3. doc' \in [Docs -> Documents]
    BY <1>1, <1>3, <1>4, <2>1, <2>2 DEF TypeInv, TypeOK
  <2>4. PICK p \in {"cancelled", "extract", "chunk"} :
            pc' = [pc EXCEPT ![w] = p] /\ (p = "chunk" => copy[w].text # NoText)
    BY <1>6 DEF Mark
  <2>5. p \in Places /\ p # "idle" /\ p # "embed"
    BY DEF Places
  <2>6. UNCHANGED <<queue, chunks, track, server, stuck, job, found, run, part, good,
                    faults>>
    BY <1>6 DEF Mark
  <2> QED
    BY <1>2, <1>3, <1>4, <2>1, <2>2, <2>3, <2>4, <2>5, <2>6, PassTypeInv DEF Tracks
<1>7. ASSUME Extract(w) PROVE TypeInv'
  <2>1. PICK t \in Texts \cup {NoText} : copy' = [copy EXCEPT ![w].text = t]
    BY <1>7 DEF Extract
  <2>2. [copy[w] EXCEPT !.text = t] \in Documents
    BY <1>3 DEF Documents
  <2>3. PICK p \in {"cancelled", "saveText"} : pc' = [pc EXCEPT ![w] = p]
    BY <1>7 DEF Extract
  <2>4. p \in Places /\ p # "idle" /\ p \notin {"chunk", "embed"}
    BY DEF Places
  <2>5. copy' = [copy EXCEPT ![w] = [copy[w] EXCEPT !.text = t]]
    BY <2>1
  <2> QED
    BY <1>2, <1>3, <1>4, <1>7, <2>2, <2>3, <2>4, <2>5, PassTypeInv DEF Extract, Tracks
<1>8. ASSUME SaveText(w) PROVE TypeInv'
  <2>1. doc' \in [Docs -> Documents]
    BY <1>3, <1>4, <1>8 DEF SaveText, d, j
  <2>2. PICK p \in {"cancelled", "failed", "chunk"} :
            pc' = [pc EXCEPT ![w] = p] /\ (p = "chunk" => copy[w].text # NoText)
    BY <1>8 DEF SaveText
  <2>3. p \in Places /\ p # "idle" /\ p # "embed"
    BY DEF Places
  <2>4. UNCHANGED <<queue, chunks, track, server, stuck, job, copy, found, run, part,
                    good, faults>>
    BY <1>8 DEF SaveText
  <2> QED
    BY <1>2, <1>3, <1>4, <2>1, <2>2, <2>3, <2>4, PassTypeInv DEF Tracks
<1>9. ASSUME SaveChunks(w) PROVE TypeInv'
  <2>1. UNCHANGED <<queue, doc, track, server, stuck, job, copy, found, run, good, faults>>
    BY <1>9 DEF SaveChunks
  <2>2. part[w] + 1 \in 1 .. Parts
    BY <1>1, <1>3
  <2>3. \A e \in BOOLEAN : Chunk(w, part[w] + 1, e) \in Chunks
    BY <1>3, <1>9, <2>2 DEF Chunk, Chunks, SaveChunks, j
  <2>4. chunks' \subseteq Chunks
    BY <1>4, <1>9, <2>3 DEF SaveChunks
  <2>5. \E n \in 0 .. Parts : part' = [part EXCEPT ![w] = n] /\ n < Parts
    <3>1. \/ part' = part
          \/ part' = [part EXCEPT ![w] = part[w] + 1] /\ part[w] + 1 < Parts
          \/ part' = [part EXCEPT ![w] = 0]
      BY <1>9 DEF SaveChunks
    <3> QED BY <1>1, <1>3, <2>2, <3>1
  <2>6. pc[w] = "chunk" /\ pc = [pc EXCEPT ![w] = "chunk"]
    BY <1>1, <1>9 DEF SaveChunks, TypeInv, TypeOK
  <2>7. \E p \in {"cancelled", "chunk", "embed"} : pc' = [pc EXCEPT ![w] = p]
    BY <1>9, <2>6 DEF SaveChunks
  <2>8. copy[w].text # NoText
    BY <1>3, <2>6
  <2>9. \A p \in {"cancelled", "chunk", "embed"} : p \in Places /\ p # "idle"
    BY DEF Places
  <2> QED
    BY <1>2, <1>3, <1>4, <2>1, <2>4, <2>5, <2>7, <2>8, <2>9, PassTypeInv DEF Tracks
<1>10. ASSUME EmbedChunks(w) PROVE TypeInv'
  <2>1. UNCHANGED <<queue, doc, faults>>
    BY <1>10 DEF EmbedChunks
  <2>2. part[w] + 1 \in 1 .. Parts /\ copy[w].text \in Texts
    BY <1>1, <1>3, <1>10 DEF EmbedChunks
  <2>3. \A e \in BOOLEAN : Chunk(w, part[w] + 1, e) \in Chunks
    BY <1>3, <2>2 DEF Chunk, Chunks, j
  <2>4. chunks' \subseteq Chunks
    BY <1>4, <1>10, <2>3 DEF EmbedChunks
  <2>5. CASE Dies
    BY <1>4, <2>1, <2>4, <2>5, DiesTypeInv DEF TypeInv, TypeOK
  <2>6. CASE ~ Dies
    <3>1. UNCHANGED <<track, server, stuck, job, copy, found, run>>
      BY <1>10, <2>6 DEF EmbedChunks
    <3>2. \E n \in 0 .. Parts : part' = [part EXCEPT ![w] = n] /\ n < Parts
      BY <1>1, <1>3, <1>10, <2>2, <2>6 DEF EmbedChunks
    <3>3. pc[w] = "embed" /\ pc = [pc EXCEPT ![w] = "embed"]
      BY <1>1, <1>10 DEF EmbedChunks, TypeInv, TypeOK
    <3>4. \E p \in {"embed", "complete", "failed"} : pc' = [pc EXCEPT ![w] = p]
      BY <1>10, <2>6, <3>3 DEF EmbedChunks
    <3>5. \A p \in {"embed", "complete", "failed"} : p \in Places /\ p # "idle"
      BY DEF Places
    <3>6. good' \in [Workers -> BOOLEAN]
      BY <1>4, <1>10, <2>6 DEF EmbedChunks
    <3>7. copy[w].text # NoText
      BY <1>3, <3>3
    <3> QED
      BY <1>2, <1>3, <1>4, <2>1, <2>4, <3>1, <3>2, <3>4, <3>5, <3>6, <3>7, PassTypeInv
         DEF Tracks
  <2> QED BY <2>5, <2>6
<1>11. ASSUME Complete(w) PROVE TypeInv'
  <2>1. UNCHANGED <<queue, chunks, server, stuck, job, copy, found, run, part, good, faults>>
    BY <1>11 DEF Complete
  <2>2. [copy[w] EXCEPT !.status = "completed", !.count = Parts] \in Documents
    BY <1>3, StatusType
  <2>3. doc' \in [Docs -> Documents]
    BY <1>4, <1>11, <2>2 DEF Complete
  <2>4. track' \in Tracks
    BY <1>3, <1>11, TrackedType DEF Complete, TypeInv, Tracks, j
  <2>5. \E p \in {"ack"} : pc' = [pc EXCEPT ![w] = p]
    BY <1>11 DEF Complete
  <2>6. \A p \in {"ack"} : p \in Places /\ p # "idle" /\ p \notin {"chunk", "embed"}
    BY DEF Places
  <2> QED
    BY <1>2, <1>3, <1>4, <2>1, <2>3, <2>4, <2>5, <2>6, PassTypeInv DEF Tracks
<1>12. ASSUME WorkThrows(w) PROVE TypeInv'
  <2>1. \E p \in {"failed"} : pc' = [pc EXCEPT ![w] = p]
    BY <1>12 DEF WorkThrows
  <2>2. \A p \in {"failed"} : p \in Places /\ p # "idle" /\ p \notin {"chunk", "embed"}
    BY DEF Places
  <2>3. UNCHANGED <<queue, doc, chunks, track, server, stuck, job, copy, found, run,
                    part, good, faults>>
    BY <1>12 DEF WorkThrows
  <2> QED
    BY <1>2, <1>3, <1>4, <2>1, <2>2, <2>3, PassTypeInv DEF Tracks
<1>13. ASSUME CatchRead(w) PROVE TypeInv'
  <2>1. UNCHANGED <<queue, doc, chunks, server, stuck, job, found, run, part, good, faults>>
    BY <1>13 DEF CatchRead
  <2>2. copy' = [copy EXCEPT ![w] = doc[d]]
    BY <1>13 DEF CatchRead, d, j
  <2>3. track' \in Tracks
    BY <1>3, <1>4, <1>13, TrackedType DEF CatchRead, TypeInv, Tracks, j
  <2>4. \E p \in {"saveFailed", "saveCancelled", "ack", "throw"} :
            pc' = [pc EXCEPT ![w] = p]
    BY <1>13 DEF CatchRead
  <2>5. \A p \in {"saveFailed", "saveCancelled", "ack", "throw"} :
            p \in Places /\ p # "idle" /\ p \notin {"chunk", "embed"}
    BY DEF Places
  <2> QED
    BY <1>2, <1>3, <1>4, <2>1, <2>2, <2>3, <2>4, <2>5, PassTypeInv DEF Tracks
<1>14. ASSUME CatchSave(w) PROVE TypeInv'
  <2>1. UNCHANGED <<queue, chunks, server, stuck, job, copy, found, run, part, good, faults>>
    BY <1>14 DEF CatchSave
  <2>2. \A s \in {"failed", "cancelled"} : [copy[w] EXCEPT !.status = s] \in Documents
    BY <1>3, StatusType
  <2>3. doc' \in [Docs -> Documents]
    BY <1>4, <1>14, <2>2 DEF CatchSave
  <2>4. track' \in Tracks
    BY <1>3, <1>4, <1>14, TrackedType DEF CatchSave, TypeInv, Tracks, j
  <2>5. \E p \in {"ack", "throw"} : pc' = [pc EXCEPT ![w] = p]
    BY <1>14 DEF CatchSave
  <2>6. \A p \in {"ack", "throw"} : p \in Places /\ p # "idle" /\ p \notin {"chunk", "embed"}
    BY DEF Places
  <2> QED
    BY <1>2, <1>3, <1>4, <2>1, <2>3, <2>4, <2>5, <2>6, PassTypeInv DEF Tracks
<1>15. ASSUME CatchThrows(w) PROVE TypeInv'
  <2>1. \E p \in {"throw"} : pc' = [pc EXCEPT ![w] = p]
    BY <1>15 DEF CatchThrows
  <2>2. \A p \in {"throw"} : p \in Places /\ p # "idle" /\ p \notin {"chunk", "embed"}
    BY DEF Places
  <2>3. UNCHANGED <<queue, doc, chunks, track, server, stuck, job, copy, found, run,
                    part, good>>
    BY <1>15 DEF CatchThrows
  <2>4. faults' \in 0 .. MaxFaults
    BY <1>15, FaultType DEF CatchThrows, TypeInv
  <2> QED
    BY <1>2, <1>3, <1>4, <2>1, <2>2, <2>3, <2>4, PassTypeInv DEF Tracks
<1> QED
  BY <1>5, <1>6, <1>7, <1>8, <1>9, <1>10, <1>11, <1>12, <1>13, <1>14, <1>15

LEMMA TypeStep == TypeInv /\ [Next]_vars => TypeInv'
<1> SUFFICES ASSUME TypeInv, [Next]_vars PROVE TypeInv'
  OBVIOUS
<1>1. ASSUME NEW w \in Workers, WorkerStep(w) PROVE TypeInv'
  BY <1>1, EndsTypeInv, PassStepTypeInv DEF WorkerStep
<1>2. ASSUME NEW c \in Clients, ClientStep(c) \/ Request(c) PROVE TypeInv'
  BY <1>2, ClientTypeInv, RequestTypeInv
<1>3. ASSUME UNCHANGED vars PROVE TypeInv'
  BY <1>3 DEF vars, workVars, TypeInv, TypeOK, QueueTypeOK, QueueInv, WorkInv
<1> QED BY <1>1, <1>2, <1>3, ServerTypeInv DEF Next

(* Rows, entries, the map and every copy in memory keep their types, and   *)
(* no loop of a pass runs beyond the last batch of its text.               *)
THEOREM TypeSafety == Spec => []TypeOK
<1>1. TypeInv => TypeOK
  BY DEF TypeInv
<1> QED BY <1>1, InitTypeInv, TypeStep, PTL DEF Spec

-------------------------------------------------------------------------------
(* A pass that has begun and has not yet dealt with the document.          *)
InHand(d) ==
    \E w \in Workers : pc[w] \notin {"idle", "ack", "throw"} /\ DocOf[job[w]] = d

ProcessingInv ==
    \A d \in Docs :
        doc[d].status = "processing" => server # "up" \/ stuck[d] # NoDoc \/ InHand(d)

(* Steps that leave the passes and the start-up's list alone disturb it    *)
(* only by saving PROCESSING.                                              *)
LEMMA ProcessingKept ==
    ASSUME ProcessingInv, TypeInv, UNCHANGED <<server, stuck, job>>,
           \A w \in Workers : pc'[w] = pc[w],
           \A d \in Docs : doc'[d].status = "processing" => doc[d].status = "processing"
    PROVE  ProcessingInv'
BY DEF ProcessingInv, InHand

(* A worker that goes on with its job, and saves only its document.        *)
LEMMA ProcessingGoesOn ==
    ASSUME ProcessingInv, TypeInv, NEW w \in Workers, UNCHANGED <<server, stuck, job>>,
           NEW p \in Places, pc' = [pc EXCEPT ![w] = p],
           \A d \in Docs : doc'[d] # doc[d] => d = DocOf[job[w]],
           \/ p \notin {"idle", "ack", "throw"}
           \/ doc'[DocOf[job[w]]].status # "processing"
    PROVE  ProcessingInv'
<1> SUFFICES ASSUME NEW d \in Docs, doc'[d].status = "processing",
                    server = "up", stuck[d] = NoDoc
             PROVE  InHand(d)'
  BY DEF ProcessingInv
<1>1. \A v \in Workers : pc'[v] = IF v = w THEN p ELSE pc[v]
  BY DEF TypeInv, TypeOK, Actors
<1>2. CASE d = DocOf[job[w]]
  BY <1>1, <1>2 DEF InHand
<1>3. CASE d # DocOf[job[w]]
  <2>1. InHand(d)
    BY <1>3 DEF ProcessingInv
  <2> QED BY <1>1, <1>3, <2>1 DEF InHand
<1> QED BY <1>2, <1>3

LEMMA ProcessingStep ==
    ASSUME "db" \notin Faults, \A c \in Clients : Op[c] # "rename",
           TypeInv, ProcessingInv, Next
    PROVE  ProcessingInv'
<1> USE DEF Goto, Save, Fault
<1>1. ASSUME NEW w \in Workers, WorkerStep(w) PROVE ProcessingInv'
  <2> DEFINE d == DocOf[job[w]]
  <2>1. /\ w \in Actors /\ pc[w] \in Places
        /\ job[w] \in Jobs \cup {NoJob} /\ copy[w] \in Documents
        /\ doc \in [Docs -> Documents] /\ copy \in [Actors -> Documents]
    BY DEF TypeInv, TypeOK, Actors
  <2>2. ASSUME NEW j \in Jobs, Start(w, j) PROVE ProcessingInv'
    <3>1. UNCHANGED <<doc, server, stuck>> /\ pc[w] = "idle"
      BY <2>2 DEF Start
    <3>2. \A v \in Workers : pc[v] \notin {"idle", "ack", "throw"} =>
              pc'[v] = pc[v] /\ job'[v] = job[v]
      BY <2>2, <3>1 DEF Start, TypeInv, TypeOK, Actors
    <3> QED BY <3>1, <3>2 DEF ProcessingInv, InHand
  <2>3. ASSUME EndJob(w) PROVE ProcessingInv'
    <3>1. UNCHANGED <<doc, server, stuck>> /\ pc[w] \in {"ack", "throw"}
      BY <2>3 DEF EndJob
    <3>2. \A v \in Workers : pc[v] \notin {"idle", "ack", "throw"} =>
              pc'[v] = pc[v] /\ job'[v] = job[v]
      BY <2>3, <3>1 DEF EndJob, TypeInv, TypeOK, Actors
    <3> QED BY <3>1, <3>2 DEF ProcessingInv, InHand
  <2>4. ASSUME Load(w) \/ Extract(w) \/ WorkThrows(w) PROVE ProcessingInv'
    <3>1. UNCHANGED <<doc, server, stuck, job>>
      BY <2>4 DEF Load, Extract, WorkThrows, workVars
    <3>2. \E p \in {"mark", "failed", "cancelled", "saveText"} : pc' = [pc EXCEPT ![w] = p]
      BY <2>4 DEF Load, Extract, WorkThrows, Check
    <3>3. {"mark", "failed", "cancelled", "saveText"} \subseteq Places
              \ {"idle", "ack", "throw"}
      BY DEF Places
    <3> QED BY <3>1, <3>2, <3>3, ProcessingGoesOn
  <2>5. ASSUME Mark(w) \/ SaveText(w) PROVE ProcessingInv'
    <3>1. UNCHANGED <<server, stuck, job>>
      BY <2>5 DEF Mark, SaveText, workVars
    <3>2. \A e \in Docs : doc'[e] # doc[e] => e = d
      BY <2>1, <2>5 DEF Mark, SaveText
    <3>3. \E p \in {"cancelled", "extract", "failed", "chunk"} : pc' = [pc EXCEPT ![w] = p]
      BY <2>5 DEF Mark, SaveText, Check
    <3>4. {"cancelled", "extract", "failed", "chunk"} \subseteq Places
              \ {"idle", "ack", "throw"}
      BY DEF Places
    <3> QED BY <3>1, <3>2, <3>3, <3>4, ProcessingGoesOn
  <2>6. ASSUME SaveChunks(w) \/ EmbedChunks(w) PROVE ProcessingInv'
    <3>1. CASE Dies
      BY <3>1 DEF Dies, ProcessingInv
    <3>2. CASE ~ Dies
      <4>1. UNCHANGED <<doc, server, stuck, job>>
        BY <2>6, <3>2 DEF SaveChunks, EmbedChunks
      <4>2. /\ pc[w] \in {"chunk", "embed"} /\ pc = [pc EXCEPT ![w] = pc[w]]
        BY <2>1, <2>6 DEF SaveChunks, EmbedChunks, TypeInv, TypeOK
      <4>3. \E p \in {"chunk", "embed", "cancelled", "complete", "failed"} :
                pc' = [pc EXCEPT ![w] = p]
        BY <2>6, <3>2, <4>2 DEF SaveChunks, EmbedChunks
      <4>4. {"chunk", "embed", "cancelled", "complete", "failed"} \subseteq Places
                \ {"idle", "ack", "throw"}
        BY DEF Places
      <4> QED BY <4>1, <4>3, <4>4, ProcessingGoesOn
    <3> QED BY <3>1, <3>2
  <2>7. ASSUME Complete(w) \/ CatchSave(w) PROVE ProcessingInv'
    <3>1. UNCHANGED <<server, stuck, job>>
      BY <2>7 DEF Complete, CatchSave, workVars
    <3>2. \A e \in Docs : doc'[e] # doc[e] => e = d
      BY <2>1, <2>7 DEF Complete, CatchSave
    <3>3. PICK r \in Documents : doc' = [doc EXCEPT ![d] = r] /\ r.status # "processing"
      <4>1. \A s \in {"completed", "failed", "cancelled"} :
                /\ [copy[w] EXCEPT !.status = s] \in Documents
                /\ [copy[w] EXCEPT !.status = s].status = s
                /\ [copy[w] EXCEPT !.status = s, !.count = Parts] \in Documents
                /\ [copy[w] EXCEPT !.status = s, !.count = Parts].status = s
        BY <2>1 DEF Documents
      <4> QED BY <2>7, <4>1 DEF Complete, CatchSave
    <3>4. \E p \in {"ack", "throw"} : pc' = [pc EXCEPT ![w] = p]
      BY <2>7 DEF Complete, CatchSave
    <3>5. {"ack", "throw"} \subseteq Places
      BY DEF Places
    <3>6. d \in Docs => doc'[d].status # "processing"
      BY <2>1, <3>3
    <3>7. d \in Docs
      <4>1. pc[w] # "idle"
        BY <2>7 DEF Complete, CatchSave
      <4> QED BY <4>1, KbAssumption DEF TypeInv, TypeOK
    <3> QED BY <3>1, <3>2, <3>4, <3>5, <3>6, <3>7, ProcessingGoesOn
  <2>8. ASSUME CatchRead(w) PROVE ProcessingInv'
    <3>1. UNCHANGED <<doc, server, stuck, job>>
      BY <2>8 DEF CatchRead
    <3>2. PICK p \in {"saveFailed", "saveCancelled", "ack", "throw"} :
              /\ pc' = [pc EXCEPT ![w] = p]
              /\ p \in {"ack", "throw"} => doc[d].status = "none"
      BY <2>8 DEF CatchRead, Exists
    <3>3. p \in Places /\ p # "idle"
      BY DEF Places
    <3> QED BY <3>1, <3>2, <3>3, ProcessingGoesOn
  <2>9. ASSUME CatchThrows(w) PROVE FALSE
    BY <2>9 DEF CatchThrows
  <2> QED
    BY <1>1, <2>2, <2>3, <2>4, <2>5, <2>6, <2>7, <2>8, <2>9 DEF WorkerStep
<1>2. ASSUME NEW c \in Clients, ClientStep(c) \/ Request(c) PROVE ProcessingInv'
  <2>1. c \notin Workers /\ c \in Actors /\ DocOf[c] \in Docs /\ Op[c] # "rename"
    BY KbAssumption DEF Actors
  <2>2. /\ UNCHANGED <<server, stuck>>
        /\ \E p : pc' = [pc EXCEPT ![c] = p]
        /\ job' = job \/ \E j : job' = [job EXCEPT ![c] = j]
    <3>1. CASE Create(c)
      BY <3>1 DEF Create, workVars
    <3>2. CASE EditRead(c)
      BY <3>2 DEF EditRead, workVars
    <3>3. CASE RemoveRead(c)
      BY <3>3 DEF RemoveRead, workVars
    <3>4. CASE Cancel(c)
      BY <3>4 DEF Cancel, workVars
    <3>5. CASE Confirm(c)
      BY <3>5 DEF Confirm, workVars
    <3>6. CASE Enqueue(c)
      BY <3>6 DEF Enqueue, workVars
    <3>7. CASE EditSave(c)
      BY <3>7 DEF EditSave, workVars
    <3>8. CASE RemoveChunks(c)
      BY <3>8 DEF RemoveChunks, workVars
    <3>9. CASE RemoveDoc(c)
      BY <3>9 DEF RemoveDoc, workVars
    <3>10. CASE Dequeue(c)
      BY <3>10 DEF Dequeue, workVars
    <3>11. CASE RequestThrows(c)
      BY <3>11 DEF RequestThrows, workVars
    <3> QED
      BY <1>2, <3>1, <3>2, <3>3, <3>4, <3>5, <3>6, <3>7, <3>8, <3>9, <3>10,
         <3>11 DEF ClientStep, Request
  <2>3. \A w \in Workers : pc'[w] = pc[w]
    BY <2>1, <2>2 DEF TypeInv, TypeOK, Actors
  <2>4. \A w \in Workers : job'[w] = job[w]
    BY <2>1, <2>2 DEF TypeInv, TypeOK, Actors
  <2>5. \/ UNCHANGED doc
        \/ \E r : doc' = [doc EXCEPT ![DocOf[c]] = r] /\ r.status # "processing"
    <3>1. CASE Create(c)
      <4>1. \E t : doc' = [doc EXCEPT ![DocOf[c]] = NewDoc(t)]
        BY <3>1 DEF Create
      <4>2. \A t : NewDoc(t).status = "pending"
        BY DEF NewDoc
      <4> QED BY <4>1, <4>2
    <3>2. CASE EditSave(c)
      <4>1. PICK t \in Texts :
                doc' = [doc EXCEPT ![DocOf[c]] = [copy[c] EXCEPT !.status = "pending",
                                                                 !.text = t]]
        BY <2>1, <3>2 DEF EditSave
      <4>2. copy[c] \in Documents
        BY <2>1 DEF TypeInv, TypeOK
      <4>3. [copy[c] EXCEPT !.status = "pending", !.text = t].status = "pending"
        BY <4>2 DEF Documents
      <4> QED BY <4>1, <4>3
    <3>3. CASE RemoveDoc(c)
      <4>1. doc' = [doc EXCEPT ![DocOf[c]] = NoDoc]
        BY <3>3 DEF RemoveDoc
      <4>2. NoDoc.status # "processing"
        BY DEF NoDoc
      <4> QED BY <4>1, <4>2
    <3>4. CASE UNCHANGED doc
      BY <3>4
    <3> QED
      BY <1>2, <3>1, <3>2, <3>3, <3>4
         DEF ClientStep, Request, Confirm, Enqueue, RemoveChunks, Dequeue, RequestThrows,
             EditRead, RemoveRead, Cancel
  <2>6. \A d \in Docs : doc'[d].status = "processing" => doc[d].status = "processing"
    BY <2>1, <2>5 DEF TypeInv, TypeOK
  <2> QED BY <2>2, <2>3, <2>4, <2>6 DEF ProcessingInv, InHand
<1>3. ASSUME NEW j \in Jobs, StalledCheck(j) PROVE ProcessingInv'
  BY <1>3, ProcessingKept DEF StalledCheck, actorVars
<1>4. ASSUME NEW d \in Docs, CleanUp(d) PROVE ProcessingInv'
  <2>1. [stuck[d] EXCEPT !.status = "failed"].status = "failed"
    BY DEF TypeInv, TypeOK, Documents
  <2>2. /\ doc'[d].status = "failed"
        /\ \A e \in Docs \ {d} : doc'[e] = doc[e] /\ stuck'[e] = stuck[e]
        /\ UNCHANGED <<server, pc, job>>
    BY <1>4, <2>1 DEF CleanUp, TypeInv, TypeOK, actorVars
  <2> QED BY <2>2 DEF ProcessingInv, InHand
<1>5. ASSUME Restart \/ FindStuck PROVE ProcessingInv'
  BY <1>5 DEF Restart, FindStuck, ProcessingInv, NoDoc
<1>6. ASSUME Crash PROVE ProcessingInv'
  BY <1>6 DEF Crash, Dies, ProcessingInv
<1> QED BY <1>1, <1>2, <1>3, <1>4, <1>5, <1>6 DEF Next

(* Where no call of a catch block fails and no request is a mere rename,   *)
(* no document says PROCESSING without being processed, or on its way to   *)
(* FAILED: through crashes, lost locks, cancels, edits and removals.       *)
THEOREM ProcessingSafety ==
    ASSUME "db" \notin Faults, \A c \in Clients : Op[c] # "rename"
    PROVE  Spec => []ProcessingIsAlive
<1>1. Init => ProcessingInv
  BY DEF Init, ProcessingInv, NoDoc
<1>2. TypeInv /\ ProcessingInv /\ [Next]_vars => ProcessingInv'
  <2> SUFFICES ASSUME TypeInv, ProcessingInv, [Next]_vars PROVE ProcessingInv'
    OBVIOUS
  <2>1. CASE UNCHANGED vars
    BY <2>1 DEF vars, ProcessingInv, InHand
  <2> QED BY <2>1, ProcessingStep
<1>3. TypeInv /\ ProcessingInv => ProcessingIsAlive
  BY KbAssumption DEF ProcessingInv, ProcessingIsAlive, InHand, TypeInv, TypeOK
<1> QED BY <1>1, <1>2, <1>3, InitTypeInv, TypeStep, PTL DEF Spec

-------------------------------------------------------------------------------
(* A request enters its job in the map and in the queue once, before any   *)
(* worker and any cancel can know of it.                                   *)
FreshInv ==
    /\ \A c \in Jobs :
          pc[c] \in {"idle", "confirm", "edit"} =>
              track[c] = "none" /\ queue[c].state = "absent"
    /\ \A w \in Workers : pc[w] # "idle" => queue[job[w]].state # "absent"

CancelKept ==
    Dies \/ \A j \in Jobs : track[j] = "cancelled" => track'[j] = "cancelled"

QueueKept ==
    \A j \in Jobs : queue[j].state # "absent" => queue'[j].state # "absent"

LEMMA EntryKept ==
    ASSUME QueueTypeOK, NEW j \in Jobs
    PROVE  /\ \A w, s : EndAttempt(w, j, s) /\ s # "absent" => QueueKept
           /\ \A s, o : Move(j, s, o) /\ s # "absent" => QueueKept
           /\ \A w, s : EndAttempt(w, j, s) => \A i \in Jobs \ {j} : queue'[i] = queue[i]
           /\ \A s, o : Move(j, s, o) => \A i \in Jobs \ {j} : queue'[i] = queue[i]
<1>1. \A i \in Jobs : queue[i] \in Entry
  BY DEF QueueTypeOK
<1>2. ASSUME NEW w, NEW s, EndAttempt(w, j, s)
      PROVE  /\ s # "absent" => QueueKept
             /\ \A i \in Jobs \ {j} : queue'[i] = queue[i]
  <2>1. CASE UNCHANGED queue
    BY <2>1 DEF QueueKept
  <2>2. CASE ~ UNCHANGED queue
    <3>1. queue' = [queue EXCEPT ![j] = [queue[j] EXCEPT !.state = s, !.owner = NoWorker,
                                                         !.tries = @ + 1]]
      BY <1>2, <2>2 DEF EndAttempt, QueueTypeOK
    <3>2. [queue[j] EXCEPT !.state = s, !.owner = NoWorker, !.tries = @ + 1].state = s
      BY <1>1 DEF Entry
    <3> QED BY <3>1, <3>2 DEF QueueTypeOK, QueueKept
  <2> QED BY <2>1, <2>2
<1>3. ASSUME NEW s, NEW o, Move(j, s, o)
      PROVE  /\ s # "absent" => QueueKept
             /\ \A i \in Jobs \ {j} : queue'[i] = queue[i]
  <2>1. queue' = [queue EXCEPT ![j] = [queue[j] EXCEPT !.state = s, !.owner = o]]
    BY <1>3 DEF Move, QueueTypeOK
  <2>2. [queue[j] EXCEPT !.state = s, !.owner = o].state = s
    BY <1>1 DEF Entry
  <2> QED BY <2>1, <2>2 DEF QueueTypeOK, QueueKept
<1> QED BY <1>2, <1>3

LEMMA FreshDies ==
    ASSUME TypeInv, FreshInv, Dies, UNCHANGED queue
    PROVE  FreshInv' /\ CancelKept
<1>1. \A w \in Workers : pc'[w] = "idle"
  BY DEF Dies, Actors
<1>2. \A c \in Jobs : pc'[c] \in {"idle", "confirm", "edit"} => pc[c] = "idle"
  BY KbAssumption DEF Dies, Actors
<1> QED BY <1>1, <1>2 DEF FreshInv, CancelKept, Dies

(* A worker that goes on with its job.                                     *)
LEMMA FreshGoesOn ==
    ASSUME TypeInv, FreshInv, NEW w \in Workers, pc[w] # "idle", UNCHANGED <<queue, job>>,
           NEW p \in Places, p # "idle", pc' = [pc EXCEPT ![w] = p],
           track' = track \/ \E s : Tracked(job[w], s)
    PROVE  FreshInv' /\ CancelKept
<1>1. job[w] \in Jobs /\ queue[job[w]].state # "absent"
  BY DEF TypeInv, TypeOK, FreshInv
<1>2. \A j \in Jobs : j # job[w] => track'[j] = track[j]
  BY DEF TypeInv, TypeOK, Tracked
<1>3. track[job[w]] = "cancelled" => track'[job[w]] = "cancelled"
  BY <1>1 DEF TypeInv, TypeOK, Tracked
<1>4. /\ \A c \in Jobs : pc'[c] = pc[c]
      /\ \A v \in Workers : pc'[v] # "idle" => pc[v] # "idle"
  BY KbAssumption DEF TypeInv, TypeOK, Actors
<1> QED BY <1>1, <1>2, <1>3, <1>4 DEF FreshInv, CancelKept

LEMMA FreshWorker ==
    ASSUME TypeInv, FreshInv, NEW w \in Workers, WorkerStep(w)
    PROVE  FreshInv' /\ CancelKept
<1> USE DEF Goto
<1>1. w \in Actors /\ w \notin Clients /\ pc[w] \in Places
  BY KbAssumption DEF Actors, TypeInv, TypeOK
<1>2. ASSUME NEW j \in Jobs, Start(w, j) PROVE FreshInv' /\ CancelKept
  <2>1. /\ queue[j].state = "waiting" /\ queue'[j].state = "active"
        /\ \A i \in Jobs \ {j} : queue'[i] = queue[i]
    BY <1>2 DEF Start, Take, Move, TypeInv, TypeOK, QueueTypeOK, Entry
  <2>2. /\ track[j] = "cancelled" => track'[j] = "cancelled"
        /\ \A i \in Jobs \ {j} : track'[i] = track[i]
    BY <1>2 DEF Start, Tracked, TypeInv, TypeOK
  <2>3. /\ \A c \in Jobs : pc'[c] = pc[c]
        /\ job'[w] = j
        /\ \A v \in Workers \ {w} : pc'[v] = pc[v] /\ job'[v] = job[v]
    BY <1>1, <1>2, KbAssumption DEF Start, TypeInv, TypeOK, Actors
  <2>4. \A v \in Workers : pc[v] # "idle" => job[v] \in Jobs
    BY DEF TypeInv, TypeOK
  <2> QED BY <2>1, <2>2, <2>3, <2>4 DEF FreshInv, CancelKept
<1>3. ASSUME EndJob(w) PROVE FreshInv' /\ CancelKept
  <2>1. job[w] \in Jobs /\ queue[job[w]].state # "absent"
    BY <1>3 DEF EndJob, TypeInv, TypeOK, FreshInv
  <2>2. QueueKept /\ \A i \in Jobs \ {job[w]} : queue'[i] = queue[i]
    <3>1. \E s \in {"removed", "delayed", "failed"} : EndAttempt(w, job[w], s)
      BY <1>3 DEF EndJob, Finish, Retry
    <3> QED BY <2>1, <3>1, EntryKept DEF TypeInv, TypeOK
  <2>3. UNCHANGED track
    BY <1>3 DEF EndJob
  <2>4. /\ \A c \in Jobs : pc'[c] = pc[c]
        /\ pc'[w] = "idle"
        /\ \A v \in Workers \ {w} : pc'[v] = pc[v] /\ job'[v] = job[v]
    BY <1>1, <1>3, KbAssumption DEF EndJob, TypeInv, TypeOK, Actors
  <2>5. \A v \in Workers : pc[v] # "idle" => job[v] \in Jobs
    BY DEF TypeInv, TypeOK
  <2> QED BY <2>1, <2>2, <2>3, <2>4, <2>5 DEF FreshInv, CancelKept, QueueKept
<1>4. ASSUME pc[w] # "idle", UNCHANGED <<queue, job>>,
             \E p \in Places \ {"idle"} : pc' = [pc EXCEPT ![w] = p],
             track' = track \/ \E s : Tracked(job[w], s)
      PROVE  FreshInv' /\ CancelKept
  BY <1>4, FreshGoesOn
<1>5. {"mark", "failed", "extract", "chunk", "cancelled", "saveText", "embed", "complete",
       "ack", "throw", "saveFailed", "saveCancelled"} \subseteq Places \ {"idle"}
  BY DEF Places
<1>6. pc[w] # "idle" => pc = [pc EXCEPT ![w] = pc[w]] /\ pc[w] \in Places \ {"idle"}
  BY <1>1 DEF TypeInv, TypeOK
<1>7. ASSUME Load(w) PROVE FreshInv' /\ CancelKept
  <2>1. pc[w] # "idle" /\ UNCHANGED <<queue, job>>
    BY <1>7 DEF Load
  <2>2. \E p \in Places \ {"idle"} : pc' = [pc EXCEPT ![w] = p]
    BY <1>5, <1>7 DEF Load, Check
  <2>3. track' = track \/ \E s : Tracked(job[w], s)
    BY <1>7 DEF Load
  <2> QED BY <1>4, <2>1, <2>2, <2>3
<1>8. ASSUME Mark(w) PROVE FreshInv' /\ CancelKept
  <2>1. pc[w] # "idle" /\ UNCHANGED <<queue, job>>
    BY <1>8 DEF Mark
  <2>2. \E p \in Places \ {"idle"} : pc' = [pc EXCEPT ![w] = p]
    BY <1>5, <1>8 DEF Mark, Check
  <2>3. track' = track \/ \E s : Tracked(job[w], s)
    BY <1>8 DEF Mark
  <2> QED BY <1>4, <2>1, <2>2, <2>3
<1>9. ASSUME Extract(w) PROVE FreshInv' /\ CancelKept
  <2>1. pc[w] # "idle" /\ UNCHANGED <<queue, job>>
    BY <1>9 DEF Extract
  <2>2. \E p \in Places \ {"idle"} : pc' = [pc EXCEPT ![w] = p]
    BY <1>5, <1>9 DEF Extract, Check
  <2>3. track' = track \/ \E s : Tracked(job[w], s)
    BY <1>9 DEF Extract
  <2> QED BY <1>4, <2>1, <2>2, <2>3
<1>10. ASSUME SaveText(w) PROVE FreshInv' /\ CancelKept
  <2>1. pc[w] # "idle" /\ UNCHANGED <<queue, job>>
    BY <1>10 DEF SaveText
  <2>2. \E p \in Places \ {"idle"} : pc' = [pc EXCEPT ![w] = p]
    BY <1>5, <1>10 DEF SaveText, Check
  <2>3. track' = track \/ \E s : Tracked(job[w], s)
    BY <1>10 DEF SaveText
  <2> QED BY <1>4, <2>1, <2>2, <2>3
<1>11. ASSUME Complete(w) PROVE FreshInv' /\ CancelKept
  <2>1. pc[w] # "idle" /\ UNCHANGED <<queue, job>>
    BY <1>11 DEF Complete
  <2>2. \E p \in Places \ {"idle"} : pc' = [pc EXCEPT ![w] = p]
    BY <1>5, <1>11 DEF Complete, Check
  <2>3. track' = track \/ \E s : Tracked(job[w], s)
    BY <1>11 DEF Complete
  <2> QED BY <1>4, <2>1, <2>2, <2>3
<1>12. ASSUME WorkThrows(w) PROVE FreshInv' /\ CancelKept
  <2>1. pc[w] # "idle" /\ UNCHANGED <<queue, job>>
    BY <1>12 DEF WorkThrows
  <2>2. \E p \in Places \ {"idle"} : pc' = [pc EXCEPT ![w] = p]
    BY <1>5, <1>12 DEF WorkThrows, Check
  <2>3. track' = track \/ \E s : Tracked(job[w], s)
    BY <1>12 DEF WorkThrows
  <2> QED BY <1>4, <2>1, <2>2, <2>3
<1>13. ASSUME CatchRead(w) PROVE FreshInv' /\ CancelKept
  <2>1. pc[w] # "idle" /\ UNCHANGED <<queue, job>>
    BY <1>13 DEF CatchRead
  <2>2. \E p \in Places \ {"idle"} : pc' = [pc EXCEPT ![w] = p]
    BY <1>5, <1>13 DEF CatchRead, Check
  <2>3. track' = track \/ \E s : Tracked(job[w], s)
    BY <1>13 DEF CatchRead
  <2> QED BY <1>4, <2>1, <2>2, <2>3
<1>14. ASSUME CatchSave(w) PROVE FreshInv' /\ CancelKept
  <2>1. pc[w] # "idle" /\ UNCHANGED <<queue, job>>
    BY <1>14 DEF CatchSave
  <2>2. \E p \in Places \ {"idle"} : pc' = [pc EXCEPT ![w] = p]
    BY <1>5, <1>14 DEF CatchSave, Check
  <2>3. track' = track \/ \E s : Tracked(job[w], s)
    BY <1>14 DEF CatchSave
  <2> QED BY <1>4, <2>1, <2>2, <2>3
<1>15. ASSUME CatchThrows(w) PROVE FreshInv' /\ CancelKept
  <2>1. pc[w] # "idle" /\ UNCHANGED <<queue, job>>
    BY <1>15 DEF CatchThrows
  <2>2. \E p \in Places \ {"idle"} : pc' = [pc EXCEPT ![w] = p]
    BY <1>5, <1>15 DEF CatchThrows, Check
  <2>3. track' = track \/ \E s : Tracked(job[w], s)
    BY <1>15 DEF CatchThrows
  <2> QED BY <1>4, <2>1, <2>2, <2>3
<1>16. ASSUME SaveChunks(w) \/ EmbedChunks(w) PROVE FreshInv' /\ CancelKept
  <2>1. pc[w] # "idle" /\ UNCHANGED queue
    BY <1>16 DEF SaveChunks, EmbedChunks
  <2>2. CASE Dies
    BY <2>1, <2>2, FreshDies
  <2>3. CASE ~ Dies
    <3>1. UNCHANGED <<job, track>>
      BY <1>16, <2>3 DEF SaveChunks, EmbedChunks
    <3>2. pc' = pc \/ \E p \in {"cancelled", "embed", "complete", "failed"} :
                        pc' = [pc EXCEPT ![w] = p]
      BY <1>16, <2>3 DEF SaveChunks, EmbedChunks
    <3>3. \E p \in Places \ {"idle"} : pc' = [pc EXCEPT ![w] = p]
      BY <1>5, <1>6, <2>1, <3>2
    <3> QED BY <1>4, <2>1, <3>1, <3>3
  <2> QED BY <2>2, <2>3
<1> QED BY <1>2, <1>3, <1>7, <1>8, <1>9, <1>10, <1>11, <1>12, <1>13, <1>14, <1>15, <1>16
        DEF WorkerStep

LEMMA FreshClient ==
    ASSUME TypeInv, FreshInv, NEW c \in Clients, ClientStep(c) \/ Request(c)
    PROVE  FreshInv' /\ CancelKept
<1> USE DEF Goto
<1>1. c \in Actors /\ c \notin Workers
  BY KbAssumption DEF Actors
<1>2. ASSUME QueueKept, \A j \in Jobs \ {c} : queue[j].state = "absent" =>
                                              queue'[j].state = "absent",
             \A j \in Jobs : track[j] = "cancelled" => track'[j] = "cancelled",
             \A j \in Jobs \ {c} : track[j] = "none" => track'[j] = "none",
             \A w \in Workers : job'[w] = job[w],
             NEW p, pc' = [pc EXCEPT ![c] = p],
             c \in Jobs /\ p \in {"idle", "confirm", "edit"} =>
                pc[c] \in {"idle", "confirm", "edit"} /\ UNCHANGED <<track, queue>>
      PROVE  FreshInv' /\ CancelKept
  <2>1. /\ \A w \in Workers : pc'[w] = pc[w]
        /\ \A i \in Jobs \ {c} : pc'[i] = pc[i]
        /\ pc'[c] = p
    BY <1>1, <1>2, KbAssumption DEF TypeInv, TypeOK, Actors
  <2>2. \A w \in Workers : pc[w] # "idle" => job[w] \in Jobs
    BY DEF TypeInv, TypeOK
  <2> QED BY <1>2, <2>1, <2>2 DEF FreshInv, CancelKept, QueueKept
<1>3. ASSUME Create(c) PROVE FreshInv' /\ CancelKept
  <2>1. UNCHANGED <<queue, job>> /\ pc[c] \in {"idle", "confirm", "edit"}
    BY <1>3 DEF Create, Accepts
  <2>2. track' = track \/ track' = [track EXCEPT ![c] = "queued"]
    BY <1>3 DEF Create
  <2>3. c \in Jobs => track[c] = "none"
    BY <2>1 DEF FreshInv
  <2>4. /\ \A j \in Jobs : track[j] = "cancelled" => track'[j] = "cancelled"
        /\ \A j \in Jobs \ {c} : track[j] = "none" => track'[j] = "none"
    BY <2>2, <2>3 DEF TypeInv, TypeOK
  <2>5. \E p \in {"confirm", "enqueue", "done"} :
            pc' = [pc EXCEPT ![c] = p] /\ (p = "confirm" => UNCHANGED track)
    BY <1>3 DEF Create
  <2> QED BY <1>2, <2>1, <2>4, <2>5 DEF QueueKept
<1>4. ASSUME Confirm(c) PROVE FreshInv' /\ CancelKept
  <2>1. UNCHANGED <<queue, job>> /\ pc[c] \in {"idle", "confirm", "edit"}
    BY <1>4 DEF Confirm, Accepts
  <2>2. track' = track \/ track' = [track EXCEPT ![c] = "queued"]
    BY <1>4 DEF Confirm
  <2>3. c \in Jobs => track[c] = "none"
    BY <2>1 DEF FreshInv
  <2>4. /\ \A j \in Jobs : track[j] = "cancelled" => track'[j] = "cancelled"
        /\ \A j \in Jobs \ {c} : track[j] = "none" => track'[j] = "none"
    BY <2>2, <2>3 DEF TypeInv, TypeOK
  <2>5. \E p \in {"confirm", "enqueue", "done"} :
            pc' = [pc EXCEPT ![c] = p] /\ (p = "confirm" => UNCHANGED track)
    BY <1>4 DEF Confirm
  <2> QED BY <1>2, <2>1, <2>4, <2>5 DEF QueueKept
<1>5. ASSUME EditSave(c) PROVE FreshInv' /\ CancelKept
  <2>1. UNCHANGED <<queue, job>> /\ pc[c] \in {"idle", "confirm", "edit"}
    BY <1>5 DEF EditSave, Accepts
  <2>2. track' = track \/ track' = [track EXCEPT ![c] = "queued"]
    BY <1>5 DEF EditSave
  <2>3. c \in Jobs => track[c] = "none"
    BY <2>1 DEF FreshInv
  <2>4. /\ \A j \in Jobs : track[j] = "cancelled" => track'[j] = "cancelled"
        /\ \A j \in Jobs \ {c} : track[j] = "none" => track'[j] = "none"
    BY <2>2, <2>3 DEF TypeInv, TypeOK
  <2>5. \E p \in {"confirm", "enqueue", "done"} :
            pc' = [pc EXCEPT ![c] = p] /\ (p = "confirm" => UNCHANGED track)
    BY <1>5 DEF EditSave
  <2> QED BY <1>2, <2>1, <2>4, <2>5 DEF QueueKept
<1>6. ASSUME Cancel(c) PROVE FreshInv' /\ CancelKept
  <2>1. PICK j \in Jobs : /\ track[j] # "none"
                         /\ track' = [track EXCEPT ![j] = "cancelled"]
                         /\ job' = [job EXCEPT ![c] = j]
    BY <1>6 DEF Cancel
  <2>2. UNCHANGED queue /\ pc' = [pc EXCEPT ![c] = "dequeue"]
    BY <1>6 DEF Cancel
  <2>3. /\ \A i \in Jobs : track[i] = "cancelled" => track'[i] = "cancelled"
        /\ \A i \in Jobs \ {c} : track[i] = "none" => track'[i] = "none"
    BY <2>1 DEF TypeInv, TypeOK
  <2>4. \A w \in Workers : job'[w] = job[w]
    BY <1>1, <2>1 DEF TypeInv, TypeOK, Actors
  <2> QED BY <1>2, <2>2, <2>3, <2>4 DEF QueueKept
<1>7. ASSUME Enqueue(c) \/ Dequeue(c) PROVE FreshInv' /\ CancelKept
  <2>1. UNCHANGED <<track, job>> /\ pc' = [pc EXCEPT ![c] = "done"]
    BY <1>7 DEF Enqueue, Dequeue
  <2>2. CASE Enqueue(c)
    <3>1. QueueKept /\ \A j \in Jobs \ {c} : queue'[j] = queue[j]
      <4>1. UNCHANGED queue \/ Move(c, "waiting", NoWorker)
        BY <2>2 DEF Enqueue, Add
      <4>2. c \in Jobs
        BY <2>2 DEF Enqueue, TypeInv, WorkInv
      <4> QED BY <4>1, <4>2, EntryKept DEF QueueKept, TypeInv, TypeOK
    <3> QED BY <1>2, <2>1, <3>1
  <2>3. CASE Dequeue(c)
    <3>1. QueueKept /\ \A j \in Jobs : queue[j].state = "absent" => queue'[j] = queue[j]
      <4>1. \/ UNCHANGED queue
            \/ Move(job[c], "removed", NoWorker) /\ queue[job[c]].state # "absent"
        BY <2>3 DEF Dequeue, Remove
      <4>2. job[c] \in Jobs
        BY <2>3 DEF Dequeue, TypeInv, WorkInv
      <4> QED BY <4>1, <4>2, EntryKept DEF QueueKept, TypeInv, TypeOK
    <3> QED BY <1>2, <2>1, <3>1
  <2> QED BY <1>7, <2>2, <2>3
<1>8. ASSUME EditRead(c) \/ RemoveRead(c) \/ RemoveChunks(c) \/ RemoveDoc(c)
             \/ RequestThrows(c)
      PROVE  FreshInv' /\ CancelKept
  <2>1. UNCHANGED <<queue, track, job>>
    BY <1>8 DEF EditRead, RemoveRead, RemoveChunks, RemoveDoc, RequestThrows
  <2>2. \E p \in {"edit", "removeChunks", "removeDoc", "done", "aborted"} :
            pc' = [pc EXCEPT ![c] = p] /\ (p = "edit" => pc[c] = "idle")
    BY <1>8 DEF EditRead, RemoveRead, RemoveChunks, RemoveDoc, RequestThrows, Accepts
  <2> QED BY <1>2, <2>1, <2>2 DEF QueueKept
<1> QED BY <1>2, <1>3, <1>4, <1>5, <1>6, <1>7, <1>8 DEF ClientStep, Request

LEMMA FreshStep ==
    ASSUME TypeInv, FreshInv, Next
    PROVE  FreshInv' /\ CancelKept
<1>1. ASSUME NEW j \in Jobs, StalledCheck(j) PROVE FreshInv' /\ CancelKept
  <2>1. QueueKept /\ \A i \in Jobs : queue[i].state = "absent" => queue'[i] = queue[i]
    BY <1>1 DEF StalledCheck, Stall, QueueKept, TypeInv, TypeOK, QueueTypeOK, Entry
  <2>2. UNCHANGED <<track, pc, job>>
    BY <1>1 DEF StalledCheck, actorVars
  <2>3. \A w \in Workers : pc[w] # "idle" => job[w] \in Jobs
    BY DEF TypeInv, TypeOK
  <2> QED BY <2>1, <2>2, <2>3 DEF FreshInv, CancelKept, QueueKept
<1>2. ASSUME Restart \/ FindStuck \/ \E d \in Docs : CleanUp(d)
      PROVE  FreshInv' /\ CancelKept
  BY <1>2 DEF Restart, FindStuck, CleanUp, actorVars, FreshInv, CancelKept
<1>3. ASSUME Crash PROVE FreshInv' /\ CancelKept
  BY <1>3, FreshDies DEF Crash
<1> QED BY <1>1, <1>2, <1>3, FreshWorker, FreshClient DEF Next

(* While its process lives, the map forgets no cancel: neither the worker, *)
(* whatever it does with the job, nor any other request overwrites it.     *)
THEOREM CancelSafety == Spec => CancelIsRemembered
<1>1. Init => FreshInv
  BY KbAssumption DEF Init, FreshInv, QueueInit, Actors
<1>2. TypeInv /\ FreshInv /\ [Next]_vars =>
         /\ FreshInv'
         /\ [\A j \in Jobs : track[j] = "cancelled" /\ server' # "down" =>
                             track'[j] = "cancelled"]_vars
  <2> SUFFICES ASSUME TypeInv, FreshInv, [Next]_vars
               PROVE  FreshInv' /\ [CancelKept]_vars
    BY DEF CancelKept, Dies
  <2>1. CASE UNCHANGED vars
    BY <2>1 DEF vars, FreshInv, actorVars, workVars
  <2> QED BY <2>1, FreshStep
<1> QED BY <1>1, <1>2, InitTypeInv, TypeStep, PTL DEF Spec, CancelIsRemembered

-------------------------------------------------------------------------------
(* A job that the map says is being processed is in the hands of a worker  *)
(* that has not yet told the map its outcome; and a worker that gives up   *)
(* on a canceled job finds it canceled in the map to the end.              *)
TrackedInv ==
    /\ \A w \in Workers : pc[w] \in {"cancelled", "saveCancelled"} =>
                             track[job[w]] = "cancelled"
    /\ \A j \in Jobs : track[j] = "processing" =>
          \E w \in Workers : job[w] = j /\ pc[w] \notin {"idle", "ack", "throw"}

LEMMA TrackedDies ==
    ASSUME Dies PROVE TrackedInv'
<1>1. \A w \in Workers : pc'[w] = "idle"
  BY DEF Dies, Actors
<1> QED BY <1>1 DEF Dies, TrackedInv

(* A worker that goes on with its job.                                     *)
LEMMA TrackedGoesOn ==
    ASSUME TypeInv, TrackedInv, NEW w \in Workers, pc[w] # "idle", UNCHANGED job,
           NEW p, p # "idle", pc' = [pc EXCEPT ![w] = p],
           \/ /\ UNCHANGED track
              /\ p \in {"ack", "throw"} => track[job[w]] # "processing"
           \/ \E s : Tracked(job[w], s) /\ s # "processing",
           p \in {"cancelled", "saveCancelled"} => track[job[w]] = "cancelled"
    PROVE  TrackedInv'
<1>1. job[w] \in Jobs /\ w \in Actors
  BY DEF TypeInv, TypeOK, Actors
<1>2. \A v \in Workers : pc'[v] = IF v = w THEN p ELSE pc[v]
  BY <1>1 DEF TypeInv, TypeOK, Actors
<1>3. /\ \A j \in Jobs : track[j] = "cancelled" => track'[j] = "cancelled"
      /\ \A j \in Jobs : track'[j] = "processing" => track[j] = "processing"
      /\ p \in {"ack", "throw"} => track'[job[w]] # "processing"
  BY <1>1 DEF TypeInv, TypeOK, Tracked
<1>4. ASSUME NEW v \in Workers, pc'[v] \in {"cancelled", "saveCancelled"}
      PROVE  track'[job[v]] = "cancelled"
  <2>1. job[v] \in Jobs
    BY <1>2, <1>4 DEF TypeInv, TypeOK
  <2> QED BY <1>1, <1>2, <1>3, <1>4, <2>1 DEF TrackedInv
<1>5. ASSUME NEW j \in Jobs, track'[j] = "processing"
      PROVE  \E v \in Workers : job'[v] = j /\ pc'[v] \notin {"idle", "ack", "throw"}
  <2>1. PICK v \in Workers : job[v] = j /\ pc[v] \notin {"idle", "ack", "throw"}
    BY <1>3, <1>5 DEF TrackedInv
  <2> QED BY <1>2, <1>3, <1>5, <2>1
<1> QED BY <1>4, <1>5 DEF TrackedInv

LEMMA TrackedWorker ==
    ASSUME "db" \notin Faults, TypeInv, TrackedInv, NEW w \in Workers, WorkerStep(w)
    PROVE  TrackedInv'
<1> USE DEF Goto
<1>1. w \in Actors /\ pc = [pc EXCEPT ![w] = pc[w]]
  BY DEF Actors, TypeInv, TypeOK
<1>2. ASSUME NEW j \in Jobs, Start(w, j) PROVE TrackedInv'
  <2>1. /\ pc'[w] = "load" /\ job'[w] = j /\ pc[w] = "idle"
        /\ \A v \in Workers \ {w} : pc'[v] = pc[v] /\ job'[v] = job[v]
    BY <1>1, <1>2 DEF Start, TypeInv, TypeOK, Actors
  <2>2. /\ \A i \in Jobs \ {j} : track'[i] = track[i]
        /\ track[j] = "cancelled" => track'[j] = "cancelled"
    BY <1>2 DEF Start, Tracked, TypeInv, TypeOK
  <2>3. \A v \in Workers : pc[v] # "idle" => job[v] \in Jobs
    BY DEF TypeInv, TypeOK
  <2> QED BY <2>1, <2>2, <2>3 DEF TrackedInv
<1>3. ASSUME EndJob(w) PROVE TrackedInv'
  <2>1. /\ pc'[w] = "idle" /\ pc[w] \in {"ack", "throw"} /\ UNCHANGED track
        /\ \A v \in Workers \ {w} : pc'[v] = pc[v] /\ job'[v] = job[v]
    BY <1>1, <1>3 DEF EndJob, TypeInv, TypeOK, Actors
  <2> QED BY <2>1 DEF TrackedInv
<1>4. ASSUME Load(w) \/ Mark(w) \/ Extract(w) \/ SaveText(w) \/ WorkThrows(w)
      PROVE  TrackedInv'
  <2>1. pc[w] # "idle" /\ UNCHANGED <<job, track>>
    BY <1>4 DEF Load, Mark, Extract, SaveText, WorkThrows
  <2>2. \E p \in {"mark", "failed", "cancelled", "extract", "chunk", "saveText"} :
            /\ pc' = [pc EXCEPT ![w] = p]
            /\ p = "cancelled" => track[job[w]] = "cancelled"
    BY <1>4 DEF Load, Mark, Extract, SaveText, WorkThrows, Check
  <2> QED BY <2>1, <2>2, TrackedGoesOn
<1>5. ASSUME SaveChunks(w) \/ EmbedChunks(w) PROVE TrackedInv'
  <2>1. CASE Dies
    BY <2>1, TrackedDies
  <2>2. CASE ~ Dies
    <3>1. pc[w] \in {"chunk", "embed"} /\ UNCHANGED <<job, track>>
      BY <1>5, <2>2 DEF SaveChunks, EmbedChunks
    <3>2. \E p \in {"chunk", "embed", "cancelled", "complete", "failed"} :
              /\ pc' = [pc EXCEPT ![w] = p]
              /\ p = "cancelled" => track[job[w]] = "cancelled"
      BY <1>1, <1>5, <2>2, <3>1 DEF SaveChunks, EmbedChunks
    <3> QED BY <3>1, <3>2, TrackedGoesOn
  <2> QED BY <2>1, <2>2
<1>6. ASSUME Complete(w) PROVE TrackedInv'
  <2>1. /\ pc[w] # "idle" /\ UNCHANGED job
        /\ pc' = [pc EXCEPT ![w] = "ack"] /\ Tracked(job[w], "completed")
    BY <1>6 DEF Complete
  <2>2. \E s : Tracked(job[w], s) /\ s # "processing"
    BY <2>1
  <2> QED BY <2>1, <2>2, TrackedGoesOn
<1>7. ASSUME CatchRead(w) PROVE TrackedInv'
  <2>1. pc[w] \in {"cancelled", "failed"} /\ UNCHANGED job
    BY <1>7 DEF CatchRead
  <2>2. pc[w] = "cancelled" => track[job[w]] = "cancelled"
    BY DEF TrackedInv
  <2>3. PICK p \in {"saveFailed", "saveCancelled", "ack", "throw"} :
            /\ pc' = [pc EXCEPT ![w] = p]
            /\ p \in {"saveCancelled", "ack"} => pc[w] = "cancelled"
            /\ IF p = "throw" THEN Tracked(job[w], "failed") ELSE UNCHANGED track
    BY <1>7 DEF CatchRead
  <2>4. CASE p = "throw"
    <3>1. \E s : Tracked(job[w], s) /\ s # "processing"
      BY <2>3, <2>4
    <3> QED BY <2>1, <2>3, <2>4, <3>1, TrackedGoesOn
  <2>5. CASE p # "throw"
    BY <2>1, <2>2, <2>3, <2>5, TrackedGoesOn
  <2> QED BY <2>4, <2>5
<1>8. ASSUME CatchSave(w) PROVE TrackedInv'
  <2>1. pc[w] \in {"saveFailed", "saveCancelled"} /\ UNCHANGED job
    BY <1>8 DEF CatchSave
  <2>2. pc[w] = "saveCancelled" => track[job[w]] = "cancelled"
    BY DEF TrackedInv
  <2>3. PICK p \in {"ack", "throw"} :
            /\ pc' = [pc EXCEPT ![w] = p]
            /\ IF p = "throw" THEN Tracked(job[w], "failed")
                              ELSE pc[w] = "saveCancelled" /\ UNCHANGED track
    BY <1>8 DEF CatchSave
  <2>4. CASE p = "throw"
    <3>1. \E s : Tracked(job[w], s) /\ s # "processing"
      BY <2>3, <2>4
    <3> QED BY <2>1, <2>3, <2>4, <3>1, TrackedGoesOn
  <2>5. CASE p # "throw"
    BY <2>1, <2>2, <2>3, <2>5, TrackedGoesOn
  <2> QED BY <2>4, <2>5
<1>9. ASSUME CatchThrows(w) PROVE FALSE
  BY <1>9 DEF CatchThrows, Fault
<1> QED BY <1>2, <1>3, <1>4, <1>5, <1>6, <1>7, <1>8, <1>9 DEF WorkerStep

LEMMA TrackedStep ==
    ASSUME "db" \notin Faults, TypeInv, FreshInv, TrackedInv, Next
    PROVE  TrackedInv'
<1>1. CASE Dies
  BY <1>1, TrackedDies
<1>2. ASSUME ~ Dies, \A w \in Workers : pc'[w] = pc[w] /\ job'[w] = job[w],
             \A j \in Jobs : track'[j] = "processing" => track[j] = "processing"
      PROVE  TrackedInv'
  <2>1. \A j \in Jobs : track[j] = "cancelled" => track'[j] = "cancelled"
    BY <1>2, FreshStep DEF CancelKept
  <2>2. \A w \in Workers : pc[w] # "idle" => job[w] \in Jobs
    BY DEF TypeInv, TypeOK
  <2> QED BY <1>2, <2>1, <2>2 DEF TrackedInv
<1>3. ASSUME NEW c \in Clients, ClientStep(c) \/ Request(c), ~ Dies PROVE TrackedInv'
  <2> USE DEF Goto
  <2>1. c \notin Workers
    BY KbAssumption
  <2>2. /\ \E p : pc' = [pc EXCEPT ![c] = p]
        /\ job' = job \/ \E j : job' = [job EXCEPT ![c] = j]
        /\ \/ UNCHANGED track
           \/ \E s \in {"queued", "cancelled"} : \E j : track' = [track EXCEPT ![j] = s]
    <3>1. CASE Create(c)
      BY <3>1 DEF Create
    <3>2. CASE EditRead(c)
      BY <3>2 DEF EditRead
    <3>3. CASE RemoveRead(c)
      BY <3>3 DEF RemoveRead
    <3>4. CASE Cancel(c)
      BY <3>4 DEF Cancel
    <3>5. CASE Confirm(c)
      BY <3>5 DEF Confirm
    <3>6. CASE Enqueue(c)
      BY <3>6 DEF Enqueue
    <3>7. CASE EditSave(c)
      BY <3>7 DEF EditSave
    <3>8. CASE RemoveChunks(c)
      BY <3>8 DEF RemoveChunks
    <3>9. CASE RemoveDoc(c)
      BY <3>9 DEF RemoveDoc
    <3>10. CASE Dequeue(c)
      BY <3>10 DEF Dequeue
    <3>11. CASE RequestThrows(c)
      BY <3>11 DEF RequestThrows
    <3> QED
      BY <1>3, <3>1, <3>2, <3>3, <3>4, <3>5, <3>6, <3>7, <3>8, <3>9, <3>10, <3>11
         DEF ClientStep, Request
  <2>3. \A w \in Workers : pc'[w] = pc[w] /\ job'[w] = job[w]
    BY <2>1, <2>2 DEF TypeInv, TypeOK, Actors
  <2>4. \A j \in Jobs : track'[j] = "processing" => track[j] = "processing"
    BY <2>2 DEF TypeInv, TypeOK
  <2> QED BY <1>2, <1>3, <2>3, <2>4
<1>4. ASSUME Restart \/ FindStuck \/ (\E d \in Docs : CleanUp(d)) \/ (\E j \in Jobs : StalledCheck(j)),
             ~ Dies
      PROVE  TrackedInv'
  <2>1. UNCHANGED <<track, pc, job>>
    BY <1>4 DEF Restart, FindStuck, CleanUp, StalledCheck, actorVars
  <2> QED BY <1>2, <1>4, <2>1
<1>5. CASE Crash
  BY <1>5, TrackedDies DEF Crash
<1> QED BY <1>1, <1>3, <1>4, <1>5, TrackedWorker DEF Next

(* Where no call of a catch block fails, the list of jobs that the user    *)
(* sees never shows a job as being processed that nobody works on.         *)
THEOREM TrackedSafety ==
    ASSUME "db" \notin Faults PROVE Spec => []TrackedIsAlive
<1>1. Init => FreshInv /\ TrackedInv
  BY KbAssumption DEF Init, FreshInv, TrackedInv, QueueInit, Actors
<1>2. TypeInv /\ FreshInv /\ TrackedInv /\ [Next]_vars => (FreshInv /\ TrackedInv)'
  <2> SUFFICES ASSUME TypeInv, FreshInv, TrackedInv, [Next]_vars
               PROVE  FreshInv' /\ TrackedInv'
    OBVIOUS
  <2>1. CASE UNCHANGED vars
    BY <2>1 DEF vars, FreshInv, TrackedInv
  <2> QED BY <2>1, FreshStep, TrackedStep
<1>3. TrackedInv => TrackedIsAlive
  BY DEF TrackedInv, TrackedIsAlive, Working
<1> QED BY <1>1, <1>2, <1>3, InitTypeInv, TypeStep, PTL DEF Spec

-------------------------------------------------------------------------------
(* The batch p of a text, or an embedded one, of the pass r over job j is  *)
(* among the chunks S.                                                     *)
Batch(S, j, r, t, p) ==
    \E k \in S : k.job = j /\ k.run = r /\ k.text = t /\ k.part = p
Embedded(S, j, r, t) ==
    \E k \in S : k.job = j /\ k.run = r /\ k.text = t /\ k.embedded

(* A document like r is indexed by the chunks S, if it says COMPLETED.     *)
Sound(S, d, r) ==
    r.status = "completed" =>
        /\ r.count = Parts
        /\ \E j \in Jobs, n \in 0 .. MaxStalls + 1 :
              /\ DocOf[j] = d
              /\ \A p \in 1 .. Parts : Batch(S, j, n, r.text, p)
              /\ Embedded(S, j, n, r.text)

(* What a worker at p has put into the chunks S so far, when it has done n *)
(* batches of the loop it is in and g says whether one is embedded.        *)
Pass(S, p, j, r, t, n, g) ==
    /\ p = "chunk" => \A i \in 1 .. n : Batch(S, j, r, t, i)
    /\ p \in {"embed", "complete"} => \A i \in 1 .. Parts : Batch(S, j, r, t, i)
    /\ p = "complete" \/ (p = "embed" /\ g) => Embedded(S, j, r, t)

Removing(d) == \E c \in Clients : DocOf[c] = d /\ Op[c] = "remove" /\ pc[c] # "idle"

(* Chunks are never lost but by a remove, which takes those of its own     *)
(* document; a worker finds the chunks of its pass where it put them; and  *)
(* the only old copy that may say COMPLETED is that of an edit.            *)
RequestSound(c) ==
    /\ pc[c] \in {"removeChunks", "removeDoc"} => Op[c] = "remove"
    /\ \A k \in found[c] : DocOf[k.job] = DocOf[c]
    /\ pc[c] = "edit" => Removing(DocOf[c]) \/ Sound(chunks, DocOf[c], copy[c])

DocumentSound(d) == Removing(d) \/ Sound(chunks, d, doc[d])

PassSound(w) ==
    /\ pc[w] \notin {"chunk", "embed", "complete", "failed", "cancelled", "saveFailed",
                     "saveCancelled", "ack", "throw"} => part[w] = 0 /\ ~ good[w]
    /\ pc[w] = "chunk" => ~ good[w]
    /\ pc[w] \in {"extract", "saveText"} => copy[w].status = "processing"
    /\ \/ pc[w] = "idle" \/ Removing(DocOf[job[w]])
       \/ Pass(chunks, pc[w], job[w], run[w], copy[w].text, part[w], good[w])

IndexInv ==
    /\ \A c \in Clients : RequestSound(c)
    /\ \A d \in Docs : DocumentSound(d)
    /\ \A w \in Workers : PassSound(w)

(* The chunks T have for the document d what S has.                        *)
Grows(S, T, d) ==
    \A j \in Jobs : DocOf[j] = d =>
        \A r, t : /\ \A p : Batch(S, j, r, t, p) => Batch(T, j, r, t, p)
                  /\ Embedded(S, j, r, t) => Embedded(T, j, r, t)

LEMMA GrowsSound ==
    ASSUME NEW S, NEW T, NEW d, NEW r, Grows(S, T, d), Sound(S, d, r)
    PROVE  Sound(T, d, r)
BY DEF Grows, Sound

LEMMA GrowsPass ==
    ASSUME NEW S, NEW T, NEW j \in Jobs, Grows(S, T, DocOf[j]),
           NEW p, NEW r, NEW t, NEW n, NEW g, Pass(S, p, j, r, t, n, g)
    PROVE  Pass(T, p, j, r, t, n, g)
BY DEF Grows, Pass

LEMMA GrowsSubset ==
    ASSUME NEW S, NEW T, NEW d, S \subseteq T
    PROVE  Grows(S, T, d)
BY DEF Grows, Batch, Embedded

(* Saving a chunk again with its embedding keeps what there was.           *)
LEMMA EmbedGrows ==
    ASSUME TypeInv, NEW w \in Workers, NEW ok \in BOOLEAN, NEW p, NEW d,
           chunks' = (chunks \ {Chunk(w, p, FALSE)}) \cup {Chunk(w, p, ok)}
    PROVE  Grows(chunks, chunks', d)
<1> DEFINE a == Chunk(w, p, FALSE)
           b == Chunk(w, p, ok)
<1>1. /\ b.job = a.job /\ b.run = a.run /\ b.text = a.text /\ b.part = a.part
      /\ ~ a.embedded
  BY DEF Chunk
<1> HIDE DEF a, b
<1>2. chunks' = (chunks \ {a}) \cup {b}
  BY DEF a, b
<1>3. ASSUME NEW k \in chunks
      PROVE  \E l \in chunks' : /\ l.job = k.job /\ l.run = k.run
                                /\ l.text = k.text /\ l.part = k.part
                                /\ k.embedded => l.embedded
  <2>1. CASE k = a
    BY <1>1, <1>2, <2>1
  <2>2. CASE k # a
    BY <1>2, <2>2
  <2> QED BY <2>1, <2>2
<1>4. \A j, r, t, q : Batch(chunks, j, r, t, q) => Batch(chunks', j, r, t, q)
  <2> SUFFICES ASSUME NEW j, NEW r, NEW t, NEW q, Batch(chunks, j, r, t, q)
               PROVE  Batch(chunks', j, r, t, q)
    OBVIOUS
  <2>1. PICK k \in chunks : k.job = j /\ k.run = r /\ k.text = t /\ k.part = q
    BY DEF Batch
  <2>2. \E l \in chunks' : l.job = j /\ l.run = r /\ l.text = t /\ l.part = q
    BY <1>3, <2>1
  <2> QED BY <2>2 DEF Batch
<1>5. \A j, r, t : Embedded(chunks, j, r, t) => Embedded(chunks', j, r, t)
  <2> SUFFICES ASSUME NEW j, NEW r, NEW t, Embedded(chunks, j, r, t)
               PROVE  Embedded(chunks', j, r, t)
    OBVIOUS
  <2>1. PICK k \in chunks : k.job = j /\ k.run = r /\ k.text = t /\ k.embedded
    BY DEF Embedded
  <2>2. \E l \in chunks' : l.job = j /\ l.run = r /\ l.text = t /\ l.embedded
    BY <1>3, <2>1
  <2> QED BY <2>2 DEF Embedded
<1> QED BY <1>4, <1>5 DEF Grows

(* A document that is not being removed was not being removed, and keeps   *)
(* its chunks.                                                             *)
EvidenceKept ==
    \A d \in Docs : ~ Removing(d)' => ~ Removing(d) /\ Grows(chunks, chunks', d)

LEMMA EvidenceStays ==
    ASSUME TypeInv, IndexInv, Next
    PROVE  EvidenceKept
<1> USE DEF Goto
<1>1. ASSUME UNCHANGED chunks \/ (\E k : chunks' = chunks \cup {k}),
             \A c \in Clients : pc[c] # "idle" => pc'[c] # "idle"
      PROVE  EvidenceKept
  BY <1>1, GrowsSubset DEF EvidenceKept, Removing
<1>2. ASSUME NEW w \in Workers, WorkerStep(w) PROVE EvidenceKept
  <2>1. w \notin Clients
    BY KbAssumption
  <2>2. CASE EmbedChunks(w)
    <3>1. \A d : Grows(chunks, chunks', d)
      BY <2>2, EmbedGrows DEF EmbedChunks
    <3>2. \A c \in Clients : pc[c] # "idle" => pc'[c] # "idle"
      <4>1. CASE Dies
        BY <4>1, KbAssumption DEF Dies, Actors
      <4>2. CASE ~ Dies
        BY <2>1, <2>2, <4>2 DEF EmbedChunks, TypeInv, TypeOK, Actors
      <4> QED BY <4>1, <4>2
    <3> QED BY <3>1, <3>2 DEF EvidenceKept, Removing
  <2>3. CASE ~ EmbedChunks(w)
    <3>1. UNCHANGED chunks \/ (\E k : chunks' = chunks \cup {k})
      BY <1>2, <2>3 DEF WorkerStep, Start, Load, Mark, Extract, SaveText, SaveChunks,
                        Complete, WorkThrows, CatchRead, CatchSave, CatchThrows, EndJob
    <3>2. \E p : pc' = [pc EXCEPT ![w] = p]
      <4>1. ASSUME NEW j \in Jobs, Start(w, j) PROVE \E p : pc' = [pc EXCEPT ![w] = p]
        BY <4>1 DEF Start
      <4>2. CASE Load(w) \/ Mark(w) \/ Extract(w) \/ SaveText(w)
        BY <4>2 DEF Load, Mark, Extract, SaveText, Check
      <4>3. CASE SaveChunks(w)
        <5>1. pc' = [pc EXCEPT ![w] = "chunk"] \/ \E p : pc' = [pc EXCEPT ![w] = p]
          BY <4>3 DEF SaveChunks, TypeInv, TypeOK, Actors
        <5> QED BY <5>1
      <4>4. CASE Complete(w) \/ WorkThrows(w) \/ CatchSave(w) \/ CatchThrows(w) \/ EndJob(w)
        BY <4>4 DEF Complete, WorkThrows, CatchSave, CatchThrows, EndJob
      <4>5. CASE CatchRead(w)
        BY <4>5 DEF CatchRead
      <4> QED BY <1>2, <2>3, <4>1, <4>2, <4>3, <4>4, <4>5 DEF WorkerStep
    <3> QED BY <1>1, <2>1, <3>1, <3>2 DEF TypeInv, TypeOK, Actors
  <2> QED BY <2>2, <2>3
<1>3. ASSUME NEW c \in Clients, RemoveChunks(c) PROVE EvidenceKept
  <2>1. Removing(DocOf[c])'
    BY <1>3 DEF RemoveChunks, Removing, IndexInv, RequestSound, TypeInv, TypeOK, Actors
  <2>2. \A e \in Clients : pc[e] # "idle" => pc'[e] # "idle"
    BY <1>3 DEF RemoveChunks, TypeInv, TypeOK, Actors
  <2>3. ASSUME NEW d \in Docs, d # DocOf[c] PROVE Grows(chunks, chunks', d)
    <3>1. ASSUME NEW k \in chunks, DocOf[k.job] = d PROVE k \in chunks'
      <4>1. \A f \in found[c] : f.job # k.job
        BY <1>3, <2>3, <3>1 DEF IndexInv, RequestSound
      <4> QED BY <1>3, <4>1 DEF RemoveChunks, Row
    <3> QED BY <3>1 DEF Grows, Batch, Embedded
  <2> QED BY <2>1, <2>2, <2>3 DEF EvidenceKept, Removing
<1>4. ASSUME NEW c \in Clients, ClientStep(c) \/ Request(c), ~ RemoveChunks(c)
      PROVE  EvidenceKept
  <2> DEFINE Moves == UNCHANGED chunks /\ \E p : p # "idle" /\ pc' = [pc EXCEPT ![c] = p]
  <2>1. ASSUME Create(c) PROVE Moves
    BY <2>1 DEF Create
  <2>2. ASSUME EditRead(c) PROVE Moves
    BY <2>2 DEF EditRead
  <2>3. ASSUME RemoveRead(c) PROVE Moves
    BY <2>3 DEF RemoveRead
  <2>4. ASSUME Cancel(c) PROVE Moves
    BY <2>4 DEF Cancel
  <2>5. ASSUME Confirm(c) PROVE Moves
    BY <2>5 DEF Confirm
  <2>6. ASSUME Enqueue(c) PROVE Moves
    BY <2>6 DEF Enqueue
  <2>7. ASSUME EditSave(c) PROVE Moves
    <3>1. pc' = [pc EXCEPT ![c] = "done"] \/ pc' = [pc EXCEPT ![c] = "enqueue"]
      BY <2>7 DEF EditSave, Save
    <3>2. UNCHANGED chunks
      BY <2>7 DEF EditSave, Save
    <3> QED BY <3>1, <3>2
  <2>8. ASSUME RemoveDoc(c) PROVE Moves
    BY <2>8 DEF RemoveDoc
  <2>9. ASSUME Dequeue(c) PROVE Moves
    BY <2>9 DEF Dequeue
  <2>10. ASSUME RequestThrows(c) PROVE Moves
    BY <2>10 DEF RequestThrows
  <2>11. Moves
    BY <1>4, <2>1, <2>2, <2>3, <2>4, <2>5, <2>6, <2>7, <2>8, <2>9, <2>10
       DEF ClientStep, Request
  <2> QED BY <1>1, <2>11 DEF TypeInv, TypeOK, Actors
<1>5. ASSUME \/ \E j \in Jobs : StalledCheck(j)
             \/ \E d \in Docs : CleanUp(d)
             \/ Restart \/ FindStuck
      PROVE  EvidenceKept
  BY <1>1, <1>5 DEF StalledCheck, CleanUp, Restart, FindStuck, actorVars
<1>6. CASE Crash
  <2>1. \A c \in Clients : pc[c] # "idle" => pc'[c] # "idle"
    BY <1>6, KbAssumption DEF Crash, Dies, TypeInv, TypeOK, Actors
  <2> QED BY <1>1, <1>6, <2>1 DEF Crash
<1> QED BY <1>2, <1>3, <1>4, <1>5, <1>6 DEF Next

LEMMA RequestKept ==
    ASSUME EvidenceKept, NEW c \in Clients, RequestSound(c), found'[c] \subseteq found[c],
           pc'[c] \in {"removeChunks", "removeDoc"} => Op[c] = "remove",
           pc'[c] = "edit" => pc[c] = "edit" /\ copy'[c] = copy[c]
    PROVE  RequestSound(c)'
<1>1. DocOf[c] \in Docs
  BY KbAssumption
<1>2. CASE pc'[c] # "edit"
  BY <1>2 DEF RequestSound
<1>3. CASE pc'[c] = "edit" /\ ~ Removing(DocOf[c])'
  <2>1. Sound(chunks, DocOf[c], copy'[c]) /\ Grows(chunks, chunks', DocOf[c])
    BY <1>1, <1>3 DEF EvidenceKept, RequestSound
  <2>2. Sound(chunks', DocOf[c], copy'[c])
    BY <2>1, GrowsSound
  <2> QED BY <2>2 DEF RequestSound
<1>4. CASE pc'[c] = "edit" /\ Removing(DocOf[c])'
  BY <1>4 DEF RequestSound
<1> QED BY <1>2, <1>3, <1>4

LEMMA DocumentKept ==
    ASSUME EvidenceKept, NEW d \in Docs, DocumentSound(d),
           doc'[d] = doc[d] \/ DocumentSound(d)'
    PROVE  DocumentSound(d)'
<1>1. CASE Removing(d)' \/ Sound(chunks', d, doc'[d])
  BY <1>1 DEF DocumentSound
<1>2. CASE ~ Removing(d)' /\ doc'[d] = doc[d]
  <2>1. Sound(chunks, d, doc'[d]) /\ Grows(chunks, chunks', d)
    BY <1>2 DEF EvidenceKept, DocumentSound
  <2>2. Sound(chunks', d, doc'[d])
    BY <2>1, GrowsSound
  <2> QED BY <2>2 DEF DocumentSound
<1> QED BY <1>1, <1>2

LEMMA PassKept ==
    ASSUME TypeInv, EvidenceKept, NEW w \in Workers, PassSound(w),
           pc'[w] = pc[w], job'[w] = job[w], run'[w] = run[w], copy'[w] = copy[w],
           part'[w] = part[w], good'[w] = good[w]
    PROVE  PassSound(w)'
<1>1. CASE pc[w] = "idle" \/ Removing(DocOf[job[w]])'
  BY <1>1 DEF PassSound
<1>2. CASE pc[w] # "idle" /\ ~ Removing(DocOf[job[w]])'
  <2>1. job[w] \in Jobs /\ DocOf[job[w]] \in Docs
    BY <1>2, KbAssumption DEF TypeInv, TypeOK
  <2>2. /\ Pass(chunks, pc[w], job[w], run[w], copy[w].text, part[w], good[w])
        /\ Grows(chunks, chunks', DocOf[job[w]])
    BY <1>2, <2>1 DEF EvidenceKept, PassSound
  <2>3. Pass(chunks', pc[w], job[w], run[w], copy[w].text, part[w], good[w])
    BY <2>1, <2>2, GrowsPass
  <2> QED BY <2>3 DEF PassSound
<1> QED BY <1>1, <1>2

(* A worker that goes on elsewhere than in its loops.                      *)
LEMMA PassMoves ==
    ASSUME NEW w \in Workers, pc'[w] \notin {"chunk", "embed", "complete"},
           pc'[w] \notin {"failed", "cancelled", "saveFailed", "saveCancelled", "ack",
                          "throw"} => part'[w] = 0 /\ ~ good'[w],
           pc'[w] \in {"extract", "saveText"} => copy'[w].status = "processing"
    PROVE  PassSound(w)'
BY DEF PassSound, Pass

LEMMA IndexDies ==
    ASSUME TypeInv, IndexInv, EvidenceKept, Dies, UNCHANGED doc
    PROVE  IndexInv'
<1>1. /\ \A w \in Workers : pc'[w] = "idle" /\ part'[w] = 0 /\ ~ good'[w]
      /\ \A c \in Clients : pc'[c] \in {"idle", "done", "aborted"} /\ found'[c] = {}
  BY KbAssumption DEF Dies, Actors
<1>2. \A w \in Workers : PassSound(w)'
  BY <1>1, PassMoves
<1>3. \A c \in Clients : RequestSound(c)'
  BY <1>1, RequestKept DEF IndexInv
<1>4. \A d \in Docs : DocumentSound(d)'
  BY DocumentKept DEF IndexInv
<1> QED BY <1>2, <1>3, <1>4 DEF IndexInv

(* What the batch just saved adds to the pass of a worker.                 *)
LEMMA ChunkAdds ==
    ASSUME NEW w \in Workers, NEW p, NEW e, Chunk(w, p, e) \in chunks'
    PROVE  /\ Batch(chunks', job[w], run[w], copy[w].text, p)
           /\ e => Embedded(chunks', job[w], run[w], copy[w].text)
<1>1. /\ Chunk(w, p, e).job = job[w] /\ Chunk(w, p, e).run = run[w]
      /\ Chunk(w, p, e).text = copy[w].text /\ Chunk(w, p, e).part = p
      /\ Chunk(w, p, e).embedded = e
  BY DEF Chunk
<1> QED BY <1>1 DEF Batch, Embedded

LEMMA LoopTypes ==
    ASSUME TypeInv, NEW w \in Workers, pc[w] \in {"chunk", "embed"}
    PROVE  /\ w \in Actors /\ job[w] \in Jobs /\ DocOf[job[w]] \in Docs
           /\ part[w] \in 0 .. Parts /\ part[w] < Parts /\ good[w] \in BOOLEAN
<1>1. w \in Actors
  BY DEF Actors
<1>2. job[w] \in Jobs
  BY DEF TypeInv, TypeOK
<1>3. DocOf[job[w]] \in Docs
  BY <1>2, KbAssumption
<1>4. part[w] \in 0 .. Parts /\ part[w] < Parts /\ good[w] \in BOOLEAN
  BY DEF TypeInv, TypeOK, WorkInv
<1> QED BY <1>1, <1>2, <1>3, <1>4

LEMMA ChunkMoves ==
    ASSUME TypeInv, NEW w \in Workers, SaveChunks(w)
    PROVE  /\ pc[w] = "chunk" /\ UNCHANGED <<job, run, copy, good>>
           /\ \/ pc'[w] = "cancelled"
              \/ /\ Chunk(w, part[w] + 1, FALSE) \in chunks'
                 /\ \/ pc'[w] = "chunk" /\ part'[w] = part[w] + 1
                    \/ pc'[w] = "embed" /\ part[w] + 1 = Parts
<1>1. pc[w] = "chunk" /\ UNCHANGED <<job, run, copy, good>>
  BY DEF SaveChunks
<1>2. w \in Actors /\ part[w] \in 0 .. Parts /\ part[w] < Parts /\ Parts \in Nat
  BY <1>1, LoopTypes, KbAssumption
<1>3. pc \in [Actors -> Places] /\ part \in [Workers -> 0 .. Parts]
  BY DEF TypeInv, TypeOK
<1>4. CASE track[job[w]] = "cancelled"
  BY <1>1, <1>2, <1>3, <1>4 DEF SaveChunks, Goto
<1>5. CASE track[job[w]] # "cancelled"
  <2>1. Chunk(w, part[w] + 1, FALSE) \in chunks'
    BY <1>5 DEF SaveChunks
  <2>2. CASE part[w] + 1 < Parts
    BY <1>1, <1>2, <1>3, <1>5, <2>1, <2>2 DEF SaveChunks, Goto
  <2>3. CASE ~ (part[w] + 1 < Parts)
    <3>1. part[w] + 1 = Parts
      BY <1>2, <2>3
    <3>2. pc'[w] = "embed"
      BY <1>2, <1>3, <1>5, <2>3 DEF SaveChunks, Goto
    <3> QED BY <1>1, <2>1, <3>1, <3>2
  <2> QED BY <2>2, <2>3
<1> QED BY <1>4, <1>5

LEMMA EmbedMoves ==
    ASSUME TypeInv, NEW w \in Workers, EmbedChunks(w), ~ Dies
    PROVE  /\ pc[w] = "embed" /\ UNCHANGED <<job, run, copy>>
           /\ \E ok \in BOOLEAN :
                 /\ Chunk(w, part[w] + 1, ok) \in chunks'
                 /\ good'[w] = (good[w] \/ ok)
           /\ \/ pc'[w] = "embed"
              \/ pc'[w] = "complete" /\ good'[w]
              \/ pc'[w] = "failed"
<1>1. pc[w] = "embed" /\ UNCHANGED <<job, run, copy>>
  BY DEF EmbedChunks
<1>2. w \in Actors
  BY DEF Actors
<1>3. pc \in [Actors -> Places] /\ good \in [Workers -> BOOLEAN]
  BY DEF TypeInv, TypeOK
<1>4. PICK ok \in BOOLEAN :
         /\ Chunk(w, part[w] + 1, ok) \in chunks'
         /\ good' = [good EXCEPT ![w] = @ \/ ok]
         /\ \/ UNCHANGED pc
            \/ Goto(w, IF good'[w] THEN "complete" ELSE "failed")
  BY DEF EmbedChunks
<1>5. good'[w] = (good[w] \/ ok)
  BY <1>3, <1>4
<1>6. CASE UNCHANGED pc
  BY <1>1, <1>4, <1>5, <1>6
<1>7. CASE Goto(w, IF good'[w] THEN "complete" ELSE "failed")
  BY <1>1, <1>2, <1>3, <1>4, <1>5, <1>7 DEF Goto
<1> QED BY <1>4, <1>6, <1>7

LEMMA LoopStep ==
    ASSUME TypeInv, IndexInv, EvidenceKept, NEW w \in Workers, ~ Dies,
           SaveChunks(w) \/ EmbedChunks(w)
    PROVE  PassSound(w)'
<1>1. /\ pc[w] \in {"chunk", "embed"} /\ UNCHANGED <<job, run, copy>>
  BY DEF SaveChunks, EmbedChunks
<1>2. /\ DocOf[job[w]] \in Docs /\ job[w] \in Jobs /\ good[w] \in BOOLEAN
      /\ part[w] \in 0 .. Parts /\ part[w] < Parts /\ Parts \in Nat
  BY <1>1, LoopTypes, KbAssumption
<1>3. /\ pc[w] = "chunk" => ~ good[w]
      /\ \/ Removing(DocOf[job[w]])
         \/ Pass(chunks, pc[w], job[w], run[w], copy[w].text, part[w], good[w])
  BY <1>1 DEF IndexInv, PassSound
<1>4. pc'[w] = "chunk" => ~ good'[w]
  BY <1>1, <1>3, ChunkMoves, EmbedMoves
<1>5. pc'[w] \in {"chunk", "embed", "complete", "failed", "cancelled"}
  BY ChunkMoves, EmbedMoves
<1>6. ASSUME \/ Removing(DocOf[job[w]])'
             \/ Pass(chunks', pc'[w], job[w], run[w], copy[w].text, part'[w], good'[w])
      PROVE  PassSound(w)'
  BY <1>1, <1>4, <1>5, <1>6 DEF PassSound
<1>7. CASE Removing(DocOf[job[w]])'
  BY <1>6, <1>7
<1>8. CASE ~ Removing(DocOf[job[w]])'
  <2>1. /\ Pass(chunks, pc[w], job[w], run[w], copy[w].text, part[w], good[w])
        /\ Grows(chunks, chunks', DocOf[job[w]])
    <3>1. ASSUME NEW d \in Docs, d = DocOf[job[w]]
          PROVE  ~ Removing(d) /\ Grows(chunks, chunks', d)
      <4>1. DocOf[job'[w]] = d
        BY <1>1, <3>1
      <4>2. ~ Removing(d)'
        BY <1>8, <4>1 DEF Removing
      <4> QED BY <4>2 DEF EvidenceKept
    <3> QED BY <1>2, <1>3, <3>1
  <2>2. Pass(chunks', pc[w], job[w], run[w], copy[w].text, part[w], good[w])
    BY <1>2, <2>1, GrowsPass
  <2>3. CASE SaveChunks(w)
    <3>1. CASE pc'[w] = "cancelled"
      <4>1. Pass(chunks', pc'[w], job[w], run[w], copy[w].text, part'[w], good'[w])
        BY <3>1 DEF Pass
      <4> QED BY <1>6, <4>1
    <3>2. CASE pc'[w] # "cancelled"
      <4>1. /\ pc[w] = "chunk" /\ Chunk(w, part[w] + 1, FALSE) \in chunks'
            /\ \/ pc'[w] = "chunk" /\ part'[w] = part[w] + 1
               \/ pc'[w] = "embed" /\ part[w] + 1 = Parts
            /\ good' = good
        BY <2>3, <3>2, ChunkMoves
      <4>2. Batch(chunks', job[w], run[w], copy[w].text, part[w] + 1)
        BY <4>1, ChunkAdds
      <4>3. \A i \in 1 .. part[w] + 1 : Batch(chunks', job[w], run[w], copy[w].text, i)
        BY <1>2, <2>2, <4>1, <4>2 DEF Pass
      <4>4. ~ good'[w]
        BY <1>3, <4>1
      <4>5. Pass(chunks', pc'[w], job[w], run[w], copy[w].text, part'[w], good'[w])
        BY <4>1, <4>3, <4>4 DEF Pass
      <4> QED BY <1>6, <4>5
    <3> QED BY <3>1, <3>2
  <2>4. CASE EmbedChunks(w)
    <3>1. pc[w] = "embed"
      BY <2>4, EmbedMoves
    <3>2. PICK ok \in BOOLEAN : /\ Chunk(w, part[w] + 1, ok) \in chunks'
                                /\ good'[w] = (good[w] \/ ok)
      BY <2>4, EmbedMoves
    <3>3. ok => Embedded(chunks', job[w], run[w], copy[w].text)
      BY <3>2, ChunkAdds
    <3>4. good'[w] => Embedded(chunks', job[w], run[w], copy[w].text)
      BY <2>2, <3>1, <3>2, <3>3 DEF Pass
    <3>5. \A i \in 1 .. Parts : Batch(chunks', job[w], run[w], copy[w].text, i)
      BY <2>2, <3>1 DEF Pass
    <3>6. pc'[w] \in {"embed", "failed"} \/ (pc'[w] = "complete" /\ good'[w])
      BY <2>4, EmbedMoves
    <3>7. Pass(chunks', pc'[w], job[w], run[w], copy[w].text, part'[w], good'[w])
      BY <3>4, <3>5, <3>6 DEF Pass
    <3> QED BY <1>6, <3>7
  <2> QED BY <2>3, <2>4
<1> QED BY <1>7, <1>8

(* Nothing of the work of an actor but a has changed.                      *)
Alone(a) ==
    /\ \A b \in Actors \ {a} : pc'[b] = pc[b] /\ job'[b] = job[b] /\ copy'[b] = copy[b]
    /\ \A w \in Workers \ {a} : /\ run'[w] = run[w] /\ part'[w] = part[w]
                                /\ good'[w] = good[w]
    /\ \A c \in Clients \ {a} : found'[c] = found[c]

SavesSound == \A d \in Docs : doc'[d] = doc[d] \/ DocumentSound(d)'

LEMMA IndexAlone ==
    ASSUME TypeInv, IndexInv, EvidenceKept, NEW a, Alone(a), SavesSound,
           a \in Workers => PassSound(a)', a \in Clients => RequestSound(a)'
    PROVE  IndexInv'
<1>1. ASSUME NEW c \in Clients PROVE RequestSound(c)'
  <2>1. CASE c = a
    BY <2>1
  <2>2. CASE c # a
    <3>1. pc'[c] = pc[c] /\ copy'[c] = copy[c] /\ found'[c] = found[c]
      BY <2>2 DEF Alone, Actors
    <3>2. RequestSound(c)
      BY DEF IndexInv
    <3>3. pc[c] \in {"removeChunks", "removeDoc"} => Op[c] = "remove"
      BY <3>2 DEF RequestSound
    <3> QED BY <3>1, <3>2, <3>3, RequestKept
  <2> QED BY <2>1, <2>2
<1>2. ASSUME NEW w \in Workers PROVE PassSound(w)'
  <2>1. CASE w = a
    BY <2>1
  <2>2. CASE w # a
    <3>1. PassSound(w)
      BY DEF IndexInv
    <3> QED BY <2>2, <3>1, PassKept DEF Alone, Actors
  <2> QED BY <2>1, <2>2
<1>3. ASSUME NEW d \in Docs PROVE DocumentSound(d)'
  BY DocumentKept DEF IndexInv, SavesSound
<1> QED BY <1>1, <1>2, <1>3 DEF IndexInv

LEMMA WorkerAlone ==
    ASSUME TypeInv, NEW w \in Workers, WorkerStep(w), ~ Dies
    PROVE  Alone(w)
<1> w \in Actors /\ w \notin Clients
  BY KbAssumption DEF Actors
<1>1. /\ pc \in [Actors -> Places] /\ job \in [Actors -> Jobs \cup {NoJob}]
      /\ copy \in [Actors -> Documents] /\ run \in [Workers -> 0 .. MaxStalls + 1]
      /\ part \in [Workers -> 0 .. Parts] /\ good \in [Workers -> BOOLEAN]
  BY DEF TypeInv, TypeOK
<1> USE DEF Alone, Goto, Check, workVars
<1>2. ASSUME NEW j \in Jobs, Start(w, j) PROVE Alone(w)
  BY <1>1, <1>2 DEF Start
<1>3. ASSUME Load(w) PROVE Alone(w)
  BY <1>1, <1>3 DEF Load
<1>4. ASSUME Mark(w) PROVE Alone(w)
  BY <1>1, <1>4 DEF Mark
<1>5. ASSUME Extract(w) PROVE Alone(w)
  BY <1>1, <1>5 DEF Extract
<1>6. ASSUME SaveText(w) PROVE Alone(w)
  BY <1>1, <1>6 DEF SaveText
<1>7. ASSUME SaveChunks(w) PROVE Alone(w)
  BY <1>1, <1>7 DEF SaveChunks
<1>8. ASSUME EmbedChunks(w) PROVE Alone(w)
  <2>1. /\ good' = [good EXCEPT ![w] = good'[w]]
        /\ part' = [part EXCEPT ![w] = part'[w]]
        /\ pc' = [pc EXCEPT ![w] = pc'[w]]
        /\ UNCHANGED <<job, copy, found, run>>
    BY <1>1, <1>8 DEF EmbedChunks
  <2> QED BY <1>1, <2>1
<1>9. ASSUME Complete(w) \/ WorkThrows(w) \/ CatchSave(w) \/ CatchThrows(w) PROVE Alone(w)
  BY <1>1, <1>9 DEF Complete, WorkThrows, CatchSave, CatchThrows
<1>10. ASSUME CatchRead(w) PROVE Alone(w)
  <2>1. \E p : pc' = [pc EXCEPT ![w] = p]
    BY <1>10 DEF CatchRead
  <2> QED BY <1>1, <1>10, <2>1 DEF CatchRead
<1>11. ASSUME EndJob(w) PROVE Alone(w)
  BY <1>1, <1>11 DEF EndJob
<1> QED BY <1>2, <1>3, <1>4, <1>5, <1>6, <1>7, <1>8, <1>9, <1>10, <1>11 DEF WorkerStep

(* Only the last save of a pass says COMPLETED, and then it is so.         *)
LEMMA WorkerSaves ==
    ASSUME TypeInv, IndexInv, EvidenceKept, NEW w \in Workers, WorkerStep(w)
    PROVE  SavesSound
<1>1. doc \in [Docs -> Documents] /\ copy \in [Actors -> Documents] /\ w \in Actors
  BY DEF TypeInv, TypeOK, Actors
<1>2. ASSUME NEW d, NEW r, doc' = [doc EXCEPT ![d] = r], r.status # "completed"
      PROVE  SavesSound
  BY <1>1, <1>2 DEF SavesSound, DocumentSound, Sound
<1>3. CASE Mark(w)
  <2>1. copy'[w] = [copy[w] EXCEPT !.status = "processing"] /\ copy[w] \in Documents
    BY <1>1, <1>3 DEF Mark
  <2>2. copy'[w].status = "processing"
    BY <2>1 DEF Documents
  <2> QED BY <1>2, <1>3, <2>2 DEF Mark, Save
<1>4. CASE SaveText(w)
  <2>1. copy[w].status = "processing"
    BY <1>4 DEF SaveText, IndexInv, PassSound
  <2> QED BY <1>2, <1>4, <2>1 DEF SaveText, Save
<1>5. CASE CatchSave(w)
  <2>1. PICK x \in {"cancelled", "failed"} :
           Save(DocOf[job[w]], [copy[w] EXCEPT !.status = x])
    BY <1>5 DEF CatchSave
  <2>2. [copy[w] EXCEPT !.status = x].status = x
    BY <1>1 DEF Documents
  <2> QED BY <1>2, <2>1, <2>2 DEF Save
<1>6. CASE Complete(w)
  <2>1. pc[w] = "complete" /\ UNCHANGED chunks /\ job[w] \in Jobs
    BY <1>6 DEF Complete, TypeInv, TypeOK
  <2>2. DocOf[job[w]] \in Docs /\ run[w] \in 0 .. MaxStalls + 1
    BY <2>1, KbAssumption DEF TypeInv, TypeOK
  <2>3. \/ Removing(DocOf[job[w]])
        \/ Pass(chunks, "complete", job[w], run[w], copy[w].text, part[w], good[w])
    BY <2>1 DEF IndexInv, PassSound
  <2> DEFINE r == [copy[w] EXCEPT !.status = "completed", !.count = Parts]
  <2>4. r.count = Parts /\ r.text = copy[w].text
    BY <1>1 DEF Documents
  <2>5. doc' = [doc EXCEPT ![DocOf[job[w]]] = r]
    BY <1>6 DEF Complete, Save
  <2> HIDE DEF r
  <2>6. ASSUME NEW d \in Docs, doc'[d] # doc[d] PROVE DocumentSound(d)'
    <3>1. d = DocOf[job[w]] /\ doc'[d] = r
      BY <1>1, <2>5, <2>6
    <3>2. CASE Removing(DocOf[job[w]])
      BY <3>1, <3>2 DEF EvidenceKept, DocumentSound
    <3>3. CASE Pass(chunks, "complete", job[w], run[w], copy[w].text, part[w], good[w])
      <4>1. Sound(chunks', d, doc'[d])
        BY <2>1, <2>2, <2>4, <3>1, <3>3 DEF Pass, Sound
      <4> QED BY <4>1 DEF DocumentSound
    <3> QED BY <2>3, <3>2, <3>3
  <2> QED BY <2>6 DEF SavesSound
<1>7. CASE ~ (Mark(w) \/ SaveText(w) \/ CatchSave(w) \/ Complete(w))
  <2>1. UNCHANGED doc
    BY <1>7 DEF WorkerStep, Start, Load, Extract, SaveChunks, EmbedChunks, WorkThrows,
                CatchRead, CatchThrows, EndJob
  <2> QED BY <2>1 DEF SavesSound
<1> QED BY <1>3, <1>4, <1>5, <1>6, <1>7

LEMMA WorkerPass ==
    ASSUME TypeInv, IndexInv, EvidenceKept, NEW w \in Workers, WorkerStep(w), ~ Dies
    PROVE  PassSound(w)'
<1>1. w \in Actors /\ PassSound(w)
  BY DEF Actors, IndexInv
<1>2. /\ pc \in [Actors -> Places] /\ copy \in [Actors -> Documents]
      /\ part \in [Workers -> 0 .. Parts] /\ good \in [Workers -> BOOLEAN]
  BY DEF TypeInv, TypeOK
<1>3. ASSUME pc'[w] = "chunk", part'[w] = 0, ~ good'[w]
      PROVE  PassSound(w)'
  BY <1>3 DEF PassSound, Pass
<1> USE DEF Goto, Check, workVars
<1>4. ASSUME NEW j \in Jobs, Start(w, j) PROVE PassSound(w)'
  <2>1. pc'[w] = "load" /\ part'[w] = 0 /\ ~ good'[w]
    BY <1>1, <1>2, <1>4 DEF Start, PassSound
  <2> QED BY <2>1, PassMoves
<1>5. ASSUME Load(w) PROVE PassSound(w)'
  <2>1. pc'[w] \in {"mark", "failed"} /\ part'[w] = 0 /\ ~ good'[w]
    BY <1>1, <1>2, <1>5 DEF Load, PassSound
  <2> QED BY <2>1, PassMoves
<1>6. ASSUME Mark(w) PROVE PassSound(w)'
  <2>1. part'[w] = 0 /\ ~ good'[w]
    BY <1>1, <1>6 DEF Mark, PassSound
  <2>2. pc'[w] \in {"cancelled", "extract", "chunk"}
    BY <1>1, <1>2, <1>6 DEF Mark
  <2>3. copy'[w] = [copy[w] EXCEPT !.status = "processing"] /\ copy[w] \in Documents
    BY <1>1, <1>2, <1>6 DEF Mark
  <2>4. copy'[w].status = "processing"
    BY <2>3 DEF Documents
  <2> QED BY <1>3, <2>1, <2>2, <2>4, PassMoves
<1>7. ASSUME Extract(w) PROVE PassSound(w)'
  <2>1. part'[w] = 0 /\ ~ good'[w] /\ copy[w].status = "processing"
    BY <1>1, <1>7 DEF Extract, PassSound
  <2>2. pc'[w] \in {"cancelled", "saveText"}
    BY <1>1, <1>2, <1>7 DEF Extract
  <2>3. PICK t : copy' = [copy EXCEPT ![w].text = t]
    BY <1>7 DEF Extract
  <2>4. copy'[w] = [copy[w] EXCEPT !.text = t] /\ copy[w] \in Documents
    BY <1>1, <1>2, <2>3
  <2>5. copy'[w].status = "processing"
    BY <2>1, <2>4 DEF Documents
  <2> QED BY <2>1, <2>2, <2>5, PassMoves
<1>8. ASSUME SaveText(w) PROVE PassSound(w)'
  <2>1. part'[w] = 0 /\ ~ good'[w]
    BY <1>1, <1>8 DEF SaveText, PassSound
  <2>2. pc'[w] \in {"cancelled", "failed", "chunk"}
    BY <1>1, <1>2, <1>8 DEF SaveText
  <2> QED BY <1>3, <2>1, <2>2, PassMoves
<1>9. ASSUME SaveChunks(w) \/ EmbedChunks(w) PROVE PassSound(w)'
  BY <1>9, LoopStep
<1>10. ASSUME Complete(w) \/ WorkThrows(w) \/ CatchSave(w) \/ CatchThrows(w) \/ CatchRead(w)
       PROVE  PassSound(w)'
  <2>1. pc'[w] \in {"ack", "throw", "failed", "saveFailed", "saveCancelled"}
    <3>1. CASE Complete(w) \/ WorkThrows(w) \/ CatchSave(w) \/ CatchThrows(w)
      BY <1>1, <1>2, <3>1 DEF Complete, WorkThrows, CatchSave, CatchThrows
    <3>2. CASE CatchRead(w)
      <4>1. \/ Goto(w, "saveFailed") \/ Goto(w, "saveCancelled")
            \/ Goto(w, "ack") \/ Goto(w, "throw")
        BY <3>2 DEF CatchRead
      <4> QED BY <1>1, <1>2, <4>1
    <3> QED BY <1>10, <3>1, <3>2
  <2> QED BY <2>1, PassMoves
<1>11. ASSUME EndJob(w) PROVE PassSound(w)'
  <2>1. pc'[w] = "idle" /\ part'[w] = 0 /\ ~ good'[w]
    BY <1>1, <1>2, <1>11 DEF EndJob
  <2> QED BY <2>1, PassMoves
<1> QED BY <1>4, <1>5, <1>6, <1>7, <1>8, <1>9, <1>10, <1>11 DEF WorkerStep

LEMMA ClientAlone ==
    ASSUME TypeInv, NEW c \in Clients, ClientStep(c) \/ Request(c)
    PROVE  Alone(c)
<1> c \in Actors /\ c \notin Workers
  BY KbAssumption DEF Actors
<1>1. /\ pc \in [Actors -> Places] /\ job \in [Actors -> Jobs \cup {NoJob}]
      /\ copy \in [Actors -> Documents] /\ found \in [Clients -> SUBSET Chunks]
  BY DEF TypeInv, TypeOK
<1> USE DEF Alone, Goto, workVars
<1>2. ASSUME Create(c) PROVE Alone(c)
  <2>1. \E p : pc' = [pc EXCEPT ![c] = p]
    BY <1>2 DEF Create
  <2> QED BY <1>1, <1>2, <2>1 DEF Create
<1>3. ASSUME EditRead(c) \/ RemoveRead(c) PROVE Alone(c)
  BY <1>1, <1>3 DEF EditRead, RemoveRead
<1>4. ASSUME Cancel(c) PROVE Alone(c)
  <2>1. \E j : job' = [job EXCEPT ![c] = j]
    BY <1>4 DEF Cancel
  <2> QED BY <1>1, <1>4, <2>1 DEF Cancel
<1>5. ASSUME Confirm(c) \/ Enqueue(c) \/ Dequeue(c) \/ RemoveDoc(c) PROVE Alone(c)
  BY <1>1, <1>5 DEF Confirm, Enqueue, Dequeue, RemoveDoc
<1>6. ASSUME EditSave(c) PROVE Alone(c)
  <2>1. \E p : pc' = [pc EXCEPT ![c] = p]
    BY <1>6 DEF EditSave
  <2> QED BY <1>1, <1>6, <2>1 DEF EditSave
<1>7. ASSUME RemoveChunks(c) \/ RequestThrows(c) PROVE Alone(c)
  BY <1>1, <1>7 DEF RemoveChunks, RequestThrows
<1> QED BY <1>2, <1>3, <1>4, <1>5, <1>6, <1>7 DEF ClientStep, Request

(* A request saves a document that is to be processed, an old copy that    *)
(* was sound and still is, or nothing.                                     *)
LEMMA ClientSaves ==
    ASSUME TypeInv, IndexInv, EvidenceKept, NEW c \in Clients, ClientStep(c) \/ Request(c)
    PROVE  SavesSound
<1>1. /\ doc \in [Docs -> Documents] /\ copy \in [Actors -> Documents]
      /\ c \in Actors /\ DocOf[c] \in Docs
  BY KbAssumption DEF TypeInv, TypeOK, Actors
<1>2. ASSUME NEW d, NEW r, doc' = [doc EXCEPT ![d] = r], r.status # "completed"
      PROVE  SavesSound
  BY <1>1, <1>2 DEF SavesSound, DocumentSound, Sound
<1>3. CASE Create(c)
  <2>1. PICK t : doc' = [doc EXCEPT ![DocOf[c]] = NewDoc(t)]
    BY <1>3 DEF Create, Save
  <2>2. NewDoc(t).status = "pending"
    BY DEF NewDoc
  <2> QED BY <1>2, <2>1, <2>2
<1>4. CASE EditSave(c) /\ Op[c] = "rename"
  <2>1. /\ pc[c] = "edit" /\ UNCHANGED chunks
        /\ doc' = [doc EXCEPT ![DocOf[c]] = copy[c]]
    BY <1>4 DEF EditSave, Save
  <2>2. Removing(DocOf[c]) \/ Sound(chunks, DocOf[c], copy[c])
    BY <2>1 DEF IndexInv, RequestSound
  <2>3. ASSUME NEW d \in Docs, doc'[d] # doc[d] PROVE DocumentSound(d)'
    <3>1. d = DocOf[c] /\ doc'[d] = copy[c]
      BY <1>1, <2>1, <2>3
    <3>2. CASE Removing(DocOf[c])
      BY <3>1, <3>2 DEF EvidenceKept, DocumentSound
    <3>3. CASE Sound(chunks, DocOf[c], copy[c])
      <4>1. Sound(chunks', d, doc'[d])
        BY <2>1, <3>1, <3>3
      <4> QED BY <4>1 DEF DocumentSound
    <3> QED BY <2>2, <3>2, <3>3
  <2> QED BY <2>3 DEF SavesSound
<1>5. CASE EditSave(c) /\ Op[c] # "rename"
  <2>1. PICK t : doc' = [doc EXCEPT ![DocOf[c]] =
                           [copy[c] EXCEPT !.status = "pending", !.text = t]]
    BY <1>5 DEF EditSave, Save
  <2>2. [copy[c] EXCEPT !.status = "pending", !.text = t].status = "pending"
    BY <1>1 DEF Documents
  <2> QED BY <1>2, <2>1, <2>2
<1>6. CASE RemoveDoc(c)
  <2>1. doc' = [doc EXCEPT ![DocOf[c]] = NoDoc]
    BY <1>6 DEF RemoveDoc, Save
  <2>2. NoDoc.status = "none"
    BY DEF NoDoc
  <2> QED BY <1>2, <2>1, <2>2
<1>7. CASE ~ (Create(c) \/ EditSave(c) \/ RemoveDoc(c))
  <2>1. UNCHANGED doc
    BY <1>7 DEF ClientStep, Request, EditRead, RemoveRead, Cancel, Confirm, Enqueue,
                RemoveChunks, Dequeue, RequestThrows
  <2> QED BY <2>1 DEF SavesSound
<1> QED BY <1>3, <1>4, <1>5, <1>6, <1>7

LEMMA ClientRequest ==
    ASSUME TypeInv, IndexInv, EvidenceKept, NEW c \in Clients, ClientStep(c) \/ Request(c)
    PROVE  RequestSound(c)'
<1>1. c \in Actors /\ DocOf[c] \in Docs /\ RequestSound(c)
  BY KbAssumption DEF Actors, IndexInv
<1>2. /\ pc \in [Actors -> Places] /\ copy \in [Actors -> Documents]
      /\ found \in [Clients -> SUBSET Chunks]
  BY DEF TypeInv, TypeOK
<1> USE DEF Goto
<1>3. CASE EditRead(c)
  <2>1. /\ pc'[c] = "edit" /\ copy'[c] = doc[DocOf[c]] /\ found' = found /\ chunks' = chunks
    BY <1>1, <1>2, <1>3 DEF EditRead
  <2>2. Removing(DocOf[c]) \/ Sound(chunks, DocOf[c], doc[DocOf[c]])
    BY <1>1 DEF IndexInv, DocumentSound
  <2>3. Removing(DocOf[c])' \/ Sound(chunks', DocOf[c], copy'[c])
    BY <1>1, <2>1, <2>2 DEF EvidenceKept
  <2> QED BY <1>1, <2>1, <2>3 DEF RequestSound
<1>4. CASE RemoveRead(c)
  <2>1. pc'[c] = "removeChunks" /\ Op[c] = "remove" /\ found'[c] = ChunksOf(DocOf[c])
    BY <1>1, <1>2, <1>4 DEF RemoveRead, Accepts
  <2> QED BY <2>1 DEF RequestSound, ChunksOf
<1>5. CASE RemoveChunks(c)
  <2>1. pc'[c] = "removeDoc" /\ Op[c] = "remove" /\ found'[c] = {}
    BY <1>1, <1>2, <1>5 DEF RemoveChunks, RequestSound
  <2> QED BY <2>1, <1>1, RequestKept
<1>6. CASE Create(c) \/ Cancel(c) \/ Confirm(c) \/ Enqueue(c) \/ EditSave(c) \/ RemoveDoc(c)
              \/ Dequeue(c) \/ RequestThrows(c)
  <2>1. pc'[c] \in {"confirm", "enqueue", "dequeue", "done", "aborted"}
    BY <1>1, <1>2, <1>6 DEF Create, Cancel, Confirm, Enqueue, EditSave, RemoveDoc, Dequeue,
                            RequestThrows
  <2>2. found'[c] \subseteq found[c]
    BY <1>1, <1>2, <1>6 DEF Create, Cancel, Confirm, Enqueue, EditSave, RemoveDoc, Dequeue,
                            RequestThrows
  <2> QED BY <1>1, <2>1, <2>2, RequestKept
<1> QED BY <1>3, <1>4, <1>5, <1>6 DEF ClientStep, Request

LEMMA IndexServer ==
    ASSUME TypeInv, IndexInv, EvidenceKept,
           \/ \E j \in Jobs : StalledCheck(j)
           \/ \E d \in Docs : CleanUp(d)
           \/ Restart \/ FindStuck
    PROVE  IndexInv'
<1>1. /\ doc \in [Docs -> Documents] /\ stuck \in [Docs -> Documents]
      /\ \A a \in Clients : a \notin Workers
  BY KbAssumption DEF TypeInv, TypeOK
<1>2. UNCHANGED actorVars
  BY DEF StalledCheck, CleanUp, Restart, FindStuck
<1>3. ASSUME NEW a PROVE Alone(a)
  BY <1>2 DEF Alone, actorVars
<1>4. SavesSound
  <2>1. ASSUME NEW d \in Docs, CleanUp(d) PROVE SavesSound
    <3>1. doc' = [doc EXCEPT ![d] = [stuck[d] EXCEPT !.status = "failed"]]
      BY <2>1 DEF CleanUp, Save
    <3>2. [stuck[d] EXCEPT !.status = "failed"].status = "failed"
      BY <1>1 DEF Documents
    <3> QED BY <1>1, <3>1, <3>2 DEF SavesSound, DocumentSound, Sound
  <2>2. CASE UNCHANGED doc
    BY <2>2 DEF SavesSound
  <2> QED BY <2>1, <2>2 DEF StalledCheck, Restart, FindStuck
<1>5. PICK a : a \notin Actors
  BY NoSetContainsEverything
<1> QED BY <1>3, <1>4, <1>5, IndexAlone DEF Actors

LEMMA IndexStep ==
    ASSUME TypeInv, IndexInv, Next
    PROVE  IndexInv'
<1>1. EvidenceKept
  BY EvidenceStays
<1>2. ASSUME NEW w \in Workers, WorkerStep(w) PROVE IndexInv'
  <2>1. CASE Dies
    <3>1. pc'[w] = "idle"
      BY <2>1 DEF Dies, Actors
    <3>2. ~ (Mark(w) \/ SaveText(w) \/ Complete(w) \/ CatchSave(w))
      BY <3>1 DEF Mark, SaveText, Complete, CatchSave, Check, Goto, TypeInv, TypeOK, Actors
    <3>3. UNCHANGED doc
      BY <1>2, <3>2 DEF WorkerStep, Start, Load, Extract, SaveChunks, EmbedChunks,
                        WorkThrows, CatchRead, CatchThrows, EndJob
    <3> QED BY <1>1, <2>1, <3>3, IndexDies
  <2>2. CASE ~ Dies
    <3>1. w \notin Clients
      BY KbAssumption
    <3> QED BY <1>1, <1>2, <2>2, <3>1, WorkerAlone, WorkerSaves, WorkerPass, IndexAlone
  <2> QED BY <2>1, <2>2
<1>3. ASSUME NEW c \in Clients, ClientStep(c) \/ Request(c) PROVE IndexInv'
  <2>1. c \notin Workers
    BY KbAssumption
  <2> QED BY <1>1, <1>3, <2>1, ClientAlone, ClientSaves, ClientRequest, IndexAlone
<1>4. CASE Crash
  BY <1>1, <1>4, IndexDies DEF Crash
<1> QED BY <1>1, <1>2, <1>3, <1>4, IndexServer DEF Next

LEMMA InitIndexInv == Init => IndexInv
<1> SUFFICES ASSUME Init PROVE IndexInv
  OBVIOUS
<1>1. \A c \in Clients : RequestSound(c)
  BY DEF Init, Actors, RequestSound
<1>2. \A d \in Docs : DocumentSound(d)
  BY DEF Init, NoDoc, DocumentSound, Sound
<1>3. \A w \in Workers : PassSound(w)
  BY DEF Init, Actors, PassSound
<1> QED BY <1>1, <1>2, <1>3 DEF IndexInv

LEMMA IndexStutters == IndexInv /\ UNCHANGED vars => IndexInv'
<1> SUFFICES ASSUME IndexInv, UNCHANGED vars PROVE IndexInv'
  OBVIOUS
<1>1. \A d : Removing(d)' = Removing(d)
  BY DEF vars, Removing
<1>2. \A c \in Clients : RequestSound(c)'
  BY <1>1 DEF vars, IndexInv, RequestSound
<1>3. \A d \in Docs : DocumentSound(d)'
  BY <1>1 DEF vars, IndexInv, DocumentSound
<1>4. \A w \in Workers : PassSound(w)'
  BY <1>1 DEF vars, IndexInv, PassSound
<1> QED BY <1>2, <1>3, <1>4 DEF IndexInv

LEMMA IndexInvIndexed ==
    ASSUME TypeInv, IndexInv
    PROVE  CompletedIsIndexed
<1> SUFFICES ASSUME NEW d \in Docs, doc[d].status = "completed",
                    \A c \in Clients : DocOf[c] = d /\ Op[c] = "remove" => pc[c] = "idle"
             PROVE  /\ doc[d].count = Parts
                    /\ \E j \in Jobs, r \in 0 .. MaxStalls + 1 :
                          LET mine == {k \in ChunksOf(d) : /\ k.job = j /\ k.run = r
                                                           /\ k.text = doc[d].text}
                          IN  /\ \A p \in 1 .. Parts : \E k \in mine : k.part = p
                              /\ \E k \in mine : k.embedded
  BY DEF CompletedIsIndexed
<1>1. ~ Removing(d)
  BY DEF Removing
<1>2. Sound(chunks, d, doc[d])
  BY <1>1 DEF IndexInv, DocumentSound
<1>3. PICK j \in Jobs, r \in 0 .. MaxStalls + 1 :
         /\ DocOf[j] = d
         /\ \A p \in 1 .. Parts : Batch(chunks, j, r, doc[d].text, p)
         /\ Embedded(chunks, j, r, doc[d].text)
  BY <1>2 DEF Sound
<1> DEFINE mine == {k \in ChunksOf(d) : k.job = j /\ k.run = r /\ k.text = doc[d].text}
<1>4. \A k \in chunks : k.job = j /\ k.run = r /\ k.text = doc[d].text => k \in mine
  BY <1>3 DEF ChunksOf
<1>5. ASSUME NEW p \in 1 .. Parts PROVE \E k \in mine : k.part = p
  <2>1. PICK k \in chunks : k.job = j /\ k.run = r /\ k.text = doc[d].text /\ k.part = p
    BY <1>3 DEF Batch
  <2> QED BY <1>4, <2>1
<1>6. \E k \in mine : k.embedded
  <2>1. PICK k \in chunks : k.job = j /\ k.run = r /\ k.text = doc[d].text /\ k.embedded
    BY <1>3 DEF Embedded
  <2> QED BY <1>4, <2>1
<1>7. doc[d].count = Parts
  BY <1>2 DEF Sound
<1> HIDE DEF mine
<1>8. /\ \A p \in 1 .. Parts : \E k \in mine : k.part = p
      /\ \E k \in mine : k.embedded
  BY <1>5, <1>6
<1> QED BY <1>3, <1>7, <1>8 DEF mine

(* A document that says COMPLETED has all batches of its present text from *)
(* one pass of one job, and an embedding, unless it is being removed: for  *)
(* any requests, worker slots, batches, stalls and faults.                 *)
THEOREM IndexSafety == Spec => []CompletedIsIndexed
<1>1. TypeInv /\ IndexInv => CompletedIsIndexed
  BY IndexInvIndexed
<1>2. TypeInv /\ IndexInv /\ [Next]_vars => IndexInv'
  BY IndexStep, IndexStutters
<1> QED BY <1>1, <1>2, InitTypeInv, InitIndexInv, TypeStep, PTL DEF Spec
-------------------------------------------------------------------------------
(* The parts of the life of a document; the ninth one is server.           *)
Ds == [d \in Docs |-> doc[d].status]
Rq == [c \in Clients |-> RequestPhase(pc[c])]
Wr == [c \in Clients |-> Writes(c)]
Of == {j \in Jobs : queue[j].state # "absent"}
Us == [j \in Jobs |-> Attempts(j)]
Ph == [w \in Workers |-> PassPhase(pc[w])]
Tk == [w \in Workers |-> job[w]]
Cl == {d \in Docs : stuck[d] # NoDoc}

LEMMA LifeStutter ==
    ASSUME UNCHANGED <<Ds, Rq, Wr, Of, Us, Ph, Tk, server, Cl>>
    PROVE  UNCHANGED Life!vars
BY DEF Life!vars, Life!requestVars, Life!passVars, Ds, Rq, Wr, Of, Us, Ph, Tk, Cl

(* What a step of one actor shows.                                         *)
LEMMA WorkerSeen ==
    ASSUME NEW w \in Workers, Alone(w)
    PROVE  /\ UNCHANGED <<Rq, Wr>>
           /\ Ph' = [Ph EXCEPT ![w] = PassPhase(pc'[w])]
           /\ Tk' = [Tk EXCEPT ![w] = job'[w]]
<1>1. /\ \A c \in Clients : pc'[c] = pc[c] /\ copy'[c] = copy[c]
      /\ \A v \in Workers \ {w} : pc'[v] = pc[v] /\ job'[v] = job[v]
  BY KbAssumption DEF Alone, Actors
<1>2. \A c \in Clients : Writes(c)' = Writes(c)
  BY <1>1 DEF Writes
<1> QED BY <1>1, <1>2 DEF Rq, Wr, Ph, Tk

LEMMA ClientSeen ==
    ASSUME NEW c \in Clients, Alone(c)
    PROVE  /\ UNCHANGED <<Ph, Tk>>
           /\ Rq' = [Rq EXCEPT ![c] = RequestPhase(pc'[c])]
           /\ Wr' = [Wr EXCEPT ![c] = Writes(c)']
<1>1. /\ \A b \in Clients \ {c} : pc'[b] = pc[b] /\ copy'[b] = copy[b]
      /\ \A w \in Workers : pc'[w] = pc[w] /\ job'[w] = job[w]
  BY KbAssumption DEF Alone, Actors
<1>2. \A b \in Clients \ {c} : Writes(b)' = Writes(b)
  BY <1>1 DEF Writes
<1> QED BY <1>1, <1>2 DEF Rq, Wr, Ph, Tk

LEMMA SaveSeen ==
    ASSUME TypeInv, NEW d \in Docs, NEW r, Save(d, r), NEW s, s = r.status
    PROVE  Ds' = [Ds EXCEPT ![d] = s]
<1>1. \A e \in Docs : doc'[e] = IF e = d THEN r ELSE doc[e]
  BY DEF Save, TypeInv, TypeOK
<1> QED BY <1>1 DEF Ds

(* A removal, the end of an attempt and the stalled check offer no job and *)
(* count no pass.                                                          *)
LEMMA QueueUnseen ==
    ASSUME TypeInv, NEW j \in Jobs,
           \/ UNCHANGED queue \/ Remove(j) \/ Stall(j)
           \/ \E w \in Workers : Finish(w, j) \/ Retry(w, j)
    PROVE  UNCHANGED <<Of, Us>>
<1>1. QueueTypeOK
  BY DEF TypeInv, TypeOK
<1>2. \A i \in Jobs : Attempts(i)' = Attempts(i)
  <2>1. ASSUME NEW w \in Workers, Finish(w, j) \/ Retry(w, j)
        PROVE  \A i \in Jobs : Attempts(i)' = Attempts(i)
    <3>1. PICK s \in {"removed", "delayed", "failed"} : EndAttempt(w, j, s)
      BY <2>1 DEF Finish, Retry
    <3>2. CASE Holds(w, j)
      BY <1>1, <3>1, <3>2, EndAttemptCount
    <3>3. CASE ~ Holds(w, j)
      BY <3>1, <3>3 DEF EndAttempt, Attempts
    <3> QED BY <3>2, <3>3
  <2> QED BY <1>1, <2>1, QueueCount
<1>3. \A i \in Jobs : (queue'[i].state # "absent") <=> (queue[i].state # "absent")
  <2>1. CASE UNCHANGED queue
    BY <2>1
  <2>2. ASSUME NEW s, s # "absent", queue[j].state # "absent",
               \/ Move(j, s, NoWorker) \/ \E w : EndAttempt(w, j, s)
        PROVE  \A i \in Jobs : (queue'[i].state # "absent") <=> (queue[i].state # "absent")
    BY <1>1, <2>2, EntryKept DEF QueueKept
  <2>3. ASSUME Remove(j), ~ UNCHANGED queue
        PROVE  \A i \in Jobs : (queue'[i].state # "absent") <=> (queue[i].state # "absent")
    BY <2>2, <2>3 DEF Remove
  <2>4. ASSUME NEW w \in Workers, Finish(w, j) \/ Retry(w, j), ~ UNCHANGED queue
        PROVE  \A i \in Jobs : (queue'[i].state # "absent") <=> (queue[i].state # "absent")
    <3>1. PICK s \in {"removed", "delayed", "failed"} : EndAttempt(w, j, s)
      BY <2>4 DEF Finish, Retry
    <3>2. queue[j].state = "active"
      BY <2>4, <3>1 DEF EndAttempt, Holds
    <3> QED BY <2>2, <3>1, <3>2
  <2>5. ASSUME Stall(j)
        PROVE  \A i \in Jobs : (queue'[i].state # "absent") <=> (queue[i].state # "absent")
    <3>1. queue[j].state = "active" /\ queue'[j].state \in {"waiting", "failed"}
      BY <1>1, <2>5 DEF Stall, QueueTypeOK, Entry
    <3>2. \A i \in Jobs \ {j} : queue'[i] = queue[i]
      BY <1>1, <2>5 DEF Stall, QueueTypeOK
    <3> QED BY <3>1, <3>2
  <2> QED BY <2>1, <2>3, <2>4, <2>5
<1> QED BY <1>2, <1>3 DEF Of, Us

LEMMA ActorsUnseen ==
    ASSUME UNCHANGED <<pc, job, copy>>
    PROVE  UNCHANGED <<Rq, Wr, Ph, Tk>>
BY DEF Rq, Wr, Ph, Tk, Writes

LEMMA DiesMaps ==
    ASSUME Dies, UNCHANGED <<doc, Of, Us>>
    PROVE  Life!Die
<1>1. /\ \A w \in Workers : pc'[w] = "idle" /\ job'[w] = NoJob
      /\ \A c \in Clients : pc'[c] = IF pc[c] \in {"idle", "done"} THEN pc[c] ELSE "aborted"
      /\ server' = "down" /\ Cl' = {}
  BY KbAssumption DEF Dies, Actors, Cl
<1>2. /\ Ph' = [w \in Workers |-> "none"] /\ Tk' = [w \in Workers |-> NoJob]
  BY <1>1 DEF Ph, Tk, PassPhase
<1>3. /\ Rq' = [c \in Clients |-> IF Rq[c] = "new" THEN "new" ELSE "over"]
      /\ Wr' = [c \in Clients |-> "none"]
  BY <1>1 DEF Rq, Wr, RequestPhase, Writes
<1>4. UNCHANGED Ds
  BY DEF Ds
<1> QED BY <1>1, <1>2, <1>3, <1>4 DEF Life!Die, Ds, Rq, Wr, Of, Us, Ph, Tk, Cl

LEMMA ServerMaps ==
    ASSUME TypeInv,
           \/ Crash \/ Restart \/ FindStuck
           \/ \E d \in Docs : CleanUp(d)
           \/ \E j \in Jobs : StalledCheck(j)
    PROVE  Life!Next \/ UNCHANGED Life!vars
<1>1. CASE Crash
  BY <1>1, DiesMaps DEF Crash, Of, Us, Attempts, Life!Next
<1>2. ASSUME UNCHANGED <<queue, actorVars>>
      PROVE  UNCHANGED <<Rq, Wr, Of, Us, Ph, Tk>>
  BY <1>2, ActorsUnseen DEF actorVars, Of, Us, Attempts
<1>3. CASE Restart
  <2>1. UNCHANGED <<Ds, Rq, Wr, Of, Us, Ph, Tk, Cl>>
    BY <1>2, <1>3 DEF Restart, Ds, Cl
  <2>2. Life!Restart
    BY <1>3, <2>1
       DEF Restart, Life!Restart, Life!requestVars, Life!passVars,
           Ds, Rq, Wr, Of, Us, Ph, Tk, Cl
  <2> QED BY <2>2 DEF Life!Next
<1>4. CASE FindStuck
  <2>1. UNCHANGED <<Ds, Rq, Wr, Of, Us, Ph, Tk>>
    BY <1>2, <1>4 DEF FindStuck, Ds
  <2>2. Cl' = {d \in Docs : Ds[d] = "processing"}
    BY <1>4 DEF FindStuck, NoDoc, Cl, Ds
  <2>3. Life!LookBack
    BY <1>4, <2>1, <2>2
       DEF FindStuck, Life!LookBack, Life!requestVars, Life!passVars,
           Ds, Rq, Wr, Of, Us, Ph, Tk, Cl
  <2> QED BY <2>3 DEF Life!Next
<1>5. ASSUME NEW d \in Docs, CleanUp(d) PROVE Life!Next
  <2>1. UNCHANGED <<Rq, Wr, Of, Us, Ph, Tk, server>>
    BY <1>2, <1>5 DEF CleanUp
  <2>2. [stuck[d] EXCEPT !.status = "failed"].status = "failed"
    BY DEF TypeInv, TypeOK, Documents
  <2>3. Ds' = [Ds EXCEPT ![d] = "failed"]
    BY <1>5, <2>2, SaveSeen DEF CleanUp
  <2>4. d \in Cl /\ Cl' = Cl \ {d}
    BY <1>5 DEF CleanUp, TypeInv, TypeOK, Cl
  <2>5. Life!CleanUp(d)
    BY <2>1, <2>3, <2>4
       DEF Life!CleanUp, Life!Put, Life!requestVars, Life!passVars,
           Ds, Rq, Wr, Of, Us, Ph, Tk, Cl
  <2> QED BY <2>5 DEF Life!Next
<1>6. ASSUME NEW j \in Jobs, StalledCheck(j) PROVE UNCHANGED Life!vars
  <2>1. UNCHANGED <<Of, Us>>
    BY <1>6, QueueUnseen DEF StalledCheck
  <2>2. UNCHANGED <<Ds, Rq, Wr, Ph, Tk, server, Cl>>
    BY <1>6, ActorsUnseen DEF StalledCheck, actorVars, Ds, Cl
  <2> QED BY <2>1, <2>2, LifeStutter
<1> QED BY <1>1, <1>3, <1>4, <1>5, <1>6

(* A request is accepted, or the user's cancel, which writes nothing.      *)
LEMMA RequestMaps ==
    ASSUME TypeInv, NEW c \in Clients, Request(c)
    PROVE  Life!Next
<1>1. /\ c \in Actors /\ DocOf[c] \in Docs
      /\ pc \in [Actors -> Places] /\ copy \in [Actors -> Documents]
      /\ doc \in [Docs -> Documents]
  BY KbAssumption DEF Actors, TypeInv, TypeOK
<1>2. /\ UNCHANGED <<Ph, Tk>>
      /\ Rq' = [Rq EXCEPT ![c] = RequestPhase(pc'[c])]
      /\ Wr' = [Wr EXCEPT ![c] = Writes(c)']
  BY ClientAlone, ClientSeen
<1>3. /\ UNCHANGED <<Of, Us, Cl, server>>
      /\ server = "up" /\ Cl = {} /\ Rq[c] = "new" /\ Wr[c] = "none"
  BY DEF Request, Create, EditRead, RemoveRead, Cancel, Accepts, Of, Us, Attempts, Cl,
         Rq, Wr, RequestPhase, Writes
<1> USE DEF Goto
<1>4. CASE Create(c)
  <2>1. PICK t : Save(DocOf[c], NewDoc(t))
    BY <1>4 DEF Create
  <2>2. Ds' = [Ds EXCEPT ![DocOf[c]] = "pending"]
    BY <1>1, <2>1, SaveSeen DEF NewDoc
  <2>3. Op[c] = "create" /\ Ds[DocOf[c]] = "none" /\ pc'[c] \in {"confirm", "enqueue"}
    BY <1>1, <1>4 DEF Create, Accepts, Exists, Ds
  <2>4. Rq' = [Rq EXCEPT ![c] = "written"] /\ UNCHANGED Wr
    BY <1>2, <1>3, <2>3 DEF RequestPhase, Writes, Wr
  <2>5. Life!Create(c)
    BY <1>2, <1>3, <2>2, <2>3, <2>4
       DEF Life!Create, Life!Open, Life!Put, Life!Step, Life!passVars,
           Ds, Rq, Wr, Of, Us, Ph, Tk, Cl
  <2> QED BY <2>5 DEF Life!Next
<1>5. ASSUME NEW s \in Life!Statuses, UNCHANGED Ds, Ds[DocOf[c]] # "none",
             \/ Op[c] = "edit" /\ s = "pending"
             \/ Op[c] = "rename" /\ s = Ds[DocOf[c]]
             \/ Op[c] = "remove" /\ s = "none",
             Writes(c)' = s, pc'[c] \in {"edit", "removeChunks"}
      PROVE  Life!Next
  <2>1. Rq' = [Rq EXCEPT ![c] = "accepted"] /\ Wr' = [Wr EXCEPT ![c] = s]
    BY <1>2, <1>5 DEF RequestPhase
  <2>2. Life!Accept(c, s)
    BY <1>2, <1>3, <1>5, <2>1
       DEF Life!Accept, Life!Open, Life!Step, Life!passVars, Ds, Rq, Wr, Of, Us, Ph, Tk, Cl
  <2> QED BY <2>2 DEF Life!Next
<1>6. CASE EditRead(c)
  <2>1. /\ pc'[c] = "edit" /\ copy'[c] = doc[DocOf[c]] /\ doc' = doc
        /\ Op[c] \in {"edit", "rename"} /\ Exists(DocOf[c])
    BY <1>1, <1>6 DEF EditRead, Accepts
  <2>2. PICK s \in Life!Statuses :
           s = IF Op[c] = "rename" THEN doc[DocOf[c]].status ELSE "pending"
    BY <1>1 DEF Documents, Life!Statuses
  <2> QED BY <1>1, <1>5, <2>1, <2>2 DEF Exists, Writes, Ds
<1>7. CASE RemoveRead(c)
  <2>1. /\ pc'[c] = "removeChunks" /\ doc' = doc /\ Op[c] = "remove" /\ Exists(DocOf[c])
    BY <1>1, <1>7 DEF RemoveRead, Accepts
  <2>2. "none" \in Life!Statuses
    BY DEF Life!Statuses
  <2> QED BY <1>1, <1>5, <2>1, <2>2 DEF Exists, Writes, Ds
<1>8. CASE Cancel(c)
  <2>1. pc'[c] = "dequeue" /\ UNCHANGED Ds
    BY <1>1, <1>8 DEF Cancel, Ds
  <2>2. Rq' = [Rq EXCEPT ![c] = "over"] /\ Wr' = [Wr EXCEPT ![c] = "none"]
    BY <1>2, <2>1 DEF RequestPhase, Writes
  <2>3. Life!Drop(c)
    BY <1>2, <1>3, <2>1, <2>2
       DEF Life!Drop, Life!Step, Life!passVars, Ds, Rq, Wr, Of, Us, Ph, Tk, Cl
  <2> QED BY <2>3 DEF Life!Next
<1> QED BY <1>4, <1>6, <1>7, <1>8 DEF Request

(* An accepted request goes on.                                            *)
LEMMA ClientMaps ==
    ASSUME TypeInv, IndexInv, NEW c \in Clients, ClientStep(c)
    PROVE  Life!Next \/ UNCHANGED Life!vars
<1>1. /\ c \in Actors /\ DocOf[c] \in Docs
      /\ pc \in [Actors -> Places] /\ copy \in [Actors -> Documents]
      /\ doc \in [Docs -> Documents]
  BY KbAssumption DEF Actors, TypeInv, TypeOK
<1>2. /\ UNCHANGED <<Ph, Tk>>
      /\ Rq' = [Rq EXCEPT ![c] = RequestPhase(pc'[c])]
      /\ Wr' = [Wr EXCEPT ![c] = Writes(c)']
  BY ClientAlone, ClientSeen
<1>3. UNCHANGED <<Cl, server>>
  BY DEF ClientStep, Confirm, Enqueue, EditSave, RemoveChunks, RemoveDoc, Dequeue,
         RequestThrows, Cl
<1>4. ASSUME UNCHANGED <<Ds, Of, Us>>, Writes(c) = "none", pc'[c] # "edit",
             RequestPhase(pc'[c]) = RequestPhase(pc[c])
      PROVE  UNCHANGED Life!vars
  <2>1. Writes(c)' = "none"
    BY <1>4 DEF Writes
  <2>2. UNCHANGED Rq
    BY <1>2, <1>4 DEF Rq
  <2>3. UNCHANGED Wr
    BY <1>2, <1>4, <2>1 DEF Wr
  <2> QED BY <1>2, <1>3, <1>4, <2>2, <2>3, LifeStutter
<1>5. ASSUME NEW s, s = Writes(c), RequestPhase(pc[c]) = "accepted", UNCHANGED queue,
             Ds' = [Ds EXCEPT ![DocOf[c]] = s],
             pc'[c] = IF Op[c] = "edit" THEN "enqueue" ELSE "done"
      PROVE  Life!Next
  <2>1. /\ Rq' = [Rq EXCEPT ![c] = IF Op[c] = "edit" THEN "written" ELSE "over"]
        /\ Wr' = [Wr EXCEPT ![c] = "none"]
        /\ Rq[c] = "accepted" /\ Wr[c] = s
        /\ UNCHANGED <<Of, Us>>
    BY <1>2, <1>5 DEF RequestPhase, Writes, Rq, Wr, Of, Us, Attempts
  <2>2. Life!Land(c)
    BY <1>2, <1>3, <1>5, <2>1
       DEF Life!Land, Life!Put, Life!Step, Life!passVars, Ds, Rq, Wr, Of, Us, Ph, Tk, Cl
  <2> QED BY <2>2 DEF Life!Next
<1> USE DEF Goto
<1>6. CASE Confirm(c)
  <2>1. pc[c] = "confirm" /\ pc'[c] = "enqueue" /\ UNCHANGED <<queue, doc>>
    BY <1>1, <1>6 DEF Confirm
  <2> QED BY <1>4, <2>1 DEF RequestPhase, Writes, Ds, Of, Us, Attempts
<1>7. CASE Enqueue(c)
  <2>1. pc[c] = "enqueue" /\ pc'[c] = "done" /\ UNCHANGED Ds /\ Add(c) /\ c \in Jobs
    BY <1>1, <1>7 DEF Enqueue, Ds, TypeInv, WorkInv
  <2>2. Of' = Of \cup {c} /\ UNCHANGED Us
    <3>1. QueueTypeOK
      BY DEF TypeInv, TypeOK
    <3>2. \A i \in Jobs : Attempts(i)' = Attempts(i)
      BY <2>1, <3>1, QueueCount
    <3>3. \A i \in Jobs : (queue'[i].state # "absent") <=> (i = c \/ queue[i].state # "absent")
      BY <2>1, <3>1 DEF Add, Move, QueueTypeOK, Entry
    <3> QED BY <2>1, <3>2, <3>3 DEF Of, Us
  <2>3. Rq[c] = "written" /\ Rq' = [Rq EXCEPT ![c] = "over"] /\ UNCHANGED Wr
    BY <1>2, <2>1 DEF RequestPhase, Writes, Rq, Wr
  <2>4. Life!Offer(c)
    BY <1>2, <1>3, <2>1, <2>2, <2>3
       DEF Life!Offer, Life!Step, Life!passVars, Ds, Rq, Wr, Of, Us, Ph, Tk, Cl
  <2> QED BY <2>4 DEF Life!Next
<1>8. CASE EditSave(c)
  <2>1. pc[c] = "edit" /\ UNCHANGED queue
    BY <1>8 DEF EditSave
  <2>2. CASE Op[c] = "rename"
    <3>1. Save(DocOf[c], copy[c]) /\ pc'[c] = "done"
      BY <1>1, <1>8, <2>2 DEF EditSave
    <3>2. PICK s : s = copy[c].status
      OBVIOUS
    <3>3. Ds' = [Ds EXCEPT ![DocOf[c]] = s]
      BY <1>1, <3>1, <3>2, SaveSeen
    <3> QED BY <1>5, <2>1, <2>2, <3>1, <3>2, <3>3 DEF RequestPhase, Writes
  <2>3. CASE Op[c] # "rename"
    <3>1. PICK t : Save(DocOf[c], [copy[c] EXCEPT !.status = "pending", !.text = t])
      BY <1>8, <2>3 DEF EditSave
    <3>2. Op[c] = "edit" /\ pc'[c] = "enqueue"
      BY <1>1, <1>8, <2>3 DEF EditSave
    <3>3. [copy[c] EXCEPT !.status = "pending", !.text = t].status = "pending"
      BY <1>1 DEF Documents
    <3>4. Ds' = [Ds EXCEPT ![DocOf[c]] = "pending"]
      BY <1>1, <3>1, <3>3, SaveSeen
    <3> QED BY <1>5, <2>1, <2>3, <3>2, <3>4 DEF RequestPhase, Writes
  <2> QED BY <2>2, <2>3
<1>9. CASE RemoveChunks(c)
  <2>1. pc[c] = "removeChunks" /\ pc'[c] = "removeDoc" /\ UNCHANGED <<queue, doc>>
    BY <1>1, <1>9 DEF RemoveChunks
  <2> QED BY <1>4, <2>1 DEF RequestPhase, Writes, Ds, Of, Us, Attempts
<1>10. CASE RemoveDoc(c)
  <2>1. /\ pc[c] = "removeDoc" /\ pc'[c] = "done" /\ UNCHANGED queue
        /\ Save(DocOf[c], NoDoc)
    BY <1>1, <1>10 DEF RemoveDoc
  <2>2. Op[c] # "edit"
    BY <2>1 DEF IndexInv, RequestSound
  <2>3. Ds' = [Ds EXCEPT ![DocOf[c]] = "none"]
    BY <1>1, <2>1, SaveSeen DEF NoDoc
  <2> QED BY <1>5, <2>1, <2>2, <2>3 DEF RequestPhase, Writes
<1>11. CASE Dequeue(c)
  <2>1. pc[c] = "dequeue" /\ pc'[c] = "done" /\ UNCHANGED Ds /\ Remove(job[c])
        /\ job[c] \in Jobs
    BY <1>1, <1>11 DEF Dequeue, Ds, TypeInv, WorkInv
  <2>2. UNCHANGED <<Of, Us>>
    BY <2>1, QueueUnseen
  <2> QED BY <1>4, <2>1, <2>2 DEF RequestPhase, Writes
<1>12. CASE RequestThrows(c)
  <2>1. /\ pc[c] \in {"confirm", "enqueue", "edit", "removeChunks", "removeDoc"}
        /\ pc'[c] = "aborted" /\ UNCHANGED <<queue, doc>>
    BY <1>1, <1>12 DEF RequestThrows
  <2>2. Rq[c] # "over" /\ UNCHANGED <<Ds, Of, Us>>
    BY <2>1 DEF RequestPhase, Rq, Ds, Of, Us, Attempts
  <2>3. Rq' = [Rq EXCEPT ![c] = "over"] /\ Wr' = [Wr EXCEPT ![c] = "none"]
    BY <1>2, <2>1 DEF RequestPhase, Writes
  <2>4. Life!Drop(c)
    BY <1>2, <1>3, <2>2, <2>3
       DEF Life!Drop, Life!Step, Life!passVars, Ds, Rq, Wr, Of, Us, Ph, Tk, Cl
  <2> QED BY <2>4 DEF Life!Next
<1> QED BY <1>6, <1>7, <1>8, <1>9, <1>10, <1>11, <1>12 DEF ClientStep

(* A job is taken up, or given back.                                       *)
LEMMA EndsMap ==
    ASSUME TypeInv, NEW w \in Workers, Alone(w), (\E j \in Jobs : Start(w, j)) \/ EndJob(w)
    PROVE  Life!Next
<1>1. /\ w \in Actors /\ pc \in [Actors -> Places] /\ job \in [Actors -> Jobs \cup {NoJob}]
      /\ QueueTypeOK /\ QueueInv
  BY DEF Actors, TypeInv, TypeOK
<1>2. /\ UNCHANGED <<Rq, Wr>>
      /\ Ph' = [Ph EXCEPT ![w] = PassPhase(pc'[w])]
      /\ Tk' = [Tk EXCEPT ![w] = job'[w]]
  BY WorkerSeen
<1> USE DEF Goto
<1>3. ASSUME NEW j \in Jobs, Start(w, j) PROVE Life!Next
  <2>1. /\ pc[w] = "idle" /\ pc'[w] = "load" /\ job'[w] = j /\ server # "down"
        /\ UNCHANGED <<Ds, Cl, server>>
    BY <1>1, <1>3 DEF Start, Ds, Cl
  <2>2. /\ Ph[w] = "none" /\ Ph' = [Ph EXCEPT ![w] = "begun"]
        /\ Tk' = [Tk EXCEPT ![w] = j]
    BY <1>2, <2>1 DEF Ph, PassPhase
  <2>3. Take(w, j)
    BY <1>3 DEF Start
  <2>4. /\ Us[j] < MaxAttempts + MaxStalls
        /\ Us' = [Us EXCEPT ![j] = @ + 1]
    BY <1>1, <2>3, TakeCount DEF Us
  <2>5. j \in Of /\ Of' = Of
    <3>1. queue[j].state # "absent"
      BY <2>3 DEF Take
    <3>2. \A i \in Jobs : (queue'[i].state # "absent") <=> (queue[i].state # "absent")
      BY <1>1, <2>3, <3>1, EntryKept DEF Take, QueueKept
    <3> QED BY <3>1, <3>2 DEF Of
  <2>6. Life!Begin(w, j)
    BY <1>2, <2>1, <2>2, <2>4, <2>5
       DEF Life!Begin, Life!Phase, Life!requestVars, Ds, Rq, Wr, Of, Us, Ph, Tk, Cl
  <2> QED BY <2>6 DEF Life!Next
<1>4. CASE EndJob(w)
  <2>1. /\ pc[w] \in {"ack", "throw"} /\ pc'[w] = "idle" /\ job'[w] = NoJob
        /\ UNCHANGED <<Ds, Cl, server>>
    BY <1>1, <1>4 DEF EndJob, Ds, Cl
  <2>2. /\ Ph[w] = "over" /\ Ph' = [Ph EXCEPT ![w] = "none"]
        /\ Tk' = [Tk EXCEPT ![w] = NoJob]
    BY <1>2, <2>1 DEF Ph, PassPhase
  <2>3. UNCHANGED <<Of, Us>>
    <3>1. job[w] \in Jobs
      BY <2>1 DEF TypeInv, TypeOK
    <3> QED BY <1>4, <3>1, QueueUnseen DEF EndJob
  <2>4. Life!End(w)
    BY <1>2, <2>1, <2>2, <2>3
       DEF Life!End, Life!Phase, Life!requestVars, Ds, Rq, Wr, Of, Us, Ph, Tk, Cl
  <2> QED BY <2>4 DEF Life!Next
<1> QED BY <1>3, <1>4

(* A pass from its first await to its end.                                 *)
LEMMA PassMaps ==
    ASSUME TypeInv, IndexInv, NEW w \in Workers, Alone(w), ~ Dies,
           \/ Load(w) \/ Mark(w) \/ Extract(w) \/ SaveText(w) \/ SaveChunks(w)
           \/ EmbedChunks(w) \/ Complete(w) \/ WorkThrows(w)
           \/ CatchRead(w) \/ CatchSave(w) \/ CatchThrows(w)
    PROVE  Life!Next \/ UNCHANGED Life!vars
<1>1. /\ w \in Actors /\ pc \in [Actors -> Places] /\ job \in [Actors -> Jobs \cup {NoJob}]
      /\ copy \in [Actors -> Documents]
  BY DEF Actors, TypeInv, TypeOK
<1>2. /\ UNCHANGED <<queue, job, server, stuck>> /\ pc[w] # "idle"
  BY DEF Load, Mark, Extract, SaveText, SaveChunks, EmbedChunks, Complete, WorkThrows,
         CatchRead, CatchSave, CatchThrows
<1>3. /\ UNCHANGED <<Rq, Wr, Of, Us, Tk, Cl, server>>
      /\ Ph' = [Ph EXCEPT ![w] = PassPhase(pc'[w])]
      /\ Ph[w] = PassPhase(pc[w])
  BY <1>1, <1>2, WorkerSeen DEF Of, Us, Attempts, Tk, Cl, Ph
<1>4. PICK d \in Docs : d = DocOf[Tk[w]] /\ d = DocOf[job[w]]
  BY <1>2, KbAssumption DEF TypeInv, TypeOK, Tk
(* How the step looks from outside.                                        *)
<1>5. ASSUME UNCHANGED Ds, PassPhase(pc'[w]) = PassPhase(pc[w]) PROVE UNCHANGED Life!vars
  <2>1. UNCHANGED Ph
    BY <1>3, <1>5 DEF Ph
  <2> QED BY <1>3, <1>5, <2>1, LifeStutter
<1> DEFINE q == PassPhase(pc'[w])
<1>6. ASSUME UNCHANGED Ds,
             \/ Ph[w] \in {"begun", "working"} /\ q = "failing"
             \/ Ph[w] = "working" /\ q = "cancelling"
      PROVE  Life!Next
  <2>1. Life!Turn(w)
    BY <1>3, <1>6
       DEF Life!Turn, Life!Phase, Life!passFrame, Life!requestVars,
           Ds, Rq, Wr, Of, Us, Ph, Tk, Cl
  <2> QED BY <2>1 DEF Life!Next
<1>7. ASSUME Ds' = [Ds EXCEPT ![d] = "processing"], Ph[w] \in {"begun", "working"},
             q \in {"working", "failing", "cancelling"}
      PROVE  Life!Next
  <2>1. PICK p \in {"working", "failing", "cancelling"} : Ph' = [Ph EXCEPT ![w] = p]
    BY <1>3, <1>7
  <2>2. Life!Mark(w)
    BY <1>3, <1>4, <1>7, <2>1
       DEF Life!Mark, Life!Put, Life!Phase, Life!passFrame, Life!requestVars,
           Ds, Rq, Wr, Of, Us, Ph, Tk, Cl
  <2> QED BY <2>2 DEF Life!Next
<1>8. ASSUME \/ Ph[w] = "working" /\ Ds' = [Ds EXCEPT ![d] = "completed"]
             \/ Ph[w] = "failing" /\ Ds' = [Ds EXCEPT ![d] = "failed"]
             \/ Ph[w] = "cancelling" /\ Ds' = [Ds EXCEPT ![d] = "cancelled"],
             q = "over"
      PROVE  Life!Next
  <2>1. Life!Record(w)
    BY <1>3, <1>4, <1>8
       DEF Life!Record, Life!Put, Life!Phase, Life!passFrame, Life!requestVars,
           Ds, Rq, Wr, Of, Us, Ph, Tk, Cl
  <2> QED BY <2>1 DEF Life!Next
<1>9. ASSUME UNCHANGED Ds, Ph[w] \in {"failing", "cancelling"}, q = "over" PROVE Life!Next
  <2>1. Life!GiveUp(w)
    BY <1>3, <1>9
       DEF Life!GiveUp, Life!Phase, Life!passFrame, Life!requestVars,
           Ds, Rq, Wr, Of, Us, Ph, Tk, Cl
  <2> QED BY <2>1 DEF Life!Next
<1> USE DEF Goto, Check
(* The steps themselves.                                                   *)
<1>10. CASE Load(w)
  <2>1. pc[w] = "load" /\ pc'[w] \in {"mark", "failed"} /\ UNCHANGED Ds
    BY <1>1, <1>10 DEF Load, Ds
  <2> QED BY <1>3, <1>5, <1>6, <2>1 DEF PassPhase
<1>11. CASE Mark(w)
  <2>1. /\ pc[w] = "mark" /\ pc'[w] \in {"extract", "chunk", "cancelled"}
        /\ Save(d, copy'[w])
    BY <1>1, <1>4, <1>11 DEF Mark
  <2>2. copy'[w].status = "processing"
    BY <1>1, <1>11 DEF Mark, Documents
  <2>3. PICK r : r = copy'[w]
    OBVIOUS
  <2>4. Ds' = [Ds EXCEPT ![d] = "processing"]
    BY <2>1, <2>2, <2>3, SaveSeen
  <2> QED BY <1>3, <1>7, <2>1, <2>4 DEF PassPhase
<1>12. CASE Extract(w)
  <2>1. pc[w] = "extract" /\ pc'[w] \in {"saveText", "cancelled"} /\ UNCHANGED Ds
    BY <1>1, <1>12 DEF Extract, Ds
  <2> QED BY <1>3, <1>5, <1>6, <2>1 DEF PassPhase
<1>13. CASE SaveText(w)
  <2>1. /\ pc[w] = "saveText" /\ pc'[w] \in {"failed", "chunk", "cancelled"}
        /\ Save(d, copy[w])
    BY <1>1, <1>4, <1>13 DEF SaveText
  <2>2. copy[w].status = "processing"
    BY <2>1 DEF IndexInv, PassSound
  <2>3. Ds' = [Ds EXCEPT ![d] = "processing"]
    BY <2>1, <2>2, SaveSeen
  <2> QED BY <1>3, <1>7, <2>1, <2>3 DEF PassPhase
<1>14. CASE SaveChunks(w)
  <2>1. pc[w] = "chunk" /\ pc'[w] \in {"chunk", "embed", "cancelled"} /\ UNCHANGED Ds
    BY <1>1, <1>14 DEF SaveChunks, Ds
  <2> QED BY <1>3, <1>5, <1>6, <2>1 DEF PassPhase
<1>15. CASE EmbedChunks(w)
  <2>1. pc[w] = "embed" /\ pc'[w] \in {"embed", "complete", "failed"} /\ UNCHANGED Ds
    BY <1>1, <1>15 DEF EmbedChunks, Ds
  <2> QED BY <1>3, <1>5, <1>6, <2>1 DEF PassPhase
<1>16. CASE Complete(w)
  <2>1. /\ pc[w] = "complete" /\ pc'[w] = "ack"
        /\ Save(d, [copy[w] EXCEPT !.status = "completed", !.count = Parts])
    BY <1>1, <1>4, <1>16 DEF Complete
  <2>2. [copy[w] EXCEPT !.status = "completed", !.count = Parts].status = "completed"
    BY <1>1 DEF Documents
  <2>3. Ds' = [Ds EXCEPT ![d] = "completed"]
    BY <2>1, <2>2, SaveSeen
  <2> QED BY <1>3, <1>8, <2>1, <2>3 DEF PassPhase
<1>17. CASE WorkThrows(w)
  <2>1. /\ pc[w] \in {"load", "mark", "extract", "saveText", "chunk", "embed", "complete"}
        /\ pc'[w] = "failed" /\ UNCHANGED Ds
    BY <1>1, <1>17 DEF WorkThrows, Ds
  <2> QED BY <1>3, <1>6, <2>1 DEF PassPhase
<1>18. CASE CatchRead(w)
  <2>1. /\ pc[w] \in {"cancelled", "failed"} /\ UNCHANGED Ds
        /\ \/ pc[w] = "failed" /\ pc'[w] \in {"saveFailed", "throw"}
           \/ pc[w] = "cancelled" /\ pc'[w] \in {"saveCancelled", "ack"}
    BY <1>1, <1>18 DEF CatchRead, Ds
  <2> QED BY <1>3, <1>5, <1>9, <2>1 DEF PassPhase
<1>19. CASE CatchSave(w)
  <2>1. CASE pc[w] = "saveCancelled"
    <3>1. Save(d, [copy[w] EXCEPT !.status = "cancelled"]) /\ pc'[w] = "ack"
      BY <1>1, <1>4, <1>19, <2>1 DEF CatchSave
    <3>2. [copy[w] EXCEPT !.status = "cancelled"].status = "cancelled"
      BY <1>1 DEF Documents
    <3>3. Ds' = [Ds EXCEPT ![d] = "cancelled"]
      BY <3>1, <3>2, SaveSeen
    <3> QED BY <1>3, <1>8, <2>1, <3>1, <3>3 DEF PassPhase
  <2>2. CASE pc[w] = "saveFailed"
    <3>1. Save(d, [copy[w] EXCEPT !.status = "failed"]) /\ pc'[w] = "throw"
      BY <1>1, <1>4, <1>19, <2>2 DEF CatchSave
    <3>2. [copy[w] EXCEPT !.status = "failed"].status = "failed"
      BY <1>1 DEF Documents
    <3>3. Ds' = [Ds EXCEPT ![d] = "failed"]
      BY <3>1, <3>2, SaveSeen
    <3> QED BY <1>3, <1>8, <2>2, <3>1, <3>3 DEF PassPhase
  <2> QED BY <1>19, <2>1, <2>2 DEF CatchSave
<1>20. CASE CatchThrows(w)
  <2>1. /\ pc[w] \in {"cancelled", "failed", "saveCancelled", "saveFailed"}
        /\ pc'[w] = "throw" /\ UNCHANGED Ds
    BY <1>1, <1>20 DEF CatchThrows, Ds
  <2> QED BY <1>3, <1>9, <2>1 DEF PassPhase
<1> QED
  BY <1>10, <1>11, <1>12, <1>13, <1>14, <1>15, <1>16, <1>17, <1>18, <1>19, <1>20

LEMMA WorkerMaps ==
    ASSUME TypeInv, IndexInv, NEW w \in Workers, WorkerStep(w)
    PROVE  Life!Next \/ UNCHANGED Life!vars
<1>1. CASE Dies
  <2>1. pc'[w] = "idle"
    BY <1>1 DEF Dies, Actors
  <2>2. ~ (Mark(w) \/ SaveText(w) \/ Complete(w) \/ CatchSave(w) \/ \E j \in Jobs : Start(w, j))
    BY <2>1 DEF Mark, SaveText, Complete, CatchSave, Start, Check, Goto, TypeInv, TypeOK, Actors
  <2>3. UNCHANGED doc
    BY <2>2 DEF WorkerStep, Load, Extract, SaveChunks, EmbedChunks, WorkThrows, CatchRead,
                CatchThrows, EndJob
  <2>4. UNCHANGED <<Of, Us>>
    <3>1. CASE EndJob(w)
      BY <3>1, QueueUnseen DEF EndJob, TypeInv, TypeOK
    <3>2. CASE ~ EndJob(w)
      BY <2>2, <3>2
         DEF WorkerStep, Load, Extract, SaveChunks, EmbedChunks, WorkThrows, CatchRead,
             CatchThrows, Of, Us, Attempts
    <3> QED BY <3>1, <3>2
  <2> QED BY <1>1, <2>3, <2>4, DiesMaps DEF Life!Next
<1>2. CASE ~ Dies
  <2>1. Alone(w)
    BY <1>2, WorkerAlone
  <2> QED BY <1>2, <2>1, EndsMap, PassMaps DEF WorkerStep
<1> QED BY <1>1, <1>2

LEMMA LifeStep ==
    ASSUME TypeInv, IndexInv, [Next]_vars
    PROVE  [Life!Next]_(Life!vars)
<1>1. CASE UNCHANGED vars
  BY <1>1, LifeStutter, ActorsUnseen DEF vars, Ds, Of, Us, Attempts, Cl
<1>2. CASE Next
  BY <1>2, ServerMaps, RequestMaps, ClientMaps, WorkerMaps DEF Next
<1> QED BY <1>1, <1>2

(* KBDocumentsService, the queue service with its map, the processor and   *)
(* the entries of the queue, with requests, cancels, stalls, crashes and   *)
(* restarts in any order: what the status of a document shows is one       *)
(* DocumentLife.                                                           *)
THEOREM LifeRefinement == Spec => ImplementsLife
<1>1. Init => Life!Init
  BY KbAssumption
     DEF Init, QueueInit, NoDoc, Actors, Life!Init, RequestPhase, PassPhase, Writes, Attempts
<1>2. TypeInv /\ IndexInv /\ [Next]_vars => IndexInv'
  BY IndexStep, IndexStutters
<1>3. TypeInv /\ IndexInv /\ [Next]_vars => [Life!Next]_(Life!vars)
  BY LifeStep
<1> QED
  BY <1>1, <1>2, <1>3, InitTypeInv, InitIndexInv, TypeStep, PTL
     DEF Spec, ImplementsLife, Life!Spec
===============================================================================
