----------------------------- MODULE KbProcessing -----------------------------
(***************************************************************************)
(* Knowledge base documents and their processing: KBDocumentsService,      *)
(* KBProcessingQueueService with its in-memory map of jobs, KBProcessor,   *)
(* and the entries of the kb-processing queue (JobQueue).                  *)
(*                                                                         *)
(* One server process runs the request handlers and the worker; its map of *)
(* jobs dies with it.  A document is loaded once, changed in memory and    *)
(* saved several times as a whole: whoever saves last decides every        *)
(* column, and a save of a removed document inserts it again.              *)
(***************************************************************************)
EXTENDS JobQueue

CONSTANTS Clients,      \* HTTP requests, one each
          Op,           \* what each request does
          Docs,         \* documents
          DocOf,        \* the document each request is about
          Texts,        \* contents of documents
          NoText,       \* the content of an uploaded file not yet extracted
          Parts,        \* batches of chunks in a text
          NoJob,        \* the job of an actor that has none
          Faults,       \* the kinds of fault that may happen
          MaxFaults     \* bound on the faults of one behaviour

(* addJob invents a new id at every call: a job has the name of the        *)
(* request that adds it.  No attempts are configured, so there is one.     *)
ASSUME KbAssumption ==
    /\ Op \in [Clients -> {"create", "edit", "rename", "remove", "cancel"}]
    /\ Jobs = {c \in Clients : Op[c] \in {"create", "edit"}}
    /\ DocOf \in [Clients -> Docs]
    /\ Workers \cap Clients = {}
    /\ NoText \notin Texts
    /\ NoJob \notin Jobs
    /\ MaxAttempts = 1
    /\ Parts \in Nat \ {0}
    /\ Faults \subseteq {"db", "crash", "lock"}
    /\ MaxFaults \in Nat

VARIABLES doc,          \* the row of each document
          chunks,       \* the rows of kb_chunk
          track,        \* the status of each job in the map of the process
          server,       \* whether the process runs, or is still starting
          stuck,        \* documents its start-up still has to mark FAILED
          pc,           \* where an actor is
          job,          \* the job it works on, or has canceled
          copy,         \* the document it has loaded
          found,        \* the chunks a remove has loaded
          run,          \* which pass over its job a worker is in
          part,         \* batches done in the loop it is in
          good,         \* whether a chunk has been embedded in this pass
          faults        \* faults so far

workVars == <<run, part, good>>
actorVars == <<pc, job, copy, found, run, part, good>>
vars == <<queue, doc, chunks, track, server, stuck, pc, job, copy, found,
          run, part, good, faults>>

Actors == Workers \cup Clients

-------------------------------------------------------------------------------
(* Rows.                                                                   *)

Documents ==
    [status : {"none", "pending", "processing", "completed", "failed", "cancelled"},
     text : Texts \cup {NoText}, count : {0, Parts}]

NoDoc == [status |-> "none", text |-> NoText, count |-> 0]
NewDoc(t) == [status |-> "pending", text |-> t, count |-> 0]

Exists(d) == doc[d].status # "none"

(* A run is the number of times the entry had stalled when it was taken.   *)
Chunks == [job : Jobs, run : 0 .. MaxStalls + 1, part : 1 .. Parts,
           text : Texts, embedded : BOOLEAN]

(* Mutant: the batches counted from one instead of from zero.              *)
ChunkOffByOne(w, p, e) == [job |-> job[w], run |-> run[w], part |-> p + 1,
                           text |-> copy[w].text, embedded |-> e]

Chunk(w, p, e) == [job |-> job[w], run |-> run[w], part |-> p,
                   text |-> copy[w].text, embedded |-> e]

ChunksOf(d) == {k \in chunks : DocOf[k.job] = d}

Places == {"idle", "load", "mark", "extract", "saveText", "chunk", "embed",
           "complete", "cancelled", "failed", "saveCancelled", "saveFailed",
           "ack", "throw", "confirm", "enqueue", "edit", "dequeue",
           "removeChunks", "removeDoc", "done", "aborted"}

TypeOK ==
    /\ QueueTypeOK
    /\ doc \in [Docs -> Documents]
    /\ chunks \subseteq Chunks
    /\ track \in [Jobs -> {"none", "queued", "processing", "completed",
                           "failed", "cancelled"}]
    /\ server \in {"starting", "up", "down"}
    /\ stuck \in [Docs -> Documents]
    /\ pc \in [Actors -> Places]
    /\ job \in [Actors -> Jobs \cup {NoJob}]
    /\ \A w \in Workers : pc[w] # "idle" => job[w] \in Jobs
    /\ copy \in [Actors -> Documents]
    /\ found \in [Clients -> SUBSET Chunks]
    /\ run \in [Workers -> 0 .. MaxStalls + 1]
    /\ part \in [Workers -> 0 .. Parts]
    /\ good \in [Workers -> BOOLEAN]
    /\ faults \in 0 .. MaxFaults

Init ==
    /\ QueueInit
    /\ doc = [d \in Docs |-> NoDoc]
    /\ chunks = {}
    /\ track = [j \in Jobs |-> "none"]
    /\ server = "up"
    /\ stuck = [d \in Docs |-> NoDoc]
    /\ pc = [a \in Actors |-> "idle"]
    /\ job = [a \in Actors |-> NoJob]
    /\ copy = [a \in Actors |-> NoDoc]
    /\ found = [c \in Clients |-> {}]
    /\ run = [w \in Workers |-> 0]
    /\ part = [w \in Workers |-> 0]
    /\ good = [w \in Workers |-> FALSE]
    /\ faults = 0

Goto(a, p) == pc' = [pc EXCEPT ![a] = p]
Save(d, r) == doc' = [doc EXCEPT ![d] = r]

Fault(kind) == kind \in Faults /\ faults < MaxFaults /\ faults' = faults + 1

-------------------------------------------------------------------------------
(* The map of jobs.  Once canceled, a job keeps that status in the map.    *)

(* Mutant: the guards of startJob, completeJob and failJob dropped.        *)
TrackedAnyway(j, s) == track' = [track EXCEPT ![j] = s]

Tracked(j, s) ==
    track' = [track EXCEPT ![j] = IF @ = "cancelled" THEN @ ELSE s]

(* checkCancellation: throws into the catch block.                         *)
Check(w, next) ==
    Goto(w, IF track[job[w]] = "cancelled" THEN "cancelled" ELSE next)

-------------------------------------------------------------------------------
(* Requests.                                                               *)

Accepts(c, op) ==
    /\ server = "up" /\ \A d \in Docs : stuck[d] = NoDoc
    /\ pc[c] = "idle" /\ Op[c] = op

(* create saves the document and calls addJob, which enters the job in the *)
(* map at once and then queues it; in between, an upload confirms its file.*)
Create(c) ==
    /\ Accepts(c, "create")
    /\ ~ Exists(DocOf[c])
    /\ \E t \in Texts \cup {NoText}, upload \in BOOLEAN :
          /\ t = NoText => upload
          /\ Save(DocOf[c], NewDoc(t))
          /\ IF upload
               THEN Goto(c, "confirm") /\ UNCHANGED track
               ELSE Goto(c, "enqueue") /\ track' = [track EXCEPT ![c] = "queued"]
    /\ UNCHANGED <<queue, chunks, server, stuck, job, copy, found, workVars, faults>>

Confirm(c) ==
    /\ pc[c] = "confirm"
    /\ Goto(c, "enqueue")
    /\ track' = [track EXCEPT ![c] = "queued"]
    /\ UNCHANGED <<queue, doc, chunks, server, stuck, job, copy, found, workVars, faults>>

Enqueue(c) ==
    /\ pc[c] = "enqueue"
    /\ Add(c)
    /\ Goto(c, "done")
    /\ UNCHANGED <<doc, chunks, track, server, stuck, job, copy, found, workVars, faults>>

(* update and moveToFolder: load, change, save.  A new text goes back to   *)
(* PENDING and is processed again.                                         *)
EditRead(c) ==
    /\ Accepts(c, "edit") \/ Accepts(c, "rename")
    /\ Exists(DocOf[c])
    /\ copy' = [copy EXCEPT ![c] = doc[DocOf[c]]]
    /\ Goto(c, "edit")
    /\ UNCHANGED <<queue, doc, chunks, track, server, stuck, job, found, workVars, faults>>

EditSave(c) ==
    /\ pc[c] = "edit"
    /\ \/ /\ Op[c] = "rename"
          /\ Save(DocOf[c], copy[c])
          /\ Goto(c, "done")
          /\ UNCHANGED track
       \/ /\ Op[c] = "edit"
          /\ \E t \in Texts \ {copy[c].text} :
                Save(DocOf[c], [copy[c] EXCEPT !.status = "pending", !.text = t])
          /\ track' = [track EXCEPT ![c] = "queued"]
          /\ Goto(c, "enqueue")
    /\ copy' = [copy EXCEPT ![c] = NoDoc]
    /\ UNCHANGED <<queue, chunks, server, stuck, job, found, workVars, faults>>

(* remove: the chunks that were there when it looked, then the document.   *)
RemoveRead(c) ==
    /\ Accepts(c, "remove")
    /\ Exists(DocOf[c])
    /\ found' = [found EXCEPT ![c] = ChunksOf(DocOf[c])]
    /\ Goto(c, "removeChunks")
    /\ UNCHANGED <<queue, doc, chunks, track, server, stuck, job, copy, workVars, faults>>

Row(k) == [job |-> k.job, run |-> k.run, part |-> k.part]

RemoveChunks(c) ==
    /\ pc[c] = "removeChunks"
    /\ chunks' = {k \in chunks : \A f \in found[c] : Row(f) # Row(k)}
    /\ found' = [found EXCEPT ![c] = {}]
    /\ Goto(c, "removeDoc")
    /\ UNCHANGED <<queue, doc, track, server, stuck, job, copy, workVars, faults>>

RemoveDoc(c) ==
    /\ pc[c] = "removeDoc"
    /\ Save(DocOf[c], NoDoc)
    /\ Goto(c, "done")
    /\ UNCHANGED <<queue, chunks, track, server, stuck, job, copy, found, workVars, faults>>

(* cancelJob: the map at once, whatever the job's status there; then the   *)
(* entry, which stays while a worker holds its lock.                       *)
Cancel(c) ==
    /\ Accepts(c, "cancel")
    /\ \E j \in Jobs :
          /\ track[j] # "none"
          /\ track' = [track EXCEPT ![j] = "cancelled"]
          /\ job' = [job EXCEPT ![c] = j]
    /\ Goto(c, "dequeue")
    /\ UNCHANGED <<queue, doc, chunks, server, stuck, copy, found, workVars, faults>>

Dequeue(c) ==
    /\ pc[c] = "dequeue"
    /\ Remove(job[c])
    /\ Goto(c, "done")
    /\ UNCHANGED <<doc, chunks, track, server, stuck, job, copy, found, workVars, faults>>

(* A call to the database, the queue or the file store throws.             *)
RequestThrows(c) ==
    /\ pc[c] \in {"confirm", "enqueue", "edit", "removeChunks", "removeDoc"}
    /\ Fault("db")
    /\ Goto(c, "aborted")
    /\ copy' = [copy EXCEPT ![c] = NoDoc]
    /\ found' = [found EXCEPT ![c] = {}]
    /\ UNCHANGED <<queue, doc, chunks, track, server, stuck, job, workVars>>

-------------------------------------------------------------------------------
(* The process and the map die: with them the workers' passes and the      *)
(* requests under way.  The entry stays active until its lock expires.     *)
Dies ==
    /\ server' = "down"
    /\ track' = [j \in Jobs |-> "none"]
    /\ stuck' = [d \in Docs |-> NoDoc]
    /\ pc' = [a \in Actors |-> IF a \in Workers THEN "idle"
                               ELSE IF pc[a] \in {"idle", "done"} THEN pc[a]
                               ELSE "aborted"]
    /\ job' = [a \in Actors |-> IF a \in Workers THEN NoJob ELSE job[a]]
    /\ copy' = [a \in Actors |-> NoDoc]
    /\ found' = [c \in Clients |-> {}]
    /\ run' = [w \in Workers |-> 0]
    /\ part' = [w \in Workers |-> 0]
    /\ good' = [w \in Workers |-> FALSE]

Crash ==
    /\ server # "down"
    /\ Fault("crash")
    /\ Dies
    /\ UNCHANGED <<queue, doc, chunks>>

(* The worker starts before cleanupStuckJobs has looked at the documents.  *)
Restart ==
    /\ server = "down"
    /\ server' = "starting"
    /\ UNCHANGED <<queue, doc, chunks, track, stuck, actorVars, faults>>

(* Mutant: a clean-up that takes no notice of the documents.               *)
NoCleanUp ==
    /\ server = "starting"
    /\ server' = "up"
    /\ UNCHANGED <<queue, doc, chunks, track, stuck, actorVars, faults>>

(* Mutant: a clean-up that also takes the documents that wait for a worker.*)
FindUnfinished ==
    /\ server = "starting"
    /\ server' = "up"
    /\ stuck' = [d \in Docs |-> IF doc[d].status \in {"pending", "processing"}
                                 THEN doc[d] ELSE NoDoc]
    /\ UNCHANGED <<queue, doc, chunks, track, actorVars, faults>>

(* cleanupStuckJobs loads the documents in PROCESSING and marks them       *)
(* FAILED one after the other; only then does the process accept requests. *)
FindStuck ==
    /\ server = "starting"
    /\ server' = "up"
    /\ stuck' = [d \in Docs |-> IF doc[d].status = "processing" THEN doc[d] ELSE NoDoc]
    /\ UNCHANGED <<queue, doc, chunks, track, actorVars, faults>>

CleanUp(d) ==
    /\ server = "up"
    /\ stuck[d] # NoDoc
    /\ Save(d, [stuck[d] EXCEPT !.status = "failed"])
    /\ stuck' = [stuck EXCEPT ![d] = NoDoc]
    /\ UNCHANGED <<queue, chunks, track, server, actorVars, faults>>

-------------------------------------------------------------------------------
(* KBProcessor.handleProcessDocument.                                      *)

(* Up to its first await: the entry is taken, and the job is in the map    *)
(* (ensureJobTracking) and started.                                        *)
Start(w, j) ==
    /\ server # "down"
    /\ pc[w] = "idle"
    /\ Take(w, j)
    /\ Tracked(j, "processing")
    /\ job' = [job EXCEPT ![w] = j]
    /\ run' = [run EXCEPT ![w] = queue[j].stalls]
    /\ Goto(w, "load")
    /\ UNCHANGED <<doc, chunks, server, stuck, copy, found, part, good, faults>>

Load(w) ==
    /\ pc[w] = "load"
    /\ copy' = [copy EXCEPT ![w] = doc[DocOf[job[w]]]]
    /\ Goto(w, IF Exists(DocOf[job[w]]) THEN "mark" ELSE "failed")
    /\ UNCHANGED <<queue, doc, chunks, track, server, stuck, job, found, workVars, faults>>

(* After its save the document is PROCESSING, in the copy as well.         *)
Mark(w) ==
    /\ pc[w] = "mark"
    /\ copy' = [copy EXCEPT ![w].status = "processing"]
    /\ Save(DocOf[job[w]], copy'[w])
    /\ Check(w, IF copy[w].text = NoText THEN "extract" ELSE "chunk")
    /\ UNCHANGED <<queue, chunks, track, server, stuck, job, found, workVars, faults>>

(* The file is downloaded and its text extracted, if it has any.           *)
Extract(w) ==
    /\ pc[w] = "extract"
    /\ Check(w, "saveText")
    /\ \E t \in Texts \cup {NoText} : copy' = [copy EXCEPT ![w].text = t]
    /\ UNCHANGED <<queue, doc, chunks, track, server, stuck, job, found, workVars, faults>>

SaveText(w) ==
    /\ pc[w] = "saveText"
    /\ Save(DocOf[job[w]], copy[w])
    /\ Check(w, IF copy[w].text = NoText THEN "failed" ELSE "chunk")
    /\ UNCHANGED <<queue, chunks, track, server, stuck, job, copy, found, workVars, faults>>

(* One batch of chunks is saved, unless the job has been canceled; after   *)
(* the last one the embedding begins.                                      *)
SaveChunks(w) ==
    /\ pc[w] = "chunk"
    /\ \/ /\ track[job[w]] = "cancelled"
          /\ Goto(w, "cancelled")
          /\ UNCHANGED <<chunks, part>>
       \/ /\ track[job[w]] # "cancelled"
          /\ chunks' = chunks \cup {Chunk(w, part[w] + 1, FALSE)}
          /\ IF part[w] + 1 < Parts
               THEN part' = [part EXCEPT ![w] = @ + 1] /\ UNCHANGED pc
               ELSE part' = [part EXCEPT ![w] = 0] /\ Goto(w, "embed")
    /\ UNCHANGED <<queue, doc, track, server, stuck, job, copy, found, run, good, faults>>

(* Mutant: no look at the failures of the embedding.                       *)
EmbedChunksAnyway(w) ==
    /\ pc[w] = "embed"
    /\ \E ok \in BOOLEAN :
          /\ chunks' = (chunks \ {Chunk(w, part[w] + 1, FALSE)})
                          \cup {Chunk(w, part[w] + 1, ok)}
          /\ part' = [part EXCEPT ![w] = 0]
          /\ Goto(w, "complete")
    /\ UNCHANGED <<queue, doc, track, server, stuck, job, copy, found, run, good, faults>>

(* One batch of chunks is embedded, or fails; each row is saved as the     *)
(* worker has it.  onProgress is not awaited: what its checkCancellation   *)
(* throws is an unhandled rejection, which ends a Node.js process.         *)
EmbedChunks(w) ==
    /\ pc[w] = "embed"
    /\ \E ok \in BOOLEAN :
          /\ chunks' = (chunks \ {Chunk(w, part[w] + 1, FALSE)})
                          \cup {Chunk(w, part[w] + 1, ok)}
          /\ \/ track[job[w]] = "cancelled" /\ Dies
             \/ /\ track[job[w]] # "cancelled"
                /\ good' = [good EXCEPT ![w] = @ \/ ok]
                /\ IF part[w] + 1 < Parts
                     THEN part' = [part EXCEPT ![w] = @ + 1] /\ UNCHANGED pc
                     ELSE /\ part' = [part EXCEPT ![w] = 0]
                          /\ Goto(w, IF good'[w] THEN "complete" ELSE "failed")
                /\ UNCHANGED <<track, server, stuck, job, copy, found, run>>
    /\ UNCHANGED <<queue, doc, faults>>

Complete(w) ==
    /\ pc[w] = "complete"
    /\ Save(DocOf[job[w]], [copy[w] EXCEPT !.status = "completed", !.count = Parts])
    /\ Tracked(job[w], "completed")
    /\ Goto(w, "ack")
    /\ UNCHANGED <<queue, chunks, server, stuck, job, copy, found, workVars, faults>>

(* Anything in the try block may throw.                                    *)
WorkThrows(w) ==
    /\ pc[w] \in {"load", "mark", "extract", "saveText", "chunk", "embed", "complete"}
    /\ Goto(w, "failed")
    /\ UNCHANGED <<queue, doc, chunks, track, server, stuck, job, copy, found,
                   workVars, faults>>

(* The catch block loads the document again.  If it is gone, there is only *)
(* the map to update.                                                      *)
CatchRead(w) ==
    /\ pc[w] \in {"cancelled", "failed"}
    /\ copy' = [copy EXCEPT ![w] = doc[DocOf[job[w]]]]
    /\ IF Exists(DocOf[job[w]])
         THEN /\ Goto(w, IF pc[w] = "failed" THEN "saveFailed" ELSE "saveCancelled")
              /\ UNCHANGED track
         ELSE \/ /\ pc[w] = "cancelled"
                 /\ Goto(w, "ack")
                 /\ UNCHANGED track
              \/ /\ pc[w] = "failed"
                 /\ Goto(w, "throw")
                 /\ Tracked(job[w], "failed")
    /\ UNCHANGED <<queue, doc, chunks, server, stuck, job, found, workVars, faults>>

(* Mutant: a catch block that leaves the document alone.                   *)
CatchSaveNothing(w) ==
    /\ \/ /\ pc[w] = "saveCancelled"
          /\ Goto(w, "ack")
          /\ UNCHANGED track
       \/ /\ pc[w] = "saveFailed"
          /\ Goto(w, "throw")
          /\ Tracked(job[w], "failed")
    /\ UNCHANGED <<queue, doc, chunks, server, stuck, job, copy, found, workVars, faults>>

(* Mutant: a catch block without failJob.                                  *)
CatchSaveUntracked(w) ==
    /\ \/ /\ pc[w] = "saveCancelled"
          /\ Save(DocOf[job[w]], [copy[w] EXCEPT !.status = "cancelled"])
          /\ Goto(w, "ack")
       \/ /\ pc[w] = "saveFailed"
          /\ Save(DocOf[job[w]], [copy[w] EXCEPT !.status = "failed"])
          /\ Goto(w, "throw")
    /\ UNCHANGED <<queue, chunks, track, server, stuck, job, copy, found, workVars,
                   faults>>

CatchSave(w) ==
    /\ \/ /\ pc[w] = "saveCancelled"
          /\ Save(DocOf[job[w]], [copy[w] EXCEPT !.status = "cancelled"])
          /\ Goto(w, "ack")
          /\ UNCHANGED track
       \/ /\ pc[w] = "saveFailed"
          /\ Save(DocOf[job[w]], [copy[w] EXCEPT !.status = "failed"])
          /\ Goto(w, "throw")
          /\ Tracked(job[w], "failed")
    /\ UNCHANGED <<queue, chunks, server, stuck, job, copy, found, workVars, faults>>

CatchThrows(w) ==
    /\ pc[w] \in {"cancelled", "failed", "saveCancelled", "saveFailed"}
    /\ Fault("db")
    /\ Goto(w, "throw")
    /\ UNCHANGED <<queue, doc, chunks, track, server, stuck, job, copy, found, workVars>>

(* The handler returned or threw, and BullMQ ends the only attempt.        *)
EndJob(w) ==
    /\ \/ pc[w] = "ack" /\ Finish(w, job[w])
       \/ pc[w] = "throw" /\ Retry(w, job[w])
    /\ Goto(w, "idle")
    /\ job' = [job EXCEPT ![w] = NoJob]
    /\ copy' = [copy EXCEPT ![w] = NoDoc]
    /\ run' = [run EXCEPT ![w] = 0]
    /\ part' = [part EXCEPT ![w] = 0]
    /\ good' = [good EXCEPT ![w] = FALSE]
    /\ UNCHANGED <<doc, chunks, track, server, stuck, found, faults>>

-------------------------------------------------------------------------------
(* The lock of an entry expires when its worker is dead or, a fault, when  *)
(* its event loop is blocked for too long.                                 *)
LockExpired(j) ==
    queue[j].state = "active" /\ job[queue[j].owner] # j

StalledCheck(j) ==
    /\ server # "down"
    /\ Stall(j)
    /\ \/ LockExpired(j) /\ UNCHANGED faults
       \/ ~ LockExpired(j) /\ Fault("lock")
    /\ UNCHANGED <<doc, chunks, track, server, stuck, actorVars>>

-------------------------------------------------------------------------------
WorkerStep(w) ==
    \/ \E j \in Jobs : Start(w, j)
    \/ Load(w) \/ Mark(w) \/ Extract(w) \/ SaveText(w) \/ SaveChunks(w)
    \/ EmbedChunks(w) \/ Complete(w) \/ WorkThrows(w)
    \/ CatchRead(w) \/ CatchSave(w) \/ CatchThrows(w) \/ EndJob(w)

ClientStep(c) ==
    \/ Confirm(c) \/ Enqueue(c) \/ EditSave(c) \/ RemoveChunks(c) \/ RemoveDoc(c)
    \/ Dequeue(c) \/ RequestThrows(c)

Request(c) ==
    Create(c) \/ EditRead(c) \/ RemoveRead(c) \/ Cancel(c)

Next ==
    \/ \E w \in Workers : WorkerStep(w)
    \/ \E c \in Clients : ClientStep(c) \/ Request(c)
    \/ \E j \in Jobs : StalledCheck(j)
    \/ \E d \in Docs : CleanUp(d)
    \/ Restart \/ FindStuck \/ Crash

Spec == Init /\ [][Next]_vars

(* Handlers run to their end, a dead process is restarted and cleans up,   *)
(* and BullMQ's check finds expired locks.                                 *)
Fairness ==
    /\ \A w \in Workers : WF_vars(WorkerStep(w))
    /\ \A c \in Clients : WF_vars(ClientStep(c))
    /\ \A j \in Jobs : WF_vars(LockExpired(j) /\ StalledCheck(j))
    /\ \A d \in Docs : WF_vars(CleanUp(d))
    /\ WF_vars(Restart \/ FindStuck)

FairSpec == Spec /\ Fairness

-------------------------------------------------------------------------------
(* Properties.                                                             *)

Working(j) == \E w \in Workers : job[w] = j

(* A document that says COMPLETED has, from one pass of one job, every     *)
(* batch of the text it has now, and some of it is embedded: although      *)
(* whole old copies are saved over it, by the worker as by requests.       *)
(* Unless it has been removed.                                             *)
CompletedIsIndexed ==
    \A d \in Docs :
        doc[d].status = "completed" /\ (\A c \in Clients : DocOf[c] = d /\ Op[c] = "remove" => pc[c] = "idle") =>
            /\ doc[d].count = Parts
            /\ \E j \in Jobs, r \in 0 .. MaxStalls + 1 :
                  LET mine == {k \in ChunksOf(d) : /\ k.job = j /\ k.run = r
                                                   /\ k.text = doc[d].text}
                  IN  /\ \A p \in 1 .. Parts : \E k \in mine : k.part = p
                      /\ \E k \in mine : k.embedded

(* A document that says PROCESSING is being processed, or is about to be   *)
(* marked FAILED by the start-up of the process: none is left so for ever  *)
(* by cancels, edits, removals, crashes, lost locks or stalled entries.    *)
ProcessingIsAlive ==
    \A d \in Docs :
        doc[d].status = "processing" =>
            \/ server # "up"
            \/ stuck[d] # NoDoc
            \/ \E w \in Workers : job[w] # NoJob /\ DocOf[job[w]] = d

(* The same of the map that the user's list of jobs is made of.            *)
TrackedIsAlive ==
    \A j \in Jobs : track[j] = "processing" => Working(j)

(* While the process lives, the map does not forget a cancel, whatever the *)
(* worker does with the job at the same time.                              *)
CancelIsRemembered ==
    [][\A j \in Jobs : track[j] = "cancelled" /\ server' # "down" =>
                        track'[j] = "cancelled"]_vars

(* An entry in the queue is worked on until it is at rest, and then its    *)
(* document does not say PROCESSING unless another job is under way.       *)
EntriesSettle ==
    \A j \in Jobs :
        queue[j].state = "waiting" ~>
            /\ queue[j].state \in {"removed", "failed"}
            /\ ~ Working(j)
            /\ doc[DocOf[j]].status = "processing" =>
                  \E i \in Jobs : i # j /\ DocOf[i] = DocOf[j] /\ Working(i)

-------------------------------------------------------------------------------
(* The life of a document.  What a request is going to write, and how far  *)
(* a pass is, show in where their actor stands and in the copy it holds.   *)
RequestPhase(p) ==
    IF p = "idle" THEN "new"
    ELSE IF p \in {"confirm", "enqueue"} THEN "written"
    ELSE IF p \in {"edit", "removeChunks", "removeDoc"} THEN "accepted"
    ELSE "over"

Writes(c) == IF pc[c] # "edit" THEN "none"
             ELSE IF Op[c] = "rename" THEN copy[c].status ELSE "pending"

PassPhase(p) ==
    IF p = "idle" THEN "none"
    ELSE IF p \in {"load", "mark"} THEN "begun"
    ELSE IF p \in {"failed", "saveFailed"} THEN "failing"
    ELSE IF p \in {"cancelled", "saveCancelled"} THEN "cancelling"
    ELSE IF p \in {"ack", "throw"} THEN "over"
    ELSE "working"

Life == INSTANCE DocumentLife WITH
    Requests <- Clients,
    Slots    <- Workers,
    Budget   <- MaxAttempts + MaxStalls,
    status   <- [d \in Docs |-> doc[d].status],
    request  <- [c \in Clients |-> RequestPhase(pc[c])],
    write    <- [c \in Clients |-> Writes(c)],
    offered  <- {j \in Jobs : queue[j].state # "absent"},
    used     <- [j \in Jobs |-> Attempts(j)],
    pass     <- [w \in Workers |-> PassPhase(pc[w])],
    task     <- [w \in Workers |-> job[w]],
    cleaning <- {d \in Docs : stuck[d] # NoDoc}

(* Requests, worker and start-up together, in the order in which their     *)
(* saves of old copies happen to fall, write nothing else into a status.   *)
ImplementsLife == Life!Spec
===============================================================================
