----------------------------- MODULE CreationJobs -----------------------------
(***************************************************************************)
(* Creation jobs: the rows of creation_jobs, CreationJobsService, the      *)
(* JobProcessor that executes them, the public callback endpoint, and the  *)
(* status the browser is told.                                             *)
(*                                                                         *)
(* Two kinds of actors run concurrently: worker slots (JobProcessor) and   *)
(* clients (one HTTP request each).  Every change of a row goes through    *)
(* repository.update, which reads the row, merges a partial payload into   *)
(* the copy and saves the whole copy, with no transaction around the two:  *)
(* UpdateRead and UpdateSave are separate actions, and an actor calls them *)
(* with a payload and the place to return to.                              *)
(***************************************************************************)
EXTENDS JobQueue

CONSTANTS Clients,      \* HTTP requests, one each
          ClientOps,    \* the requests clients may make
          CallbackStatuses, \* the statuses an external tool may post
          PatchStatuses, \* the statuses a PATCH may carry, "keep" for none
          Tool,         \* how the tool of each job executes
          Steps,        \* steps of a workflow chain
          NoJob,        \* the job of an actor that has none
          Faults,       \* the kinds of fault that may happen
          MaxFaults     \* bound on the faults of one behaviour

ASSUME JobAssumption ==
    /\ Workers \cap Clients = {}
    /\ NoJob \notin Jobs
    /\ ClientOps \subseteq {"cancel", "callback", "patch", "delete"}
    /\ CallbackStatuses \subseteq {"DRAFT", "PENDING", "PROCESSING",
                                   "COMPLETED", "FAILED", "CANCELED"}
    /\ PatchStatuses \subseteq {"keep", "DRAFT", "PENDING", "PROCESSING",
                                "COMPLETED", "FAILED", "CANCELED"}
    /\ Tool \in [Jobs -> {"sync", "workflow", "async"}]
    /\ Steps \in Nat \ {0}
    /\ Faults \subseteq {"db", "crash", "abort", "lock"}
    /\ MaxFaults \in Nat

VARIABLES row,          \* the database row of each job
          creation,     \* how far the request that creates the job has got
          told,         \* the last status of the job pushed to the browser
          dispatched,   \* calls of strategy.execute for the job
          assets,       \* assets created for the job
          pc,           \* where an actor is
          job,          \* the job it works on
          payload,      \* the argument of the update it is in
          ret,          \* where that update returns to
          copy,         \* the row that update read
          step,         \* steps done by the workflow of a worker
          faults        \* faults so far

vars == <<queue, row, creation, told, dispatched, assets, pc, job, payload,
          ret, copy, step, faults>>
actorVars == <<pc, job, payload, ret, copy, step>>

Actors == Workers \cup Clients

-------------------------------------------------------------------------------
(* Rows and payloads.  The output is abstracted to what it is worth:       *)
(* nothing, the intermediate results of a workflow, or a result.  The      *)
(* error is the text of a failed attempt or of a cancel.                   *)

Statuses == {"DRAFT", "PENDING", "PROCESSING", "COMPLETED", "FAILED", "CANCELED"}
Outputs  == {"none", "partial", "result"}
Errors   == {"none", "failure", "canceled"}

Rows == [status : Statuses \cup {"NO_ROW"}, progress : 0 .. 100,
         output : Outputs, error : Errors]

NoRow == [status |-> "NO_ROW", progress |-> 0, output |-> "none", error |-> "none"]
NewRow == [status |-> "PENDING", progress |-> 0, output |-> "none", error |-> "none"]

Exists(j) == row[j].status # "NO_ROW"

(* "keep": the property is not in the payload, so the copy's value is      *)
(* written back.  "skip": it is there but undefined, which save leaves out *)
(* of the UPDATE, so the value in the database stays.                      *)
Payloads == [status : Statuses \cup {"keep"}, progress : -1 .. 100,
             output : Outputs \cup {"keep"}, error : Errors \cup {"keep", "skip"}]

Payload(s, p, o, e) == [status |-> s, progress |-> p, output |-> o, error |-> e]
Nothing == Payload("keep", -1, "keep", "keep")

(* {...toDomain(entity), ...payload}, saved over the row as it is by then: *)
(* if the row was deleted meanwhile, save inserts it again.                *)
Merge(old, p, now) ==
    [status   |-> IF p.status = "keep" THEN old.status ELSE p.status,
     progress |-> IF p.progress = -1 THEN old.progress ELSE p.progress,
     output   |-> IF p.output = "keep" THEN old.output ELSE p.output,
     error    |-> IF p.error = "keep" THEN old.error
                  ELSE IF p.error = "skip" THEN now.error ELSE p.error]

(* Mutant: the progress alone.                                             *)
StartPayloadNoStatus == Payload("keep", 10, "keep", "keep")

StartPayload  == Payload("PROCESSING", 10, "keep", "keep")
DonePayload   == Payload("COMPLETED", 100, "result", "keep")
FailPayload   == Payload("FAILED", -1, "keep", "failure")
CancelPayload == Payload("CANCELED", -1, "keep", "canceled")

(* Math.round(i / n * 100)                                                 *)
Percent(i, n) == (200 * i + n) \div (2 * n)

(* Mutants: the index of the next step; completing with the last step.     *)
StepPayloadPast(i) == Payload("keep", Percent(i + 1, Steps), "partial", "keep")
StepPayloadCompletes(i) ==
    Payload(IF i = Steps THEN "COMPLETED" ELSE "keep",
            Percent(i, Steps), "partial", "keep")

StepPayload(i) == Payload("keep", Percent(i, Steps), "partial", "keep")

(* Every row holds one of the statuses and a progress of 0..100, whatever  *)
(* payloads are merged into it; actors are where their handlers can be.    *)
TypeOK ==
    /\ QueueTypeOK
    /\ row \in [Jobs -> Rows]
    /\ creation \in [Jobs -> {"none", "saved", "queued", "aborted"}]
    /\ told \in [Jobs -> Statuses]
    /\ dispatched \in [Jobs -> Nat]
    /\ assets \in [Jobs -> Nat]
    /\ pc \in [Actors -> {"idle", "read", "save", "dispatch", "execute", "ack",
                          "throw", "dequeue", "asset", "announce", "done"}]
    /\ job \in [Actors -> Jobs \cup {NoJob}]
    /\ \A a \in Actors : pc[a] \notin {"idle", "done"} => job[a] \in Jobs
    /\ payload \in [Actors -> Payloads]
    /\ ret \in [Actors -> {"dispatch", "execute", "ack", "throw", "asset",
                           "announce", "done"}]
    /\ copy \in [Actors -> Rows]
    /\ step \in [Workers -> 0 .. Steps]
    /\ faults \in 0 .. MaxFaults

Init ==
    /\ QueueInit
    /\ row = [j \in Jobs |-> NoRow]
    /\ creation = [j \in Jobs |-> "none"]
    /\ told = [j \in Jobs |-> "PENDING"]
    /\ dispatched = [j \in Jobs |-> 0]
    /\ assets = [j \in Jobs |-> 0]
    /\ pc = [a \in Actors |-> "idle"]
    /\ job = [a \in Actors |-> NoJob]
    /\ payload = [a \in Actors |-> Nothing]
    /\ ret = [a \in Actors |-> "done"]
    /\ copy = [a \in Actors |-> NoRow]
    /\ step = [w \in Workers |-> 0]
    /\ faults = 0

-------------------------------------------------------------------------------
(* CreationJobsService.update and the repository's update, called by an    *)
(* actor a: Call starts one, and it returns to pc = r.                     *)

Call(a, p, r) ==
    /\ payload' = [payload EXCEPT ![a] = p]
    /\ ret' = [ret EXCEPT ![a] = r]
    /\ pc' = [pc EXCEPT ![a] = "read"]

Goto(a, p) == pc' = [pc EXCEPT ![a] = p]

(* findOne: with no row the update returns null, which no caller looks at. *)
UpdateRead(a) ==
    /\ pc[a] = "read"
    /\ IF Exists(job[a])
         THEN copy' = [copy EXCEPT ![a] = row[job[a]]] /\ Goto(a, "save")
         ELSE UNCHANGED copy /\ Goto(a, ret[a])
    /\ UNCHANGED <<queue, row, creation, told, dispatched, assets, job, payload,
                   ret, step, faults>>

(* save, then the socket event the service sends unless the status is      *)
(* COMPLETED or FAILED.                                                    *)
UpdateSave(a) ==
    LET j == job[a]
        saved == Merge(copy[a], payload[a], row[j])
    IN  /\ pc[a] = "save"
        /\ row' = [row EXCEPT ![j] = saved]
        /\ told' = IF saved.status \in {"COMPLETED", "FAILED"} THEN told
                   ELSE [told EXCEPT ![j] = saved.status]
        /\ copy' = [copy EXCEPT ![a] = NoRow]
        /\ Goto(a, ret[a])
        /\ UNCHANGED <<queue, creation, dispatched, assets, job, payload, ret,
                       step, faults>>

Fault(kind) == kind \in Faults /\ faults < MaxFaults /\ faults' = faults + 1

(* The database call throws.  A worker goes to its catch block, which      *)
(* updates the row to FAILED; if that was the update that threw, the       *)
(* processor throws and the status stays as it is.  A request ends.        *)
UpdateThrows(a) ==
    /\ pc[a] \in {"read", "save"}
    /\ Fault("db")
    /\ IF a \in Workers /\ ret[a] # "throw"
         THEN Call(a, FailPayload, "throw")
         ELSE /\ Goto(a, IF a \in Workers THEN "throw" ELSE "done")
              /\ UNCHANGED <<payload, ret>>
    /\ copy' = [copy EXCEPT ![a] = NoRow]
    /\ UNCHANGED <<queue, row, creation, told, dispatched, assets, job, step>>

-------------------------------------------------------------------------------
(* CreationJobsService.create: the row is saved, then the audit log is     *)
(* written and the job queued.  In between the row can be seen.            *)

SaveNewJob(j) ==
    /\ creation[j] = "none"
    /\ row' = [row EXCEPT ![j] = NewRow]
    /\ creation' = [creation EXCEPT ![j] = "saved"]
    /\ UNCHANGED <<queue, told, dispatched, assets, actorVars, faults>>

QueueNewJob(j) ==
    /\ creation[j] = "saved"
    /\ Add(j)
    /\ creation' = [creation EXCEPT ![j] = "queued"]
    /\ UNCHANGED <<row, told, dispatched, assets, actorVars, faults>>

(* The audit log or queue.add throws, or the process dies.                 *)
CreateFails(j) ==
    /\ creation[j] = "saved"
    /\ \E kind \in {"db", "abort"} : Fault(kind)
    /\ creation' = [creation EXCEPT ![j] = "aborted"]
    /\ UNCHANGED <<queue, row, told, dispatched, assets, actorVars>>

-------------------------------------------------------------------------------
(* JobProcessor.process, in a worker slot w.                               *)

StartJob(w, j) ==
    /\ pc[w] = "idle"
    /\ Take(w, j)
    /\ job' = [job EXCEPT ![w] = j]
    /\ step' = [step EXCEPT ![w] = 0]
    /\ Call(w, StartPayload, "dispatch")
    /\ UNCHANGED <<row, creation, told, dispatched, assets, copy, faults>>

(* The tool is loaded, the inputs pass validation and the strategy is      *)
(* called.                                                                 *)
Dispatch(w) ==
    /\ pc[w] = "dispatch"
    /\ dispatched' = [dispatched EXCEPT ![job[w]] = @ + 1]
    /\ Goto(w, "execute")
    /\ UNCHANGED <<queue, row, creation, told, assets, job, payload, ret, copy,
                   step, faults>>

InChain(w) == Tool[job[w]] = "workflow" /\ step[w] < Steps

(* One step of a workflow chain succeeded, and its results are saved.      *)
WorkflowStep(w) ==
    /\ pc[w] = "execute"
    /\ InChain(w)
    /\ step' = [step EXCEPT ![w] = @ + 1]
    /\ Call(w, StepPayload(step[w] + 1), "execute")
    /\ UNCHANGED <<queue, row, creation, told, dispatched, assets, job, copy,
                   faults>>

(* Mutants: asyncPattern is not looked at; nothing is.                     *)
ExecutedSync(w) ==
    /\ pc[w] = "execute"
    /\ ~ InChain(w)
    /\ Call(w, DonePayload, "ack")
    /\ UNCHANGED <<queue, row, creation, told, dispatched, assets, job, copy,
                   step, faults>>
ExecutedSilently(w) ==
    /\ pc[w] = "execute"
    /\ ~ InChain(w)
    /\ Goto(w, "ack")
    /\ UNCHANGED <<queue, row, creation, told, dispatched, assets, job, payload,
                   ret, copy, step, faults>>

(* The strategy returned: an async tool leaves the row to the callback.    *)
Executed(w) ==
    /\ pc[w] = "execute"
    /\ ~ InChain(w)
    /\ IF Tool[job[w]] = "async"
         THEN Goto(w, "ack") /\ UNCHANGED <<payload, ret>>
         ELSE Call(w, DonePayload, "ack")
    /\ UNCHANGED <<queue, row, creation, told, dispatched, assets, job, copy,
                   step, faults>>

(* Mutant: the catch block does not rethrow.                               *)
ExecutionSwallows(w) ==
    /\ \/ pc[w] = "dispatch"
       \/ pc[w] = "execute" /\ (Tool[job[w]] = "workflow" => InChain(w))
    /\ Call(w, FailPayload, "ack")
    /\ UNCHANGED <<queue, row, creation, told, dispatched, assets, job, copy,
                   step, faults>>

(* The tool is gone, the inputs are invalid, or the strategy threw.        *)
ExecutionThrows(w) ==
    /\ \/ pc[w] = "dispatch"
       \/ pc[w] = "execute" /\ (Tool[job[w]] = "workflow" => InChain(w))
    /\ Call(w, FailPayload, "throw")
    /\ UNCHANGED <<queue, row, creation, told, dispatched, assets, job, copy,
                   step, faults>>

BecomeIdle(w) ==
    /\ Goto(w, "idle")
    /\ job' = [job EXCEPT ![w] = NoJob]
    /\ payload' = [payload EXCEPT ![w] = Nothing]
    /\ ret' = [ret EXCEPT ![w] = "done"]
    /\ copy' = [copy EXCEPT ![w] = NoRow]
    /\ step' = [step EXCEPT ![w] = 0]

(* process returns, or throws: BullMQ completes the entry or retries it.   *)
EndJob(w) ==
    /\ \/ pc[w] = "ack" /\ Finish(w, job[w])
       \/ pc[w] = "throw" /\ Retry(w, job[w])
    /\ BecomeIdle(w)
    /\ UNCHANGED <<row, creation, told, dispatched, assets, faults>>

-------------------------------------------------------------------------------
(* The requests, in a client c.                                            *)

Begin(c, kind, j) ==
    /\ kind \in ClientOps
    /\ pc[c] = "idle"
    /\ job' = [job EXCEPT ![c] = j]

(* Mutant: a finished job is not left alone.                               *)
CancelFinished(c, j) ==
    /\ Begin(c, "cancel", j)
    /\ Exists(j)
    /\ payload' = [payload EXCEPT ![c] = CancelPayload]
    /\ ret' = [ret EXCEPT ![c] = "done"]
    /\ Goto(c, IF row[j].status = "PENDING" THEN "dequeue" ELSE "read")
    /\ UNCHANGED <<queue, row, creation, told, dispatched, assets, copy, step,
                   faults>>

(* cancel: a job that is missing is an error, one that has finished is     *)
(* left alone.  Only a job seen PENDING is looked for in the queue.        *)
Cancel(c, j) ==
    /\ Begin(c, "cancel", j)
    /\ creation[j] # "none"
    /\ IF row[j].status \in {"NO_ROW", "COMPLETED", "FAILED", "CANCELED"}
         THEN Goto(c, "done") /\ UNCHANGED <<payload, ret>>
         ELSE /\ payload' = [payload EXCEPT ![c] = CancelPayload]
              /\ ret' = [ret EXCEPT ![c] = "done"]
              /\ Goto(c, IF row[j].status = "PENDING" THEN "dequeue" ELSE "read")
    /\ UNCHANGED <<queue, row, creation, told, dispatched, assets, copy, step,
                   faults>>

Dequeue(c) ==
    /\ pc[c] = "dequeue"
    /\ Remove(job[c])
    /\ Goto(c, "read")
    /\ UNCHANGED <<row, creation, told, dispatched, assets, job, payload, ret,
                   copy, step, faults>>

(* completeJob, from the public callback URL, which the external tool      *)
(* knows once the job was dispatched.  The progress of a status other than *)
(* COMPLETED, and the output an asset is made of when none is posted, are  *)
(* those of the row as read here, before the update.                       *)
Callback(c, j) ==
    /\ Begin(c, "callback", j)
    /\ dispatched[j] > 0
    /\ IF Exists(j)
         THEN \E s \in CallbackStatuses, out \in {"none", "result"} :
                Call(c, Payload(s, IF s = "COMPLETED" THEN 100 ELSE row[j].progress,
                                out, IF s = "FAILED" THEN "failure" ELSE "skip"),
                     CASE s = "COMPLETED" ->
                            IF "result" \in {out, row[j].output} THEN "asset"
                                                                 ELSE "announce"
                       [] s = "FAILED" -> "announce"
                       [] OTHER -> "done")
         ELSE Goto(c, "done") /\ UNCHANGED <<payload, ret>>
    /\ UNCHANGED <<queue, row, creation, told, dispatched, assets, copy, step,
                   faults>>

(* assetsService.create; a failure is logged and swallowed.                *)
CreateAsset(c) ==
    /\ pc[c] = "asset"
    /\ \/ assets' = [assets EXCEPT ![job[c]] = @ + 1] /\ UNCHANGED faults
       \/ Fault("db") /\ UNCHANGED assets
    /\ Goto(c, "announce")
    /\ UNCHANGED <<queue, row, creation, told, dispatched, job, payload, ret,
                   copy, step>>

(* The event, and NotificationEventListener that persists and pushes it.   *)
Announce(c) ==
    /\ pc[c] = "announce"
    /\ \/ told' = [told EXCEPT ![job[c]] = payload[c].status] /\ UNCHANGED faults
       \/ Fault("db") /\ UNCHANGED told
    /\ Goto(c, "done")
    /\ UNCHANGED <<queue, row, creation, dispatched, assets, job, payload, ret,
                   copy, step>>

(* PATCH :id, here with a progress and, unless it is "keep", a status.     *)
Patch(c, j) ==
    /\ Begin(c, "patch", j)
    /\ creation[j] # "none"
    /\ \E s \in PatchStatuses :
         Call(c, Payload(s, 50, "keep", "keep"), "done")
    /\ UNCHANGED <<queue, row, creation, told, dispatched, assets, copy, step,
                   faults>>

(* DELETE :id and bulk-delete: the row goes, the queue entry stays.        *)
Delete(c, j) ==
    /\ Begin(c, "delete", j)
    /\ creation[j] # "none"
    /\ row' = [row EXCEPT ![j] = NoRow]
    /\ Goto(c, "done")
    /\ UNCHANGED <<queue, creation, told, dispatched, assets, payload, ret, copy,
                   step, faults>>

-------------------------------------------------------------------------------
(* Faults of the processes, and what BullMQ does about them.               *)

(* The process of a worker dies, and a slot comes back empty.              *)
Crash(w) ==
    /\ pc[w] # "idle"
    /\ Fault("crash")
    /\ BecomeIdle(w)
    /\ UNCHANGED <<queue, row, creation, told, dispatched, assets>>

(* The process of a request dies, or a call outside update throws.         *)
Abort(c) ==
    /\ pc[c] \notin {"idle", "done"}
    /\ Fault("abort")
    /\ Goto(c, "done")
    /\ UNCHANGED <<queue, row, creation, told, dispatched, assets, job, payload,
                   ret, copy, step>>

(* Mutant: the locks of busy workers are not renewed.                      *)
LockNotRenewed(j) == queue[j].state = "active"

LockExpired(j) ==
    /\ queue[j].state = "active"
    /\ LET w == queue[j].owner IN pc[w] = "idle" \/ job[w] # j

(* The stalled check takes the entry back from a dead worker; or from one  *)
(* that is alive but could not renew its lock in time, and runs on.        *)
StalledCheck(j) ==
    /\ Stall(j)
    /\ \/ LockExpired(j) /\ UNCHANGED faults
       \/ ~ LockExpired(j) /\ Fault("lock")
    /\ UNCHANGED <<row, creation, told, dispatched, assets, actorVars>>

BackoffOver(j) ==
    /\ Promote(j)
    /\ UNCHANGED <<row, creation, told, dispatched, assets, actorVars, faults>>

-------------------------------------------------------------------------------
WorkerStep(w) ==
    \/ UpdateRead(w) \/ UpdateSave(w) \/ UpdateThrows(w)
    \/ \E j \in Jobs : StartJob(w, j)
    \/ Dispatch(w) \/ WorkflowStep(w) \/ Executed(w) \/ ExecutionThrows(w)
    \/ EndJob(w)

(* A request that was accepted runs on; whether one is made is free.       *)
ClientStep(c) ==
    \/ UpdateRead(c) \/ UpdateSave(c) \/ UpdateThrows(c)
    \/ Dequeue(c) \/ CreateAsset(c) \/ Announce(c)

Request(c) ==
    \E j \in Jobs : Cancel(c, j) \/ Callback(c, j) \/ Patch(c, j) \/ Delete(c, j)

QueueStep(j) == StalledCheck(j) \/ BackoffOver(j)

Create(j) == SaveNewJob(j) \/ QueueNewJob(j) \/ CreateFails(j)

Next ==
    \/ \E w \in Workers : WorkerStep(w)
    \/ \E w \in Workers : Crash(w)
    \/ \E c \in Clients : ClientStep(c) \/ Request(c) \/ Abort(c)
    \/ \E j \in Jobs : QueueStep(j) \/ Create(j)

Spec == Init /\ [][Next]_vars

(* A process that is up runs its handlers to the end, and BullMQ keeps     *)
(* serving, promoting and checking the entries.                            *)
Fairness ==
    /\ \A w \in Workers : WF_vars(WorkerStep(w))
    /\ \A c \in Clients : WF_vars(ClientStep(c))
    /\ \A j \in Jobs : /\ WF_vars(LockExpired(j) /\ StalledCheck(j))
                        /\ WF_vars(BackoffOver(j))

FairSpec == Spec /\ Fairness

-------------------------------------------------------------------------------
(* Properties.                                                             *)

WorksOn(a, j) == pc[a] \notin {"idle", "done"} /\ job[a] = j

(* The queue has nothing left to do for j and no handler is running on it. *)
Quiet(j) == /\ queue[j].state \in {"removed", "failed"}
            /\ \A a \in Actors : ~ WorksOn(a, j)

(* A row that says COMPLETED carries the whole result at 100%, whatever    *)
(* attempts, intermediate saves, cancels, deletes and failures came before *)
(* (UpdateSave writes back a copy that may be old).                        *)
CompletedIsWhole ==
    \A j \in Jobs : row[j].status = "COMPLETED" =>
                      row[j].progress = 100 /\ row[j].output = "result"

(* As long as no worker loses its lock while alive, one job is never in    *)
(* the hands of two workers, retries and stalled entries included.         *)
OneRunner ==
    \A v, w \in Workers : v # w /\ job[v] = job[w] => job[v] = NoJob

(* PENDING, the status on which cancel decides to look in the queue, is    *)
(* never seen on a job whose tool has been called.                         *)
PendingMeansUntouched ==
    \A j \in Jobs : row[j].status = "PENDING" => dispatched[j] = 0

(* The external tool is called at most once per attempt and per stall.     *)
DispatchBound ==
    \A j \in Jobs : dispatched[j] =< MaxAttempts + MaxStalls

(* A job is left FAILED with attempts to spare only if a cancel that had   *)
(* seen it PENDING took its entry out and then failed itself.              *)
RetriesAreUsed ==
    \A j \in Jobs :
        Quiet(j) /\ row[j].status = "FAILED" =>
            \/ queue[j].state = "failed"
            \/ \E c \in Clients : job[c] = j /\ payload[c] = CancelPayload

(* Once its entry has left the queue, the tool of a job is not called.     *)
RemovedIsNotDispatched ==
    [][\A j \in Jobs : queue[j].state \in {"removed", "failed"} =>
                        dispatched'[j] = dispatched[j]]_vars

Final(j) == row[j].status \in {"COMPLETED", "FAILED", "CANCELED"}

(* A queued job does not stay PENDING or PROCESSING: the workers bring it  *)
(* to a final status (an async tool leaves that to its callback).          *)
EveryQueuedJobSettles ==
    \A j \in Jobs :
        queue[j].state = "waiting" ~>
            /\ Quiet(j)
            /\ Final(j) \/ (Tool[j] = "async" /\ row[j].status = "PROCESSING")

(* Whatever is retried, stalled or requested, a job of an async tool is    *)
(* COMPLETED only by a request: the worker that dispatched it never        *)
(* completes it, and no save of an old copy does.                          *)
AsyncCompletedByRequest ==
    \A j \in Jobs :
        Tool[j] = "async" /\ row[j].status = "COMPLETED" =>
            \E c \in Clients : job[c] = j /\ payload[c].status = "COMPLETED"

(* What the repository says and the code does not do.                      *)

(* update() pushes nothing for COMPLETED and FAILED because the            *)
(* success/error listener is said to: so the browser learns the outcome.   *)
BrowserLearnsOutcome ==
    \A j \in Jobs : Quiet(j) /\ row[j].status \in {"COMPLETED", "FAILED"} =>
                      told[j] = row[j].status

-------------------------------------------------------------------------------
(* The lifecycle the user sees.  An attempt is open while a worker is in   *)
(* the processor with the job; an accepted cancel is on its way until its  *)
(* update is saved.                                                        *)
Lifecycle == INSTANCE JobLifecycle WITH
    Budget    <- MaxAttempts + MaxStalls,
    status    <- [j \in Jobs |-> row[j].status],
    open      <- {j \in Jobs : \E w \in Workers : WorksOn(w, j)},
    used      <- [j \in Jobs |-> Attempts(j)],
    canceling <- {j \in Jobs : \E c \in Clients :
                      job[c] = j /\ pc[c] \in {"dequeue", "read", "save"}}

(* The service, the processor and the queue together implement the         *)
(* lifecycle, reads and writes of stale copies included.                   *)
ImplementsLifecycle == Lifecycle!Spec
===============================================================================
