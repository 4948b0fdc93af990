-------------------------- MODULE CreationJobsProofs --------------------------
(***************************************************************************)
(* Theorems about CreationJobs, for any number of jobs, workers, requests, *)
(* attempts, stalls, steps and faults.                                     *)
(***************************************************************************)
EXTENDS CreationJobs, JobQueueProofs, FiniteSetTheorems, TLAPS

(* What an actor is about to save is a row that existed, and what a        *)
(* request is about to announce is a final status.                         *)
ActorInv ==
    \A a \in Actors :
        /\ pc[a] = "save" => copy[a].status # "NO_ROW"
        /\ pc[a] \in {"asset", "announce"} => payload[a].status # "keep"
        /\ ret[a] \in {"asset", "announce"} => payload[a].status # "keep"

TypeInv == TypeOK /\ QueueInv /\ ActorInv

(* Math.round(i / n * 100) stays within the bounds of a percentage.        *)
LEMMA PercentBounds ==
    ASSUME NEW n \in Nat \ {0}, NEW i \in 0 .. n
    PROVE  Percent(i, n) \in 0 .. 100
<1> DEFINE m == 2 * n
           k == 200 * i + n
           q == k \div m
<1>1. m \in Nat \ {0} /\ k \in Nat /\ k < 101 * m
  OBVIOUS
<1>2. q \in Int /\ m * q =< k /\ k < m * (q + 1)
  BY <1>1, Z3
<1>3. q =< 100
  <2>1. SUFFICES ASSUME q >= 101 PROVE FALSE
    BY <1>2
  <2>2. m * q >= m * 101
    BY <1>1, <1>2, <2>1
  <2> QED BY <1>1, <1>2, <2>2
<1>4. q >= 0
  BY <1>1, <1>2
<1> QED BY <1>2, <1>3, <1>4 DEF Percent

LEMMA PayloadTypes ==
    /\ Nothing \in Payloads /\ StartPayload \in Payloads /\ DonePayload \in Payloads
    /\ FailPayload \in Payloads /\ CancelPayload \in Payloads
    /\ \A i \in 0 .. Steps : StepPayload(i) \in Payloads
    /\ NoRow \in Rows /\ NewRow \in Rows
<1>1. \A i \in 0 .. Steps : Percent(i, Steps) \in 0 .. 100
  BY PercentBounds, JobAssumption
<1>2. \A i \in 0 .. Steps : StepPayload(i) \in Payloads
  BY <1>1 DEF StepPayload, Payload, Payloads, Outputs, Errors
<1> QED
  BY <1>2 DEF Payload, Nothing, StartPayload, DonePayload, FailPayload, CancelPayload,
              Payloads, Rows, NoRow, NewRow, Statuses, Outputs, Errors

LEMMA MergeType ==
    ASSUME NEW old \in Rows, NEW p \in Payloads, NEW now \in Rows
    PROVE  /\ Merge(old, p, now) \in Rows
           /\ old.status # "NO_ROW" => Merge(old, p, now).status \in Statuses
BY DEF Merge, Rows, Payloads, Statuses, Outputs, Errors

LEMMA InitTypeInv == Init => TypeInv
<1> SUFFICES ASSUME Init PROVE TypeInv
  OBVIOUS
<1> USE DEF Init, QueueInit
<1>1. TypeOK
  BY PayloadTypes, QueueAssumption, JobAssumption
     DEF TypeOK, QueueTypeOK, Entry, EntryStates, Statuses
<1>2. QueueInv /\ ActorInv
  BY QueueAssumption DEF QueueInv, ActorInv
<1> QED BY <1>1, <1>2 DEF TypeInv

LEMMA UpdateTypeInv ==
    ASSUME TypeInv, NEW a \in Actors,
           UpdateRead(a) \/ UpdateSave(a) \/ UpdateThrows(a)
    PROVE  TypeInv'
<1> USE DEF TypeInv, Exists, Goto, Call
<1> job[a] \in Jobs
  BY DEF TypeOK, UpdateRead, UpdateSave, UpdateThrows
<1>1. CASE UpdateRead(a)
  BY <1>1 DEF UpdateRead, TypeOK, QueueTypeOK, QueueInv, ActorInv
<1>2. CASE UpdateSave(a)
  <2>1. /\ Merge(copy[a], payload[a], row[job[a]]) \in Rows
        /\ Merge(copy[a], payload[a], row[job[a]]).status \in Statuses
    BY <1>2, MergeType DEF UpdateSave, TypeOK, ActorInv
  <2>2. TypeOK'
    BY <1>2, <2>1, PayloadTypes DEF UpdateSave, TypeOK, QueueTypeOK
  <2>3. QueueInv' /\ ActorInv'
    BY <1>2 DEF UpdateSave, TypeOK, QueueInv, ActorInv
  <2> QED BY <2>2, <2>3
<1>3. CASE UpdateThrows(a)
  <2>1. TypeOK'
    BY <1>3, PayloadTypes, JobAssumption DEF UpdateThrows, Fault, TypeOK, QueueTypeOK
  <2>2. QueueInv' /\ ActorInv'
    BY <1>3 DEF UpdateThrows, TypeOK, QueueInv, ActorInv
  <2> QED BY <2>1, <2>2
<1> QED BY <1>1, <1>2, <1>3

LEMMA CreateTypeInv ==
    ASSUME TypeInv, NEW j \in Jobs, Create(j)
    PROVE  TypeInv'
<1> USE DEF TypeInv, actorVars
<1>1. CASE SaveNewJob(j)
  BY <1>1, PayloadTypes DEF SaveNewJob, TypeOK, QueueTypeOK, QueueInv, ActorInv
<1>2. CASE QueueNewJob(j)
  <2>1. QueueTypeOK' /\ QueueInv'
    BY <1>2, AddRemoveTypeInv DEF QueueNewJob, TypeOK
  <2> QED BY <1>2, <2>1 DEF QueueNewJob, TypeOK, ActorInv
<1>3. CASE CreateFails(j)
  BY <1>3, JobAssumption
     DEF CreateFails, Fault, TypeOK, QueueTypeOK, QueueInv, ActorInv
<1> QED BY <1>1, <1>2, <1>3 DEF Create

LEMMA QueueStepTypeInv ==
    ASSUME TypeInv, NEW j \in Jobs, QueueStep(j)
    PROVE  TypeInv'
<1> USE DEF TypeInv, actorVars
<1>1. CASE StalledCheck(j)
  <2>1. faults' \in 0 .. MaxFaults
    BY <1>1, JobAssumption DEF StalledCheck, Fault, TypeOK
  <2>2. QueueTypeOK' /\ QueueInv'
    BY <1>1, StallTypeInv DEF StalledCheck, TypeOK
  <2> QED BY <1>1, <2>1, <2>2 DEF StalledCheck, TypeOK, ActorInv
<1>2. CASE BackoffOver(j)
  <2>1. QueueTypeOK' /\ QueueInv'
    BY <1>2, MoveTypeInv DEF BackoffOver, Promote, TypeOK
  <2> QED BY <1>2, <2>1 DEF BackoffOver, TypeOK, ActorInv
<1> QED BY <1>1, <1>2 DEF QueueStep

(* The processor's own steps in a worker slot, and the crash of one.       *)
LEMMA ProcessorTypeInv ==
    ASSUME TypeInv, NEW w \in Workers,
           \/ \E j \in Jobs : StartJob(w, j)
           \/ Dispatch(w) \/ WorkflowStep(w) \/ Executed(w) \/ ExecutionThrows(w)
           \/ EndJob(w) \/ Crash(w)
    PROVE  TypeInv'
<1> USE DEF TypeInv, Goto, Call
<1> w \in Actors
  BY DEF Actors
<1>1. ASSUME NEW j \in Jobs, StartJob(w, j) PROVE TypeInv'
  <2>1. QueueTypeOK' /\ QueueInv'
    BY <1>1, TakeTypeInv DEF StartJob, TypeOK
  <2> QED
    BY <1>1, <2>1, PayloadTypes, JobAssumption DEF StartJob, TypeOK, ActorInv
<1>2. CASE Dispatch(w)
  BY <1>2 DEF Dispatch, TypeOK, QueueTypeOK, QueueInv, ActorInv
<1>3. CASE WorkflowStep(w)
  <2>1. step[w] + 1 \in 0 .. Steps
    BY <1>3, JobAssumption DEF WorkflowStep, InChain, TypeOK
  <2>2. StepPayload(step[w] + 1) \in Payloads
    BY <2>1, PayloadTypes
  <2> QED
    BY <1>3, <2>1, <2>2 DEF WorkflowStep, TypeOK, QueueTypeOK, QueueInv, ActorInv
<1>4. CASE Executed(w)
  BY <1>4, PayloadTypes DEF Executed, TypeOK, QueueTypeOK, QueueInv, ActorInv
<1>5. CASE ExecutionThrows(w)
  BY <1>5, PayloadTypes
     DEF ExecutionThrows, TypeOK, QueueTypeOK, QueueInv, ActorInv
<1>6. CASE EndJob(w)
  <2>1. job[w] \in Jobs
    BY <1>6 DEF EndJob, TypeOK
  <2>2. QueueTypeOK' /\ QueueInv'
    BY <1>6, <2>1, EndTypeInv DEF EndJob, TypeOK
  <2>3. TypeOK' /\ ActorInv'
    BY <1>6, <2>2, PayloadTypes, JobAssumption DEF EndJob, BecomeIdle, TypeOK, ActorInv
  <2> QED BY <2>2, <2>3
<1>7. CASE Crash(w)
  BY <1>7, PayloadTypes, JobAssumption
     DEF Crash, Fault, BecomeIdle, TypeOK, QueueTypeOK, QueueInv, ActorInv
<1> QED BY <1>1, <1>2, <1>3, <1>4, <1>5, <1>6, <1>7

(* The requests, and the abort of one.                                     *)
LEMMA ClientTypeInv ==
    ASSUME TypeInv, NEW c \in Clients,
           Request(c) \/ Dequeue(c) \/ CreateAsset(c) \/ Announce(c) \/ Abort(c)
    PROVE  TypeInv'
<1> USE DEF TypeInv, Goto, Call, Begin, Exists
<1> c \in Actors
  BY DEF Actors
<1>1. ASSUME NEW j \in Jobs, Cancel(c, j) PROVE TypeInv'
  BY <1>1, PayloadTypes DEF Cancel, TypeOK, QueueTypeOK, QueueInv, ActorInv
<1>2. ASSUME NEW j \in Jobs, Callback(c, j) PROVE TypeInv'
  <2>1. CASE ~ Exists(j)
    BY <1>2, <2>1 DEF Callback, TypeOK, QueueTypeOK, QueueInv, ActorInv
  <2>2. ASSUME Exists(j),
               NEW s \in CallbackStatuses, NEW out \in {"none", "result"},
               NEW p, p = Payload(s, IF s = "COMPLETED" THEN 100 ELSE row[j].progress,
                                  out, IF s = "FAILED" THEN "failure" ELSE "skip"),
               NEW r \in {"asset", "announce", "done"}, Call(c, p, r)
        PROVE  TypeInv'
    <3>1. p \in Payloads /\ p.status # "keep"
      BY <2>2, JobAssumption
         DEF Payload, Payloads, Rows, Statuses, Outputs, Errors, TypeOK
    <3> QED
      BY <1>2, <2>2, <3>1 DEF Callback, TypeOK, QueueTypeOK, QueueInv, ActorInv
  <2> QED BY <1>2, <2>1, <2>2 DEF Callback
<1>3. ASSUME NEW j \in Jobs, Patch(c, j) PROVE TypeInv'
  BY <1>3, JobAssumption
     DEF Patch, Payload, Payloads, Statuses, Outputs, Errors, TypeOK, QueueTypeOK,
         QueueInv, ActorInv
<1>4. ASSUME NEW j \in Jobs, Delete(c, j) PROVE TypeInv'
  BY <1>4, PayloadTypes DEF Delete, TypeOK, QueueTypeOK, QueueInv, ActorInv
<1>5. CASE Dequeue(c)
  <2>1. job[c] \in Jobs
    BY <1>5 DEF Dequeue, TypeOK
  <2>2. QueueTypeOK' /\ QueueInv'
    BY <1>5, <2>1, AddRemoveTypeInv DEF Dequeue, TypeOK, QueueTypeOK, QueueInv
  <2> QED BY <1>5, <2>2 DEF Dequeue, TypeOK, ActorInv
<1>6. CASE CreateAsset(c)
  BY <1>6, JobAssumption
     DEF CreateAsset, Fault, TypeOK, QueueTypeOK, QueueInv, ActorInv
<1>7. CASE Announce(c)
  BY <1>7, JobAssumption
     DEF Announce, Fault, TypeOK, QueueTypeOK, QueueInv, ActorInv, Payloads
<1>8. CASE Abort(c)
  BY <1>8, JobAssumption
     DEF Abort, Fault, TypeOK, QueueTypeOK, QueueInv, ActorInv
<1> QED BY <1>1, <1>2, <1>3, <1>4, <1>5, <1>6, <1>7, <1>8 DEF Request

LEMMA TypeStep == TypeInv /\ [Next]_vars => TypeInv'
<1> SUFFICES ASSUME TypeInv, [Next]_vars PROVE TypeInv'
  OBVIOUS
<1>1. CASE UNCHANGED vars
  BY <1>1 DEF vars, TypeInv, TypeOK, QueueTypeOK, QueueInv, ActorInv
<1>2. ASSUME NEW w \in Workers, WorkerStep(w) \/ Crash(w) PROVE TypeInv'
  BY <1>2, UpdateTypeInv, ProcessorTypeInv DEF WorkerStep, Actors
<1>3. ASSUME NEW c \in Clients, ClientStep(c) \/ Request(c) \/ Abort(c)
      PROVE  TypeInv'
  BY <1>3, UpdateTypeInv, ClientTypeInv DEF ClientStep, Actors
<1>4. ASSUME NEW j \in Jobs, QueueStep(j) \/ Create(j) PROVE TypeInv'
  BY <1>4, QueueStepTypeInv, CreateTypeInv
<1> QED BY <1>1, <1>2, <1>3, <1>4 DEF Next

(* Every row, payload and counter has its type, progress stays within      *)
(* 0..100 and the counters of the queue within their limits, in every      *)
(* reachable state and with every kind of request and fault.               *)
THEOREM TypeCorrect == Spec => []TypeInv
BY InitTypeInv, TypeStep, PTL DEF Spec

(* In particular the type invariant the runs check.                        *)
THEOREM TypeSafety == Spec => []TypeOK
BY TypeCorrect, PTL DEF TypeInv

-------------------------------------------------------------------------------
(* What the updates of a worker carry, by the place they return to.        *)
PayloadInv ==
    \A w \in Workers : pc[w] \in {"read", "save"} =>
        \/ ret[w] = "dispatch" /\ payload[w] = StartPayload
        \/ ret[w] = "execute" /\ payload[w].status = "keep"
        \/ ret[w] = "ack" /\ payload[w] = DonePayload
        \/ ret[w] = "throw" /\ payload[w] = FailPayload

LEMMA PayloadStep == TypeInv /\ PayloadInv /\ [Next]_vars => PayloadInv'
<1> SUFFICES ASSUME TypeInv, PayloadInv, [Next]_vars, NEW w \in Workers,
                    pc'[w] \in {"read", "save"}
             PROVE  \/ ret'[w] = "dispatch" /\ payload'[w] = StartPayload
                    \/ ret'[w] = "execute" /\ payload'[w].status = "keep"
                    \/ ret'[w] = "ack" /\ payload'[w] = DonePayload
                    \/ ret'[w] = "throw" /\ payload'[w] = FailPayload
  BY DEF PayloadInv
<1> USE JobAssumption DEF TypeInv, TypeOK, PayloadInv, Goto, Call, Actors
<1>1. CASE UNCHANGED vars
  BY <1>1 DEF vars
<1>2. ASSUME NEW a \in Actors, UpdateRead(a) \/ UpdateSave(a) \/ UpdateThrows(a)
      PROVE  \/ ret'[w] = "dispatch" /\ payload'[w] = StartPayload
             \/ ret'[w] = "execute" /\ payload'[w].status = "keep"
             \/ ret'[w] = "ack" /\ payload'[w] = DonePayload
             \/ ret'[w] = "throw" /\ payload'[w] = FailPayload
  BY <1>2 DEF UpdateRead, UpdateSave, UpdateThrows
<1>3. ASSUME NEW v \in Workers,
             \/ \E j \in Jobs : StartJob(v, j)
             \/ Dispatch(v) \/ WorkflowStep(v) \/ Executed(v) \/ ExecutionThrows(v)
             \/ EndJob(v) \/ Crash(v)
      PROVE  \/ ret'[w] = "dispatch" /\ payload'[w] = StartPayload
             \/ ret'[w] = "execute" /\ payload'[w].status = "keep"
             \/ ret'[w] = "ack" /\ payload'[w] = DonePayload
             \/ ret'[w] = "throw" /\ payload'[w] = FailPayload
  <2>1. CASE v # w
    BY <1>3, <2>1 DEF StartJob, Dispatch, WorkflowStep, Executed, ExecutionThrows,
                      EndJob, Crash, BecomeIdle
  <2>2. CASE v = w
    BY <1>3, <2>2 DEF StartJob, Dispatch, WorkflowStep, Executed, ExecutionThrows,
                      EndJob, Crash, BecomeIdle, StepPayload, Payload
  <2> QED BY <2>1, <2>2
<1>4. ASSUME NEW c \in Clients,
             Request(c) \/ Dequeue(c) \/ CreateAsset(c) \/ Announce(c) \/ Abort(c)
      PROVE  pc'[w] = pc[w] /\ ret'[w] = ret[w] /\ payload'[w] = payload[w]
  BY <1>4 DEF Request, Begin, Cancel, Callback, Patch, Delete, Dequeue, CreateAsset,
              Announce, Abort
<1>5. ASSUME NEW j \in Jobs, QueueStep(j) \/ Create(j)
      PROVE  UNCHANGED actorVars
  BY <1>5 DEF QueueStep, StalledCheck, BackoffOver, Create, SaveNewJob, QueueNewJob,
              CreateFails
<1> QED
  BY <1>1, <1>2, <1>3, <1>4, <1>5 DEF Next, WorkerStep, ClientStep, actorVars

-------------------------------------------------------------------------------
(* A worker that has a job holds the lock of its entry.                    *)
RunnerInv ==
    \A w \in Workers :
        /\ pc[w] = "idle" => job[w] = NoJob
        /\ job[w] # NoJob => Holds(w, job[w])

LEMMA RunnerStep ==
    ASSUME "lock" \notin Faults
    PROVE  TypeInv /\ RunnerInv /\ [Next]_vars => RunnerInv'
<1> SUFFICES ASSUME TypeInv, RunnerInv, [Next]_vars, NEW w \in Workers
             PROVE  /\ pc'[w] = "idle" => job'[w] = NoJob
                    /\ job'[w] # NoJob => Holds(w, job[w])' 
  BY DEF RunnerInv
<1> USE JobAssumption, QueueAssumption
        DEF TypeInv, TypeOK, QueueTypeOK, RunnerInv, Holds, Goto, Call, Actors
<1>1. CASE UNCHANGED vars
  BY <1>1 DEF vars
<1>2. ASSUME NEW a \in Actors, UpdateRead(a) \/ UpdateSave(a) \/ UpdateThrows(a)
      PROVE  /\ UNCHANGED <<queue, job>>
             /\ pc'[w] = "idle" => pc[w] = "idle"
  BY <1>2 DEF UpdateRead, UpdateSave, UpdateThrows
<1>3. ASSUME NEW v \in Workers, NEW j \in Jobs, StartJob(v, j)
      PROVE  RunnerInv'
  BY <1>3 DEF StartJob, Take, Move
<1>4. ASSUME NEW v \in Workers,
             Dispatch(v) \/ WorkflowStep(v) \/ Executed(v) \/ ExecutionThrows(v)
      PROVE  /\ UNCHANGED <<queue, job>>
             /\ pc'[w] = "idle" => pc[w] = "idle"
  BY <1>4 DEF Dispatch, WorkflowStep, Executed, ExecutionThrows
<1>5. ASSUME NEW v \in Workers, EndJob(v) PROVE RunnerInv'
  <2>1. job[v] \in Jobs /\ Holds(v, job[v])
    BY <1>5 DEF EndJob
  <2>2. \A j \in Jobs \ {job[v]} : queue'[j] = queue[j]
    BY <1>5, <2>1 DEF EndJob, Finish, Retry, EndAttempt
  <2>3. \A u \in Workers : u # v => job'[u] = job[u] /\ pc'[u] = pc[u] /\ job[u] # job[v]
    BY <1>5, <2>1 DEF EndJob, BecomeIdle
  <2>4. pc'[v] = "idle" /\ job'[v] = NoJob
    BY <1>5 DEF EndJob, BecomeIdle
  <2> QED BY <2>2, <2>3, <2>4
<1>6. ASSUME NEW v \in Workers, Crash(v) PROVE RunnerInv'
  BY <1>6 DEF Crash, BecomeIdle
<1>7. ASSUME NEW c \in Clients,
             Request(c) \/ CreateAsset(c) \/ Announce(c) \/ Abort(c)
      PROVE  pc'[w] = pc[w] /\ job'[w] = job[w] /\ UNCHANGED queue
  BY <1>7 DEF Request, Begin, Cancel, Callback, Patch, Delete, CreateAsset,
              Announce, Abort
<1>8. ASSUME NEW c \in Clients, Dequeue(c) PROVE RunnerInv'
  <2>1. \A j \in Jobs : queue[j].state = "active" => queue'[j] = queue[j]
    BY <1>8 DEF Dequeue, Remove, Move
  <2> QED BY <1>8, <2>1 DEF Dequeue
<1>9. ASSUME NEW j \in Jobs, QueueStep(j) \/ Create(j)
      PROVE  /\ \A i \in Jobs : (i # j \/ (queue[i].state = "active" /\ ~ LockExpired(i)))
                                => queue'[i] = queue[i]
             /\ UNCHANGED <<pc, job>>
  BY <1>9 DEF QueueStep, StalledCheck, Stall, Fault, BackoffOver, Promote, Move, Create,
              SaveNewJob, QueueNewJob, Add, CreateFails, actorVars
<1>10. \A j \in Jobs : job[w] = j => ~ LockExpired(j)
  BY DEF LockExpired
<1> QED
  BY <1>1, <1>2, <1>3, <1>4, <1>5, <1>6, <1>7, <1>8, <1>9, <1>10
     DEF Next, WorkerStep, ClientStep

(* With no lock lost by a live worker, two slots never hold the same job.  *)
THEOREM RunnerSafety ==
    ASSUME "lock" \notin Faults
    PROVE  Spec => []OneRunner
<1>1. Init => TypeInv /\ RunnerInv
  BY InitTypeInv, JobAssumption DEF Init, RunnerInv, Actors
<1>2. TypeInv /\ RunnerInv /\ [Next]_vars => (TypeInv /\ RunnerInv)'
  BY RunnerStep, TypeStep
<1>3. TypeInv /\ RunnerInv => OneRunner
  BY JobAssumption DEF RunnerInv, OneRunner, Holds, TypeInv, TypeOK, Actors
<1> QED BY <1>1, <1>2, <1>3, PTL DEF Spec

-------------------------------------------------------------------------------
(* A worker is in the middle of an attempt: its first update is over and   *)
(* its last has not begun.                                                 *)
MidAttempt(w) ==
    \/ pc[w] \in {"dispatch", "execute"}
    \/ pc[w] \in {"read", "save"} /\ ret[w] = "execute"

(* In the middle of an attempt nobody has completed the row, so the copies *)
(* that a workflow writes back are not of a completed row; and a request   *)
(* that is under way is a cancel.                                          *)
WholeInv ==
    /\ CompletedIsWhole
    /\ \A w \in Workers : MidAttempt(w) => row[job[w]].status # "COMPLETED"
    /\ \A w \in Workers : pc[w] = "save" /\ ret[w] = "execute" =>
                              copy[w].status # "COMPLETED"
    /\ \A c \in Clients : pc[c] \in {"dequeue", "read", "save"} =>
                              payload[c] = CancelPayload

LEMMA WholeStep ==
    ASSUME "lock" \notin Faults, ClientOps \subseteq {"cancel", "delete"}
    PROVE  TypeInv /\ PayloadInv /\ RunnerInv /\ WholeInv /\ [Next]_vars => WholeInv'
<1> SUFFICES ASSUME TypeInv, PayloadInv, RunnerInv, WholeInv, [Next]_vars
             PROVE  WholeInv'
  OBVIOUS
<1> USE JobAssumption
        DEF TypeInv, TypeOK, WholeInv, CompletedIsWhole, MidAttempt, Goto, Call, Actors
<1>1. CASE UNCHANGED vars
  BY <1>1 DEF vars
(* The read of a row is a copy of it; without a row, the first update of   *)
(* an attempt leaves none.                                                 *)
<1>2. ASSUME NEW a \in Actors, UpdateRead(a) PROVE WholeInv'
  BY <1>2 DEF UpdateRead, Exists
(* Only the last update of an attempt writes COMPLETED.                    *)
<1>3. ASSUME NEW a \in Actors, UpdateSave(a) PROVE WholeInv'
  <2> DEFINE j == job[a]
             saved == Merge(copy[a], payload[a], row[j])
  <2>1. j \in Jobs /\ row' = [row EXCEPT ![j] = saved]
    BY <1>3 DEF UpdateSave
  <2>2. a \in Clients => payload[a] = CancelPayload
    BY <1>3 DEF UpdateSave
  <2>3. saved.status = "COMPLETED" =>
           /\ saved.progress = 100 /\ saved.output = "result"
           /\ a \in Workers /\ ret[a] = "ack"
    BY <1>3, <2>2
       DEF UpdateSave, PayloadInv, Merge, Payload, StartPayload, DonePayload,
           FailPayload, CancelPayload
  <2>4. \A w \in Workers : w # a /\ MidAttempt(w) /\ a \in Workers => job[w] # j
    BY <1>3, <2>1 DEF UpdateSave, RunnerInv, Holds
  <2>5. ret[a] = "dispatch" /\ a \in Workers => saved.status # "COMPLETED"
    BY <2>3
  <2>6. CompletedIsWhole'
    BY <2>1, <2>3
  <2>7. \A w \in Workers : MidAttempt(w)' => row'[job'[w]].status # "COMPLETED"
    <3> SUFFICES ASSUME NEW w \in Workers, MidAttempt(w)'
                 PROVE  row'[job'[w]].status # "COMPLETED"
      OBVIOUS
    <3>1. CASE w # a
      BY <1>3, <2>1, <2>3, <2>4, <3>1 DEF UpdateSave
    <3>2. CASE w = a
      BY <1>3, <2>1, <2>3, <3>2 DEF UpdateSave
    <3> QED BY <3>1, <3>2
  <2> QED BY <1>3, <2>6, <2>7 DEF UpdateSave
<1>4. ASSUME NEW a \in Actors, UpdateThrows(a) PROVE WholeInv'
  BY <1>4 DEF UpdateThrows
<1>5. ASSUME NEW w \in Workers, NEW j \in Jobs, StartJob(w, j) PROVE WholeInv'
  BY <1>5 DEF StartJob
<1>6. ASSUME NEW w \in Workers,
             Dispatch(w) \/ WorkflowStep(w) \/ Executed(w) \/ ExecutionThrows(w)
      PROVE  WholeInv'
  BY <1>6 DEF Dispatch, WorkflowStep, Executed, ExecutionThrows
<1>7. ASSUME NEW w \in Workers, EndJob(w) \/ Crash(w) PROVE WholeInv'
  BY <1>7 DEF EndJob, Crash, BecomeIdle
<1>8. ASSUME NEW c \in Clients,
             Request(c) \/ Dequeue(c) \/ CreateAsset(c) \/ Announce(c) \/ Abort(c)
      PROVE  WholeInv'
  <2>1. CASE Request(c)
    BY <2>1 DEF Request, Begin, Cancel, Callback, Patch, Delete, NoRow
  <2>2. CASE Dequeue(c) \/ CreateAsset(c) \/ Announce(c) \/ Abort(c)
    BY <2>2 DEF Dequeue, CreateAsset, Announce, Abort
  <2> QED BY <1>8, <2>1, <2>2
<1>9. ASSUME NEW j \in Jobs, QueueStep(j) \/ Create(j) PROVE WholeInv'
  BY <1>9 DEF QueueStep, StalledCheck, BackoffOver, Create, SaveNewJob, NewRow,
              QueueNewJob, CreateFails, actorVars
<1> QED
  BY <1>1, <1>2, <1>3, <1>4, <1>5, <1>6, <1>7, <1>8, <1>9
     DEF Next, WorkerStep, ClientStep

(* Without requests that write a status of their own, and with no lock     *)
(* lost by a live worker, a row that says COMPLETED has the whole result,  *)
(* whatever is canceled, deleted, retried, stalled or failing.             *)
THEOREM CompletedSafety ==
    ASSUME "lock" \notin Faults, ClientOps \subseteq {"cancel", "delete"}
    PROVE  Spec => []CompletedIsWhole
<1> DEFINE Inv == TypeInv /\ PayloadInv /\ RunnerInv /\ WholeInv
<1>1. Init => Inv
  BY InitTypeInv, JobAssumption
     DEF Init, PayloadInv, RunnerInv, WholeInv, CompletedIsWhole, MidAttempt, NoRow,
         Actors
<1>2. Inv /\ [Next]_vars => Inv'
  BY TypeStep, PayloadStep, RunnerStep, WholeStep
<1>3. Inv => CompletedIsWhole
  BY DEF WholeInv
<1> QED BY <1>1, <1>2, <1>3, PTL DEF Spec

-------------------------------------------------------------------------------
(* PENDING is behind a job once its first update is over: it is not in its *)
(* row, nor in the copies a workflow writes back; and a job whose creation *)
(* has not begun has no entry and no worker.                               *)
PendingInv ==
    /\ PendingMeansUntouched
    /\ \A w \in Workers : MidAttempt(w) => row[job[w]].status # "PENDING"
    /\ \A w \in Workers : pc[w] = "save" /\ ret[w] = "execute" =>
                              copy[w].status # "PENDING"
    /\ \A c \in Clients : pc[c] \in {"dequeue", "read", "save"} =>
                              payload[c].status \notin {"keep", "PENDING"}
    /\ \A j \in Jobs : creation[j] \in {"none", "saved", "aborted"} =>
                           /\ queue[j].state = "absent"
                           /\ dispatched[j] = 0
                           /\ \A w \in Workers : job[w] # j
    /\ \A w \in Workers : pc[w] = "idle" => job[w] = NoJob

LEMMA PendingStep ==
    ASSUME "patch" \notin ClientOps, "PENDING" \notin CallbackStatuses
    PROVE  TypeInv /\ PayloadInv /\ PendingInv /\ [Next]_vars => PendingInv'
<1> SUFFICES ASSUME TypeInv, PayloadInv, PendingInv, [Next]_vars
             PROVE  PendingInv'
  OBVIOUS
<1> USE JobAssumption
        DEF TypeInv, TypeOK, PendingInv, PendingMeansUntouched, MidAttempt, Goto, Call,
            Actors
<1>1. CASE UNCHANGED vars
  BY <1>1 DEF vars
<1>2. ASSUME NEW a \in Actors, UpdateRead(a) PROVE PendingInv'
  BY <1>2 DEF UpdateRead, Exists
(* No save of a started job writes PENDING.                                *)
<1>3. ASSUME NEW a \in Actors, UpdateSave(a) PROVE PendingInv'
  <2> DEFINE j == job[a]
             saved == Merge(copy[a], payload[a], row[j])
  <2>1. j \in Jobs /\ row' = [row EXCEPT ![j] = saved]
    BY <1>3 DEF UpdateSave
  <2>2. saved.status # "PENDING"
    BY <1>3
       DEF UpdateSave, PayloadInv, Merge, Payload, StartPayload, DonePayload, FailPayload
  <2> QED BY <1>3, <2>1, <2>2 DEF UpdateSave
<1>4. ASSUME NEW a \in Actors, UpdateThrows(a) PROVE PendingInv'
  BY <1>4 DEF UpdateThrows
<1>5. ASSUME NEW w \in Workers, NEW j \in Jobs, StartJob(w, j) PROVE PendingInv'
  BY <1>5 DEF StartJob, Take, Move, QueueTypeOK, Entry
<1>6. ASSUME NEW w \in Workers,
             Dispatch(w) \/ WorkflowStep(w) \/ Executed(w) \/ ExecutionThrows(w)
      PROVE  PendingInv'
  BY <1>6 DEF Dispatch, WorkflowStep, Executed, ExecutionThrows
<1>7. ASSUME NEW w \in Workers, EndJob(w) PROVE PendingInv'
  <2>1. job[w] \in Jobs /\ creation[job[w]] = "queued"
    BY <1>7 DEF EndJob
  <2>2. \A j \in Jobs \ {job[w]} : queue'[j] = queue[j]
    BY <1>7, <2>1 DEF EndJob, Finish, Retry, EndAttempt, QueueTypeOK
  <2> QED BY <1>7, <2>1, <2>2 DEF EndJob, BecomeIdle
<1>8. ASSUME NEW w \in Workers, Crash(w) PROVE PendingInv'
  BY <1>8 DEF Crash, BecomeIdle
<1>9. ASSUME NEW c \in Clients, Request(c) PROVE PendingInv'
  BY <1>9 DEF Request, Begin, Cancel, Callback, Patch, Delete, NoRow, CancelPayload,
              Payload
<1>10. ASSUME NEW c \in Clients,
              Dequeue(c) \/ CreateAsset(c) \/ Announce(c) \/ Abort(c)
       PROVE  PendingInv'
  BY <1>10 DEF Dequeue, Remove, Move, QueueTypeOK, CreateAsset, Announce, Abort
<1>11. ASSUME NEW j \in Jobs, QueueStep(j) PROVE PendingInv'
  BY <1>11 DEF QueueStep, StalledCheck, Stall, BackoffOver, Promote, Move, QueueTypeOK,
               actorVars
<1>12. ASSUME NEW j \in Jobs, Create(j) PROVE PendingInv'
  BY <1>12 DEF Create, SaveNewJob, NewRow, QueueNewJob, Add, Move, QueueTypeOK,
               CreateFails, actorVars
<1> QED
  BY <1>1, <1>2, <1>3, <1>4, <1>5, <1>6, <1>7, <1>8, <1>9, <1>10, <1>11, <1>12
     DEF Next, WorkerStep, ClientStep

(* Unless a request writes it, PENDING is never seen on a job whose tool   *)
(* has been called, not even with locks lost by live workers.              *)
THEOREM PendingSafety ==
    ASSUME "patch" \notin ClientOps, "PENDING" \notin CallbackStatuses
    PROVE  Spec => []PendingMeansUntouched
<1> DEFINE Inv == TypeInv /\ PayloadInv /\ PendingInv
<1>1. Init => Inv
  BY InitTypeInv, JobAssumption
     DEF Init, QueueInit, PayloadInv, PendingInv, PendingMeansUntouched, MidAttempt,
         Actors
<1>2. Inv /\ [Next]_vars => Inv'
  BY TypeStep, PayloadStep, PendingStep
<1>3. Inv => PendingMeansUntouched
  BY DEF PendingInv
<1> QED BY <1>1, <1>2, <1>3, PTL DEF Spec
-------------------------------------------------------------------------------
(* The calls of the tool.  An attempt that was taken from the queue is     *)
(* counted for good, in the tries or in the stalls of the entry; each call *)
(* of the tool belongs to one of them, and so does each worker that has    *)
(* taken the job and not called the tool yet, even one that lost its lock. *)
Uncalled(j) ==
    {w \in Workers : /\ job[w] = j
                     /\ \/ pc[w] = "dispatch"
                        \/ pc[w] \in {"read", "save"} /\ ret[w] = "dispatch"}

AttemptsInv == \A j \in Jobs : Attempts(j) =< MaxAttempts + MaxStalls

CallsInv ==
    \A j \in Jobs : dispatched[j] + Cardinality(Uncalled(j)) =< Attempts(j)

LEMMA UncalledType ==
    \A j : IsFiniteSet(Uncalled(j)) /\ Cardinality(Uncalled(j)) \in Nat
BY QueueAssumption, FS_Subset, FS_CardinalityType DEF Uncalled

LEMMA AtMostOneMore ==
    ASSUME NEW S, NEW T, NEW x, IsFiniteSet(S), T \subseteq S \cup {x}
    PROVE  Cardinality(T) =< Cardinality(S) + 1
<1>1. /\ IsFiniteSet(S \cup {x})
      /\ Cardinality(S \cup {x}) = IF x \in S THEN Cardinality(S) ELSE Cardinality(S) + 1
  BY FS_AddElement
<1>2. Cardinality(T) =< Cardinality(S \cup {x}) /\ IsFiniteSet(T)
  BY <1>1, FS_Subset
<1>3. Cardinality(S) \in Nat /\ Cardinality(T) \in Nat /\ Cardinality(S \cup {x}) \in Nat
  BY <1>1, <1>2, FS_CardinalityType
<1> QED BY <1>1, <1>2, <1>3

(* The count of an entry never goes down, nor beyond the limit.            *)
LEMMA AttemptsMove ==
    ASSUME TypeInv, AttemptsInv, NEW i \in Jobs,
           \/ UNCHANGED queue
           \/ Add(i) \/ Remove(i) \/ Promote(i) \/ Stall(i)
           \/ \E w \in Workers : Take(w, i) \/ Finish(w, i) \/ Retry(w, i)
    PROVE  AttemptsInv' /\ \A j \in Jobs : Attempts(j) =< Attempts(j)'
<1> SUFFICES ASSUME NEW j \in Jobs
             PROVE  /\ Attempts(j) =< Attempts(j)'
                    /\ Attempts(j)' =< MaxAttempts + MaxStalls
  BY DEF AttemptsInv
<1> USE QueueAssumption
        DEF TypeInv, TypeOK, QueueTypeOK, QueueInv, Entry, AttemptsInv, Attempts
<1>1. CASE UNCHANGED queue \/ i # j
  <2>1. queue'[j] = queue[j]
    BY <1>1 DEF Add, Remove, Promote, Stall, Take, Move, Finish, Retry, EndAttempt
  <2> QED BY <2>1
<1>2. CASE i = j /\ (Add(j) \/ Remove(j) \/ Promote(j))
  <2>1. /\ queue'[j].tries = queue[j].tries /\ queue'[j].stalls = queue[j].stalls
        /\ queue'[j].state = "active" <=> queue[j].state = "active"
    BY <1>2 DEF Add, Remove, Promote, Move
  <2> QED BY <2>1
<1>3. CASE i = j /\ Stall(j)
  BY <1>3 DEF Stall
<1>4. ASSUME i = j, NEW w \in Workers, Take(w, j)
      PROVE  /\ Attempts(j) =< Attempts(j)'
             /\ Attempts(j)' =< MaxAttempts + MaxStalls
  <2>1. queue[j].state = "waiting" /\ Move(j, "active", w)
    BY <1>4 DEF Take
  <2>2. /\ queue'[j].state = "active"
        /\ queue'[j].tries = queue[j].tries /\ queue'[j].stalls = queue[j].stalls
    BY <2>1 DEF Move
  <2> QED BY <2>1, <2>2
<1>5. ASSUME i = j, NEW w \in Workers, Finish(w, j) \/ Retry(w, j)
      PROVE  /\ Attempts(j) =< Attempts(j)'
             /\ Attempts(j)' =< MaxAttempts + MaxStalls
  BY <1>5 DEF Finish, Retry, EndAttempt, Holds
<1> QED BY <1>1, <1>2, <1>3, <1>4, <1>5

LEMMA AttemptsStep ==
    TypeInv /\ AttemptsInv /\ [Next]_vars =>
        AttemptsInv' /\ \A j \in Jobs : Attempts(j) =< Attempts(j)'
<1> SUFFICES ASSUME TypeInv, AttemptsInv, [Next]_vars
             PROVE  AttemptsInv' /\ \A j \in Jobs : Attempts(j) =< Attempts(j)'
  OBVIOUS
<1>1. CASE UNCHANGED vars
  BY <1>1, AttemptsMove DEF vars, AttemptsInv, Attempts
<1>2. ASSUME NEW w \in Workers, WorkerStep(w) \/ Crash(w)
      PROVE  \/ UNCHANGED queue
             \/ \E i \in Jobs : Take(w, i) \/ Finish(w, i) \/ Retry(w, i)
  BY <1>2 DEF WorkerStep, UpdateRead, UpdateSave, UpdateThrows, StartJob, Dispatch,
              WorkflowStep, Executed, ExecutionThrows, EndJob, Crash, TypeInv, TypeOK,
              Actors
<1>3. ASSUME NEW c \in Clients, ClientStep(c) \/ Request(c) \/ Abort(c)
      PROVE  UNCHANGED queue \/ \E i \in Jobs : Remove(i)
  BY <1>3 DEF ClientStep, UpdateRead, UpdateSave, UpdateThrows, Dequeue, CreateAsset,
              Announce, Request, Cancel, Callback, Patch, Delete, Abort, TypeInv, TypeOK,
              Actors
<1>4. ASSUME NEW j \in Jobs, QueueStep(j) \/ Create(j)
      PROVE  UNCHANGED queue \/ Add(j) \/ Stall(j) \/ Promote(j)
  BY <1>4 DEF QueueStep, StalledCheck, BackoffOver, Create, SaveNewJob, QueueNewJob,
              CreateFails
<1> QED
  BY <1>1, <1>2, <1>3, <1>4, AttemptsMove DEF Next, AttemptsInv, Attempts

(* A worker joins the callers of a job when it takes it, an attempt more,  *)
(* and leaves them when it calls the tool or gives up.                     *)
LEMMA CallsStep ==
    TypeInv /\ AttemptsInv /\ CallsInv /\ [Next]_vars => CallsInv'
<1> SUFFICES ASSUME TypeInv, AttemptsInv, CallsInv, [Next]_vars, NEW j \in Jobs
             PROVE  dispatched'[j] + Cardinality(Uncalled(j))' =< Attempts(j)'
  BY DEF CallsInv
<1> USE DEF TypeInv, TypeOK, Actors
<1>1. dispatched[j] + Cardinality(Uncalled(j)) =< Attempts(j)
  BY DEF CallsInv
<1>2. /\ dispatched[j] \in Nat /\ Attempts(j) \in Int /\ Attempts(j)' \in Int
      /\ Attempts(j) =< Attempts(j)'
  BY AttemptsStep, TypeStep, QueueAssumption DEF QueueTypeOK, Entry, Attempts
<1>3. /\ IsFiniteSet(Uncalled(j)) /\ Cardinality(Uncalled(j)) \in Nat
      /\ Cardinality(Uncalled(j))' \in Nat
  <2>1. Uncalled(j)' \subseteq Workers
    BY DEF Uncalled
  <2>2. Cardinality(Uncalled(j)') \in Nat
    BY <2>1, QueueAssumption, FS_Subset, FS_CardinalityType
  <2> QED BY <2>2, UncalledType
<1>4. ASSUME UNCHANGED dispatched, Uncalled(j)' \subseteq Uncalled(j)
      PROVE  dispatched'[j] + Cardinality(Uncalled(j))' =< Attempts(j)'
  <2>1. Cardinality(Uncalled(j))' =< Cardinality(Uncalled(j))
    BY <1>3, <1>4, FS_Subset
  <2> QED BY <1>1, <1>2, <1>3, <1>4, <2>1
<1>5. ASSUME NEW w \in Workers, NEW i \in Jobs, StartJob(w, i)
      PROVE  dispatched'[j] + Cardinality(Uncalled(j))' =< Attempts(j)'
  <2>1. CASE i # j
    BY <1>4, <1>5, <2>1 DEF StartJob, Call, Uncalled
  <2>2. CASE i = j
    <3>1. Uncalled(j)' \subseteq Uncalled(j) \cup {w}
      BY <1>5, <2>2 DEF StartJob, Call, Uncalled
    <3>2. Cardinality(Uncalled(j))' =< Cardinality(Uncalled(j)) + 1
      BY <1>3, <3>1, AtMostOneMore
    <3>3. Attempts(j)' = Attempts(j) + 1
      BY <1>5, <2>2, QueueAssumption
         DEF StartJob, Take, Move, QueueTypeOK, Entry, Attempts
    <3> QED BY <1>1, <1>2, <1>3, <1>5, <3>2, <3>3 DEF StartJob
  <2> QED BY <2>1, <2>2
<1>6. ASSUME NEW w \in Workers, Dispatch(w)
      PROVE  dispatched'[j] + Cardinality(Uncalled(j))' =< Attempts(j)'
  <2>1. CASE job[w] # j
    <3>1. Uncalled(j)' \subseteq Uncalled(j)
      BY <1>6, <2>1 DEF Dispatch, Goto, Uncalled
    <3>2. dispatched'[j] = dispatched[j]
      BY <1>6, <2>1 DEF Dispatch
    <3> QED BY <1>1, <1>2, <1>3, <3>1, <3>2, FS_Subset
  <2>2. CASE job[w] = j
    <3>1. w \in Uncalled(j) /\ Uncalled(j)' \subseteq Uncalled(j) \ {w}
      BY <1>6, <2>2 DEF Dispatch, Goto, Uncalled
    <3>2. IsFiniteSet(Uncalled(j) \ {w})
          /\ Cardinality(Uncalled(j) \ {w}) = Cardinality(Uncalled(j)) - 1
      BY <1>3, <3>1, FS_RemoveElement
    <3>3. Cardinality(Uncalled(j))' =< Cardinality(Uncalled(j)) - 1
      BY <3>1, <3>2, FS_Subset
    <3>4. dispatched'[j] = dispatched[j] + 1
      BY <1>6, <2>2 DEF Dispatch
    <3> QED BY <1>1, <1>2, <1>3, <3>3, <3>4
  <2> QED BY <2>1, <2>2
<1>7. ASSUME NEW a \in Actors, UpdateRead(a) \/ UpdateSave(a) \/ UpdateThrows(a)
      PROVE  UNCHANGED dispatched /\ Uncalled(j)' \subseteq Uncalled(j)
  BY <1>7, JobAssumption DEF UpdateRead, UpdateSave, UpdateThrows, Goto, Call, Uncalled
<1>8. ASSUME NEW w \in Workers,
             \/ WorkflowStep(w) \/ Executed(w) \/ ExecutionThrows(w)
             \/ EndJob(w) \/ Crash(w)
      PROVE  UNCHANGED dispatched /\ Uncalled(j)' \subseteq Uncalled(j)
  BY <1>8 DEF WorkflowStep, Executed, ExecutionThrows, EndJob, Crash, BecomeIdle, Goto,
              Call, Uncalled
<1>9. ASSUME NEW c \in Clients,
             Request(c) \/ Dequeue(c) \/ CreateAsset(c) \/ Announce(c) \/ Abort(c)
      PROVE  UNCHANGED dispatched /\ Uncalled(j)' \subseteq Uncalled(j)
  BY <1>9, JobAssumption
     DEF Request, Begin, Cancel, Callback, Patch, Delete, Dequeue, CreateAsset, Announce,
         Abort, Goto, Call, Uncalled
<1>10. ASSUME NEW i \in Jobs, QueueStep(i) \/ Create(i)
       PROVE  UNCHANGED dispatched /\ Uncalled(j)' \subseteq Uncalled(j)
  BY <1>10 DEF QueueStep, StalledCheck, BackoffOver, Create, SaveNewJob, QueueNewJob,
               CreateFails, actorVars, Uncalled
<1>11. CASE UNCHANGED vars
  BY <1>4, <1>11 DEF vars, Uncalled
<1> QED
  BY <1>4, <1>5, <1>6, <1>7, <1>8, <1>9, <1>10, <1>11 DEF Next, WorkerStep, ClientStep

(* With any number of workers and requests and any faults, locks lost by   *)
(* live workers included, the external tool is called at most once per     *)
(* attempt and per stall.                                                  *)
THEOREM DispatchSafety == Spec => []DispatchBound
<1>1. Init => TypeInv /\ AttemptsInv /\ CallsInv
  <2> SUFFICES ASSUME Init PROVE TypeInv /\ AttemptsInv /\ CallsInv
    OBVIOUS
  <2>1. \A j \in Jobs : Uncalled(j) = {} /\ Attempts(j) = 0 /\ dispatched[j] = 0
    BY DEF Init, QueueInit, Uncalled, Attempts, Actors
  <2> QED
    BY <2>1, InitTypeInv, QueueAssumption, FS_EmptySet DEF AttemptsInv, CallsInv
<1>2. TypeInv /\ AttemptsInv /\ CallsInv /\ [Next]_vars =>
          (TypeInv /\ AttemptsInv /\ CallsInv)'
  BY TypeStep, AttemptsStep, CallsStep
<1>3. TypeInv /\ AttemptsInv /\ CallsInv => DispatchBound
  <2> SUFFICES ASSUME TypeInv, AttemptsInv, CallsInv, NEW j \in Jobs
               PROVE  dispatched[j] =< MaxAttempts + MaxStalls
    BY DEF DispatchBound
  <2>1. Attempts(j) \in Int /\ dispatched[j] \in Nat
    BY QueueAssumption DEF TypeInv, TypeOK, QueueTypeOK, Entry, Attempts
  <2> QED
    BY <2>1, UncalledType, QueueAssumption DEF AttemptsInv, CallsInv
<1> QED BY <1>1, <1>2, <1>3, PTL DEF Spec
-------------------------------------------------------------------------------
(* With no lock lost by a live worker, the tool of a job is not called     *)
(* once its entry has left the queue: the worker that calls it holds the   *)
(* lock of the entry.                                                      *)
THEOREM RemovalSafety ==
    ASSUME "lock" \notin Faults
    PROVE  Spec => RemovedIsNotDispatched
<1>1. Init => TypeInv /\ RunnerInv
  BY InitTypeInv, JobAssumption DEF Init, RunnerInv, Actors
<1>2. TypeInv /\ RunnerInv /\ [Next]_vars => (TypeInv /\ RunnerInv)'
  BY RunnerStep, TypeStep
<1>3. TypeInv /\ RunnerInv /\ [Next]_vars =>
          [\A j \in Jobs : queue[j].state \in {"removed", "failed"} =>
                              dispatched'[j] = dispatched[j]]_vars
  <2> SUFFICES ASSUME TypeInv, RunnerInv, Next, NEW j \in Jobs,
                      queue[j].state \in {"removed", "failed"}
               PROVE  dispatched'[j] = dispatched[j]
    OBVIOUS
  <2>1. ASSUME NEW w \in Workers, Dispatch(w) PROVE dispatched'[j] = dispatched[j]
    <3>1. job[w] \in Jobs /\ job[w] # j
      BY <2>1, JobAssumption DEF Dispatch, TypeInv, TypeOK, Actors, RunnerInv, Holds
    <3> QED BY <2>1, <3>1 DEF Dispatch, TypeInv, TypeOK
  <2>2. ASSUME NEW w \in Workers, WorkerStep(w) \/ Crash(w)
        PROVE  dispatched'[j] = dispatched[j]
    BY <2>1, <2>2 DEF WorkerStep, UpdateRead, UpdateSave, UpdateThrows, StartJob,
                      WorkflowStep, Executed, ExecutionThrows, EndJob, Crash
  <2>3. ASSUME NEW c \in Clients, ClientStep(c) \/ Request(c) \/ Abort(c)
        PROVE  dispatched'[j] = dispatched[j]
    BY <2>3 DEF ClientStep, UpdateRead, UpdateSave, UpdateThrows, Dequeue, CreateAsset,
                Announce, Request, Cancel, Callback, Patch, Delete, Abort
  <2>4. ASSUME NEW i \in Jobs, QueueStep(i) \/ Create(i)
        PROVE  dispatched'[j] = dispatched[j]
    BY <2>4 DEF QueueStep, StalledCheck, BackoffOver, Create, SaveNewJob, QueueNewJob,
                CreateFails
  <2> QED BY <2>2, <2>3, <2>4 DEF Next
<1> QED BY <1>1, <1>2, <1>3, PTL DEF Spec, RemovedIsNotDispatched

-------------------------------------------------------------------------------
(* A request that posted COMPLETED stays on record; a copy of an async job *)
(* that says COMPLETED was read after one; and a worker never saves that   *)
(* status on an async job.                                                 *)
Posted(j) == \E c \in Clients : job[c] = j /\ payload[c].status = "COMPLETED"

AsyncInv ==
    /\ \A j \in Jobs : Tool[j] = "async" /\ row[j].status = "COMPLETED" => Posted(j)
    /\ \A a \in Actors :
          pc[a] = "save" /\ Tool[job[a]] = "async" /\ copy[a].status = "COMPLETED" =>
              Posted(job[a])
    /\ \A w \in Workers :
          pc[w] \in {"read", "save"} /\ Tool[job[w]] = "async" =>
              payload[w].status # "COMPLETED"
    /\ \A c \in Clients : pc[c] = "idle" => job[c] = NoJob

LEMMA PostedStays ==
    ASSUME TypeInv, AsyncInv, [Next]_vars, NEW j \in Jobs, Posted(j)
    PROVE  Posted(j)'
<1> PICK c \in Clients : job[c] = j /\ payload[c].status = "COMPLETED"
  BY DEF Posted
<1> USE JobAssumption DEF TypeInv, TypeOK, Actors, Goto, Call
<1>1. pc[c] # "idle"
  BY DEF AsyncInv
<1>2. CASE UNCHANGED vars
  BY <1>2 DEF vars, Posted
<1>3. ASSUME NEW w \in Workers, WorkerStep(w) \/ Crash(w)
      PROVE  job'[c] = job[c] /\ payload'[c] = payload[c]
  BY <1>3 DEF WorkerStep, UpdateRead, UpdateSave, UpdateThrows, StartJob, Dispatch,
              WorkflowStep, Executed, ExecutionThrows, EndJob, Crash, BecomeIdle
<1>4. ASSUME NEW d \in Clients, ClientStep(d) \/ Request(d) \/ Abort(d)
      PROVE  job'[c] = job[c] /\ payload'[c] = payload[c]
  BY <1>1, <1>4 DEF ClientStep, UpdateRead, UpdateSave, UpdateThrows, Dequeue,
                    CreateAsset, Announce, Request, Begin, Cancel, Callback, Patch,
                    Delete, Abort
<1>5. ASSUME NEW i \in Jobs, QueueStep(i) \/ Create(i)
      PROVE  job'[c] = job[c] /\ payload'[c] = payload[c]
  BY <1>5 DEF QueueStep, StalledCheck, BackoffOver, Create, SaveNewJob, QueueNewJob,
              CreateFails, actorVars
<1>6. CASE Next
  <2>1. job'[c] = job[c] /\ payload'[c] = payload[c]
    BY <1>3, <1>4, <1>5, <1>6 DEF Next
  <2> QED BY <2>1 DEF Posted
<1> QED BY <1>2, <1>6

LEMMA AsyncStep == TypeInv /\ AsyncInv /\ [Next]_vars => AsyncInv'
<1> SUFFICES ASSUME TypeInv, AsyncInv, [Next]_vars PROVE AsyncInv'
  OBVIOUS
<1>0. \A j \in Jobs : Posted(j) => Posted(j)'
  BY PostedStays
<1> USE JobAssumption DEF TypeInv, TypeOK, Actors, Goto, Call, AsyncInv
<1>1. CASE UNCHANGED vars
  BY <1>0, <1>1 DEF vars
<1>2. ASSUME NEW a \in Actors, UpdateRead(a) PROVE AsyncInv'
  BY <1>0, <1>2 DEF UpdateRead
<1>3. ASSUME NEW a \in Actors, UpdateSave(a) PROVE AsyncInv'
  <2>1. /\ pc[a] = "save" /\ job[a] \in Jobs /\ pc'[a] = ret[a] /\ ret[a] # "save"
        /\ ret[a] \notin {"read", "idle"}
        /\ \A b \in Actors : b # a => pc'[b] = pc[b] /\ copy'[b] = copy[b]
        /\ UNCHANGED <<job, payload>>
        /\ \A j \in Jobs : j # job[a] => row'[j] = row[j]
    BY <1>3 DEF UpdateSave
  <2>2. row'[job[a]].status = IF payload[a].status = "keep" THEN copy[a].status
                              ELSE payload[a].status
    BY <1>3, <2>1 DEF UpdateSave, Merge
  <2>3. Tool[job[a]] = "async" /\ row'[job[a]].status = "COMPLETED" => Posted(job[a])
    BY <2>1, <2>2 DEF Posted
  <2> QED BY <1>0, <2>1, <2>3
<1>4. ASSUME NEW a \in Actors, UpdateThrows(a) PROVE AsyncInv'
  <2>1. /\ a \in Clients => /\ pc' = [pc EXCEPT ![a] = "done"]
                            /\ payload' = payload
        /\ a \in Workers => /\ pc'[a] \in {"read", "throw"}
                            /\ pc'[a] = "read" => payload'[a] = FailPayload
        /\ \A b \in Actors : b # a => /\ pc'[b] = pc[b] /\ payload'[b] = payload[b]
                                      /\ copy'[b] = copy[b]
        /\ UNCHANGED <<job, row>>
    BY <1>4 DEF UpdateThrows
  <2>2. FailPayload.status # "COMPLETED"
    BY DEF FailPayload, Payload
  <2> QED BY <1>0, <2>1, <2>2
<1>5. ASSUME NEW w \in Workers,
             \/ \E j \in Jobs : StartJob(w, j)
             \/ Dispatch(w) \/ WorkflowStep(w) \/ Executed(w) \/ ExecutionThrows(w)
             \/ EndJob(w) \/ Crash(w)
      PROVE  AsyncInv'
  <2>1. /\ pc'[w] # "save" /\ UNCHANGED row
        /\ \A b \in Actors : b # w => /\ pc'[b] = pc[b] /\ payload'[b] = payload[b]
                                      /\ copy'[b] = copy[b] /\ job'[b] = job[b]
    BY <1>5 DEF StartJob, Dispatch, WorkflowStep, Executed, ExecutionThrows, EndJob,
                Crash, BecomeIdle
  <2>2. pc'[w] = "read" /\ Tool[job'[w]] = "async" => payload'[w].status # "COMPLETED"
    BY <1>5 DEF StartJob, Dispatch, WorkflowStep, Executed, ExecutionThrows, EndJob,
                Crash, BecomeIdle, InChain, StartPayload, StepPayload, FailPayload,
                Payload
  <2> QED BY <1>0, <2>1, <2>2
<1>6. ASSUME NEW c \in Clients,
             Request(c) \/ Dequeue(c) \/ CreateAsset(c) \/ Announce(c) \/ Abort(c)
      PROVE  AsyncInv'
  <2>1. /\ pc'[c] \notin {"idle", "save"}
        /\ \A b \in Actors : b # c => /\ pc'[b] = pc[b] /\ payload'[b] = payload[b]
                                      /\ copy'[b] = copy[b] /\ job'[b] = job[b]
    BY <1>6 DEF Request, Begin, Cancel, Callback, Patch, Delete, Dequeue, CreateAsset,
                Announce, Abort
  <2>2. \A j \in Jobs : row'[j] = row[j] \/ row'[j] = NoRow
    BY <1>6 DEF Request, Begin, Cancel, Callback, Patch, Delete, Dequeue, CreateAsset,
                Announce, Abort
  <2> QED BY <1>0, <2>1, <2>2 DEF NoRow
<1>7. ASSUME NEW i \in Jobs, QueueStep(i) \/ Create(i) PROVE AsyncInv'
  <2>1. /\ UNCHANGED <<pc, payload, copy, job>>
        /\ \A j \in Jobs : row'[j] = row[j] \/ row'[j] = NewRow
    BY <1>7 DEF QueueStep, StalledCheck, BackoffOver, Create, SaveNewJob, QueueNewJob,
                CreateFails, actorVars
  <2> QED BY <1>0, <2>1 DEF NewRow
<1> QED
  BY <1>1, <1>2, <1>3, <1>4, <1>5, <1>6, <1>7 DEF Next, WorkerStep, ClientStep

(* Whatever requests are made and whatever fails, an asynchronous job that *)
(* says COMPLETED was completed by a request.                              *)
THEOREM AsyncSafety == Spec => []AsyncCompletedByRequest
<1>1. Init => TypeInv /\ AsyncInv
  BY InitTypeInv, JobAssumption DEF Init, AsyncInv, NoRow, Actors
<1>2. TypeInv /\ AsyncInv /\ [Next]_vars => (TypeInv /\ AsyncInv)'
  BY TypeStep, AsyncStep
<1>3. AsyncInv => AsyncCompletedByRequest
  BY DEF AsyncInv, Posted, AsyncCompletedByRequest
<1> QED BY <1>1, <1>2, <1>3, PTL DEF Spec

-------------------------------------------------------------------------------
(* A cancel of a job stays on record.  Once the first update of an attempt *)
(* is over, and until it fails, its row does not say FAILED, nor does the  *)
(* copy a workflow writes back: so an attempt that takes its entry out of  *)
(* the queue by succeeding leaves no FAILED row.  A request that is under  *)
(* way writes a status of its own, another one than FAILED.                *)
Canceler(j) == \E c \in Clients : job[c] = j /\ payload[c] = CancelPayload

Succeeding(w) ==
    MidAttempt(w) \/ pc[w] = "ack" \/ (pc[w] \in {"read", "save"} /\ ret[w] = "ack")

RetriesInv ==
    /\ \A j \in Jobs : queue[j].state = "removed" /\ row[j].status = "FAILED" =>
                           Canceler(j)
    /\ \A w \in Workers : Succeeding(w) => row[job[w]].status # "FAILED"
    /\ \A w \in Workers : pc[w] = "save" /\ ret[w] = "execute" =>
                              copy[w].status # "FAILED"
    /\ \A c \in Clients : pc[c] = "idle" => job[c] = NoJob
    /\ \A c \in Clients : pc[c] = "dequeue" => payload[c] = CancelPayload
    /\ \A c \in Clients : pc[c] \in {"dequeue", "read", "save"} =>
                              payload[c].status \notin {"keep", "FAILED"}

LEMMA CancelerStays ==
    ASSUME TypeInv, RetriesInv, [Next]_vars, NEW j \in Jobs, Canceler(j)
    PROVE  Canceler(j)'
<1> PICK c \in Clients : job[c] = j /\ payload[c] = CancelPayload
  BY DEF Canceler
<1> USE JobAssumption DEF TypeInv, TypeOK, Actors, Goto, Call
<1>1. pc[c] # "idle"
  BY DEF RetriesInv
<1>2. CASE UNCHANGED vars
  BY <1>2 DEF vars, Canceler
<1>3. ASSUME NEW w \in Workers, WorkerStep(w) \/ Crash(w)
      PROVE  job'[c] = job[c] /\ payload'[c] = payload[c]
  BY <1>3 DEF WorkerStep, UpdateRead, UpdateSave, UpdateThrows, StartJob, Dispatch,
              WorkflowStep, Executed, ExecutionThrows, EndJob, Crash, BecomeIdle
<1>4. ASSUME NEW d \in Clients, ClientStep(d) \/ Request(d) \/ Abort(d)
      PROVE  job'[c] = job[c] /\ payload'[c] = payload[c]
  BY <1>1, <1>4 DEF ClientStep, UpdateRead, UpdateSave, UpdateThrows, Dequeue,
                    CreateAsset, Announce, Request, Begin, Cancel, Callback, Patch,
                    Delete, Abort
<1>5. ASSUME NEW i \in Jobs, QueueStep(i) \/ Create(i)
      PROVE  job'[c] = job[c] /\ payload'[c] = payload[c]
  BY <1>5 DEF QueueStep, StalledCheck, BackoffOver, Create, SaveNewJob, QueueNewJob,
              CreateFails, actorVars
<1>6. CASE Next
  <2>1. job'[c] = job[c] /\ payload'[c] = payload[c]
    BY <1>3, <1>4, <1>5, <1>6 DEF Next
  <2> QED BY <2>1 DEF Canceler
<1> QED BY <1>2, <1>6

LEMMA RetriesStep ==
    ASSUME "lock" \notin Faults, "patch" \notin ClientOps,
           "FAILED" \notin CallbackStatuses
    PROVE  TypeInv /\ PayloadInv /\ RunnerInv /\ RetriesInv /\ [Next]_vars =>
               RetriesInv'
<1> SUFFICES ASSUME TypeInv, PayloadInv, RunnerInv, RetriesInv, [Next]_vars
             PROVE  RetriesInv'
  OBVIOUS
<1>0. \A j \in Jobs : Canceler(j) => Canceler(j)'
  BY CancelerStays
<1> USE JobAssumption
        DEF TypeInv, TypeOK, RetriesInv, Succeeding, MidAttempt, Goto, Call, Actors
<1>1. CASE UNCHANGED vars
  BY <1>0, <1>1 DEF vars
<1>2. ASSUME NEW a \in Actors, UpdateRead(a) PROVE RetriesInv'
  BY <1>0, <1>2 DEF UpdateRead, Exists
(* Only the catch block of a worker writes FAILED, and while it holds the  *)
(* entry nobody else is in an attempt of the job.                          *)
<1>3. ASSUME NEW a \in Actors, UpdateSave(a) PROVE RetriesInv'
  <2> DEFINE j == job[a]
             saved == Merge(copy[a], payload[a], row[j])
  <2>1. /\ pc[a] = "save" /\ j \in Jobs /\ row' = [row EXCEPT ![j] = saved]
        /\ pc' = [pc EXCEPT ![a] = ret[a]] /\ UNCHANGED <<queue, job, payload, ret>>
        /\ copy' = [copy EXCEPT ![a] = NoRow]
        /\ ret[a] \notin {"idle", "read", "save", "dequeue"}
    BY <1>3 DEF UpdateSave
  <2>2. saved.status = "FAILED" => a \in Workers /\ ret[a] = "throw"
    BY <2>1 DEF PayloadInv, Merge, Payload, StartPayload, DonePayload, FailPayload
  <2>3. a \in Workers => /\ queue[j].state = "active"
                         /\ \A w \in Workers : w # a => job[w] # j
    BY <2>1 DEF RunnerInv, Holds
  <2>4. \A i \in Jobs : queue'[i].state = "removed" /\ row'[i].status = "FAILED" =>
                            Canceler(i)'
    BY <1>0, <2>1, <2>2, <2>3
  <2>5. \A w \in Workers : Succeeding(w)' => row'[job'[w]].status # "FAILED"
    <3> SUFFICES ASSUME NEW w \in Workers, Succeeding(w)'
                 PROVE  row'[job'[w]].status # "FAILED"
      OBVIOUS
    <3>1. CASE w # a
      BY <2>1, <2>2, <2>3, <3>1
    <3>2. CASE w = a
      BY <2>1, <2>2, <3>2
    <3> QED BY <3>1, <3>2
  <2> QED BY <2>1, <2>4, <2>5
<1>4. ASSUME NEW a \in Actors, UpdateThrows(a) PROVE RetriesInv'
  BY <1>0, <1>4 DEF UpdateThrows
<1>5. ASSUME NEW w \in Workers, NEW j \in Jobs, StartJob(w, j) PROVE RetriesInv'
  BY <1>0, <1>5 DEF StartJob, Take, Move, QueueTypeOK
<1>6. ASSUME NEW w \in Workers,
             Dispatch(w) \/ WorkflowStep(w) \/ Executed(w) \/ ExecutionThrows(w)
      PROVE  RetriesInv'
  BY <1>0, <1>6 DEF Dispatch, WorkflowStep, Executed, ExecutionThrows
(* The entry goes for good only when the attempt has succeeded.            *)
<1>7. ASSUME NEW w \in Workers, EndJob(w) PROVE RetriesInv'
  <2>1. /\ job[w] \in Jobs /\ UNCHANGED row
        /\ \A i \in Jobs \ {job[w]} : queue'[i] = queue[i]
    BY <1>7 DEF EndJob, Finish, Retry, EndAttempt, QueueTypeOK
  <2>2. queue'[job[w]].state = "removed" =>
            queue[job[w]].state = "removed" \/ pc[w] = "ack"
    BY <1>7, <2>1 DEF EndJob, Retry, EndAttempt, QueueTypeOK, Entry
  <2>3. \A i \in Jobs : queue'[i].state = "removed" /\ row'[i].status = "FAILED" =>
                            Canceler(i)'
    BY <1>0, <2>1, <2>2
  <2> QED BY <1>7, <2>1, <2>3 DEF EndJob, BecomeIdle
<1>8. ASSUME NEW w \in Workers, Crash(w) PROVE RetriesInv'
  BY <1>0, <1>8 DEF Crash, BecomeIdle
<1>9. ASSUME NEW c \in Clients, Request(c) PROVE RetriesInv'
  BY <1>0, <1>9 DEF Request, Begin, Cancel, Callback, Patch, Delete, NoRow,
                    CancelPayload, Payload
<1>10. ASSUME NEW c \in Clients, Dequeue(c) PROVE RetriesInv'
  <2>1. Canceler(job[c])' /\ job[c] \in Jobs
    BY <1>0, <1>10 DEF Dequeue, Canceler
  <2>2. \A i \in Jobs \ {job[c]} : queue'[i] = queue[i]
    BY <1>10, <2>1 DEF Dequeue, Remove, Move, QueueTypeOK
  <2> QED BY <1>0, <1>10, <2>1, <2>2 DEF Dequeue
<1>11. ASSUME NEW c \in Clients, CreateAsset(c) \/ Announce(c) \/ Abort(c)
       PROVE  RetriesInv'
  BY <1>0, <1>11 DEF CreateAsset, Announce, Abort
<1>12. ASSUME NEW j \in Jobs, QueueStep(j) PROVE RetriesInv'
  <2>1. /\ \A i \in Jobs \ {j} : queue'[i] = queue[i]
        /\ queue'[j].state # "removed"
    <3>1. CASE Stall(j)
      BY <3>1 DEF Stall, QueueTypeOK
    <3>2. CASE Promote(j)
      BY <3>2 DEF Promote, Move, QueueTypeOK
    <3> QED BY <1>12, <3>1, <3>2 DEF QueueStep, StalledCheck, BackoffOver
  <2> QED BY <1>0, <1>12, <2>1 DEF QueueStep, StalledCheck, BackoffOver, actorVars
<1>13. ASSUME NEW j \in Jobs, Create(j) PROVE RetriesInv'
  <2>1. \A i \in Jobs : queue'[i].state = "removed" => queue[i].state = "removed"
    BY <1>13 DEF Create, SaveNewJob, QueueNewJob, Add, Move, CreateFails, QueueTypeOK,
                 Entry
  <2>2. \A i \in Jobs : row'[i] = row[i] \/ row'[i].status = "PENDING"
    BY <1>13 DEF Create, SaveNewJob, NewRow, QueueNewJob, CreateFails
  <2> QED
    BY <1>0, <1>13, <2>1, <2>2 DEF Create, SaveNewJob, QueueNewJob, CreateFails, actorVars
<1> QED
  BY <1>1, <1>2, <1>3, <1>4, <1>5, <1>6, <1>7, <1>8, <1>9, <1>10, <1>11, <1>12, <1>13
     DEF Next, WorkerStep, ClientStep

(* With no lock lost by a live worker and no request that writes FAILED, a *)
(* job comes to rest FAILED only when its attempts are used up or it was   *)
(* canceled, with any number of workers, cancels, deletes and callbacks.   *)
THEOREM RetriesSafety ==
    ASSUME "lock" \notin Faults, "patch" \notin ClientOps,
           "FAILED" \notin CallbackStatuses
    PROVE  Spec => []RetriesAreUsed
<1> DEFINE Inv == TypeInv /\ PayloadInv /\ RunnerInv /\ RetriesInv
<1>1. Init => Inv
  BY InitTypeInv, JobAssumption
     DEF Init, QueueInit, PayloadInv, RunnerInv, RetriesInv, Succeeding, MidAttempt,
         NoRow, Actors
<1>2. Inv /\ [Next]_vars => Inv'
  BY TypeStep, PayloadStep, RunnerStep, RetriesStep
<1>3. Inv => RetriesAreUsed
  BY DEF RetriesInv, Canceler, RetriesAreUsed, Quiet
<1> QED BY <1>1, <1>2, <1>3, PTL DEF Spec

-------------------------------------------------------------------------------
(* Refinement of JobLifecycle.  With requests that only cancel, a row      *)
(* exists from the moment it was created; in the middle of an attempt its  *)
(* status is PROCESSING, or CANCELED by a cancel that landed meanwhile,    *)
(* and so is that of the copy a workflow step writes back; and a request   *)
(* under way is a cancel of a row that exists.                             *)
LifeInv ==
    /\ \A j \in Jobs : /\ row[j].status # "DRAFT"
                       /\ Exists(j) <=> creation[j] # "none"
                       /\ queue[j].state # "absent" => creation[j] # "none"
    /\ \A w \in Workers :
          /\ pc[w] # "done"
          /\ MidAttempt(w) => row[job[w]].status \in {"PROCESSING", "CANCELED"}
          /\ pc[w] = "save" /\ ret[w] = "execute" =>
                /\ copy[w].status \in {"PROCESSING", "CANCELED"}
                /\ copy[w].status = "CANCELED" => row[job[w]].status = "CANCELED"
    /\ \A c \in Clients :
          /\ ret[c] = "done"
          /\ pc[c] \in {"idle", "dequeue", "read", "save", "done"}
          /\ pc[c] \in {"dequeue", "read", "save"} =>
                payload[c] = CancelPayload /\ Exists(job[c])

(* A worker that has a job works on a row that exists.                     *)
LEMMA WorkedExists ==
    ASSUME TypeInv, RunnerInv, LifeInv, NEW w \in Workers, pc[w] # "idle"
    PROVE  job[w] \in Jobs /\ Exists(job[w]) /\ Holds(w, job[w])
BY JobAssumption DEF TypeInv, TypeOK, Actors, RunnerInv, LifeInv, Holds

LEMMA OneWorker ==
    ASSUME TypeInv, RunnerInv, NEW v \in Workers, NEW w \in Workers,
           job[v] = job[w], job[v] # NoJob
    PROVE  v = w
BY DEF RunnerInv, Holds

LEMMA RemoveKeepsEntry ==
    ASSUME TypeInv, NEW i \in Jobs, Remove(i)
    PROVE  \A j \in Jobs : queue'[j].state = "absent" <=> queue[j].state = "absent"
<1>1. CASE UNCHANGED queue
  BY <1>1
<1>2. CASE queue[i].state # "absent" /\ Move(i, "removed", NoWorker)
  <2>1. queue'[i].state = "removed" /\ \A j \in Jobs \ {i} : queue'[j] = queue[j]
    BY <1>2 DEF Move, TypeInv, TypeOK, QueueTypeOK, Entry
  <2> QED BY <1>2, <2>1
<1> QED BY <1>1, <1>2 DEF Remove

LEMMA LifeStep ==
    ASSUME "lock" \notin Faults, ClientOps \subseteq {"cancel"}
    PROVE  TypeInv /\ RunnerInv /\ PayloadInv /\ LifeInv /\ [Next]_vars => LifeInv'
<1> SUFFICES ASSUME TypeInv, RunnerInv, PayloadInv, LifeInv, [Next]_vars
             PROVE  LifeInv'
  OBVIOUS
<1>0. TypeInv'
  BY TypeStep
<1> USE JobAssumption, QueueAssumption
        DEF TypeInv, TypeOK, Actors, LifeInv, MidAttempt, Exists, Goto, Call
<1>1. CASE UNCHANGED vars
  BY <1>1 DEF vars
<1>2. ASSUME NEW w \in Workers, UpdateRead(w) PROVE LifeInv'
  <2>1. Exists(job[w]) /\ job[w] \in Jobs
    BY <1>2, WorkedExists DEF UpdateRead
  <2>2. pc' = [pc EXCEPT ![w] = "save"] /\ copy' = [copy EXCEPT ![w] = row[job[w]]]
    BY <1>2, <2>1 DEF UpdateRead
  <2>3. UNCHANGED <<queue, row, creation, job, payload, ret>>
    BY <1>2 DEF UpdateRead
  <2> QED BY <1>2, <2>1, <2>2, <2>3 DEF UpdateRead
<1>3. ASSUME NEW c \in Clients, UpdateRead(c) PROVE LifeInv'
  <2>1. pc' = [pc EXCEPT ![c] = "save"] /\ copy' = [copy EXCEPT ![c] = row[job[c]]]
    BY <1>3 DEF UpdateRead
  <2>2. UNCHANGED <<queue, row, creation, job, payload, ret>>
    BY <1>3 DEF UpdateRead
  <2> QED BY <1>3, <2>1, <2>2 DEF UpdateRead
<1>4. ASSUME NEW w \in Workers, UpdateSave(w) PROVE LifeInv'
  <2> DEFINE s == row'[job[w]].status
  <2>1. /\ job[w] \in Jobs /\ Exists(job[w])
        /\ \A v \in Workers : v # w /\ pc[v] # "idle" => job[v] # job[w]
    BY <1>4, WorkedExists, OneWorker DEF UpdateSave
  <2>2. /\ pc[w] = "save" /\ pc' = [pc EXCEPT ![w] = ret[w]]
        /\ copy' = [copy EXCEPT ![w] = NoRow]
        /\ UNCHANGED <<queue, creation, job, payload, ret>>
        /\ \A j \in Jobs : j # job[w] => row'[j] = row[j]
    BY <1>4 DEF UpdateSave
  <2>3. \/ ret[w] = "dispatch" /\ s = "PROCESSING"
        \/ ret[w] = "execute" /\ s = copy[w].status
        \/ ret[w] = "ack" /\ s = "COMPLETED"
        \/ ret[w] = "throw" /\ s = "FAILED"
    BY <1>4, <2>1 DEF UpdateSave, PayloadInv, Merge, Payload, StartPayload, DonePayload,
                      FailPayload
  <2> HIDE DEF s
  <2>4. s \in {"PROCESSING", "CANCELED", "COMPLETED", "FAILED"}
    BY <2>2, <2>3
  <2>5. ASSUME NEW j \in Jobs
        PROVE  /\ row'[j].status # "DRAFT"
               /\ row'[j].status # "NO_ROW" <=> creation'[j] # "none"
               /\ queue'[j].state # "absent" => creation'[j] # "none"
    BY <2>1, <2>2, <2>4 DEF s
  <2>6. ASSUME NEW v \in Workers, v # w
        PROVE  /\ pc'[v] # "done"
               /\ MidAttempt(v)' => row'[job'[v]].status \in {"PROCESSING", "CANCELED"}
               /\ pc'[v] = "save" /\ ret'[v] = "execute" =>
                     /\ copy'[v].status \in {"PROCESSING", "CANCELED"}
                     /\ copy'[v].status = "CANCELED" => row'[job'[v]].status = "CANCELED"
    BY <2>1, <2>2, <2>6
  <2>7. /\ pc'[w] = ret[w] /\ pc'[w] # "done" /\ pc'[w] # "save"
        /\ MidAttempt(w)' => s \in {"PROCESSING", "CANCELED"}
    BY <2>2, <2>3
  <2>8. ASSUME NEW c \in Clients
        PROVE  /\ ret'[c] = "done"
               /\ pc'[c] \in {"idle", "dequeue", "read", "save", "done"}
               /\ pc'[c] \in {"dequeue", "read", "save"} =>
                     payload'[c] = CancelPayload /\ row'[job'[c]].status # "NO_ROW"
    BY <2>1, <2>2, <2>4 DEF s
  <2> QED BY <2>2, <2>5, <2>6, <2>7, <2>8 DEF s
<1>5. ASSUME NEW c \in Clients, UpdateSave(c) PROVE LifeInv'
  <2>1. /\ row'[job[c]].status = "CANCELED" /\ job[c] \in Jobs
        /\ \A j \in Jobs : j # job[c] => row'[j] = row[j]
    BY <1>5 DEF UpdateSave, Merge, CancelPayload, Payload
  <2>2. /\ Exists(job[c]) /\ pc' = [pc EXCEPT ![c] = "done"]
        /\ copy' = [copy EXCEPT ![c] = NoRow]
        /\ UNCHANGED <<queue, creation, job, payload, ret>>
    BY <1>5 DEF UpdateSave
  <2>3. ASSUME NEW j \in Jobs
        PROVE  /\ row'[j].status # "DRAFT"
               /\ row'[j].status # "NO_ROW" <=> creation'[j] # "none"
               /\ queue'[j].state # "absent" => creation'[j] # "none"
    BY <2>1, <2>2
  <2>4. ASSUME NEW w \in Workers
        PROVE  /\ pc'[w] = pc[w] /\ copy'[w] = copy[w]
               /\ job[w] \in Jobs => \/ row'[job'[w]] = row[job[w]]
                                     \/ row'[job'[w]].status = "CANCELED"
    BY <2>1, <2>2
  <2>5. ASSUME NEW d \in Clients
        PROVE  /\ ret'[d] = "done"
               /\ pc'[d] \in {"idle", "dequeue", "read", "save", "done"}
               /\ pc'[d] \in {"dequeue", "read", "save"} =>
                     payload'[d] = CancelPayload /\ row'[job'[d]].status # "NO_ROW"
    BY <2>1, <2>2
  <2> QED BY <2>2, <2>3, <2>4, <2>5
<1>6. ASSUME NEW w \in Workers, UpdateThrows(w) PROVE LifeInv'
  <2>1. /\ \A a \in Actors : a # w => UNCHANGED <<pc[a], payload[a], ret[a], copy[a]>>
        /\ ret'[w] = "throw" \/ pc'[w] = "throw"
        /\ pc'[w] \in {"read", "throw"}
        /\ UNCHANGED <<queue, row, creation, job>>
    BY <1>6 DEF UpdateThrows
  <2> QED BY <2>1
<1>7. ASSUME NEW c \in Clients, UpdateThrows(c) \/ Abort(c) PROVE LifeInv'
  <2>1. /\ pc' = [pc EXCEPT ![c] = "done"]
        /\ \A a \in Workers : copy'[a] = copy[a]
        /\ UNCHANGED <<queue, row, creation, job, payload, ret>>
    BY <1>7 DEF UpdateThrows, Abort
  <2> QED BY <2>1
<1>8. ASSUME NEW w \in Workers, NEW j \in Jobs, StartJob(w, j) PROVE LifeInv'
  BY <1>8 DEF StartJob, Take, Move, QueueTypeOK
<1>9. ASSUME NEW w \in Workers,
             Dispatch(w) \/ WorkflowStep(w) \/ Executed(w) \/ ExecutionThrows(w)
      PROVE  LifeInv'
  <2>1. /\ \A a \in Actors : a # w => UNCHANGED <<pc[a], payload[a], ret[a]>>
        /\ pc[w] \in {"dispatch", "execute"}
        /\ pc'[w] \in {"execute", "read", "ack"}
        /\ UNCHANGED <<queue, row, creation, job, copy>>
    BY <1>9 DEF Dispatch, WorkflowStep, Executed, ExecutionThrows
  <2>3. ASSUME NEW v \in Workers
        PROVE  /\ pc'[v] # "done"
               /\ MidAttempt(v)' => row'[job'[v]].status \in {"PROCESSING", "CANCELED"}
               /\ pc'[v] = "save" /\ ret'[v] = "execute" =>
                     /\ copy'[v].status \in {"PROCESSING", "CANCELED"}
                     /\ copy'[v].status = "CANCELED" => row'[job'[v]].status = "CANCELED"
    BY <2>1
  <2>4. ASSUME NEW d \in Clients
        PROVE  /\ ret'[d] = "done"
               /\ pc'[d] \in {"idle", "dequeue", "read", "save", "done"}
               /\ pc'[d] \in {"dequeue", "read", "save"} =>
                     payload'[d] = CancelPayload /\ row'[job'[d]].status # "NO_ROW"
    BY <2>1
  <2> QED BY <2>1, <2>3, <2>4
<1>10. ASSUME NEW w \in Workers, EndJob(w) \/ Crash(w) PROVE LifeInv'
  <2>1. \A j \in Jobs : queue'[j].state = "absent" <=> queue[j].state = "absent"
    BY <1>10 DEF EndJob, Crash, Finish, Retry, EndAttempt, Holds, QueueTypeOK, Entry
  <2>2. /\ \A a \in Actors : a # w => UNCHANGED <<pc[a], payload[a], ret[a], job[a], copy[a]>>
        /\ pc'[w] = "idle"
        /\ UNCHANGED <<row, creation>>
    BY <1>10 DEF EndJob, Crash, BecomeIdle
  <2>3. ASSUME NEW v \in Workers
        PROVE  /\ pc'[v] # "done"
               /\ MidAttempt(v)' => row'[job'[v]].status \in {"PROCESSING", "CANCELED"}
               /\ pc'[v] = "save" /\ ret'[v] = "execute" =>
                     /\ copy'[v].status \in {"PROCESSING", "CANCELED"}
                     /\ copy'[v].status = "CANCELED" => row'[job'[v]].status = "CANCELED"
    BY <2>2
  <2>4. ASSUME NEW d \in Clients
        PROVE  /\ ret'[d] = "done"
               /\ pc'[d] \in {"idle", "dequeue", "read", "save", "done"}
               /\ pc'[d] \in {"dequeue", "read", "save"} =>
                     payload'[d] = CancelPayload /\ row'[job'[d]].status # "NO_ROW"
    BY <2>2
  <2> QED BY <2>1, <2>2, <2>3, <2>4
<1>11. ASSUME NEW c \in Clients, Request(c) PROVE LifeInv'
  <2>1. PICK j \in Jobs : Cancel(c, j)
    BY <1>11 DEF Request, Callback, Patch, Delete, Begin
  <2>2. /\ \A a \in Actors : a # c => UNCHANGED <<pc[a], payload[a], ret[a], job[a]>>
        /\ UNCHANGED <<queue, row, creation, copy>>
        /\ job'[c] = j
        /\ \/ pc'[c] = "done" /\ ret'[c] = ret[c]
           \/ /\ pc'[c] \in {"dequeue", "read"} /\ ret'[c] = "done"
              /\ payload'[c] = CancelPayload /\ Exists(j)
    BY <2>1 DEF Cancel, Begin
  <2>3. ASSUME NEW v \in Workers
        PROVE  /\ pc'[v] # "done"
               /\ MidAttempt(v)' => row'[job'[v]].status \in {"PROCESSING", "CANCELED"}
               /\ pc'[v] = "save" /\ ret'[v] = "execute" =>
                     /\ copy'[v].status \in {"PROCESSING", "CANCELED"}
                     /\ copy'[v].status = "CANCELED" => row'[job'[v]].status = "CANCELED"
    BY <2>2
  <2>4. ASSUME NEW d \in Clients
        PROVE  /\ ret'[d] = "done"
               /\ pc'[d] \in {"idle", "dequeue", "read", "save", "done"}
               /\ pc'[d] \in {"dequeue", "read", "save"} =>
                     payload'[d] = CancelPayload /\ row'[job'[d]].status # "NO_ROW"
    BY <2>2
  <2> QED BY <2>2, <2>3, <2>4
<1>12. ASSUME NEW c \in Clients, Dequeue(c) PROVE LifeInv'
  <2>1. \A j \in Jobs : queue'[j].state = "absent" <=> queue[j].state = "absent"
    <3>1. job[c] \in Jobs /\ Remove(job[c])
      BY <1>12 DEF Dequeue
    <3> QED BY <3>1, RemoveKeepsEntry
  <2>2. /\ pc' = [pc EXCEPT ![c] = "read"] /\ pc[c] = "dequeue"
        /\ UNCHANGED <<row, creation, job, payload, ret, copy>>
    BY <1>12 DEF Dequeue
  <2> QED BY <2>1, <2>2
<1>13. ASSUME NEW j \in Jobs, SaveNewJob(j) PROVE LifeInv'
  <2>1. /\ creation[j] = "none" /\ row[j].status = "NO_ROW" /\ queue[j].state = "absent"
        /\ row' = [row EXCEPT ![j] = NewRow]
        /\ creation' = [creation EXCEPT ![j] = "saved"]
        /\ UNCHANGED <<queue, actorVars>>
    BY <1>13 DEF SaveNewJob
  <2>2. \A w \in Workers : pc[w] # "idle" => job[w] # j /\ job[w] \in Jobs
    BY <2>1, WorkedExists
  <2>3. NewRow.status = "PENDING"
    BY DEF NewRow
  <2>4. \A w \in Workers : pc[w] # "idle" => row'[job[w]] = row[job[w]]
    BY <2>1, <2>2
  <2> QED BY <2>1, <2>3, <2>4 DEF actorVars
<1>14. ASSUME NEW j \in Jobs, QueueNewJob(j) \/ CreateFails(j) \/ QueueStep(j)
       PROVE  LifeInv'
  <2>1. /\ UNCHANGED <<row, actorVars>>
        /\ \A i \in Jobs :
              /\ creation'[i] = "none" <=> creation[i] = "none"
              /\ queue'[i].state = "absent" => queue[i].state = "absent"
              /\ queue[i].state = "absent" /\ queue'[i].state # "absent" =>
                    creation[i] # "none"
    BY <1>14 DEF QueueNewJob, Add, CreateFails, QueueStep, StalledCheck, Stall, BackoffOver,
                 Promote, Move, QueueTypeOK, Entry
  <2> QED BY <2>1 DEF actorVars
<1>15. ASSUME NEW c \in Clients, CreateAsset(c) \/ Announce(c) PROVE FALSE
  BY <1>15 DEF CreateAsset, Announce
<1> QED
  BY <1>1, <1>2, <1>3, <1>4, <1>5, <1>6, <1>7, <1>8, <1>9, <1>10, <1>11, <1>12, <1>13,
     <1>14, <1>15 DEF Next, WorkerStep, ClientStep, Create

(* The four parts of the abstract state.                                   *)
St == [j \in Jobs |-> row[j].status]
Op == {j \in Jobs : \E w \in Workers : WorksOn(w, j)}
Us == [j \in Jobs |-> Attempts(j)]
Ca == {j \in Jobs : \E c \in Clients :
           job[c] = j /\ pc[c] \in {"dequeue", "read", "save"}}

LEMMA StutterMap ==
    ASSUME UNCHANGED <<St, Op, Us, Ca>>
    PROVE  UNCHANGED Lifecycle!vars
BY DEF Lifecycle!vars, St, Op, Us, Ca

(* What does not touch queue and rows, nor where an actor stands, is not   *)
(* seen.                                                                   *)
LEMMA Unseen ==
    ASSUME \A j \in Jobs : row'[j].status = row[j].status,
           \A j \in Jobs : Attempts(j)' = Attempts(j),
           \A w \in Workers : /\ pc'[w] \in {"idle", "done"} <=> pc[w] \in {"idle", "done"}
                              /\ job'[w] = job[w],
           \A c \in Clients : /\ pc'[c] \in {"dequeue", "read", "save"} <=>
                                     pc[c] \in {"dequeue", "read", "save"}
                              /\ pc[c] \in {"dequeue", "read", "save"} => job'[c] = job[c]
    PROVE  UNCHANGED <<St, Op, Us, Ca>>
<1>1. UNCHANGED St /\ UNCHANGED Us
  BY DEF St, Us
<1>2. UNCHANGED Op
  BY DEF Op, WorksOn
<1>3. UNCHANGED Ca
  BY DEF Ca
<1> QED BY <1>1, <1>2, <1>3

(* Every step of the jobs is one of the lifecycle or not seen by it.       *)
LEMMA SimulationStep ==
    ASSUME "lock" \notin Faults, ClientOps \subseteq {"cancel"},
           TypeInv, RunnerInv, PayloadInv, LifeInv, [Next]_vars
    PROVE  [Lifecycle!Next]_(Lifecycle!vars)
<1> USE JobAssumption, QueueAssumption
        DEF TypeInv, TypeOK, Actors, Goto, Call
<1>1. CASE UNCHANGED vars
  BY <1>1, StutterMap DEF vars, St, Op, Us, Ca, WorksOn, Attempts
<1>2. ASSUME NEW a \in Actors, UpdateRead(a) PROVE UNCHANGED Lifecycle!vars
  <2>1. Exists(job[a])
    BY <1>2, WorkedExists DEF UpdateRead, LifeInv
  <2>2. pc[a] = "read" /\ pc' = [pc EXCEPT ![a] = "save"] /\ UNCHANGED <<queue, row, job>>
    BY <1>2, <2>1 DEF UpdateRead
  <2> QED BY <2>2, Unseen, StutterMap DEF Attempts
<1>3. ASSUME NEW w \in Workers, UpdateSave(w)
      PROVE  \/ \E s \in {"PROCESSING", "COMPLETED", "FAILED"} : Lifecycle!Write(job[w], s)
             \/ UNCHANGED Lifecycle!vars
  <2> DEFINE s == row'[job[w]].status
  <2>1. /\ job[w] \in Jobs /\ pc[w] = "save" /\ pc' = [pc EXCEPT ![w] = ret[w]]
        /\ UNCHANGED <<queue, job>>
        /\ \A j \in Jobs : j # job[w] => row'[j] = row[j]
    BY <1>3 DEF UpdateSave
  <2>2. ret[w] \in {"dispatch", "execute", "ack", "throw"}
    BY <2>1 DEF PayloadInv
  <2>3. \/ s \in {"PROCESSING", "COMPLETED", "FAILED"}
        \/ s = "CANCELED" /\ row[job[w]].status = "CANCELED"
    BY <1>3, <2>1 DEF UpdateSave, PayloadInv, LifeInv, Merge, Payload, StartPayload,
                      DonePayload, FailPayload
  <2> HIDE DEF s
  <2>4. UNCHANGED <<Op, Us, Ca>>
    BY <2>1, <2>2 DEF Op, Us, Ca, WorksOn, Attempts
  <2>5. St' = [St EXCEPT ![job[w]] = s]
    BY <2>1 DEF St, s
  <2>6. job[w] \in Op
    BY <2>1 DEF Op, WorksOn
  <2>7. CASE s \in {"PROCESSING", "COMPLETED", "FAILED"}
    BY <2>4, <2>5, <2>6, <2>7 DEF Lifecycle!Write, St, Op, Us, Ca
  <2>8. CASE s = "CANCELED" /\ row[job[w]].status = "CANCELED"
    <3>1. UNCHANGED St
      BY <2>1, <2>5, <2>8 DEF St
    <3> QED BY <2>4, <3>1, StutterMap
  <2> QED BY <2>3, <2>7, <2>8
<1>4. ASSUME NEW c \in Clients, NEW j \in Jobs, j = job[c], UpdateSave(c)
      PROVE  Lifecycle!LandCancel(j)
  <2>0. pc[c] = "save" /\ payload[c].status = "CANCELED" /\ ret[c] = "done"
    BY <1>4 DEF UpdateSave, LifeInv, CancelPayload, Payload
  <2>1. /\ job[c] \in Jobs /\ pc[c] = "save" /\ pc' = [pc EXCEPT ![c] = "done"]
        /\ UNCHANGED <<queue, job>>
        /\ row'[job[c]].status = "CANCELED"
        /\ \A i \in Jobs : i # job[c] => row'[i] = row[i]
    BY <1>4, <2>0 DEF UpdateSave, Merge
  <2>2. UNCHANGED <<Op, Us>>
    BY <2>1 DEF Op, Us, WorksOn, Attempts
  <2>3. St' = [St EXCEPT ![j] = "CANCELED"]
    BY <1>4, <2>1 DEF St
  <2>4. j \in Ca /\ Ca' \in {Ca, Ca \ {j}}
    BY <1>4, <2>1 DEF Ca
  <2> QED BY <2>2, <2>3, <2>4 DEF Lifecycle!LandCancel, St, Op, Us, Ca
<1>5. ASSUME NEW w \in Workers,
             \/ UpdateThrows(w) \/ Dispatch(w) \/ WorkflowStep(w) \/ Executed(w)
             \/ ExecutionThrows(w)
      PROVE  UNCHANGED Lifecycle!vars
  <2>1. /\ pc[w] \notin {"idle", "done"} /\ pc'[w] \notin {"idle", "done"}
        /\ \A a \in Actors : a # w => pc'[a] = pc[a]
        /\ UNCHANGED <<queue, row, job>>
    BY <1>5 DEF UpdateThrows, Dispatch, WorkflowStep, Executed, ExecutionThrows
  <2> QED BY <2>1, Unseen, StutterMap DEF Attempts
<1>6. ASSUME NEW c \in Clients, NEW j \in Jobs, j = job[c], UpdateThrows(c) \/ Abort(c)
      PROVE  Lifecycle!LoseCancel(j) \/ UNCHANGED Lifecycle!vars
  <2>1. /\ job[c] \in Jobs /\ pc[c] \notin {"idle", "done"}
        /\ pc' = [pc EXCEPT ![c] = "done"]
        /\ UNCHANGED <<queue, row, job>>
    BY <1>6 DEF UpdateThrows, Abort
  <2>2. UNCHANGED <<St, Op, Us>>
    BY <2>1 DEF St, Op, Us, WorksOn, Attempts
  <2>3. Ca' \in {Ca, Ca \ {j}}
    BY <1>6, <2>1 DEF Ca
  <2>4. CASE Ca' = Ca
    BY <2>1, <2>2, <2>4, StutterMap
  <2>5. CASE Ca' = Ca \ {j}
    BY <2>1, <2>2, <2>5 DEF Lifecycle!LoseCancel, St, Op, Us, Ca
  <2> QED BY <2>3, <2>4, <2>5
<1>7. ASSUME NEW w \in Workers, NEW j \in Jobs, StartJob(w, j) PROVE Lifecycle!Open(j)
  <2>1. /\ queue[j].state = "waiting" /\ pc[w] = "idle"
        /\ pc' = [pc EXCEPT ![w] = "read"] /\ job' = [job EXCEPT ![w] = j]
        /\ UNCHANGED row
    BY <1>7 DEF StartJob, Take
  <2>2. queue' = [queue EXCEPT ![j].state = "active", ![j].owner = w]
    BY <1>7 DEF StartJob, Take, Move
  <2>3. j \notin Op
    BY <2>1 DEF Op, WorksOn, RunnerInv, Holds
  <2>4. Attempts(j) < MaxAttempts + MaxStalls
    BY <2>1 DEF QueueInv, Attempts, QueueTypeOK, Entry
  <2>5. Us' = [Us EXCEPT ![j] = @ + 1]
    <3>1. Attempts(j)' = Attempts(j) + 1
      BY <2>1, <2>2 DEF Attempts, QueueTypeOK, Entry
    <3>2. \A i \in Jobs : i # j => Attempts(i)' = Attempts(i)
      BY <2>2 DEF Attempts, QueueTypeOK
    <3> QED BY <3>1, <3>2 DEF Us
  <2>6. Op' = Op \cup {j}
    BY <2>1 DEF Op, WorksOn
  <2>7. UNCHANGED <<St, Ca>>
    BY <2>1 DEF St, Ca
  <2>8. Us[j] < MaxAttempts + MaxStalls
    BY <2>4 DEF Us
  <2> QED BY <2>3, <2>5, <2>6, <2>7, <2>8 DEF Lifecycle!Open, St, Op, Us, Ca
<1>8. ASSUME NEW w \in Workers, EndJob(w) \/ Crash(w) PROVE Lifecycle!Close(job[w])
  <2>1. job[w] \in Jobs /\ Holds(w, job[w]) /\ pc[w] \notin {"idle", "done"}
    BY <1>8, WorkedExists DEF EndJob, Crash, LifeInv
  <2>2. /\ pc' = [pc EXCEPT ![w] = "idle"] /\ job' = [job EXCEPT ![w] = NoJob]
        /\ UNCHANGED row
    BY <1>8 DEF EndJob, Crash, BecomeIdle
  <2>3. UNCHANGED Us
    <3>1. CASE Crash(w)
      BY <3>1 DEF Crash, Us, Attempts
    <3>2. CASE EndJob(w)
      <4>1. PICK st \in {"removed", "delayed", "failed"} : EndAttempt(w, job[w], st)
        BY <3>2 DEF EndJob, Finish, Retry
      <4>2. \A j \in Jobs : Attempts(j)' = Attempts(j)
        BY <2>1, <4>1, EndAttemptCount
      <4> QED BY <4>2 DEF Us
    <3> QED BY <1>8, <3>1, <3>2
  <2>4. \A v \in Workers : v # w => job[v] # job[w]
    BY <2>1, OneWorker
  <2>5. job[w] \in Op /\ Op' = Op \ {job[w]}
    BY <2>1, <2>2, <2>4 DEF Op, WorksOn
  <2>6. UNCHANGED <<St, Ca>>
    BY <2>2 DEF St, Ca
  <2> QED BY <2>3, <2>5, <2>6 DEF Lifecycle!Close, St, Op, Us, Ca
<1>9. ASSUME NEW c \in Clients, NEW j \in Jobs, Cancel(c, j)
      PROVE  Lifecycle!AcceptCancel(j) \/ UNCHANGED Lifecycle!vars
  <2>1. /\ pc[c] = "idle" /\ job' = [job EXCEPT ![c] = j] /\ UNCHANGED <<queue, row>>
        /\ \/ pc' = [pc EXCEPT ![c] = "done"]
           \/ /\ row[j].status \in {"PENDING", "PROCESSING"}
              /\ \/ pc' = [pc EXCEPT ![c] = "dequeue"]
                 \/ pc' = [pc EXCEPT ![c] = "read"]
    BY <1>9 DEF Cancel, Begin, LifeInv, Rows, Statuses
  <2>2. UNCHANGED <<St, Op, Us>>
    BY <2>1 DEF St, Op, Us, WorksOn, Attempts
  <2>3. CASE pc' = [pc EXCEPT ![c] = "done"]
    <3>1. UNCHANGED Ca
      BY <2>1, <2>3 DEF Ca
    <3> QED BY <2>2, <3>1, StutterMap
  <2>4. CASE pc' # [pc EXCEPT ![c] = "done"]
    <3>1. St[j] \in {"PENDING", "PROCESSING"}
      BY <2>1, <2>4 DEF St
    <3>2. Ca' = Ca \cup {j}
      BY <2>1, <2>4 DEF Ca
    <3> QED BY <2>2, <3>1, <3>2 DEF Lifecycle!AcceptCancel, St, Op, Us, Ca
  <2> QED BY <2>3, <2>4
<1>10. ASSUME NEW c \in Clients, Dequeue(c) PROVE UNCHANGED Lifecycle!vars
  <2>1. /\ job[c] \in Jobs /\ Remove(job[c]) /\ pc[c] = "dequeue"
        /\ pc' = [pc EXCEPT ![c] = "read"] /\ UNCHANGED <<row, job>>
    BY <1>10 DEF Dequeue
  <2>2. \A j \in Jobs : Attempts(j)' = Attempts(j)
    BY <2>1, QueueCount
  <2> QED BY <2>1, <2>2, Unseen, StutterMap
<1>11. ASSUME NEW j \in Jobs, SaveNewJob(j) PROVE Lifecycle!Submit(j)
  <2>1. /\ row[j].status = "NO_ROW" /\ row' = [row EXCEPT ![j] = NewRow]
        /\ UNCHANGED <<queue, pc, job>>
    BY <1>11 DEF SaveNewJob, LifeInv, Exists, actorVars
  <2>2. St[j] = "NO_ROW" /\ St' = [St EXCEPT ![j] = "PENDING"]
    BY <2>1 DEF St, NewRow
  <2>3. UNCHANGED <<Op, Us, Ca>>
    BY <2>1 DEF Op, Us, Ca, WorksOn, Attempts
  <2> QED BY <2>2, <2>3 DEF Lifecycle!Submit, St, Op, Us, Ca
<1>12. ASSUME NEW j \in Jobs, QueueNewJob(j) \/ CreateFails(j) \/ QueueStep(j)
       PROVE  UNCHANGED Lifecycle!vars
  <2>1. UNCHANGED <<row, pc, job>>
    BY <1>12 DEF QueueNewJob, CreateFails, QueueStep, StalledCheck, BackoffOver, actorVars
  <2>2. UNCHANGED queue \/ Add(j) \/ Stall(j) \/ Promote(j)
    BY <1>12 DEF QueueNewJob, CreateFails, QueueStep, StalledCheck, BackoffOver
  <2>3. \A i \in Jobs : Attempts(i)' = Attempts(i)
    BY <2>2, QueueCount
  <2> QED BY <2>1, <2>3, Unseen, StutterMap
<1>13. ASSUME NEW c \in Clients, CreateAsset(c) \/ Announce(c) PROVE FALSE
  BY <1>13 DEF CreateAsset, Announce, LifeInv
<1>14. ASSUME NEW c \in Clients, Request(c) PROVE \E j \in Jobs : Cancel(c, j)
  BY <1>14 DEF Request, Callback, Patch, Delete, Begin
<1>15. ASSUME NEW w \in Workers, UpdateSave(w) PROVE job[w] \in Jobs
  BY <1>15 DEF UpdateSave
<1>16. ASSUME NEW c \in Clients, pc[c] \notin {"idle", "done"} PROVE job[c] \in Jobs
  BY <1>16
<1>17. ASSUME NEW w \in Workers, EndJob(w) \/ Crash(w) PROVE job[w] \in Jobs
  BY <1>17, WorkedExists DEF EndJob, Crash
<1>18. ASSUME NEW w \in Workers, WorkerStep(w) \/ Crash(w)
       PROVE  Lifecycle!Next \/ UNCHANGED Lifecycle!vars
  <2>1. CASE UpdateSave(w)
    BY <1>3, <1>15, <2>1 DEF Lifecycle!Next
  <2>2. CASE \E j \in Jobs : StartJob(w, j)
    BY <1>7, <2>2 DEF Lifecycle!Next
  <2>3. CASE EndJob(w) \/ Crash(w)
    BY <1>8, <1>17, <2>3 DEF Lifecycle!Next
  <2> QED BY <1>2, <1>5, <1>18, <2>1, <2>2, <2>3 DEF WorkerStep
<1>19. ASSUME NEW c \in Clients, ClientStep(c) \/ Request(c) \/ Abort(c)
       PROVE  Lifecycle!Next \/ UNCHANGED Lifecycle!vars
  <2>1. CASE UpdateSave(c)
    <3>1. PICK j \in Jobs : j = job[c]
      BY <1>16, <2>1 DEF UpdateSave
    <3>2. Lifecycle!LandCancel(j)
      BY <1>4, <2>1, <3>1
    <3> QED BY <3>2 DEF Lifecycle!Next
  <2>2. CASE UpdateThrows(c) \/ Abort(c)
    <3>1. PICK j \in Jobs : j = job[c]
      BY <1>16, <2>2 DEF UpdateThrows, Abort
    <3>2. Lifecycle!LoseCancel(j) \/ UNCHANGED Lifecycle!vars
      BY <1>6, <2>2, <3>1
    <3> QED BY <3>2 DEF Lifecycle!Next
  <2>3. CASE Request(c)
    BY <1>9, <1>14, <2>3 DEF Lifecycle!Next
  <2> QED BY <1>2, <1>10, <1>13, <1>19, <2>1, <2>2, <2>3 DEF ClientStep
<1>20. ASSUME NEW j \in Jobs, QueueStep(j) \/ Create(j)
       PROVE  Lifecycle!Next \/ UNCHANGED Lifecycle!vars
  BY <1>11, <1>12, <1>20 DEF Create, Lifecycle!Next
<1> QED BY <1>1, <1>18, <1>19, <1>20 DEF Next

(* With requests that only cancel, and no lock lost by a live worker, the  *)
(* service, the processor and the queue implement the lifecycle: what the  *)
(* user sees of a job changes only as JobLifecycle says.                   *)
THEOREM LifecycleRefinement ==
    ASSUME "lock" \notin Faults, ClientOps \subseteq {"cancel"}
    PROVE  Spec => ImplementsLifecycle
<1> DEFINE Inv == TypeInv /\ RunnerInv /\ PayloadInv /\ LifeInv
<1>1. Init => Inv
  BY InitTypeInv, JobAssumption
     DEF Init, QueueInit, RunnerInv, PayloadInv, LifeInv, MidAttempt, Exists, NoRow, Actors
<1>2. Init => Lifecycle!Init
  BY JobAssumption
     DEF Init, QueueInit, Lifecycle!Init, NoRow, WorksOn, Attempts, Actors
<1>3. Inv /\ [Next]_vars => Inv'
  BY TypeStep, RunnerStep, PayloadStep, LifeStep
<1>4. Inv /\ [Next]_vars => [Lifecycle!Next]_(Lifecycle!vars)
  BY SimulationStep
<1> QED BY <1>1, <1>2, <1>3, <1>4, PTL DEF Spec, ImplementsLifecycle, Lifecycle!Spec
===============================================================================
