------------------------------- MODULE JobQueue -------------------------------
(***************************************************************************)
(* A BullMQ queue as a worker that @Processor creates drives it: that of   *)
(* creation jobs, as execution-queue.service.ts configures it (attempts,   *)
(* exponential backoff, removeOnComplete, removeOnFail), and kb-processing,*)
(* whose addJob configures one attempt.  An operator is one step of the    *)
(* queue; the module of a component joins it with the step of the service  *)
(* or of the processor that causes it.                                     *)
(*                                                                         *)
(* The order of the waiting list, priorities and the length of the backoff *)
(* are left out: any free slot of a worker may take any waiting entry.     *)
(***************************************************************************)
EXTENDS Integers, FiniteSets

CONSTANTS Jobs,         \* jobs; the queue uses their id as its jobId
          Workers,      \* slots of the workers, over all the processes
          NoWorker,     \* holds the lock of an entry that is not active
          MaxAttempts,  \* "attempts" (3 for creation jobs, 1 by default)
          MaxStalls     \* maxStalledCount of a BullMQ worker (1 by default)

ASSUME QueueAssumption ==
    /\ IsFiniteSet(Workers) /\ NoWorker \notin Workers
    /\ MaxAttempts \in Nat \ {0}
    /\ MaxStalls \in Nat

VARIABLE queue          \* the entry of each job

(* "removed": completed, or taken out by a cancel; Redis keeps nothing of  *)
(* it, and tries and stalls are then only history.                         *)
EntryStates == {"absent", "waiting", "active", "delayed", "failed", "removed"}

Entry == [state : EntryStates, owner : Workers \cup {NoWorker},
          tries : 0 .. MaxAttempts, stalls : 0 .. MaxStalls + 1]

QueueTypeOK == queue \in [Jobs -> Entry]

QueueInit ==
    queue = [j \in Jobs |-> [state |-> "absent", owner |-> NoWorker,
                             tries |-> 0, stalls |-> 0]]

Move(j, state, owner) ==
    queue' = [queue EXCEPT ![j].state = state, ![j].owner = owner]

Holds(w, j) == queue[j].state = "active" /\ queue[j].owner = w

(* queue.add: an id that is already there is ignored.                      *)
Add(j) ==
    IF queue[j].state = "absent" THEN Move(j, "waiting", NoWorker)
                                 ELSE UNCHANGED queue

(* Mutant: removing by force, whoever holds the lock.                      *)
RemoveByForce(j) == Move(j, "removed", NoWorker)

(* job.remove: refused while a worker holds the lock, and                  *)
(* removeCreationJob swallows the refusal.                                 *)
Remove(j) ==
    IF queue[j].state \in {"waiting", "delayed", "failed"}
      THEN Move(j, "removed", NoWorker)
      ELSE UNCHANGED queue

Take(w, j) == queue[j].state = "waiting" /\ Move(j, "active", w)

(* An attempt is over and the entry goes to the given state.  Without the  *)
(* lock the worker cannot move the entry, and nothing changes.             *)
EndAttempt(w, j, state) ==
    IF Holds(w, j)
      THEN queue' = [queue EXCEPT ![j].state = state, ![j].owner = NoWorker,
                                  ![j].tries = @ + 1]
      ELSE UNCHANGED queue

(* Mutant: an off-by-one on the number of attempts.                        *)
RetryOnceMore(w, j) ==
    EndAttempt(w, j, IF queue[j].tries =< MaxAttempts THEN "delayed" ELSE "failed")

(* The processor returned, or it threw.                                    *)
Finish(w, j) == EndAttempt(w, j, "removed")
Retry(w, j) ==
    EndAttempt(w, j, IF queue[j].tries + 1 < MaxAttempts THEN "delayed"
                                                         ELSE "failed")

(* The backoff of a delayed entry is over.                                 *)
Promote(j) == queue[j].state = "delayed" /\ Move(j, "waiting", NoWorker)

(* The stalled check found the lock of an active entry expired.            *)
Stall(j) ==
    /\ queue[j].state = "active"
    /\ queue' = [queue EXCEPT
                    ![j].stalls = @ + 1,
                    ![j].owner = NoWorker,
                    ![j].state = IF queue[j].stalls < MaxStalls THEN "waiting"
                                                                ELSE "failed"]

(* The times an entry has been taken, one way or another for good: in its  *)
(* tries, in its stalls, or in the attempt that is under way.              *)
Attempts(j) == queue[j].tries + queue[j].stalls
                 + (IF queue[j].state = "active" THEN 1 ELSE 0)
===============================================================================
