---------------------------- MODULE JobQueueProofs ----------------------------
(* What every user of JobQueue needs to know of its steps.                 *)
EXTENDS JobQueue, TLAPS

(* An entry that may still be executed has attempts left, and one that is  *)
(* active has not stalled too often.                                       *)
QueueInv ==
    \A j \in Jobs :
        /\ queue[j].state \in {"absent", "waiting", "active", "delayed"} =>
              queue[j].tries < MaxAttempts /\ queue[j].stalls =< MaxStalls
        /\ queue[j].state = "active" => queue[j].owner \in Workers

LEMMA QueueInitTypeInv == QueueInit => QueueTypeOK /\ QueueInv
BY QueueAssumption DEF QueueInit, QueueTypeOK, QueueInv, Entry, EntryStates

(* An entry that waits to be executed, or is dropped, is given up by its   *)
(* owner.                                                                  *)
LEMMA MoveTypeInv ==
    ASSUME QueueTypeOK, QueueInv, NEW j \in Jobs,
           \/ queue[j].state \in {"absent", "delayed"} /\ Move(j, "waiting", NoWorker)
           \/ Move(j, "removed", NoWorker)
    PROVE  QueueTypeOK' /\ QueueInv'
BY QueueAssumption DEF Move, QueueTypeOK, Entry, EntryStates, QueueInv

LEMMA AddRemoveTypeInv ==
    ASSUME QueueTypeOK, QueueInv, NEW j \in Jobs, Add(j) \/ Remove(j)
    PROVE  QueueTypeOK' /\ QueueInv'
<1>1. CASE UNCHANGED queue
  BY <1>1 DEF QueueTypeOK, QueueInv
<1> QED BY <1>1, MoveTypeInv DEF Add, Remove

LEMMA TakeTypeInv ==
    ASSUME QueueTypeOK, QueueInv, NEW j \in Jobs, NEW w \in Workers, Take(w, j)
    PROVE  QueueTypeOK' /\ QueueInv'
BY QueueAssumption DEF Take, Move, QueueTypeOK, Entry, EntryStates, QueueInv

LEMMA EndTypeInv ==
    ASSUME QueueTypeOK, QueueInv, NEW j \in Jobs, NEW w \in Workers,
           Finish(w, j) \/ Retry(w, j)
    PROVE  QueueTypeOK' /\ QueueInv'
BY QueueAssumption
   DEF Finish, Retry, EndAttempt, Holds, QueueTypeOK, Entry, EntryStates, QueueInv

LEMMA StallTypeInv ==
    ASSUME QueueTypeOK, QueueInv, NEW j \in Jobs, Stall(j)
    PROVE  QueueTypeOK' /\ QueueInv'
BY QueueAssumption DEF Stall, QueueTypeOK, Entry, EntryStates, QueueInv

(* The end of an attempt, a removal and a step of the queue leave the      *)
(* number of attempts as it was.                                           *)
LEMMA EndAttemptCount ==
    ASSUME QueueTypeOK, NEW i \in Jobs, NEW w \in Workers, Holds(w, i),
           NEW st \in {"removed", "delayed", "failed"}, EndAttempt(w, i, st)
    PROVE  \A j \in Jobs : Attempts(j)' = Attempts(j)
<1>1. queue' = [queue EXCEPT ![i].state = st, ![i].owner = NoWorker, ![i].tries = @ + 1]
  BY DEF EndAttempt
<1>2. /\ queue[i].state = "active" /\ queue'[i].state # "active"
      /\ queue'[i].tries = queue[i].tries + 1
      /\ queue'[i].stalls = queue[i].stalls
      /\ queue[i].tries \in Int /\ queue[i].stalls \in Int
  BY <1>1, QueueAssumption DEF Holds, QueueTypeOK, Entry
<1>3. \A j \in Jobs \ {i} : queue'[j] = queue[j]
  BY <1>1 DEF QueueTypeOK
<1> QED BY <1>2, <1>3 DEF Attempts

LEMMA QueueCount ==
    ASSUME QueueTypeOK, NEW i \in Jobs,
           UNCHANGED queue \/ Add(i) \/ Remove(i) \/ Promote(i) \/ Stall(i)
    PROVE  \A j \in Jobs : Attempts(j)' = Attempts(j)
<1>1. CASE UNCHANGED queue
  BY <1>1 DEF Attempts
<1>2. CASE \E st \in EntryStates \ {"active"} :
              queue[i].state # "active" /\ Move(i, st, NoWorker)
  <2>1. /\ queue'[i].state # "active" /\ queue[i].state # "active"
        /\ queue'[i].tries = queue[i].tries /\ queue'[i].stalls = queue[i].stalls
    BY <1>2 DEF Move, QueueTypeOK, Entry
  <2>2. \A j \in Jobs \ {i} : queue'[j] = queue[j]
    BY <1>2 DEF Move, QueueTypeOK
  <2> QED BY <2>1, <2>2 DEF Attempts
<1>3. CASE Stall(i)
  <2>1. /\ queue[i].state = "active" /\ queue'[i].state # "active"
        /\ queue'[i].tries = queue[i].tries
        /\ queue'[i].stalls = queue[i].stalls + 1
        /\ queue[i].tries \in Int /\ queue[i].stalls \in Int
    BY <1>3, QueueAssumption DEF Stall, QueueTypeOK, Entry
  <2>2. \A j \in Jobs \ {i} : queue'[j] = queue[j]
    BY <1>3 DEF Stall, QueueTypeOK
  <2> QED BY <2>1, <2>2 DEF Attempts
<1>4. CASE Add(i) \/ Remove(i) \/ Promote(i)
  BY <1>1, <1>2, <1>4 DEF Add, Remove, Promote, EntryStates
<1> QED BY <1>1, <1>3, <1>4

(* An entry that is taken has attempts left in its budget.                 *)
LEMMA TakeCount ==
    ASSUME QueueTypeOK, QueueInv, NEW i \in Jobs, NEW w \in Workers, Take(w, i)
    PROVE  /\ Attempts(i) < MaxAttempts + MaxStalls
           /\ Attempts(i)' = Attempts(i) + 1
           /\ \A j \in Jobs \ {i} : Attempts(j)' = Attempts(j)
<1>1. /\ queue[i].state = "waiting" /\ queue'[i].state = "active"
      /\ queue'[i].tries = queue[i].tries /\ queue'[i].stalls = queue[i].stalls
      /\ queue[i].tries \in Int /\ queue[i].stalls \in Int
      /\ queue[i].tries < MaxAttempts /\ queue[i].stalls =< MaxStalls
  BY QueueAssumption DEF Take, Move, QueueTypeOK, Entry, QueueInv
<1>2. \A j \in Jobs \ {i} : queue'[j] = queue[j]
  BY DEF Take, Move, QueueTypeOK
<1> QED BY <1>1, <1>2, QueueAssumption DEF Attempts
===============================================================================
