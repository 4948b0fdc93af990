----------------------------- MODULE DocumentLife -----------------------------
(***************************************************************************)
(* What the status of a knowledge base document says, and who may write it *)
(* when: without texts, chunks, copies of rows, the map of jobs, or the    *)
(* entries of the queue.                                                   *)
(*                                                                         *)
(*  - a request is accepted while the process is up and has cleaned up.    *)
(*    What an edit, a rename or a removal is going to write is fixed when  *)
(*    it is accepted, and lands later on whatever the status is by then;   *)
(*  - a pass writes PROCESSING first, then one of COMPLETED, FAILED and    *)
(*    CANCELLED, and no more.  It may give up and write nothing;           *)
(*  - a job that has not been offered gets no pass, and no job gets more   *)
(*    passes than its budget;                                              *)
(*  - a process dies with all its passes and requests, and starts by       *)
(*    marking FAILED what it finds in PROCESSING.                          *)
(***************************************************************************)
EXTENDS Integers

CONSTANTS Docs, Requests, Jobs, Op, DocOf, Slots, NoJob, Budget

VARIABLES status,     \* of each document
          request,    \* how far each request is
          write,      \* what it is going to write
          offered,    \* jobs that may be executed
          used,       \* passes of each job
          pass,       \* how far the pass of a slot is
          task,       \* the job of a slot
          server,
          cleaning    \* documents the start-up has found in PROCESSING

requestVars == <<request, write, offered>>
passVars == <<used, pass, task>>
vars == <<status, requestVars, passVars, server, cleaning>>

Init ==
    /\ status = [d \in Docs |-> "none"]
    /\ request = [c \in Requests |-> "new"]
    /\ write = [c \in Requests |-> "none"]
    /\ offered = {}
    /\ used = [j \in Jobs |-> 0]
    /\ pass = [w \in Slots |-> "none"]
    /\ task = [w \in Slots |-> NoJob]
    /\ server = "up"
    /\ cleaning = {}

Put(d, s) == status' = [status EXCEPT ![d] = s]
Step(c, phase) == request' = [request EXCEPT ![c] = phase]
Phase(w, phase) == pass' = [pass EXCEPT ![w] = phase]

-------------------------------------------------------------------------------
(* Requests.                                                               *)

Open(c) == server = "up" /\ cleaning = {} /\ request[c] = "new"

Create(c) ==
    /\ Open(c) /\ Op[c] = "create" /\ status[DocOf[c]] = "none"
    /\ Put(DocOf[c], "pending")
    /\ Step(c, "written")
    /\ UNCHANGED <<write, offered, passVars, server, cleaning>>

Accept(c, s) ==
    /\ Open(c) /\ status[DocOf[c]] # "none"
    /\ \/ Op[c] = "edit" /\ s = "pending"
       \/ Op[c] = "rename" /\ s = status[DocOf[c]]
       \/ Op[c] = "remove" /\ s = "none"
    /\ write' = [write EXCEPT ![c] = s]
    /\ Step(c, "accepted")
    /\ UNCHANGED <<status, offered, passVars, server, cleaning>>

Land(c) ==
    /\ request[c] = "accepted"
    /\ Put(DocOf[c], write[c])
    /\ write' = [write EXCEPT ![c] = "none"]
    /\ Step(c, IF Op[c] = "edit" THEN "written" ELSE "over")
    /\ UNCHANGED <<offered, passVars, server, cleaning>>

Offer(c) ==
    /\ request[c] = "written"
    /\ offered' = offered \cup {c}
    /\ Step(c, "over")
    /\ UNCHANGED <<status, write, passVars, server, cleaning>>

Drop(c) ==
    /\ request[c] # "over"
    /\ write' = [write EXCEPT ![c] = "none"]
    /\ Step(c, "over")
    /\ UNCHANGED <<status, offered, passVars, server, cleaning>>

-------------------------------------------------------------------------------
(* Passes.                                                                 *)

passFrame == <<requestVars, used, task, server, cleaning>>

Begin(w, j) ==
    /\ server # "down" /\ pass[w] = "none"
    /\ j \in offered /\ used[j] < Budget
    /\ Phase(w, "begun")
    /\ task' = [task EXCEPT ![w] = j]
    /\ used' = [used EXCEPT ![j] = @ + 1]
    /\ UNCHANGED <<status, requestVars, server, cleaning>>

Mark(w) ==
    /\ pass[w] \in {"begun", "working"}
    /\ Put(DocOf[task[w]], "processing")
    /\ \E p \in {"working", "failing", "cancelling"} : Phase(w, p)
    /\ UNCHANGED passFrame

Turn(w) ==
    /\ \/ pass[w] \in {"begun", "working"} /\ Phase(w, "failing")
       \/ pass[w] = "working" /\ Phase(w, "cancelling")
    /\ UNCHANGED <<status, passFrame>>

Record(w) ==
    /\ \/ pass[w] = "working" /\ Put(DocOf[task[w]], "completed")
       \/ pass[w] = "failing" /\ Put(DocOf[task[w]], "failed")
       \/ pass[w] = "cancelling" /\ Put(DocOf[task[w]], "cancelled")
    /\ Phase(w, "over")
    /\ UNCHANGED passFrame

GiveUp(w) ==
    /\ pass[w] \in {"failing", "cancelling"}
    /\ Phase(w, "over")
    /\ UNCHANGED <<status, passFrame>>

End(w) ==
    /\ pass[w] = "over"
    /\ Phase(w, "none")
    /\ task' = [task EXCEPT ![w] = NoJob]
    /\ UNCHANGED <<status, requestVars, used, server, cleaning>>

-------------------------------------------------------------------------------
(* The process.                                                            *)

Die ==
    /\ server' = "down" /\ cleaning' = {}
    /\ pass' = [w \in Slots |-> "none"] /\ task' = [w \in Slots |-> NoJob]
    /\ request' = [c \in Requests |-> IF request[c] = "new" THEN "new" ELSE "over"]
    /\ write' = [c \in Requests |-> "none"]
    /\ UNCHANGED <<status, offered, used>>

Restart ==
    /\ server = "down" /\ server' = "starting"
    /\ UNCHANGED <<status, requestVars, passVars, cleaning>>

LookBack ==
    /\ server = "starting" /\ server' = "up"
    /\ cleaning' = {d \in Docs : status[d] = "processing"}
    /\ UNCHANGED <<status, requestVars, passVars>>

CleanUp(d) ==
    /\ d \in cleaning
    /\ Put(d, "failed")
    /\ cleaning' = cleaning \ {d}
    /\ UNCHANGED <<requestVars, passVars, server>>

-------------------------------------------------------------------------------
Statuses == {"none", "pending", "processing", "completed", "failed", "cancelled"}

Next ==
    \/ \E c \in Requests :
          \/ Create(c) \/ Land(c) \/ Offer(c) \/ Drop(c)
          \/ \E s \in Statuses : Accept(c, s)
    \/ \E w \in Slots :
          \/ \E j \in Jobs : Begin(w, j)
          \/ Mark(w) \/ Turn(w) \/ Record(w) \/ GiveUp(w) \/ End(w)
    \/ Die \/ Restart \/ LookBack
    \/ \E d \in Docs : CleanUp(d)

Spec == Init /\ [][Next]_vars
===============================================================================
