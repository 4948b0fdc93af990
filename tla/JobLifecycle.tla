---------------------------- MODULE JobLifecycle ----------------------------
(***************************************************************************)
(* What a creation job promises its user, without queue, workers, database *)
(* calls or copies of rows: a status that only an open attempt or an       *)
(* accepted cancel changes, and a bounded number of attempts.              *)
(*                                                                         *)
(*  - COMPLETED, FAILED and PROCESSING are written only while an attempt   *)
(*    is open; once it is closed they change only by another attempt or by *)
(*    a cancel, and PENDING never comes back;                              *)
(*  - a cancel is accepted only while the status is not final.  It lands   *)
(*    later, possibly on a job that has finished by then, and an attempt   *)
(*    that is open may overwrite it: cancelling is advisory.               *)
(***************************************************************************)
EXTENDS Integers

CONSTANTS Jobs, Budget

VARIABLES status, open, used, canceling

vars == <<status, open, used, canceling>>

Init ==
    /\ status = [j \in Jobs |-> "NO_ROW"]
    /\ open = {}
    /\ used = [j \in Jobs |-> 0]
    /\ canceling = {}

Submit(j) ==
    /\ status[j] = "NO_ROW"
    /\ status' = [status EXCEPT ![j] = "PENDING"]
    /\ UNCHANGED <<open, used, canceling>>

Open(j) ==
    /\ j \notin open
    /\ used[j] < Budget
    /\ open' = open \cup {j}
    /\ used' = [used EXCEPT ![j] = @ + 1]
    /\ UNCHANGED <<status, canceling>>

Write(j, s) ==
    /\ j \in open
    /\ status' = [status EXCEPT ![j] = s]
    /\ UNCHANGED <<open, used, canceling>>

Close(j) ==
    /\ j \in open
    /\ open' = open \ {j}
    /\ UNCHANGED <<status, used, canceling>>

AcceptCancel(j) ==
    /\ status[j] \in {"PENDING", "PROCESSING"}
    /\ canceling' = canceling \cup {j}
    /\ UNCHANGED <<status, open, used>>

(* Another cancel of the job may still be on its way.                      *)
LandCancel(j) ==
    /\ j \in canceling
    /\ status' = [status EXCEPT ![j] = "CANCELED"]
    /\ canceling' \in {canceling, canceling \ {j}}
    /\ UNCHANGED <<open, used>>

LoseCancel(j) ==
    /\ canceling' = canceling \ {j}
    /\ UNCHANGED <<status, open, used>>

Next ==
    \E j \in Jobs :
        \/ Submit(j) \/ Open(j) \/ Close(j)
        \/ \E s \in {"PROCESSING", "COMPLETED", "FAILED"} : Write(j, s)
        \/ AcceptCancel(j) \/ LandCancel(j) \/ LoseCancel(j)

Spec == Init /\ [][Next]_vars
===============================================================================
