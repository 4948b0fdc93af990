-------------------------- MODULE WidgetPublication --------------------------
(***************************************************************************)
(* What the widget versions of a bot promise administrators who wait for   *)
(* each other, without requests, copies of rows or two saves for one       *)
(* switch.                                                                 *)
(*                                                                         *)
(*  - a publication or a rollback is one step: the old version is live     *)
(*    until the new one is.  A failure half-way leaves none live, never    *)
(*    two and never another one;                                           *)
(*  - a version that has been published keeps its config, and stays        *)
(*    published unless it is archived, which the live one cannot be.  Only *)
(*    drafts are edited and removed;                                       *)
(*  - visitors are shown what has been published, with that config,        *)
(*    although perhaps no longer the live version.                         *)
(***************************************************************************)
CONSTANTS Versions, Configs, NoConfig

VARIABLES live, status, config, shown

vars == <<live, status, config, shown>>

Init ==
    /\ live = {}
    /\ status = [v \in Versions |-> "none"]
    /\ config = [v \in Versions |-> NoConfig]
    /\ shown = {}

Draft(v, k) ==
    /\ status[v] = "none"
    /\ status' = [status EXCEPT ![v] = "draft"]
    /\ config' = [config EXCEPT ![v] = k]
    /\ UNCHANGED <<live, shown>>

Edit(v, k) ==
    /\ status[v] = "draft"
    /\ config' = [config EXCEPT ![v] = k]
    /\ UNCHANGED <<live, status, shown>>

Remove(v) ==
    /\ status[v] = "draft"
    /\ status' = [status EXCEPT ![v] = "gone"]
    /\ config' = [config EXCEPT ![v] = NoConfig]
    /\ UNCHANGED <<live, shown>>

Publish(v) ==
    /\ status[v] \in {"draft", "published", "archived"} /\ v \notin live
    /\ status' = [status EXCEPT ![v] = "published"]
    /\ live' = {v}
    /\ UNCHANGED <<config, shown>>

Archive(v) ==
    /\ status[v] \in {"draft", "published"} /\ v \notin live
    /\ status' = [status EXCEPT ![v] = "archived"]
    /\ UNCHANGED <<live, config, shown>>

Lapse ==
    /\ live' = {}
    /\ UNCHANGED <<status, config, shown>>

Show(v) ==
    /\ status[v] \in {"published", "archived"}
    /\ shown' = {<<v, config[v]>>}
    /\ UNCHANGED <<live, status, config>>

Forget ==
    /\ shown' = {}
    /\ UNCHANGED <<live, status, config>>

Next ==
    \/ \E v \in Versions :
          \/ \E k \in Configs : Draft(v, k) \/ Edit(v, k)
          \/ Remove(v) \/ Publish(v) \/ Archive(v) \/ Show(v)
    \/ Lapse \/ Forget

Spec == Init /\ [][Next]_vars
===============================================================================
