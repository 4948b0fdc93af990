------------------------------ MODULE BillingQuota ------------------------------
(***************************************************************************)
(* The subscriptions of a workspace and the messages it may still store:   *)
(* SubscriptionsService, as ConversationsService.addMessage calls it       *)
(* (check the quota, store the message, count it) while subscriptions are  *)
(* created, canceled and moved to other plans.                             *)
(*                                                                         *)
(* A workspace may have several subscription rows, and findOne takes any   *)
(* of them, whatever its status.  A usage_quota row is one per workspace   *)
(* and period, by its primary key; its period is computed from the         *)
(* subscription, or from the date when there is none.  The dates are left  *)
(* abstract: a period is known by the day it starts.  storageUsedGb is     *)
(* written by nobody and is left out; so are the payment webhooks, which   *)
(* create no subscription.                                                 *)
(***************************************************************************)
EXTENDS Naturals, FiniteSets

CONSTANTS Calls,          \* calls of addMessage, or requests for the quota
          Subs, NoSub,    \* ids of the subscription rows of one workspace
          Plans, NoPlan,  \* ids of the plans
          Free,           \* the plan named Free
          Limit,          \* maxMessages of each plan
          Clients,        \* browsers that change a subscription
          MaxDay,         \* bound on the days that pass
          CalendarStart,  \* the first day of a day's month
          PeriodOf,       \* where a period is said to start, if created that day
          MaxPeriod,      \* bound on both
          MaxChanges      \* bound on the changes of subscriptions

Days == 0 .. MaxDay
Periods == 0 .. MaxPeriod
NoPeriod == MaxPeriod + 1

(* setMonth gives a later day when the month has no such day, never an     *)
(* earlier one.                                                            *)
ASSUME BillingAssumption ==
    /\ IsFiniteSet(Calls)
    /\ Free \in Plans /\ NoPlan \notin Plans
    /\ NoSub \notin Subs
    /\ Limit \in [Plans -> Nat \ {0}]
    /\ MaxDay \in Nat /\ MaxPeriod \in Nat /\ MaxChanges \in Nat
    /\ CalendarStart \in [Days -> Periods] /\ PeriodOf \in [Days -> Periods]
    /\ \A d, e \in Days : d <= e => CalendarStart[d] <= CalendarStart[e]
    /\ \A d \in Days : CalendarStart[d] <= PeriodOf[d]

VARIABLES sub,         \* the subscription table
          rows,        \* the periods that have a usage_quota row
          used,        \* messagesUsed of each
          today,
          pc, phase,   \* where a call is, and in which call of getQuota
          limit,       \* the limit it has read
          period,      \* the period it has computed
          chargedTo,   \* the period its message was counted in
          copy,        \* the change a client makes, and the row it has read
          changes,     \* changes so far
          overlapped,  \* two of them have been in progress at once
          highest,     \* the highest limit a call has read
          peak         \* the most messages that have been checked and uncounted at once

ghostVars == <<highest, peak>>
callVars == <<pc, phase, limit, period, chargedTo, ghostVars>>
changeVars == <<copy, changes, overlapped>>
quotaVars == <<rows, used>>
vars == <<sub, quotaVars, today, callVars, changeVars>>

SubRows == [plan : Plans \cup {NoPlan}, status : {"active", "canceled"}, period : Periods]
NoRow == [plan |-> NoPlan, status |-> "active", period |-> 0]
Exists(r) == sub[r].plan # NoPlan

(* The change a client makes, and its copy of the row.                     *)
Copies == [op : {"none", "cancel", "plan"}, id : Subs \cup {NoSub}, row : SubRows]
NoCopy == [op |-> "none", id |-> NoSub, row |-> NoRow]

InProgress(c) == pc[c] \notin {"new", "end"}

(* The calls of addMessage between the start of the check and the count.   *)
Uncounted == {c \in Calls : InProgress(c) /\ phase[c] # "last"}

TypeOK ==
    /\ sub \in [Subs -> SubRows]
    /\ rows \subseteq Periods
    /\ used \in [Periods -> Nat]
    /\ today \in Days
    /\ pc \in [Calls -> {"new", "period", "find", "create", "store", "increment", "end"}]
    /\ phase \in [Calls -> {"check", "count", "last"}]
    /\ limit \in [Calls -> Nat]
    /\ period \in [Calls -> Periods]
    /\ chargedTo \in [Calls -> Periods \cup {NoPeriod}]
    /\ copy \in [Clients -> Copies]
    /\ changes \in 0 .. MaxChanges
    /\ overlapped \in BOOLEAN
    /\ highest \in Nat /\ peak \in Nat

Init ==
    /\ sub = [r \in Subs |-> NoRow]
    /\ rows = {} /\ used = [p \in Periods |-> 0]
    /\ today = 0
    /\ pc = [c \in Calls |-> "new"]
    /\ phase = [c \in Calls |-> "check"]
    /\ limit = [c \in Calls |-> 0]
    /\ period = [c \in Calls |-> 0]
    /\ chargedTo = [c \in Calls |-> NoPeriod]
    /\ copy = [b \in Clients |-> NoCopy]
    /\ changes = 0 /\ overlapped = FALSE
    /\ highest = 0 /\ peak = 0

Goto(c, place) == pc' = [pc EXCEPT ![c] = place]

(* The call is answered or throws, and what it has read is forgotten.      *)
End(c) ==
    /\ Goto(c, "end")
    /\ phase' = [phase EXCEPT ![c] = "last"]
    /\ limit' = [limit EXCEPT ![c] = 0]
    /\ period' = [period EXCEPT ![c] = 0]

-------------------------------------------------------------------------------
Larger(m, n) == IF m > n THEN m ELSE n

(* checkQuotaLimit reads a subscription with its plan, or takes Free.      *)
ReadPlan(c) ==
    /\ pc[c] = "new"
    /\ Goto(c, "period")
    /\ \E p \in Plans :
           /\ \/ \E r \in Subs : Exists(r) /\ sub[r].plan = p
              \/ (\A r \in Subs : ~ Exists(r)) /\ p = Free
           /\ limit' = [limit EXCEPT ![c] = Limit[p]]
           /\ highest' = Larger(highest, Limit[p])
    /\ peak' = Larger(peak, Cardinality(Uncounted) + 1)
    /\ UNCHANGED <<sub, quotaVars, today, phase, period, chargedTo, changeVars>>

(* A request for the quota alone runs getQuota once.                       *)
ViewQuota(c) ==
    /\ pc[c] = "new"
    /\ Goto(c, "period")
    /\ phase' = [phase EXCEPT ![c] = "last"]
    /\ UNCHANGED <<sub, quotaVars, today, limit, period, chargedTo, ghostVars, changeVars>>

-------------------------------------------------------------------------------
(* getQuota.                                                               *)

ReadPeriod(c) ==
    /\ pc[c] = "period"
    /\ Goto(c, "find")
    /\ \/ \E r \in Subs : Exists(r) /\ period' = [period EXCEPT ![c] = sub[r].period]
       \/ /\ \A r \in Subs : ~ Exists(r)
          /\ period' = [period EXCEPT ![c] = CalendarStart[today]]
    /\ UNCHANGED <<sub, quotaVars, today, phase, limit, chargedTo, ghostVars, changeVars>>

(* Mutant: the last message is one too many.                               *)
WithinAtLimit(c, u) == u <= limit[c]

Within(c, u) == u < limit[c]

(* A call goes on with a quota row in which u messages are counted: the    *)
(* check of addMessage refuses the message or lets it be stored.           *)
Return(c, u) ==
    \/ phase[c] = "last" /\ End(c)
    \/ phase[c] = "check" /\ ~ Within(c, u) /\ End(c)
    \/ /\ phase[c] = "check" /\ Within(c, u) /\ Goto(c, "store")
       /\ limit' = [limit EXCEPT ![c] = 0]
       /\ period' = [period EXCEPT ![c] = 0]
       /\ UNCHANGED phase
    \/ phase[c] = "count" /\ Goto(c, "increment") /\ UNCHANGED <<phase, limit, period>>

FindQuota(c) ==
    /\ pc[c] = "find"
    /\ \/ period[c] \in rows /\ Return(c, used[period[c]])
       \/ /\ period[c] \notin rows /\ Goto(c, "create")
          /\ UNCHANGED <<phase, limit, period>>
    /\ UNCHANGED <<sub, quotaVars, today, chargedTo, ghostVars, changeVars>>

(* Mutant: the row that another call has created is saved over.            *)
CreateQuotaOver(c) ==
    /\ pc[c] = "create"
    /\ rows' = rows \cup {period[c]}
    /\ used' = [used EXCEPT ![period[c]] = 0]
    /\ Return(c, 0)
    /\ UNCHANGED <<sub, today, chargedTo, ghostVars, changeVars>>

(* The primary key refuses a second row, and the one there is is read.     *)
CreateQuota(c) ==
    /\ pc[c] = "create"
    /\ \/ /\ period[c] \notin rows
          /\ rows' = rows \cup {period[c]}
          /\ used' = [used EXCEPT ![period[c]] = 0]
          /\ Return(c, 0)
       \/ /\ period[c] \in rows /\ Goto(c, "find")
          /\ UNCHANGED <<quotaVars, phase, limit, period>>
    /\ UNCHANGED <<sub, today, chargedTo, ghostVars, changeVars>>

-------------------------------------------------------------------------------
(* addMessage.                                                             *)

(* The message and the conversation are saved; incrementMessageUsage       *)
(* begins with getQuota.                                                   *)
StoreMessage(c) ==
    /\ pc[c] = "store"
    /\ Goto(c, "period")
    /\ phase' = [phase EXCEPT ![c] = "count"]
    /\ UNCHANGED <<sub, quotaVars, today, limit, period, chargedTo, ghostVars, changeVars>>

(* Mutant: the count goes the other way.                                   *)
IncrementDown(c) ==
    /\ pc[c] = "increment"
    /\ used' = IF period[c] \in rows THEN [used EXCEPT ![period[c]] = @ - 1] ELSE used
    /\ chargedTo' = [chargedTo EXCEPT ![c] = period[c]]
    /\ Goto(c, "period")
    /\ phase' = [phase EXCEPT ![c] = "last"]
    /\ period' = [period EXCEPT ![c] = 0]
    /\ UNCHANGED <<sub, rows, today, limit, ghostVars, changeVars>>

(* The increment is one statement of the database; it changes nothing      *)
(* where there is no row.  Its caller asks for the quota once more.        *)
Increment(c) ==
    /\ pc[c] = "increment"
    /\ used' = IF period[c] \in rows THEN [used EXCEPT ![period[c]] = @ + 1] ELSE used
    /\ chargedTo' = [chargedTo EXCEPT ![c] = period[c]]
    /\ Goto(c, "period")
    /\ phase' = [phase EXCEPT ![c] = "last"]
    /\ period' = [period EXCEPT ![c] = 0]
    /\ UNCHANGED <<sub, rows, today, limit, ghostVars, changeVars>>

(* A query fails, or the process dies: a message that has been stored may  *)
(* stay uncounted.                                                         *)
Throw(c) ==
    /\ InProgress(c)
    /\ End(c)
    /\ UNCHANGED <<sub, quotaVars, today, chargedTo, ghostVars, changeVars>>

-------------------------------------------------------------------------------
(* createSubscription looks for no other row.                              *)
CreateSubscription(r, p) ==
    /\ ~ Exists(r) /\ changes < MaxChanges /\ changes' = changes + 1
    /\ sub' = [sub EXCEPT ![r] = [plan |-> p, status |-> "active", period |-> PeriodOf[today]]]
    /\ UNCHANGED <<quotaVars, today, callVars, copy, overlapped>>

Release(b) == copy' = [copy EXCEPT ![b] = NoCopy]

(* cancelSubscription and changePlan read a row ...                        *)
ReadSubscription(b, r, o) ==
    /\ copy[b].op = "none" /\ Exists(r) /\ changes < MaxChanges /\ changes' = changes + 1
    /\ copy' = [copy EXCEPT ![b] = [op |-> o, id |-> r, row |-> sub[r]]]
    /\ overlapped' = (overlapped \/ \E a \in Clients \ {b} : copy[a].op # "none")
    /\ UNCHANGED <<sub, quotaVars, today, callVars>>

(* Mutant: a new plan makes the subscription active.                       *)
SaveSubscriptionActive(b) ==
    /\ \/ /\ copy[b].op = "cancel"
          /\ sub' = [sub EXCEPT ![copy[b].id] = [copy[b].row EXCEPT !.status = "canceled"]]
       \/ /\ copy[b].op = "plan"
          /\ \E p \in Plans : sub' = [sub EXCEPT ![copy[b].id] =
                 [copy[b].row EXCEPT !.plan = p, !.status = "active"]]
    /\ Release(b)
    /\ UNCHANGED <<quotaVars, today, callVars, changes, overlapped>>

(* ... and save it whole.  The plan relation is loaded with the row, and   *)
(* TypeORM may keep its id instead of the new planId.                      *)
SaveSubscription(b) ==
    /\ \/ /\ copy[b].op = "cancel"
          /\ sub' = [sub EXCEPT ![copy[b].id] = [copy[b].row EXCEPT !.status = "canceled"]]
       \/ /\ copy[b].op = "plan"
          /\ \E p \in Plans : sub' = [sub EXCEPT ![copy[b].id] = [copy[b].row EXCEPT !.plan = p]]
    /\ Release(b)
    /\ UNCHANGED <<quotaVars, today, callVars, changes, overlapped>>

(* The change fails before its save: no such plan, or a database error.    *)
ChangeThrows(b) ==
    /\ copy[b].op # "none"
    /\ Release(b)
    /\ UNCHANGED <<sub, quotaVars, today, callVars, changes, overlapped>>

Tomorrow ==
    /\ today < MaxDay /\ today' = today + 1
    /\ UNCHANGED <<sub, quotaVars, callVars, changeVars>>

Next ==
    \/ \E c \in Calls :
           \/ ReadPlan(c) \/ ViewQuota(c) \/ ReadPeriod(c) \/ FindQuota(c) \/ CreateQuota(c)
           \/ StoreMessage(c) \/ Increment(c) \/ Throw(c)
    \/ \E r \in Subs, p \in Plans : CreateSubscription(r, p)
    \/ \E b \in Clients :
           \/ \E r \in Subs, o \in {"cancel", "plan"} : ReadSubscription(b, r, o)
           \/ SaveSubscription(b) \/ ChangeThrows(b)
    \/ Tomorrow

Spec == Init /\ [][Next]_vars

-------------------------------------------------------------------------------
(* Properties.                                                             *)

(* However many calls create the quota row of a period, read it and        *)
(* increment it at once, and whatever happens to the subscriptions in      *)
(* between, each message that was counted is counted once, in one period:  *)
(* the row of a period counts exactly the messages charged to it.          *)
UsageIsExact ==
    \A p \in Periods : used[p] = Cardinality({c \in Calls : chargedTo[c] = p})

(* The period calls are charged to now, if there is at most one row.       *)
SingleSub == \A r, s \in Subs : Exists(r) /\ Exists(s) => r = s
IsCurrent(p) == \/ \E r \in Subs : Exists(r) /\ sub[r].period = p
                \/ (\A r \in Subs : ~ Exists(r)) /\ p = CalendarStart[today]

(* The quota is checked and counted by separate calls, so it is overrun:   *)
(* but never by as many messages as there were between check and count at  *)
(* once, even if the first subscription, another month or another plan     *)
(* comes in between.  (With several subscription rows the check may look   *)
(* at one period and the count at another, and nothing bounds it.)         *)
OvershootBounded ==
    SingleSub =>
        \A p \in Periods :
            IsCurrent(p) /\ used[p] > 0 => used[p] < highest + peak

(* A canceled subscription stays canceled when its plan is changed or it   *)
(* is canceled again, as long as changes are not made at once: an old copy *)
(* saved whole never makes it active.                                      *)
CancelLasts ==
    [][\A r \in Subs : ~ overlapped /\ sub[r].status = "canceled"
                           => sub'[r].status = "canceled"]_vars
===============================================================================
