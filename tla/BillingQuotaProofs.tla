--------------------------- MODULE BillingQuotaProofs ---------------------------
(***************************************************************************)
(* Proofs about BillingQuota: types, the exact count of every period, the  *)
(* bound on the overrun, and that a canceled subscription stays so.        *)
(***************************************************************************)
EXTENDS BillingQuota, FiniteSetTheorems, TLAPS

(* What the place of a call says of the call.                              *)
CallInv ==
    \A c \in Calls :
        /\ pc[c] \in {"new", "store"} => phase[c] = "check"
        /\ pc[c] = "increment" => phase[c] = "count" /\ period[c] \in rows
        /\ pc[c] = "end" => phase[c] = "last"
        /\ phase[c] # "last" => chargedTo[c] = NoPeriod

(* A period without a row has counted nothing.                             *)
Charged(p) == {c \in Calls : chargedTo[c] = p}
CountInv ==
    /\ UsageIsExact
    /\ \A p \in Periods : p \notin rows => used[p] = 0

-------------------------------------------------------------------------------
(* Types.                                                                  *)

LEMMA RowType ==
    /\ NoRow \in SubRows /\ NoCopy \in Copies
    /\ NoPeriod \in Nat /\ NoPeriod \notin Periods /\ Periods \subseteq Nat /\ Days \subseteq Nat
    /\ 0 \in Periods /\ 0 \in Days
<1>1. 0 \in Periods
  BY BillingAssumption DEF Periods
<1>2. NoRow \in SubRows
  BY <1>1 DEF NoRow, SubRows
<1>3. NoCopy \in Copies
  BY <1>2 DEF NoCopy, Copies
<1>4. NoPeriod \in Nat /\ NoPeriod \notin Periods
  BY BillingAssumption DEF NoPeriod, Periods
<1> QED BY <1>1, <1>2, <1>3, <1>4, BillingAssumption DEF Periods, Days

LEMMA InitTypeOK == Init => TypeOK
<1> SUFFICES ASSUME Init PROVE TypeOK
  OBVIOUS
<1>1. /\ changes \in 0 .. MaxChanges /\ highest \in Nat /\ peak \in Nat
  <2>1. changes = 0 /\ highest = 0 /\ peak = 0
    BY DEF Init
  <2> QED BY <2>1, BillingAssumption
<1>2. overlapped \in BOOLEAN
  BY DEF Init
<1>3. sub \in [Subs -> SubRows] /\ copy \in [Clients -> Copies]
  BY RowType DEF Init
<1>4. rows \subseteq Periods /\ used \in [Periods -> Nat] /\ today \in Days
  BY RowType DEF Init
<1>5. /\ pc \in [Calls -> {"new", "period", "find", "create", "store", "increment", "end"}]
      /\ phase \in [Calls -> {"check", "count", "last"}]
  BY DEF Init
<1>6. /\ limit \in [Calls -> Nat] /\ period \in [Calls -> Periods]
      /\ chargedTo \in [Calls -> Periods \cup {NoPeriod}]
  BY RowType DEF Init
<1> QED BY <1>1, <1>2, <1>3, <1>4, <1>5, <1>6 DEF TypeOK

LEMMA EndType ==
    ASSUME TypeOK, NEW c \in Calls, End(c)
    PROVE  /\ pc' \in [Calls -> {"new", "period", "find", "create", "store", "increment", "end"}]
           /\ phase' \in [Calls -> {"check", "count", "last"}]
           /\ limit' \in [Calls -> Nat]
           /\ period' \in [Calls -> Periods]
  BY RowType DEF TypeOK, End, Goto

LEMMA ReturnType ==
    ASSUME TypeOK, NEW c \in Calls, NEW u, Return(c, u)
    PROVE  /\ pc' \in [Calls -> {"new", "period", "find", "create", "store", "increment", "end"}]
           /\ phase' \in [Calls -> {"check", "count", "last"}]
           /\ limit' \in [Calls -> Nat]
           /\ period' \in [Calls -> Periods]
<1>1. CASE End(c)
  BY <1>1, EndType
<1>2. CASE /\ Goto(c, "store") /\ limit' = [limit EXCEPT ![c] = 0]
           /\ period' = [period EXCEPT ![c] = 0] /\ UNCHANGED phase
  BY <1>2, RowType DEF TypeOK, Goto
<1>3. CASE Goto(c, "increment") /\ UNCHANGED <<phase, limit, period>>
  BY <1>3 DEF TypeOK, Goto
<1> QED BY <1>1, <1>2, <1>3 DEF Return

LEMMA LargerType ==
    ASSUME NEW m \in Nat, NEW n \in Nat
    PROVE  Larger(m, n) \in Nat /\ Larger(m, n) >= m /\ Larger(m, n) >= n
  BY DEF Larger

LEMMA UncountedFinite ==
    /\ IsFiniteSet(Uncounted) /\ Cardinality(Uncounted) \in Nat
<1>1. Uncounted \in SUBSET Calls
  BY DEF Uncounted
<1> QED BY <1>1, FS_Subset, FS_CardinalityType, BillingAssumption

LEMMA TypeStep == TypeOK /\ [Next]_vars => TypeOK'
<1> SUFFICES ASSUME TypeOK, [Next]_vars PROVE TypeOK'
  OBVIOUS
<1> USE DEF Goto
<1>1. CASE \E c \in Calls : ReadPlan(c)
  <2> PICK c \in Calls : ReadPlan(c)
    BY <1>1
  <2>1. PICK p \in Plans : limit' = [limit EXCEPT ![c] = Limit[p]]
                           /\ highest' = Larger(highest, Limit[p])
    BY DEF ReadPlan
  <2>2. Limit[p] \in Nat
    BY BillingAssumption
  <2>3. limit' \in [Calls -> Nat]
    BY <2>1, <2>2 DEF TypeOK
  <2>4. highest' \in Nat
    BY <2>1, <2>2, LargerType DEF TypeOK
  <2>5. peak' \in Nat
    <3>1. Cardinality(Uncounted) + 1 \in Nat
      BY UncountedFinite
    <3> QED BY <3>1, LargerType DEF TypeOK, ReadPlan
  <2>6. pc' \in [Calls -> {"new", "period", "find", "create", "store", "increment", "end"}]
    BY DEF TypeOK, ReadPlan
  <2> QED BY <2>3, <2>4, <2>5, <2>6 DEF TypeOK, ReadPlan, quotaVars, changeVars
<1>2. CASE \E c \in Calls : ViewQuota(c)
  BY <1>2 DEF TypeOK, ViewQuota, quotaVars, changeVars, ghostVars
<1>3. CASE \E c \in Calls : ReadPeriod(c)
  <2> PICK c \in Calls : ReadPeriod(c)
    BY <1>3
  <2>1. period' \in [Calls -> Periods]
    <3>1. CASE \E r \in Subs : period' = [period EXCEPT ![c] = sub[r].period]
      BY <3>1 DEF TypeOK, SubRows
    <3>2. CASE period' = [period EXCEPT ![c] = CalendarStart[today]]
      BY <3>2, BillingAssumption DEF TypeOK
    <3> QED BY <3>1, <3>2 DEF ReadPeriod
  <2> QED BY <2>1 DEF TypeOK, ReadPeriod, quotaVars, changeVars, ghostVars
<1>4. CASE \E c \in Calls : FindQuota(c)
  <2> PICK c \in Calls : FindQuota(c)
    BY <1>4
  <2>1. CASE Return(c, used[period[c]])
    BY <2>1, ReturnType DEF TypeOK, FindQuota, quotaVars, changeVars, ghostVars
  <2>2. CASE Goto(c, "create") /\ UNCHANGED <<phase, limit, period>>
    BY <2>2 DEF TypeOK, FindQuota, quotaVars, changeVars, ghostVars
  <2> QED BY <2>1, <2>2 DEF FindQuota
<1>5. CASE \E c \in Calls : CreateQuota(c)
  <2> PICK c \in Calls : CreateQuota(c)
    BY <1>5
  <2>1. CASE /\ rows' = rows \cup {period[c]} /\ used' = [used EXCEPT ![period[c]] = 0]
             /\ Return(c, 0)
    <3>1. rows' \subseteq Periods /\ used' \in [Periods -> Nat]
      BY <2>1 DEF TypeOK
    <3> QED BY <2>1, <3>1, ReturnType DEF TypeOK, CreateQuota, changeVars, ghostVars
  <2>2. CASE Goto(c, "find") /\ UNCHANGED <<quotaVars, phase, limit, period>>
    BY <2>2 DEF TypeOK, CreateQuota, quotaVars, changeVars, ghostVars
  <2> QED BY <2>1, <2>2 DEF CreateQuota
<1>6. CASE \E c \in Calls : StoreMessage(c)
  BY <1>6 DEF TypeOK, StoreMessage, quotaVars, changeVars, ghostVars
<1>7. CASE \E c \in Calls : Increment(c)
  <2> PICK c \in Calls : Increment(c)
    BY <1>7
  <2>1. used' \in [Periods -> Nat]
    BY DEF TypeOK, Increment
  <2>2. chargedTo' \in [Calls -> Periods \cup {NoPeriod}] /\ period' \in [Calls -> Periods]
    BY RowType DEF TypeOK, Increment
  <2> QED BY <2>1, <2>2 DEF TypeOK, Increment, changeVars, ghostVars
<1>8. CASE \E c \in Calls : Throw(c)
  BY <1>8, EndType DEF TypeOK, Throw, quotaVars, changeVars, ghostVars
<1>9. CASE \E r \in Subs, p \in Plans : CreateSubscription(r, p)
  <2> PICK r \in Subs, p \in Plans : CreateSubscription(r, p)
    BY <1>9
  <2>1. [plan |-> p, status |-> "active", period |-> PeriodOf[today]] \in SubRows
    BY BillingAssumption DEF TypeOK, SubRows
  <2>2. sub' \in [Subs -> SubRows]
    BY <2>1 DEF TypeOK, CreateSubscription
  <2>3. changes' \in 0 .. MaxChanges
    BY BillingAssumption DEF TypeOK, CreateSubscription
  <2> QED BY <2>2, <2>3 DEF TypeOK, CreateSubscription, quotaVars, callVars, ghostVars
<1>10. CASE \E b \in Clients, r \in Subs, o \in {"cancel", "plan"} : ReadSubscription(b, r, o)
  <2> PICK b \in Clients, r \in Subs, o \in {"cancel", "plan"} : ReadSubscription(b, r, o)
    BY <1>10
  <2>1. [op |-> o, id |-> r, row |-> sub[r]] \in Copies
    BY DEF TypeOK, Copies
  <2>2. copy' \in [Clients -> Copies]
    BY <2>1 DEF TypeOK, ReadSubscription
  <2>3. changes' \in 0 .. MaxChanges
    BY BillingAssumption DEF TypeOK, ReadSubscription
  <2>4. overlapped' \in BOOLEAN
    BY DEF TypeOK, ReadSubscription
  <2> QED BY <2>2, <2>3, <2>4 DEF TypeOK, ReadSubscription, quotaVars, callVars, ghostVars
<1>11. CASE \E b \in Clients : SaveSubscription(b)
  <2> PICK b \in Clients : SaveSubscription(b)
    BY <1>11
  <2>1. copy[b] \in Copies /\ copy[b].row \in SubRows
    BY DEF TypeOK, Copies
  <2>2. [copy[b].row EXCEPT !.status = "canceled"] \in SubRows
    BY <2>1 DEF SubRows
  <2>3. \A p \in Plans : [copy[b].row EXCEPT !.plan = p] \in SubRows
    BY <2>1 DEF SubRows
  <2>4. sub' \in [Subs -> SubRows]
    BY <2>2, <2>3 DEF TypeOK, SaveSubscription
  <2>5. copy' \in [Clients -> Copies]
    BY RowType DEF TypeOK, SaveSubscription, Release
  <2> QED BY <2>4, <2>5 DEF TypeOK, SaveSubscription, quotaVars, callVars, ghostVars
<1>12. CASE \E b \in Clients : ChangeThrows(b)
  <2>1. copy' \in [Clients -> Copies]
    BY <1>12, RowType DEF TypeOK, ChangeThrows, Release
  <2> QED BY <1>12, <2>1 DEF TypeOK, ChangeThrows, quotaVars, callVars, ghostVars
<1>13. CASE Tomorrow
  <2>1. today' \in Days
    BY <1>13, BillingAssumption DEF TypeOK, Tomorrow, Days
  <2> QED BY <1>13, <2>1 DEF TypeOK, Tomorrow, quotaVars, callVars, ghostVars, changeVars
<1>14. CASE UNCHANGED vars
  BY <1>14 DEF TypeOK, vars, quotaVars, callVars, ghostVars, changeVars
<1> QED
  BY <1>1, <1>2, <1>3, <1>4, <1>5, <1>6, <1>7, <1>8, <1>9, <1>10, <1>11, <1>12, <1>13, <1>14
     DEF Next

(* Every variable keeps its type, in every step of calls and changes.      *)
THEOREM TypeCorrect == Spec => []TypeOK
  BY InitTypeOK, TypeStep, PTL DEF Spec

-------------------------------------------------------------------------------
(* Calls, and the exact count.                                             *)

LEMMA CallStep == TypeOK /\ CallInv /\ [Next]_vars => CallInv'
<1> SUFFICES ASSUME TypeOK, CallInv, [Next]_vars PROVE CallInv'
  OBVIOUS
<1> USE DEF Goto
<1>0. ASSUME NEW c \in Calls, End(c), rows \subseteq rows', UNCHANGED chargedTo
      PROVE CallInv'
  BY <1>0 DEF CallInv, End, TypeOK
<1>1. CASE \E c \in Calls : ReadPlan(c)
  BY <1>1 DEF CallInv, ReadPlan, TypeOK, quotaVars
<1>2. CASE \E c \in Calls : ViewQuota(c)
  BY <1>2 DEF CallInv, ViewQuota, TypeOK, quotaVars
<1>3. CASE \E c \in Calls : ReadPeriod(c)
  <2> PICK c \in Calls : ReadPeriod(c)
    BY <1>3
  <2>1. \A d \in Calls \ {c} : pc'[d] = pc[d] /\ period'[d] = period[d]
    BY DEF ReadPeriod, TypeOK
  <2>2. pc'[c] = "find" /\ pc[c] = "period"
    BY DEF ReadPeriod, TypeOK
  <2>3. UNCHANGED <<rows, phase, chargedTo>>
    BY DEF ReadPeriod, quotaVars
  <2> QED BY <2>1, <2>2, <2>3 DEF CallInv
<1>4. CASE \E c \in Calls : FindQuota(c)
  <2> PICK c \in Calls : FindQuota(c)
    BY <1>4
  <2>1. rows' = rows /\ chargedTo' = chargedTo
    BY DEF FindQuota, quotaVars
  <2>2. CASE End(c)
    BY <1>0, <2>1, <2>2
  <2>3. CASE /\ phase[c] = "check" /\ Goto(c, "store")
             /\ period' = [period EXCEPT ![c] = 0] /\ UNCHANGED phase
    BY <2>1, <2>3 DEF CallInv, TypeOK
  <2>4. CASE /\ phase[c] = "count" /\ Goto(c, "increment") /\ UNCHANGED <<phase, limit, period>>
             /\ period[c] \in rows
    BY <2>1, <2>4 DEF CallInv, TypeOK
  <2>5. CASE Goto(c, "create") /\ UNCHANGED <<phase, limit, period>>
    BY <2>1, <2>5 DEF CallInv, TypeOK
  <2> QED BY <2>2, <2>3, <2>4, <2>5 DEF FindQuota, Return
<1>5. CASE \E c \in Calls : CreateQuota(c)
  <2> PICK c \in Calls : CreateQuota(c)
    BY <1>5
  <2>1. rows \subseteq rows' /\ chargedTo' = chargedTo
    BY DEF CreateQuota, quotaVars
  <2>2. CASE End(c)
    BY <1>0, <2>1, <2>2
  <2>3. CASE /\ phase[c] = "check" /\ Goto(c, "store")
             /\ period' = [period EXCEPT ![c] = 0] /\ UNCHANGED phase
    BY <2>1, <2>3 DEF CallInv, TypeOK
  <2>4. CASE /\ phase[c] = "count" /\ Goto(c, "increment") /\ UNCHANGED <<phase, limit, period>>
             /\ period[c] \in rows'
    BY <2>1, <2>4 DEF CallInv, TypeOK
  <2>5. CASE Goto(c, "find") /\ UNCHANGED <<phase, limit, period>>
    BY <2>1, <2>5 DEF CallInv, TypeOK
  <2> QED BY <2>2, <2>3, <2>4, <2>5 DEF CreateQuota, Return
<1>6. CASE \E c \in Calls : StoreMessage(c)
  BY <1>6 DEF CallInv, StoreMessage, TypeOK, quotaVars
<1>7. CASE \E c \in Calls : Increment(c)
  BY <1>7 DEF CallInv, Increment, TypeOK
<1>8. CASE \E c \in Calls : Throw(c)
  BY <1>0, <1>8 DEF Throw, quotaVars
<1>9. CASE UNCHANGED <<pc, phase, period, chargedTo, rows>>
  BY <1>9 DEF CallInv
<1> QED
  BY <1>1, <1>2, <1>3, <1>4, <1>5, <1>6, <1>7, <1>8, <1>9
     DEF Next, CreateSubscription, ReadSubscription, SaveSubscription, ChangeThrows, Tomorrow,
         vars, quotaVars, callVars

LEMMA CountStep == TypeOK /\ CallInv /\ CountInv /\ [Next]_vars => CountInv'
<1> SUFFICES ASSUME TypeOK, CallInv, CountInv, [Next]_vars PROVE CountInv'
  OBVIOUS
<1>1. CASE \E c \in Calls : Increment(c)
  <2> PICK c \in Calls : Increment(c)
    BY <1>1
  <2> DEFINE q == period[c]
  <2>1. q \in rows /\ q \in Periods /\ chargedTo[c] = NoPeriod /\ q # NoPeriod
    BY RowType DEF Increment, CallInv, TypeOK
  <2>2. used' = [used EXCEPT ![q] = @ + 1] /\ rows' = rows
    BY <2>1 DEF Increment
  <2>3. chargedTo' = [chargedTo EXCEPT ![c] = q]
    BY DEF Increment
  <2> HIDE DEF q
  <2>4. ASSUME NEW p \in Periods PROVE used'[p] = Cardinality({d \in Calls : chargedTo'[d] = p})
    <3>1. used[p] = Cardinality(Charged(p)) /\ IsFiniteSet(Charged(p))
      <4>1. Charged(p) \in SUBSET Calls
        BY DEF Charged
      <4>2. IsFiniteSet(Charged(p))
        BY <4>1, FS_Subset, BillingAssumption
      <4> QED BY <4>2 DEF CountInv, UsageIsExact, Charged
    <3>2. CASE p = q
      <4>1. {d \in Calls : chargedTo'[d] = p} = Charged(p) \cup {c}
        BY <2>1, <2>3, <3>2 DEF Charged, TypeOK
      <4>2. c \notin Charged(p)
        BY <2>1, <3>2 DEF Charged
      <4>3. Cardinality(Charged(p) \cup {c}) = used[p] + 1
        BY <3>1, <4>2, FS_AddElement
      <4>4. used'[p] = used[p] + 1
        BY <2>2, <3>2 DEF TypeOK
      <4> QED BY <4>1, <4>3, <4>4
    <3>3. CASE p # q
      <4>1. {d \in Calls : chargedTo'[d] = p} = Charged(p)
        BY <2>1, <2>3, <3>3, RowType DEF Charged, TypeOK
      <4>2. used'[p] = used[p]
        BY <2>2, <3>3 DEF TypeOK
      <4> QED BY <3>1, <4>1, <4>2
    <3> QED BY <3>2, <3>3
  <2>5. \A p \in Periods : p \notin rows' => used'[p] = 0
    BY <2>1, <2>2 DEF CountInv, TypeOK
  <2> QED BY <2>4, <2>5 DEF CountInv, UsageIsExact
<1>2. CASE \E c \in Calls : CreateQuota(c)
  <2> PICK c \in Calls : CreateQuota(c)
    BY <1>2
  <2>1. chargedTo' = chargedTo /\ rows \subseteq rows' /\ used' = used
    <3>1. CASE period[c] \notin rows /\ used' = [used EXCEPT ![period[c]] = 0]
               /\ rows' = rows \cup {period[c]}
      <4>1. used[period[c]] = 0
        BY <3>1 DEF CountInv, TypeOK
      <4> QED BY <3>1, <4>1 DEF TypeOK, CreateQuota
    <3> QED BY <3>1 DEF CreateQuota, quotaVars
  <2> QED BY <2>1 DEF CountInv, UsageIsExact
<1>3. CASE UNCHANGED <<rows, used, chargedTo>>
  BY <1>3 DEF CountInv, UsageIsExact
<1> QED
  BY <1>1, <1>2, <1>3
     DEF Next, ReadPlan, ViewQuota, ReadPeriod, FindQuota, StoreMessage, Throw,
         CreateSubscription, ReadSubscription, SaveSubscription, ChangeThrows, Tomorrow,
         vars, quotaVars, callVars

LEMMA InitCount == Init => CallInv /\ CountInv
<1> SUFFICES ASSUME Init PROVE CallInv /\ CountInv
  OBVIOUS
<1>1. CallInv
  BY DEF Init, CallInv
<1>2. ASSUME NEW p \in Periods PROVE used[p] = Cardinality({c \in Calls : chargedTo[c] = p})
  <2>1. {c \in Calls : chargedTo[c] = p} = {}
    BY RowType DEF Init
  <2> QED BY <2>1, FS_EmptySet DEF Init
<1> QED BY <1>1, <1>2 DEF CountInv, UsageIsExact, Init

(* Creating the quota row of a period in a race, and counting in several   *)
(* calls at once, loses no message and counts none twice.                  *)
THEOREM UsageExact == Spec => []UsageIsExact
<1>1. TypeOK /\ CallInv /\ CountInv /\ [Next]_vars => (TypeOK /\ CallInv /\ CountInv)'
  BY TypeStep, CallStep, CountStep
<1>2. Init => TypeOK /\ CallInv /\ CountInv
  BY InitTypeOK, InitCount
<1>3. CountInv => UsageIsExact
  BY DEF CountInv
<1> QED BY <1>1, <1>2, <1>3, PTL DEF Spec

-------------------------------------------------------------------------------
(* A canceled subscription.                                                *)

(* What a client is about to save: the row as it was, whose period nobody  *)
(* changes, and, if it is alone, the row as it is.                         *)
CopyInv ==
    \A b \in Clients : copy[b].op # "none" =>
        /\ copy[b].id \in Subs /\ Exists(copy[b].id)
        /\ copy[b].row.plan # NoPlan
        /\ copy[b].row.period = sub[copy[b].id].period
        /\ ~ overlapped => /\ copy[b].row = sub[copy[b].id]
                           /\ \A a \in Clients \ {b} : copy[a].op = "none"

LEMMA InitCopyInv == Init => CopyInv
  BY DEF Init, CopyInv, NoCopy

(* A save keeps which rows there are and their periods.                    *)
LEMMA SaveFrame ==
    ASSUME TypeOK, CopyInv, NEW b \in Clients, SaveSubscription(b)
    PROVE  \A r \in Subs : sub'[r].period = sub[r].period /\ (Exists(r)' <=> Exists(r))
<1> DEFINE k == copy[b]
<1>1. k \in Copies /\ k.row \in SubRows
  BY DEF TypeOK, Copies
<1>2. k.id \in Subs /\ Exists(k.id) /\ k.row.plan # NoPlan /\ k.row.period = sub[k.id].period
  BY DEF CopyInv, SaveSubscription
<1>3. PICK n : /\ sub' = [sub EXCEPT ![k.id] = n]
               /\ n.period = k.row.period /\ n.plan # NoPlan
  <2>1. CASE sub' = [sub EXCEPT ![k.id] = [k.row EXCEPT !.status = "canceled"]]
    <3>1. LET n == [k.row EXCEPT !.status = "canceled"]
          IN  n.period = k.row.period /\ n.plan # NoPlan
      BY <1>1, <1>2 DEF SubRows
    <3> QED BY <2>1, <3>1
  <2>2. CASE \E p \in Plans : sub' = [sub EXCEPT ![k.id] = [k.row EXCEPT !.plan = p]]
    <3> PICK p \in Plans : sub' = [sub EXCEPT ![k.id] = [k.row EXCEPT !.plan = p]]
      BY <2>2
    <3>1. LET n == [k.row EXCEPT !.plan = p]
          IN  n.period = k.row.period /\ n.plan # NoPlan
      BY <1>1, BillingAssumption DEF SubRows
    <3> QED BY <3>1
  <2> QED BY <2>1, <2>2 DEF SaveSubscription
<1> QED BY <1>2, <1>3 DEF Exists, TypeOK

LEMMA CopyStep == TypeOK /\ CopyInv /\ [Next]_vars => CopyInv'
<1> SUFFICES ASSUME TypeOK, CopyInv, [Next]_vars PROVE CopyInv'
  OBVIOUS
<1>1. CASE \E r \in Subs, p \in Plans : CreateSubscription(r, p)
  <2> PICK r \in Subs, p \in Plans : CreateSubscription(r, p)
    BY <1>1
  <2>1. ~ Exists(r) /\ \A s \in Subs \ {r} : sub'[s] = sub[s]
    BY DEF CreateSubscription, TypeOK
  <2>2. \A s \in Subs : Exists(s) => sub'[s] = sub[s]
    BY <2>1
  <2>3. UNCHANGED <<copy, overlapped>>
    BY DEF CreateSubscription
  <2> QED BY <2>2, <2>3 DEF CopyInv, Exists
<1>2. CASE \E b \in Clients, r \in Subs, o \in {"cancel", "plan"} : ReadSubscription(b, r, o)
  <2> PICK b \in Clients, r \in Subs, o \in {"cancel", "plan"} : ReadSubscription(b, r, o)
    BY <1>2
  <2>1. copy'[b] = [op |-> o, id |-> r, row |-> sub[r]]
        /\ \A a \in Clients \ {b} : copy'[a] = copy[a]
    BY DEF ReadSubscription, TypeOK
  <2>2. Exists(r) /\ sub' = sub
    BY DEF ReadSubscription
  <2>3. ~ overlapped' => ~ overlapped /\ \A a \in Clients \ {b} : copy[a].op = "none"
    BY DEF ReadSubscription
  <2> QED BY <2>1, <2>2, <2>3 DEF CopyInv, Exists
<1>3. CASE \E b \in Clients : SaveSubscription(b)
  <2> PICK b \in Clients : SaveSubscription(b)
    BY <1>3
  <2>1. copy'[b].op = "none" /\ \A a \in Clients \ {b} : copy'[a] = copy[a]
    BY DEF SaveSubscription, Release, NoCopy, TypeOK
  <2>2. overlapped' = overlapped
    BY DEF SaveSubscription
  <2>3. copy[b].op # "none"
    BY DEF SaveSubscription
  <2> SUFFICES ASSUME NEW a \in Clients, copy'[a].op # "none"
               PROVE  /\ copy'[a].id \in Subs /\ sub'[copy'[a].id].plan # NoPlan
                      /\ copy'[a].row.plan # NoPlan
                      /\ copy'[a].row.period = sub'[copy'[a].id].period
                      /\ overlapped'
    BY DEF CopyInv, Exists
  <2>4. a # b /\ copy'[a] = copy[a] /\ copy[a].op # "none"
    BY <2>1
  <2>5. overlapped
    BY <2>3, <2>4 DEF CopyInv
  <2>6. copy[a].id \in Subs /\ Exists(copy[a].id) /\ copy[a].row.plan # NoPlan
        /\ copy[a].row.period = sub[copy[a].id].period
    BY <2>4 DEF CopyInv
  <2>7. sub'[copy[a].id].period = sub[copy[a].id].period /\ sub'[copy[a].id].plan # NoPlan
    BY <2>6, SaveFrame DEF Exists
  <2> QED BY <2>2, <2>4, <2>5, <2>6, <2>7 DEF Exists
<1>4. CASE \E b \in Clients : ChangeThrows(b)
  <2> PICK b \in Clients : ChangeThrows(b)
    BY <1>4
  <2>1. copy'[b].op = "none" /\ \A a \in Clients \ {b} : copy'[a] = copy[a]
    BY DEF ChangeThrows, Release, NoCopy, TypeOK
  <2> QED BY <2>1 DEF CopyInv, Exists, ChangeThrows
<1>5. CASE UNCHANGED <<sub, copy, overlapped>>
  BY <1>5 DEF CopyInv, Exists
<1> QED
  BY <1>1, <1>2, <1>3, <1>4, <1>5
     DEF Next, ReadPlan, ViewQuota, ReadPeriod, FindQuota, CreateQuota, StoreMessage, Increment,
         Throw, Tomorrow, vars, changeVars

(* A row that is not there is not canceled.                                *)
AbsentInv == \A r \in Subs : ~ Exists(r) => sub[r].status = "active"

LEMMA AbsentStep == TypeOK /\ CopyInv /\ AbsentInv /\ [Next]_vars => AbsentInv'
<1> SUFFICES ASSUME TypeOK, CopyInv, AbsentInv, [Next]_vars, NEW r \in Subs, ~ Exists(r)'
             PROVE  sub'[r].status = "active"
  BY DEF AbsentInv, Exists
<1>1. CASE \E s \in Subs, p \in Plans : CreateSubscription(s, p)
  <2> PICK s \in Subs, p \in Plans : CreateSubscription(s, p)
    BY <1>1
  <2>1. CASE r = s
    BY <2>1 DEF CreateSubscription, TypeOK
  <2>2. CASE r # s
    <3>1. sub'[r] = sub[r]
      BY <2>2 DEF CreateSubscription, TypeOK
    <3> QED BY <3>1 DEF AbsentInv, Exists
  <2> QED BY <2>1, <2>2
<1>2. CASE \E b \in Clients : SaveSubscription(b)
  <2> PICK b \in Clients : SaveSubscription(b)
    BY <1>2
  <2>1. ~ Exists(r)
    BY SaveFrame
  <2>2. copy[b].id # r
    BY <2>1 DEF CopyInv, SaveSubscription
  <2>3. sub'[r] = sub[r]
    BY <2>2 DEF SaveSubscription, TypeOK
  <2> QED BY <2>1, <2>3 DEF AbsentInv
<1>3. CASE UNCHANGED sub
  BY <1>3 DEF AbsentInv, Exists
<1> QED
  BY <1>1, <1>2, <1>3
     DEF Next, ReadPlan, ViewQuota, ReadPeriod, FindQuota, CreateQuota, StoreMessage,
         Increment, Throw, ReadSubscription, ChangeThrows, Tomorrow, vars

(* Changes that are not made at once never make a canceled subscription    *)
(* active, and no other step does.                                         *)
THEOREM CancelStays == Spec => CancelLasts
<1>1. TypeOK /\ CopyInv /\ AbsentInv /\ [Next]_vars =>
          [\A r \in Subs : ~ overlapped /\ sub[r].status = "canceled"
                               => sub'[r].status = "canceled"]_vars
  <2> SUFFICES ASSUME TypeOK, CopyInv, AbsentInv, [Next]_vars, NEW r \in Subs,
                      ~ overlapped, sub[r].status = "canceled"
               PROVE  sub'[r].status = "canceled"
    OBVIOUS
  <2>1. CASE \E s \in Subs, p \in Plans : CreateSubscription(s, p)
    <3> PICK s \in Subs, p \in Plans : CreateSubscription(s, p)
      BY <2>1
    <3>1. s # r
      BY DEF CreateSubscription, AbsentInv
    <3> QED BY <3>1 DEF CreateSubscription, TypeOK
  <2>2. CASE \E b \in Clients : SaveSubscription(b)
    <3> PICK b \in Clients : SaveSubscription(b)
      BY <2>2
    <3>1. copy[b].row = sub[copy[b].id] /\ copy[b].id \in Subs
      BY DEF CopyInv, SaveSubscription
    <3>2. copy[b].row \in SubRows
      BY DEF TypeOK, Copies
    <3>3. CASE copy[b].id = r
      <4>1. [copy[b].row EXCEPT !.status = "canceled"].status = "canceled"
        BY <3>2 DEF SubRows
      <4>2. \A p \in Plans : [copy[b].row EXCEPT !.plan = p].status = "canceled"
        BY <3>1, <3>2, <3>3 DEF SubRows
      <4> QED BY <3>3, <4>1, <4>2 DEF SaveSubscription, TypeOK
    <3>4. CASE copy[b].id # r
      BY <3>4 DEF SaveSubscription, TypeOK
    <3> QED BY <3>3, <3>4
  <2>3. CASE UNCHANGED sub
    BY <2>3
  <2> QED
    BY <2>1, <2>2, <2>3
       DEF Next, ReadPlan, ViewQuota, ReadPeriod, FindQuota, CreateQuota, StoreMessage,
           Increment, Throw, ReadSubscription, ChangeThrows, Tomorrow, vars
<1>2. TypeOK /\ CopyInv /\ AbsentInv /\ [Next]_vars => (TypeOK /\ CopyInv /\ AbsentInv)'
  BY TypeStep, CopyStep, AbsentStep
<1>3. Init => TypeOK /\ CopyInv /\ AbsentInv
  BY InitTypeOK, InitCopyInv DEF Init, AbsentInv, NoRow
<1> QED BY <1>1, <1>2, <1>3, PTL DEF Spec, CancelLasts

-------------------------------------------------------------------------------
(* The bound on the overrun.                                               *)

(* A call that may still be charged to period p: it has passed the check,  *)
(* or has looked, or will look, at the row of another period.  One that is *)
(* yet to look at the row of the current period is not counted: it is      *)
(* refused when that row is full.                                          *)
OpenCall(c, p) ==
    /\ InProgress(c) /\ phase[c] # "last"
    /\ phase[c] = "check" => /\ pc[c] # "period"
                             /\ pc[c] \in {"find", "create"} => period[c] # p
Open(p) == {c \in Calls : OpenCall(c, p)}

LimitInv ==
    /\ \A c \in Calls : limit[c] <= highest
    /\ \A c \in Calls : InProgress(c) /\ phase[c] # "last" => highest > 0
    /\ Cardinality(Uncounted) <= peak

(* Nothing has been counted, or will be, in a later period.                *)
OrderOf(p) ==
    /\ \A c \in Calls : pc[c] \in {"find", "create", "increment"} => period[c] <= p
    /\ \A q \in Periods : used[q] > 0 => q <= p

RoomOf(p) ==
    used[p] + Cardinality(Open(p)) > 0 => used[p] + Cardinality(Open(p)) < highest + peak

CurrentInv ==
    SingleSub => \A p \in Periods : IsCurrent(p) => OrderOf(p) /\ RoomOf(p)

CallAction(c) ==
    \/ ReadPlan(c) \/ ViewQuota(c) \/ ReadPeriod(c) \/ FindQuota(c) \/ CreateQuota(c)
    \/ StoreMessage(c) \/ Increment(c) \/ Throw(c)

LEMMA Room ==
    ASSUME NEW U, IsFiniteSet(U), NEW S \in SUBSET U,
           NEW u \in Nat, NEW h \in Nat, NEW k \in Nat,
           Cardinality(U) <= k, u = 0 \/ u < h, S # {} => h > 0
    PROVE  u + Cardinality(S) > 0 => u + Cardinality(S) < h + k
<1>1. IsFiniteSet(S) /\ Cardinality(S) <= k /\ Cardinality(S) \in Nat
  <2>1. IsFiniteSet(S) /\ Cardinality(S) <= Cardinality(U)
    BY FS_Subset
  <2> QED BY <2>1, FS_CardinalityType
<1>2. CASE S = {}
  <2>1. Cardinality(S) = 0
    BY <1>2, FS_EmptySet
  <2> QED BY <1>1, <2>1
<1>3. CASE S # {}
  BY <1>1, <1>3
<1> QED BY <1>2, <1>3

(* The other calls are where they were.                                    *)
LEMMA OthersStay ==
    ASSUME TypeOK, NEW c \in Calls, CallAction(c), NEW d \in Calls \ {c}
    PROVE  /\ pc'[d] = pc[d] /\ phase'[d] = phase[d]
           /\ period'[d] = period[d] /\ limit'[d] = limit[d]
<1> USE DEF Goto
<1>1. CASE End(c)
  BY <1>1 DEF End, TypeOK
<1>2. CASE ReadPlan(c)
  BY <1>2 DEF ReadPlan, TypeOK
<1>3. CASE ViewQuota(c)
  BY <1>3 DEF ViewQuota, TypeOK
<1>4. CASE ReadPeriod(c)
  BY <1>4 DEF ReadPeriod, TypeOK
<1>5. CASE FindQuota(c) /\ ~ End(c)
  BY <1>5 DEF FindQuota, Return, TypeOK
<1>6. CASE CreateQuota(c) /\ ~ End(c)
  BY <1>6 DEF CreateQuota, Return, TypeOK
<1>7. CASE StoreMessage(c)
  BY <1>7 DEF StoreMessage, TypeOK
<1>8. CASE Increment(c)
  BY <1>8 DEF Increment, TypeOK
<1> QED
  BY <1>1, <1>2, <1>3, <1>4, <1>5, <1>6, <1>7, <1>8 DEF CallAction, Throw

(* A call that has read its limit: its limit is only forgotten, and it is  *)
(* uncounted only if it was.                                               *)
LEMMA CallGoesOn ==
    ASSUME TypeOK, CallInv, NEW c \in Calls, CallAction(c), ~ ReadPlan(c)
    PROVE  /\ UNCHANGED ghostVars
           /\ limit'[c] \in {limit[c], 0}
           /\ InProgress(c)' /\ phase'[c] # "last" => InProgress(c) /\ phase[c] # "last"
<1> USE DEF Goto, InProgress
<1>1. UNCHANGED ghostVars
  BY DEF CallAction, ViewQuota, ReadPeriod, FindQuota, CreateQuota, StoreMessage, Increment,
         Throw
<1>2. CASE End(c)
  BY <1>1, <1>2 DEF End, TypeOK
<1>3. CASE ViewQuota(c)
  BY <1>1, <1>3 DEF ViewQuota, TypeOK
<1>4. CASE ReadPeriod(c)
  BY <1>1, <1>4 DEF ReadPeriod, TypeOK
<1>5. CASE FindQuota(c) /\ ~ End(c)
  BY <1>1, <1>5 DEF FindQuota, Return, TypeOK
<1>6. CASE CreateQuota(c) /\ ~ End(c)
  BY <1>1, <1>6 DEF CreateQuota, Return, TypeOK
<1>7. CASE StoreMessage(c)
  <2>1. phase[c] = "check" /\ pc[c] = "store"
    BY <1>7 DEF StoreMessage, CallInv
  <2> QED BY <1>1, <1>7, <2>1 DEF StoreMessage, TypeOK
<1>8. CASE Increment(c)
  BY <1>1, <1>8 DEF Increment, TypeOK
<1> QED
  BY <1>2, <1>3, <1>4, <1>5, <1>6, <1>7, <1>8 DEF CallAction, Throw

LEMMA LimitStep == TypeOK /\ TypeOK' /\ CallInv /\ LimitInv /\ [Next]_vars => LimitInv'
<1> SUFFICES ASSUME TypeOK, TypeOK', CallInv, LimitInv, [Next]_vars PROVE LimitInv'
  OBVIOUS
<1>0. IsFiniteSet(Uncounted) /\ Cardinality(Uncounted) \in Nat
  BY UncountedFinite
<1>1. ASSUME NEW c \in Calls, ReadPlan(c) PROVE LimitInv'
  <2>0. CallAction(c)
    BY <1>1 DEF CallAction
  <2>1. PICK p \in Plans : limit' = [limit EXCEPT ![c] = Limit[p]]
                           /\ highest' = Larger(highest, Limit[p])
    BY <1>1 DEF ReadPlan
  <2>2. Limit[p] \in Nat /\ Limit[p] > 0 /\ highest \in Nat /\ peak \in Nat
    <3>1. Limit[p] \in Nat \ {0}
      BY BillingAssumption
    <3>2. Limit[p] \in Nat /\ Limit[p] > 0
      BY <3>1
    <3> QED BY <3>2 DEF TypeOK
  <2>3. highest' \in Nat /\ highest' >= highest /\ highest' >= Limit[p] /\ highest' > 0
    <3>1. highest' = Larger(highest, Limit[p])
      BY <2>1
    <3> QED BY <2>2, <3>1 DEF Larger
  <2>4. limit'[c] = Limit[p]
    BY <2>1 DEF TypeOK
  <2>5. ASSUME NEW d \in Calls PROVE limit'[d] <= highest'
    <3>1. CASE d = c
      BY <2>2, <2>3, <2>4, <3>1
    <3>2. CASE d # c
      <4>1. limit'[d] = limit[d] /\ limit[d] <= highest /\ limit[d] \in Nat
        BY <2>0, <3>2, OthersStay DEF LimitInv, TypeOK
      <4> QED BY <2>2, <2>3, <4>1
    <3> QED BY <3>1, <3>2
  <2>6. Uncounted' \in SUBSET (Uncounted \cup {c})
    BY <2>0, OthersStay DEF Uncounted, InProgress
  <2>7. Cardinality(Uncounted') <= Cardinality(Uncounted) + 1
    <3>1. /\ IsFiniteSet(Uncounted \cup {c})
          /\ Cardinality(Uncounted \cup {c}) <= Cardinality(Uncounted) + 1
      <4>1. /\ IsFiniteSet(Uncounted \cup {c})
            /\ Cardinality(Uncounted \cup {c}) =
                   IF c \in Uncounted THEN Cardinality(Uncounted) ELSE Cardinality(Uncounted) + 1
        BY <1>0, FS_AddElement
      <4> QED BY <1>0, <4>1
    <3>2. Cardinality(Uncounted') <= Cardinality(Uncounted \cup {c}) /\ IsFiniteSet(Uncounted')
      BY <2>6, <3>1, FS_Subset
    <3> QED BY <1>0, <3>1, <3>2, FS_CardinalityType
  <2>8. peak' >= Cardinality(Uncounted) + 1 /\ peak' \in Nat
    <3>1. peak' = Larger(peak, Cardinality(Uncounted) + 1) /\ Cardinality(Uncounted) + 1 \in Nat
      BY <1>0, <1>1 DEF ReadPlan
    <3> QED BY <2>2, <3>1, LargerType
  <2>9. Cardinality(Uncounted') \in Nat
    <3>1. Uncounted' \in SUBSET Calls
      BY DEF Uncounted
    <3> QED BY <3>1, FS_Subset, FS_CardinalityType, BillingAssumption
  <2>10. Cardinality(Uncounted') <= peak'
    BY <1>0, <2>7, <2>8, <2>9
  <2> QED BY <2>3, <2>5, <2>10 DEF LimitInv
<1>2. ASSUME NEW c \in Calls, CallAction(c), ~ ReadPlan(c) PROVE LimitInv'
  <2>1. highest' = highest /\ peak' = peak /\ highest \in Nat /\ peak \in Nat
    BY <1>2, CallGoesOn DEF ghostVars, TypeOK
  <2>2. ASSUME NEW d \in Calls PROVE limit'[d] <= highest'
    <3>1. limit[d] \in Nat /\ limit[d] <= highest
      BY DEF LimitInv, TypeOK
    <3>2. limit'[d] \in {limit[d], 0}
      BY <1>2, CallGoesOn, OthersStay
    <3> QED BY <2>1, <3>1, <3>2
  <2>3. Uncounted' \in SUBSET Uncounted
    BY <1>2, CallGoesOn, OthersStay DEF Uncounted, InProgress
  <2>4. Cardinality(Uncounted') <= peak'
    <3>1. Cardinality(Uncounted') <= Cardinality(Uncounted) /\ IsFiniteSet(Uncounted')
      BY <1>0, <2>3, FS_Subset
    <3>2. Cardinality(Uncounted) <= peak
      BY DEF LimitInv
    <3> QED BY <1>0, <2>1, <3>1, <3>2, FS_CardinalityType
  <2>5. ASSUME NEW d \in Calls, InProgress(d)', phase'[d] # "last" PROVE highest' > 0
    <3>1. InProgress(d) /\ phase[d] # "last"
      BY <1>2, <2>5, CallGoesOn, OthersStay DEF InProgress
    <3> QED BY <2>1, <3>1 DEF LimitInv
  <2> QED BY <2>2, <2>4, <2>5 DEF LimitInv, InProgress
<1>3. CASE UNCHANGED callVars
  BY <1>3 DEF callVars, ghostVars, LimitInv, Uncounted, InProgress
<1> QED
  BY <1>1, <1>2, <1>3
     DEF Next, CallAction, CreateSubscription, ReadSubscription, SaveSubscription, ChangeThrows,
         Tomorrow, vars

(* While there is at most one row, one period is current, and a call that  *)
(* computes its period computes that one.                                  *)
LEMMA OneCurrent ==
    ASSUME SingleSub, NEW p \in Periods, NEW q \in Periods, IsCurrent(p), IsCurrent(q)
    PROVE  p = q
  BY DEF SingleSub, IsCurrent

LEMMA ReadsCurrent ==
    ASSUME TypeOK, SingleSub, NEW c \in Calls, ReadPeriod(c), NEW p \in Periods, IsCurrent(p)
    PROVE  period'[c] = p
<1>1. CASE \E r \in Subs : Exists(r) /\ period' = [period EXCEPT ![c] = sub[r].period]
  BY <1>1 DEF SingleSub, IsCurrent, TypeOK
<1>2. CASE (\A r \in Subs : ~ Exists(r)) /\ period' = [period EXCEPT ![c] = CalendarStart[today]]
  BY <1>2 DEF IsCurrent, TypeOK
<1> QED BY <1>1, <1>2 DEF ReadPeriod

(* The calls that may be charged to p are among the uncounted.             *)
LEMMA OpenUncounted ==
    ASSUME NEW p PROVE Open(p) \in SUBSET Uncounted
  BY DEF Open, OpenCall, Uncounted

LEMMA OrderCall ==
    ASSUME TypeOK, CallInv, SingleSub, NEW c \in Calls, CallAction(c),
           NEW p \in Periods, IsCurrent(p), OrderOf(p), used' = used \/ Increment(c)
    PROVE  OrderOf(p)'
<1> USE DEF Goto
<1>1. ASSUME NEW d \in Calls, pc'[d] \in {"find", "create", "increment"} PROVE period'[d] <= p
  <2>1. CASE d # c
    BY <1>1, <2>1, OthersStay DEF OrderOf
  <2>2. CASE d = c /\ pc[c] \in {"find", "create", "increment"} /\ period'[c] = period[c]
    BY <2>2 DEF OrderOf
  <2>3. CASE d = c /\ ReadPeriod(c)
    <3>1. period'[c] = p
      BY <2>3, ReadsCurrent
    <3> QED BY <2>3, <3>1, RowType
  <2>4. CASE d = c /\ (End(c) \/ ReadPlan(c) \/ ViewQuota(c) \/ StoreMessage(c) \/ Increment(c))
    BY <1>1, <2>4 DEF End, ReadPlan, ViewQuota, StoreMessage, Increment, TypeOK
  <2>5. CASE d = c /\ (FindQuota(c) \/ CreateQuota(c)) /\ ~ End(c)
    <3>1. pc[c] \in {"find", "create"}
      BY <2>5 DEF FindQuota, CreateQuota
    <3>2. period' = period \/ pc'[c] = "store"
      BY <2>5 DEF FindQuota, CreateQuota, Return, TypeOK
    <3> QED BY <1>1, <2>2, <2>5, <3>1, <3>2
  <2> QED BY <2>1, <2>3, <2>4, <2>5 DEF CallAction, Throw
<1>2. ASSUME NEW q \in Periods, used'[q] > 0 PROVE q <= p
  <2>1. CASE used'[q] = used[q]
    BY <1>2, <2>1 DEF OrderOf
  <2>2. CASE Increment(c) /\ q = period[c]
    BY <2>2 DEF OrderOf, Increment
  <2> QED BY <2>1, <2>2 DEF Increment, TypeOK
<1> QED BY <1>1, <1>2 DEF OrderOf

(* A step that opens no call, and counts nothing in p, keeps the room.     *)
LEMMA RoomKept ==
    ASSUME TypeOK, TypeOK', NEW p \in Periods, RoomOf(p),
           Open(p)' \subseteq Open(p), used'[p] = used[p],
           highest' >= highest, peak' >= peak
    PROVE  RoomOf(p)'
<1>1. IsFiniteSet(Open(p)) /\ Cardinality(Open(p)) \in Nat
  <2>1. Open(p) \in SUBSET Calls
    BY DEF Open
  <2> QED BY <2>1, FS_Subset, FS_CardinalityType, BillingAssumption
<1>2. Cardinality(Open(p)') <= Cardinality(Open(p)) /\ Cardinality(Open(p)') \in Nat
  <2>1. IsFiniteSet(Open(p)') /\ Cardinality(Open(p)') <= Cardinality(Open(p))
    BY <1>1, FS_Subset
  <2> QED BY <2>1, FS_CardinalityType
<1>3. /\ used[p] \in Nat /\ highest \in Nat /\ highest' \in Nat
      /\ peak \in Nat /\ peak' \in Nat
  BY DEF TypeOK
<1>4. used[p] + Cardinality(Open(p)) > 0 => used[p] + Cardinality(Open(p)) < highest + peak
  BY DEF RoomOf
<1>5. used'[p] + Cardinality(Open(p)') > 0 => used'[p] + Cardinality(Open(p)') < highest' + peak'
  BY <1>1, <1>2, <1>3, <1>4
<1> QED BY <1>5 DEF RoomOf

(* When the current row is not yet at the highest limit, or is empty,      *)
(* there is room for all the uncounted calls.                              *)
LEMMA RoomFresh ==
    ASSUME TypeOK', LimitInv', NEW p \in Periods, used'[p] = 0 \/ used'[p] < highest'
    PROVE  RoomOf(p)'
<1>1. Open(p)' \in SUBSET Uncounted'
  BY DEF Open, OpenCall, Uncounted
<1>2. IsFiniteSet(Uncounted')
  <2>1. Uncounted' \in SUBSET Calls
    BY DEF Uncounted
  <2> QED BY <2>1, FS_Subset, BillingAssumption
<1>3. Cardinality(Uncounted') <= peak'
  BY DEF LimitInv
<1>4. Open(p)' # {} => highest' > 0
  BY DEF Open, OpenCall, LimitInv, InProgress
<1>5. used'[p] \in Nat /\ highest' \in Nat /\ peak' \in Nat
  BY DEF TypeOK
<1> HIDE DEF Open, Uncounted
<1>6. used'[p] + Cardinality(Open(p)') > 0 => used'[p] + Cardinality(Open(p)') < highest' + peak'
  BY <1>1, <1>2, <1>3, <1>4, <1>5, Room
<1> QED BY <1>6 DEF RoomOf

LEMMA OpenFrame ==
    ASSUME TypeOK, NEW c \in Calls, CallAction(c), NEW p \in Periods,
           OpenCall(c, p)' => OpenCall(c, p)
    PROVE  Open(p)' \subseteq Open(p)
<1>1. ASSUME NEW d \in Calls, d # c, OpenCall(d, p)' PROVE OpenCall(d, p)
  BY <1>1, OthersStay DEF OpenCall, InProgress
<1> QED BY <1>1 DEF Open

LEMMA UsedStays ==
    ASSUME TypeOK, CountInv, NEW c \in Calls, CallAction(c), ~ Increment(c)
    PROVE  used' = used
<1>1. CASE CreateQuota(c) /\ period[c] \notin rows
  <2>1. used[period[c]] = 0
    BY <1>1 DEF CountInv, TypeOK
  <2> QED BY <1>1, <2>1 DEF CreateQuota, TypeOK
<1> QED
  BY <1>1 DEF CallAction, ReadPlan, ViewQuota, ReadPeriod, FindQuota, CreateQuota, StoreMessage,
              Throw, quotaVars

LEMMA RoomCall ==
    ASSUME TypeOK, TypeOK', CallInv, CountInv, LimitInv, LimitInv', SingleSub,
           NEW c \in Calls, CallAction(c), NEW p \in Periods, IsCurrent(p), RoomOf(p)
    PROVE  RoomOf(p)'
<1> USE DEF Goto
<1>1. highest' >= highest /\ peak' >= peak
  <2>1. CASE ReadPlan(c)
    <3>1. highest \in Nat /\ peak \in Nat /\ Cardinality(Uncounted) + 1 \in Nat
      BY UncountedFinite DEF TypeOK
    <3>2. \A q \in Plans : Limit[q] \in Nat
      BY BillingAssumption
    <3>3. PICK q \in Plans : highest' = Larger(highest, Limit[q])
      BY <2>1 DEF ReadPlan
    <3>4. highest' >= highest
      BY <3>1, <3>2, <3>3 DEF Larger
    <3>5. peak' >= peak
      BY <2>1, <3>1 DEF ReadPlan, Larger
    <3> QED BY <3>4, <3>5
  <2>2. CASE ~ ReadPlan(c)
    BY <2>2, CallGoesOn DEF ghostVars, TypeOK
  <2> QED BY <2>1, <2>2
<1>2. ASSUME ~ Increment(c), OpenCall(c, p)' => OpenCall(c, p) PROVE RoomOf(p)'
  <2>1. used'[p] = used[p]
    BY <1>2, UsedStays
  <2>2. Open(p)' \subseteq Open(p)
    BY <1>2, OpenFrame
  <2> QED BY <1>1, <2>1, <2>2, RoomKept
<1>3. CASE End(c) /\ ~ Increment(c)
  <2>1. ~ OpenCall(c, p)'
    BY <1>3 DEF End, OpenCall, TypeOK
  <2> QED BY <1>2, <1>3, <2>1
<1>4. CASE ReadPlan(c)
  <2>1. ~ OpenCall(c, p)' /\ ~ Increment(c)
    BY <1>4 DEF ReadPlan, CallInv, OpenCall, Increment, TypeOK
  <2> QED BY <1>2, <2>1
<1>5. CASE ViewQuota(c)
  <2>1. ~ OpenCall(c, p)' /\ ~ Increment(c)
    BY <1>5 DEF ViewQuota, OpenCall, Increment, TypeOK
  <2> QED BY <1>2, <2>1
<1>6. CASE ReadPeriod(c)
  <2>1. period'[c] = p /\ pc'[c] = "find" /\ phase' = phase /\ pc[c] = "period"
    BY <1>6, ReadsCurrent DEF ReadPeriod, TypeOK
  <2>2. OpenCall(c, p)' => OpenCall(c, p)
    BY <2>1 DEF OpenCall, InProgress
  <2> QED BY <1>2, <2>1, <2>2 DEF Increment
<1>7. CASE (FindQuota(c) \/ CreateQuota(c)) /\ ~ End(c)
  <2>1. pc[c] \in {"find", "create"} /\ used' = used /\ ~ Increment(c)
    BY <1>7, UsedStays DEF FindQuota, CreateQuota, Increment
  <2>2. CASE pc'[c] \in {"find", "create"} /\ period' = period /\ phase' = phase
    BY <1>2, <2>1, <2>2 DEF OpenCall, InProgress
  <2>3. CASE phase[c] = "count" /\ phase' = phase
    BY <1>2, <2>1, <2>3 DEF OpenCall, InProgress
  <2>4. CASE phase[c] = "check" /\ period[c] # p
    BY <1>2, <2>1, <2>4 DEF OpenCall, InProgress
  <2>5. CASE phase[c] = "check" /\ period[c] = p /\ Within(c, used[p])
    <3>1. limit[c] <= highest /\ limit[c] \in Nat /\ used[p] \in Nat /\ highest \in Nat
          /\ highest' \in Nat
      BY DEF LimitInv, TypeOK
    <3>2. used'[p] < highest'
      BY <1>1, <2>1, <2>5, <3>1 DEF Within
    <3> QED BY <3>2, RoomFresh
  <2>6. CASE phase[c] = "check" /\ period[c] = p /\ period[c] \notin rows
    <3>1. used'[p] = 0
      BY <2>1, <2>6 DEF CountInv
    <3> QED BY <3>1, RoomFresh
  <2>7. CASE FindQuota(c)
    <3>1. CASE period[c] \in rows /\ Return(c, used[period[c]])
      <4>1. \/ phase[c] = "check" /\ Within(c, used[period[c]])
            \/ phase[c] = "count" /\ phase' = phase
        BY <1>7, <3>1 DEF Return
      <4> QED BY <2>3, <2>4, <2>5, <4>1
    <3>2. CASE Goto(c, "create") /\ UNCHANGED <<phase, limit, period>>
      <4>1. pc'[c] = "create"
        BY <3>2 DEF TypeOK
      <4> QED BY <2>2, <3>2, <4>1
    <3> QED BY <2>7, <3>1, <3>2 DEF FindQuota
  <2>8. CASE CreateQuota(c)
    <3>1. CASE period[c] \notin rows /\ Return(c, 0)
      <4>1. phase[c] = "check" \/ (phase[c] = "count" /\ phase' = phase)
        BY <1>7, <3>1 DEF Return
      <4> QED BY <2>3, <2>4, <2>6, <3>1, <4>1
    <3>2. CASE Goto(c, "find") /\ UNCHANGED <<phase, limit, period>>
      <4>1. pc'[c] = "find"
        BY <3>2 DEF TypeOK
      <4> QED BY <2>2, <3>2, <4>1
    <3> QED BY <2>8, <3>1, <3>2 DEF CreateQuota
  <2> QED BY <1>7, <2>7, <2>8
<1>8. CASE StoreMessage(c)
  <2>1. pc[c] = "store" /\ phase[c] = "check" /\ ~ Increment(c)
    BY <1>8 DEF StoreMessage, CallInv, Increment
  <2> QED BY <1>2, <2>1 DEF OpenCall, InProgress
<1>9. CASE Increment(c)
  <2>1. pc[c] = "increment" /\ phase[c] = "count" /\ period[c] \in rows /\ phase'[c] = "last"
    BY <1>9 DEF Increment, CallInv, TypeOK
  <2>2. ~ OpenCall(c, p)' /\ OpenCall(c, p)
    BY <2>1 DEF OpenCall, InProgress
  <2>3. Open(p)' \subseteq Open(p) \ {c} /\ c \in Open(p)
    BY <2>2, OpenFrame DEF Open
  <2>4. used'[p] = used[p] + (IF period[c] = p THEN 1 ELSE 0)
    BY <1>9, <2>1 DEF Increment, TypeOK
  <2>5. UNCHANGED ghostVars
    BY <1>9 DEF Increment
  <2>6. CASE period[c] # p
    <3>1. used'[p] = used[p]
      BY <2>4, <2>6 DEF TypeOK
    <3> QED BY <1>1, <2>3, <3>1, RoomKept
  <2>7. CASE period[c] = p
    <3>1. IsFiniteSet(Open(p))
      <4>1. Open(p) \in SUBSET Calls
        BY DEF Open
      <4> QED BY <4>1, FS_Subset, BillingAssumption
    <3>2. IsFiniteSet(Open(p) \ {c}) /\ Cardinality(Open(p) \ {c}) = Cardinality(Open(p)) - 1
      BY <2>3, <3>1, FS_RemoveElement
    <3>3. /\ IsFiniteSet(Open(p)')
          /\ Cardinality(Open(p)') <= Cardinality(Open(p) \ {c})
      BY <2>3, <3>2, FS_Subset
    <3>4. Cardinality(Open(p)) \in Nat /\ Cardinality(Open(p)') \in Nat
      BY <3>1, <3>3, FS_CardinalityType
    <3>5. used[p] \in Nat /\ highest \in Nat /\ peak \in Nat
          /\ highest' = highest /\ peak' = peak /\ used'[p] = used[p] + 1
      BY <2>4, <2>5, <2>7 DEF TypeOK, ghostVars
    <3>6. used[p] + Cardinality(Open(p)) > 0 => used[p] + Cardinality(Open(p)) < highest + peak
      BY DEF RoomOf
    <3>7. Cardinality(Open(p)') <= Cardinality(Open(p)) - 1
      BY <3>2, <3>3
    <3>8. used'[p] + Cardinality(Open(p)') < highest' + peak'
      BY <3>4, <3>5, <3>6, <3>7
    <3> QED BY <3>8 DEF RoomOf
  <2> QED BY <2>6, <2>7
<1> QED
  BY <1>3, <1>4, <1>5, <1>6, <1>7, <1>8, <1>9 DEF CallAction, Throw

(* A later period that becomes current has an empty row.                   *)
LEMMA LaterPeriod ==
    ASSUME TypeOK, TypeOK', LimitInv', NEW p \in Periods, NEW q \in Periods, p <= q,
           OrderOf(p), RoomOf(p), UNCHANGED <<used, callVars>>
    PROVE  OrderOf(q)' /\ RoomOf(q)'
<1>1. \A r \in Periods : r <= p => r <= q
  BY RowType
<1>2. OrderOf(q)'
  BY <1>1 DEF OrderOf, callVars, TypeOK
<1>3. CASE p = q
  BY <1>2, <1>3 DEF RoomOf, Open, OpenCall, InProgress, callVars, ghostVars
<1>4. CASE p # q
  <2>1. ~ q <= p
    BY <1>4, RowType
  <2>2. used'[q] = 0
    BY <2>1 DEF OrderOf, TypeOK
  <2> QED BY <1>2, <2>2, RoomFresh
<1> QED BY <1>3, <1>4

LEMMA CurrentStep ==
    TypeOK /\ TypeOK' /\ CallInv /\ CountInv /\ LimitInv /\ LimitInv' /\ CopyInv /\ CurrentInv
        /\ [Next]_vars => CurrentInv'
<1> SUFFICES ASSUME TypeOK, TypeOK', CallInv, CountInv, LimitInv, LimitInv', CopyInv, CurrentInv,
                    [Next]_vars, SingleSub', NEW p \in Periods, IsCurrent(p)'
             PROVE  OrderOf(p)' /\ RoomOf(p)'
  BY DEF CurrentInv
<1>1. CASE \E c \in Calls : CallAction(c)
  <2> PICK c \in Calls : CallAction(c)
    BY <1>1
  <2>1. UNCHANGED <<sub, today>>
    BY DEF CallAction, ReadPlan, ViewQuota, ReadPeriod, FindQuota, CreateQuota, StoreMessage,
           Increment, Throw
  <2>2. SingleSub /\ IsCurrent(p)
    BY <2>1 DEF SingleSub, IsCurrent, Exists
  <2>3. OrderOf(p) /\ RoomOf(p)
    BY <2>2 DEF CurrentInv
  <2>4. used' = used \/ Increment(c)
    BY UsedStays
  <2>5. OrderOf(p)'
    BY <2>2, <2>3, <2>4, OrderCall
  <2>6. RoomOf(p)'
    BY <2>2, <2>3, RoomCall
  <2> QED BY <2>5, <2>6
<1>2. CASE \E r \in Subs, k \in Plans : CreateSubscription(r, k)
  <2> PICK r \in Subs, k \in Plans : CreateSubscription(r, k)
    BY <1>2
  <2>1. /\ ~ Exists(r) /\ sub'[r].plan = k /\ sub'[r].period = PeriodOf[today]
        /\ \A s \in Subs \ {r} : sub'[s] = sub[s]
    BY DEF CreateSubscription, TypeOK
  <2>2. sub'[r].plan # NoPlan
    BY <2>1, BillingAssumption
  <2>3. \A s \in Subs : ~ Exists(s)
    BY <2>1, <2>2 DEF SingleSub, Exists
  <2> DEFINE q == CalendarStart[today]
  <2>4. q \in Periods /\ PeriodOf[today] \in Periods /\ q <= PeriodOf[today]
    BY BillingAssumption DEF TypeOK
  <2>5. OrderOf(q) /\ RoomOf(q)
    BY <2>3, <2>4 DEF CurrentInv, SingleSub, IsCurrent
  <2>6. p = PeriodOf[today]
    BY <2>1, <2>2, <2>3 DEF IsCurrent, Exists
  <2>7. UNCHANGED <<used, callVars>>
    BY DEF CreateSubscription, quotaVars
  <2> QED BY <2>4, <2>5, <2>6, <2>7, LaterPeriod
<1>3. CASE Tomorrow
  <2>1. UNCHANGED <<sub, used, callVars>>
    BY <1>3 DEF Tomorrow, quotaVars
  <2>2. CASE \E r \in Subs : Exists(r)
    <3>1. SingleSub /\ IsCurrent(p)
      BY <2>1, <2>2 DEF SingleSub, IsCurrent, Exists
    <3>2. OrderOf(p) /\ RoomOf(p) /\ p <= p
      BY <3>1, RowType DEF CurrentInv
    <3> QED BY <2>1, <3>2, LaterPeriod
  <2>3. CASE \A r \in Subs : ~ Exists(r)
    <3> DEFINE q == CalendarStart[today]
    <3>1. today \in Days /\ today' \in Days /\ today <= today'
      BY <1>3, RowType DEF TypeOK, Tomorrow
    <3>2. q \in Periods /\ p = CalendarStart[today'] /\ q <= p
      BY <2>1, <2>3, <3>1, BillingAssumption DEF IsCurrent, Exists
    <3>3. OrderOf(q) /\ RoomOf(q)
      BY <2>3, <3>2 DEF CurrentInv, SingleSub, IsCurrent
    <3> QED BY <2>1, <3>2, <3>3, LaterPeriod
  <2> QED BY <2>2, <2>3
<1>4. CASE \E b \in Clients : SaveSubscription(b)
  <2> PICK b \in Clients : SaveSubscription(b)
    BY <1>4
  <2>1. \A r \in Subs : sub'[r].period = sub[r].period /\ (Exists(r)' <=> Exists(r))
    BY SaveFrame
  <2>2. today' = today /\ UNCHANGED <<used, callVars>>
    BY DEF SaveSubscription, quotaVars
  <2>3. SingleSub /\ IsCurrent(p)
    BY <2>1, <2>2 DEF SingleSub, IsCurrent
  <2>4. OrderOf(p) /\ RoomOf(p) /\ p <= p
    BY <2>3, RowType DEF CurrentInv
  <2> QED BY <2>2, <2>4, LaterPeriod
<1>5. CASE UNCHANGED <<sub, today, used, callVars>>
  <2>1. SingleSub /\ IsCurrent(p)
    BY <1>5 DEF SingleSub, IsCurrent, Exists
  <2>2. OrderOf(p) /\ RoomOf(p) /\ p <= p
    BY <2>1, RowType DEF CurrentInv
  <2> QED BY <1>5, <2>2, LaterPeriod
<1> QED
  BY <1>1, <1>2, <1>3, <1>4, <1>5
     DEF Next, CallAction, ReadSubscription, ChangeThrows, vars, quotaVars

LEMMA InitCurrent == Init => LimitInv /\ CurrentInv
<1> SUFFICES ASSUME Init PROVE LimitInv /\ CurrentInv
  OBVIOUS
<1>1. Uncounted = {}
  BY DEF Init, Uncounted, InProgress
<1>2. LimitInv
  BY <1>1, FS_EmptySet DEF Init, LimitInv, InProgress
<1>3. ASSUME NEW p \in Periods PROVE OrderOf(p) /\ RoomOf(p)
  <2>1. Open(p) = {}
    BY <1>1, OpenUncounted
  <2>2. used[p] + Cardinality(Open(p)) = 0
    BY <2>1, FS_EmptySet DEF Init
  <2>3. RoomOf(p)
    BY <2>2 DEF RoomOf
  <2>4. OrderOf(p)
    BY DEF Init, OrderOf
  <2> QED BY <2>3, <2>4
<1> QED BY <1>2, <1>3 DEF CurrentInv

(* The quota of the current period is overrun by fewer messages than there *)
(* were at once between their check and their count.  A call that can      *)
(* still be charged to the period is open; the count and the open calls    *)
(* together never exceed what there was when the last call passed.         *)
THEOREM Overshoot == Spec => []OvershootBounded
<1> DEFINE IInv == TypeOK /\ CallInv /\ CountInv /\ CopyInv /\ LimitInv /\ CurrentInv
<1>1. Init => IInv
  BY InitTypeOK, InitCount, InitCopyInv, InitCurrent
<1>2. IInv /\ [Next]_vars => IInv'
  <2> SUFFICES ASSUME IInv, [Next]_vars PROVE IInv'
    OBVIOUS
  <2>1. TypeOK' /\ CallInv' /\ CountInv' /\ CopyInv'
    BY TypeStep, CallStep, CountStep, CopyStep
  <2>2. LimitInv'
    BY <2>1, LimitStep
  <2> QED BY <2>1, <2>2, CurrentStep
<1>3. IInv => OvershootBounded
  <2> SUFFICES ASSUME IInv, SingleSub, NEW p \in Periods, IsCurrent(p), used[p] > 0
               PROVE  used[p] < highest + peak
    BY DEF OvershootBounded
  <2>1. Open(p) \in SUBSET Calls
    BY DEF Open
  <2>2. Cardinality(Open(p)) \in Nat
    BY <2>1, FS_Subset, FS_CardinalityType, BillingAssumption
  <2>3. used[p] \in Nat /\ highest \in Nat /\ peak \in Nat
    BY DEF TypeOK
  <2>4. RoomOf(p)
    BY DEF CurrentInv
  <2> QED BY <2>2, <2>3, <2>4 DEF RoomOf
<1> QED BY <1>1, <1>2, <1>3, PTL DEF Spec
===============================================================================
