---------------------------- MODULE MCBillingQuota ----------------------------
(***************************************************************************)
(* BillingQuota on 29 January and 1 February.  A subscription created on   *)
(* the first day ends on 1 March, 29 February being no day of the year,    *)
(* and so its period starts on 1 February.                                 *)
(***************************************************************************)
EXTENDS BillingQuota, TLC

CONSTANTS c1, c2, c3, s1, s2, free, pro, b1, b2

MCCalls == {c1, c2, c3}
MCSubs == {s1, s2}
MCPlans == {free, pro}
MCLimit == (free :> 1) @@ (pro :> 2)
MCClients == {b1, b2}
MCCalendarStart == (0 :> 0) @@ (1 :> 1)
MCPeriodOf == (0 :> 1) @@ (1 :> 1)

Symmetry == Permutations(MCCalls) \cup Permutations(MCSubs) \cup Permutations(MCClients)
===============================================================================
