\* Three calls of addMessage while two clients change up to two subscriptions
\* in three changes, over two days, and
\* any of the calls fails.
SPECIFICATION Spec
CONSTANTS
    c1 = c1
    c2 = c2
    c3 = c3
    s1 = s1
    s2 = s2
    free = free
    pro = pro
    b1 = b1
    b2 = b2
    Calls <- MCCalls
    Subs <- MCSubs
    NoSub = NoSub
    Plans <- MCPlans
    NoPlan = NoPlan
    Free = free
    Limit <- MCLimit
    Clients <- MCClients
    MaxDay = 1
    CalendarStart <- MCCalendarStart
    PeriodOf <- MCPeriodOf
    MaxPeriod = 1
    MaxChanges = 3
SYMMETRY Symmetry
INVARIANTS TypeOK UsageIsExact OvershootBounded
PROPERTIES CancelLasts
CHECK_DEADLOCK FALSE
