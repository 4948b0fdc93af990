\* Two files, one of which the store refuses to remove, a user, a template and
\* a keeper, two requests of two clients beside the nightly job, one failed
\* call or crash.
SPECIFICATION Spec
CONSTANTS
    f1 = f1
    f2 = f2
    u = u
    t = t
    k = k
    c1 = c1
    c2 = c2
    Files = {f1, f2}
    NoFile = NoFile
    Users = {u}
    Templates = {t}
    Keepers = {k}
    NoOwner = NoOwner
    Clients = {c1, c2}
    Cron = Cron
    Stuck = {f2}
    MaxRequests = 2
    MaxFaults = 1
INVARIANTS TypeOK ReferencedIsStored  ObjectsAreKnown
PROPERTIES EveryOrphanGoes
CHECK_DEADLOCK FALSE
