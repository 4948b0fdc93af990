SPECIFICATION Spec
CONSTANTS
    Versions = {v1, v2, v3}
    NoVersion = NoVersion
    Configs = {k1, k2}
    NoConfig = NoConfig
    Admins = {a1, a2}
    Visitors = {u1}
    MaxRequests = 4
    MaxFaults = 1
SYMMETRY Symmetry
INVARIANTS TypeOK  OneActive CacheIsPublished HistoryNamesActive
PROPERTIES ImplementsPublication
CHECK_DEADLOCK FALSE
