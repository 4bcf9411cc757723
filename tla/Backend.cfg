SPECIFICATION Spec
CONSTANTS
    Users = {u1, u2}
    Tolerance = 1
    MaxClock = 3
    MaxFailures = 1
    Requests = {r1, r2}
    Profiles = {1}
    MaxSaveFailures = 1
    Callbacks = {c1, c2}
    Lifetime = 1
    MaxLogins = 2
    MaxElapsed = 3
    MaxCalls = 3
    MaxCrashes = 1
INVARIANTS TypeOK MemoryIsFile LoadsUnlessSetBack SavedIsUsed AutoNeedsSecret
           StateIsGoodOnce
PROPERTIES ImplementsDurable
CHECK_DEADLOCK FALSE
