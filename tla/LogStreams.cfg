SPECIFICATION Spec
CONSTANTS
    Users = {u1, u2}
    Owner = u1
    Actions = {"connect"}
    MaxStreams = 2
    MaxLogs = 0
    MaxPages = 1
    MaxFailures = 0
INVARIANTS TypeOK NoOrphan RevokeRemovesOthers
PROPERTIES FinalStays
CHECK_DEADLOCK FALSE
