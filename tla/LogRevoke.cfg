SPECIFICATION Spec
CONSTANTS
    Users = {u1, u2}
    Owner = u1
    Actions = {"connect"}
    MaxStreams = 1
    MaxLogs = 0
    MaxPages = 1
    MaxFailures = 0
INVARIANTS RevokeRemoves
CHECK_DEADLOCK FALSE
