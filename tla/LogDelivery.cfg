SPECIFICATION FairSpec
CONSTANTS
    Users = {u1}
    Owner = u1
    Actions = {"connect"}
    MaxStreams = 1
    MaxLogs = 1
    MaxPages = 2
    MaxFailures = 1
PROPERTIES HandlerReturns CatchesUp ShutdownCleans
CHECK_DEADLOCK FALSE
