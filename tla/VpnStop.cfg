SPECIFICATION FairSpec
CONSTANTS
    Loops = {l1}
    Disconnects = {d1}
    Submits = {}
    Streams = {stdout}
    Lines = {"established", "bye"}
    Requests <- AutoRequests
    MaxProcs = 2
    MaxLines = 1
    MaxTokens = 1
    MaxWindow = 0
INVARIANTS StdinIsRegistered RunningIsHeld RegisteredIsHeld
PROPERTIES DisconnectReturns CapturedExits StopEndsLoop
