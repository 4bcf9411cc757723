SPECIFICATION Spec
CONSTANTS
    Loops = {l1}
    Disconnects = {d1}
    Submits = {}
    Streams = {stdout}
    Lines = {"established"}
    Requests <- AutoRequests
    MaxProcs = 1
    MaxLines = 1
    MaxTokens = 0
    MaxWindow = 0
INVARIANTS DisconnectStops
