SPECIFICATION Spec
CONSTANTS
    Loops = {l1}
    Disconnects = {}
    Submits = {u1}
    Streams = {stdout}
    Lines = {"otp"}
    Requests <- AutoRequests
    MaxProcs = 1
    MaxLines = 3
    MaxTokens = 1
    MaxWindow = 1
INVARIANTS OpenPromptIsServed
