SPECIFICATION Spec
CONSTANTS
    Loops = {l1}
    Disconnects = {}
    Submits = {u1}
    Streams = {stdout}
    Lines = {"otp", "credential", "gateway-login", "parse-error", "established", "bye"}
    Requests <- BothRequests
    MaxProcs = 2
    MaxLines = 2
    MaxTokens = 1
    MaxWindow = 1
INVARIANTS TypeOK IdleIsDown InFlightHasGenerator
           OneAnswerer FreshCode ManualPromptIsServed
