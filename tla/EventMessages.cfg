SPECIFICATION FairSpec
CONSTANTS
    Users = {u1, u2}
    Owner = u1
    MaxShown = 1
    CompactAt = 0
    MaxEvents = 2
    MaxFailures = 1
INVARIANTS TypeOK FlushComplete InOrder
PROPERTIES QuietWhenEnded MessagesEnd FlushReturns
CHECK_DEADLOCK FALSE
