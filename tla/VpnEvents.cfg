SPECIFICATION FairSpec
CONSTANTS
    Phases = {"auth"}
    Errors = {"failed"}
    CompactAt = 2
    MaxEvents = 5
INVARIANTS TypeOK InOrder ConsumedBounded CaughtUpIsCurrent
PROPERTIES ImplementsStream
