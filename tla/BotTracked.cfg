SPECIFICATION Spec
CONSTANTS
    Users = {owner}
    Owner = owner
    MaxPrompts = 1
    MaxAttempts = 1
    MaxCommands = 2
    MaxBacklog = 2
INVARIANTS TrackedIsActive
CHECK_DEADLOCK FALSE
