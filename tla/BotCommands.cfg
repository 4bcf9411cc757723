SPECIFICATION Spec
CONSTANTS
    Users = {owner, u1}
    Owner = owner
    MaxPrompts = 2
    MaxAttempts = 2
    MaxCommands = 3
    MaxBacklog = 3
INVARIANTS TypeOK RepliesAreWarranted TrackedUnlessQuiet
CHECK_DEADLOCK FALSE
