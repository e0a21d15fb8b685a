\* Two commands, one published message and one fault.
SPECIFICATION FairSpec
CONSTANTS
    Hash <- MCHash
    InitialSize = 1
    Lists <- MCLists
    MaxCommands = 2
    MaxMessages = 1
    MaxFaults = 1
INVARIANTS
    TypeOK
    CallbacksOnce
    BoundToLast
    RepliesExpected
PROPERTY DisconnectEnds
CHECK_DEADLOCK FALSE
