\* Two commands on a connection that holds.
SPECIFICATION FairSpec
CONSTANTS
    Hash <- MCHash
    InitialSize = 1
    Lists <- MCLists
    MaxCommands = 2
    MaxMessages = 0
    MaxFaults = 0
INVARIANT CleanDisconnect
CHECK_DEADLOCK FALSE
