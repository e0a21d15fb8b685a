\* The connection breaks once.
SPECIFICATION Spec
CONSTANTS
    log = log
    stat = stat
    Names <- MCNames
    StatName = stat
    NoName = NoName
    TTLs = {1}
    Frequencies = {0}
    UIntMod = 5
    MaxSockets = 3
    MaxMsgs = 3
    MaxFaults = 1
INVARIANT KeepsRunning
