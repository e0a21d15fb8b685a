\* Three datagrams and three faults, with and without a TTL and statistics.
SPECIFICATION Spec
CONSTANTS
    log = log
    stat = stat
    Names <- MCNames
    StatName = stat
    NoName = NoName
    TTLs = {0, 1}
    Frequencies = {0, 2}
    UIntMod = 5
    MaxSockets = 3
    MaxMsgs = 3
    MaxFaults = 3
INVARIANTS
    TypeOK
    ListsTrue
    FaultCostsOne
