\* One SIGHUP between the datagrams of one log.
SPECIFICATION FairSpec
CONSTANTS
    a = a
    b = b
    c = c
    stat = stat
    Names <- MCNames
    StatName = stat
    NoName = NoName
    Flushes = {1}
    Frequencies = {0}
    PoolSizes = {2}
    UIntMod = 5
    MaxMsgs = 3
    MaxHups = 1
PROPERTY ReturnsPooledHandle
