\* Three logs in a pool of one or two files, and one SIGHUP.
SPECIFICATION FairSpec
CONSTANTS
    a = a
    b = b
    c = c
    stat = stat
    Names <- MCNames
    StatName = stat
    NoName = NoName
    Flushes = {1, 2}
    Frequencies = {0, 2}
    PoolSizes = {1, 2}
    UIntMod = 5
    MaxMsgs = 3
    MaxHups = 1
PROPERTIES
    BackToRecv
    LineReachesDisk
