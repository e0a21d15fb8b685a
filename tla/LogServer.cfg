\* Options that make the pool overflow, the flush counter cycle and the
\* statistics fall due within four datagrams, with two SIGHUPs.
SPECIFICATION Spec
CONSTANTS
    a = a
    b = b
    c = c
    stat = stat
    Names <- MCNames
    StatName = stat
    NoName = NoName
    Flushes = {0, 1, 2, 3}
    Frequencies = {0, 1, 2}
    PoolSizes = {0, 1, 2}
    UIntMod = 5
    MaxMsgs = 4
    MaxHups = 2
SYMMETRY Symmetry
INVARIANTS
    TypeOK
    OpenBound
    PoolSound
    FlushKeepsUp
    WrittenOnce
    SoundWithoutHup
    ExitSavesAll
    StatsRight
