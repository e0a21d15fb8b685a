\* Two addresses, and descriptors 0 to 2, any of which may be taken at first.
\* A long ends at 9999, so that 9 seconds and 1000000 microseconds leave it.
SPECIFICATION Spec
CONSTANTS
    Timeouts <- MCTimeouts
    LongMax = 9999
    IntMax = 5000
    MaxAddresses = 2
    MaxFd = 2
INVARIANTS
    TypeOK
    DescriptorsSound
    ErrTellsFailure
    WaitsLongEnough
CHECK_DEADLOCK FALSE
