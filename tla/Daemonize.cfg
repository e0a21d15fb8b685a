\* Both processes of the start, and up to four signals to them.
SPECIFICATION Spec
CONSTANT MaxSignals = 4
INVARIANTS
    TypeOK
    FailureLeavesNoServer
PROPERTIES
    StopIsClean
    StartSettles
