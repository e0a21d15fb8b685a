\* Four keys in every distribution over three hashes: all meet in one bucket,
\* two hashes meet in two buckets and two others in five.
SPECIFICATION Spec
CONSTANTS
    k1 = k1
    k2 = k2
    k3 = k3
    k4 = k4
    v1 = v1
    v2 = v2
    Keys = {k1, k2, k3, k4}
    Values = {v1, v2}
    NULL = NULL
    Primes <- MCPrimes
    MinSizes = {0, 1}
    HashValues = {0, 1, 5}
SYMMETRY Symmetry
INVARIANTS
    TypeOK
    ChainsSound
    IteratorSound
PROPERTIES
    ReachesOnce
    Implements
