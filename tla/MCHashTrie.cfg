CONSTANTS
    k1 = k1
    k2 = k2
    k3 = k3
    k4 = k4
    Maps = {m1, m2}
    Keys = {k1, k2, k3, k4}
    Values = {u, v}
    NoValue = none
    Bytes = {0, 1}
    MaxDepth = 3
    hash <- AllHashes
    MaxBuckets = 4
SPECIFICATION Spec
INVARIANTS
    TypeOK
    Forest
    RefusesOnlyCollisions
PROPERTIES
    ImplementsPartialMap
    CallsReturn
