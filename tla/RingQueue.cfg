CONSTANTS
    Items = {a, b, c}
    Size = 4
    NoItem = none
SPECIFICATION Spec
INVARIANTS
    TypeOK
    CountIsLengthAtRoot
PROPERTY ImplementsFifo
