CONSTANTS
    Modulus = 4
    MaxExecs = 2
SPECIFICATION Spec
INVARIANTS
    TypeOK
    ValuesSolveTheCode
    ValuesTellThePath
    BlocksRunOnce
PROPERTIES
    LoopsThatDefineEnd
