CONSTANTS
    MaxBlocks = 20
    MaxSsas = 30
    MaxPhiArgs = 30
    MaxPreds = 3
    MaxFuse = 3
    MaxScopes = 7
    MaxSymbols = 3
    Symbols = {1, 2, 3}
    MaxDecls = 2
    MaxTasks = 10
    MaxExpDepth = 3
    Modulus = 16
    Programs <- Trees
    Stmts <- TreeStmts
    Exps <- TreeExps
SPECIFICATION Spec
INVARIANTS
    TypeOK
    IrSound
    ScopesBalance
    EveryTargetPending
    OpenBlockBetweenTasks
    FinalValuesAreLocal
    OperandsAreLocal
    PhiAlwaysFindsOne
    InternalAssertsHold
    SourceOrder
    ReassignmentsAreRefused
PROPERTIES
    LeftBlocksFrozen
    WorkDecreases
