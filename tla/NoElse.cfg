CONSTANTS
    MaxBlocks = 20
    MaxSsas = 40
    MaxPhiArgs = 40
    MaxPreds = 4
    MaxFuse = 4
    MaxScopes = 10
    MaxSymbols = 2
    Symbols = {1, 2}
    MaxDecls = 2
    MaxTasks = 20
    MaxExpDepth = 3
    Modulus = 16
    Programs <- NoElse
    Stmts <- TreeStmts
    Exps <- TreeExps
SPECIFICATION Pipeline
INVARIANT IfWithoutElseCompiles
