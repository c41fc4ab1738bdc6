CONSTANTS
    Names = {x}
    Literals = {l}
    MaxStatements = 5
    MaxExpressions = 2
    MaxPtrs = 3
    MaxOpen = 2
    MaxList = 3
    MaxWork = 7
SPECIFICATION MCSpec
CONSTRAINT Bounded
INVARIANTS
    TypeOK
    OneOwnerEach
PROPERTY ImplementsTreeBuilder
