CONSTANTS
    MaxBlocks = 2
    MaxSsas = 3
    MaxPhiArgs = 2
    MaxPreds = 1
    Symbols = {1}
    Scopes = {1}
    Literals = {0}
    Conditions = {"eq"}
    Window = 1
    MaxObjects = 6
SPECIFICATION Spec
INVARIANTS
    TypeOK
    RangesAreExact
    PredecessorsAgree
    PhiListsDisjoint
PROPERTY EndedBlocksFrozen
CONSTRAINT Small
