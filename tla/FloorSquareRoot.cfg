CONSTANTS
    MaxNegative = 2
    MaxInput = 300
    Inputs <- MCInputs
SPECIFICATION FairSpec
INVARIANTS
    TypeOK
    FloorExact
    NeverDividesByZero
PROPERTY EveryCallReturns
