\* Every delivery order and repetition of up to five codes.
SPECIFICATION Spec
CONSTANTS
    MaxLen = 5
    CustomCodes <- MCCustom
    Alphabetical <- MCAlphabetical
    Inputs <- MCInputs
INVARIANTS
    TypeOK
    EveryCodeOnce
    OrderDependsOnTheSetOnly
CHECK_DEADLOCK FALSE
