\* Two processes, three commands, one removal, two seconds.
SPECIFICATION Spec
CONSTANTS
    None = None
    p = p
    q = q
    Processes = {1, 2}
    Paths = {p, q}
    Values <- SomeValues
    Digests <- SomeDigests
    Results <- SomeResults
    MaxTime = 1
    MaxCalls = 3
    MaxRemovals = 1
INVARIANTS
    TypeOK
    StampedIsIndexed
    RowsHaveTheirTable
    LastIsDescribed
    InitLeavesAWholeCache
PROPERTIES
    OnlyInitMakesACache
    ComputedIsPrinted
CHECK_DEADLOCK FALSE
