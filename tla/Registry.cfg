\* Two processes, three calls, two paths and the empty one.
SPECIFICATION Spec
CONSTANTS
    None = None
    Malformed = Malformed
    p = p
    q = q
    Callers = {1, 2}
    Paths = {p, q, None}
    MaxCalls = 3
    Statements <- SomeStatements
INVARIANTS
    TypeOK
    AddedIsFound
    OneRowPerReference
    LatestIsDescribed
PROPERTIES
    IndexSpec
    CallsEnd
CHECK_DEADLOCK FALSE
