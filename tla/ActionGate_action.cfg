\* Both orders of the commands, every shape of the inputs.
SPECIFICATION GateSpec
CONSTANTS
    None = None
    main = main
    odd = odd
    x = x
    y = y
    origin = origin
    other = other
    Missing = Missing
    Garbled = Garbled
    Callers <- BothCalls
    Jobs <- EveryJob
    InitialRepos <- SomeRepos
    NPaths = 2
    Blobs = {x, y}
    Branches = {main, odd}
    LegalBranches = {main}
    Slugs = {origin, other}
    LegalUrls = {origin}
    MaxCommits = 2
    MaxActs = 2
    MaxFaults = 1
    FirstSecond = 0
    LastSecond = 20
INVARIANTS
    GateTypeOK
    UndisturbedOutcome
    AcceptedDiffIsCurrent
    ChangeIsNoticedUnlessStaged
    NeverAboveEvidenceGrade
    SummaryTellsTheVerdict
PROPERTIES
    JobIsGate
CHECK_DEADLOCK FALSE
