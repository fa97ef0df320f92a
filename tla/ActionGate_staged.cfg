\* A change staged between the attestation and the verification.
SPECIFICATION GateSpec
CONSTANTS
    None = None
    main = main
    odd = odd
    x = x
    y = y
    origin = origin
    other = other
    Missing = Missing
    Garbled = Garbled
    Callers <- BothCalls
    Jobs <- LaterJob
    InitialRepos <- OneRepo
    NPaths = 2
    Blobs = {x, y}
    Branches = {main, odd}
    LegalBranches = {main}
    Slugs = {origin, other}
    LegalUrls = {origin}
    MaxCommits = 2
    MaxActs = 2
    MaxFaults = 0
    FirstSecond = 0
    LastSecond = 20
INVARIANT ChangeIsNoticed
CHECK_DEADLOCK FALSE
