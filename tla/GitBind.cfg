\* One call of Compute, three acts of the developer and one failing command
\* anywhere between its steps.
SPECIFICATION Spec
CONSTANTS
    None = None
    main = main
    topic = topic
    x = x
    y = y
    origin = origin
    Callers = {capture}
    NPaths = 2
    Blobs = {x, y}
    Branches = {main, topic}
    Slugs = {origin}
    InitialRepos <- SomeRepos
    MaxCommits = 2
    MaxActs = 3
    MaxFaults = 1
INVARIANTS
    TypeOK
    RefsAreOfOneMoment
    FilesAreOfOneMoment
PROPERTIES
    Terminates
CHECK_DEADLOCK FALSE
