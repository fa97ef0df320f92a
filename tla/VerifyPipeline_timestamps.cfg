\* Text order against the order of instants.
SPECIFICATION Spec
CONSTANTS
    None = None
    FirstSecond = 0
    LastSecond = 20
    LegalUrls = {"repo"}
    NDirs = 1
    Cases <- Timed
INVARIANT AcceptedRunIsOrdered
CHECK_DEADLOCK FALSE
