\* A document that reads as one predicate to phases 01 to 03 and as another to
\* phase 04.
SPECIFICATION Spec
CONSTANTS
    None = None
    FirstSecond = 0
    LastSecond = 20
    LegalUrls = {"repo"}
    NDirs = 1
    Cases <- Readings
INVARIANT AcceptedClaimsAreBacked
CHECK_DEADLOCK FALSE
