\* A statement with a subject that has no name beside the expected ones.
SPECIFICATION Spec
CONSTANTS
    None = None
    FirstSecond = 0
    LastSecond = 20
    LegalUrls = {"repo"}
    NDirs = 1
    Cases <- Nameless
INVARIANT SubjectSetsAreEqual
CHECK_DEADLOCK FALSE
