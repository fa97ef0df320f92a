\* A policy module without the rule the verifier asks for.
SPECIFICATION Spec
CONSTANTS
    None = None
    FirstSecond = 0
    LastSecond = 20
    LegalUrls = {"repo"}
    NDirs = 1
    Cases <- OneVerification
INVARIANT AcceptedWasJudged
CHECK_DEADLOCK FALSE
