\* Every rule of the policy against every input, one field at a time, over an
\* untouched pack; and few inputs over contract files that change meanwhile.
SPECIFICATION Spec
CONSTANTS
    None = None
    FirstSecond = 0
    LastSecond = 20
    LegalUrls = {"repo"}
    NDirs = 2
    Cases <- RulesAndPack
INVARIANTS
    TypeOK
    AcceptedIsAssured
    OneOwningPhase
    AcceptedReadItsContracts
    VerdictIsExact
PROPERTIES
    GateSpec
CHECK_DEADLOCK FALSE
