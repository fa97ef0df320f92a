\* Documents of one and of several attestations, every shape of the flags and
\* of the trust root.
SPECIFICATION Spec
CONSTANTS
    None = None
    Missing = Missing
    Empty = Empty
    Malformed = Malformed
    FirstSecond = 0
    LastSecond = 20
    LegalUrls = {"repo"}
    Modulus = 4
    WorkflowRefs <- Workflows
    Documents <- SomeDocuments
    RootFiles <- SomeRootFiles
    TufTargets <- SomeTargets
    RekorRoots <- SomeRekorRoots
    LevelFlags <- SomeLevels
    Repositories <- BothRepositories
INVARIANTS
    TypeOK
    AcceptedIdentityIsTrusted
    PolicyGradeIsTheSigningWorkflow
    NothingUnverifiedIsNamed
    InclusionAsAsked
    SignatureFailuresAreTold
PROPERTY BundleIsGate
CHECK_DEADLOCK FALSE
