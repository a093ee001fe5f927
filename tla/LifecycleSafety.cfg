SPECIFICATION Spec
CONSTANTS
    Documents = {d1, d2}
    Digest <- SameBytes
    MaxJobs = 2
    MaxTries = 2
    FaultBudget <- OneOfEach
SYMMETRY DocumentSymmetry
INVARIANTS
    TypeOK
    OrphanNeedsOverlap
    ReadyIsQueryable
    StrandedNeedsFault
    FileLostByDelete
    LifecycleInv
PROPERTIES
    TerminalIsFinal
    NoResurrection
    ImplementsCatalog
CHECK_DEADLOCK FALSE
