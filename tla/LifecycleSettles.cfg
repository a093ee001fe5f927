SPECIFICATION Spec
CONSTANTS
    Documents = {d1, d2}
    Digest <- SameBytes
    MaxJobs = 1
    MaxTries = 2
    FaultBudget <- Recoverable
PROPERTIES
    JobsDrain
    DocumentSettles
    DeleteCompletes
CHECK_DEADLOCK FALSE
