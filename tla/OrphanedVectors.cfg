SPECIFICATION Spec
CONSTANTS
    Documents = {d1}
    Digest <- OtherBytes
    MaxJobs = 1
    MaxTries = 1
    FaultBudget <- Calm
INVARIANTS
    NoVectorsWithoutRow
CHECK_DEADLOCK FALSE
