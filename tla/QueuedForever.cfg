SPECIFICATION Spec
CONSTANTS
    Documents = {d1}
    Digest <- OtherBytes
    MaxJobs = 1
    MaxTries = 1
    FaultBudget <- Calm
PROPERTIES
    AcceptedUploadSettles
CHECK_DEADLOCK FALSE
