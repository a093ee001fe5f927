SPECIFICATION Spec
CONSTANTS
    bnss = bnss
    bns = bns
    n3 = n3
    n35 = n35
    sch = sch
    Acts <- TwoActs
    DefaultAct = bnss
    Numbers <- TwoNumbers
    Within <- OneWithin
    Schedules = {sch}
    Vocabulary <- EverySpan
    MaxSpans = 2
    MaxRequests = 1
    Contexts <- EveryContext
INVARIANTS
    CitationsRetrieved
    NoMisquotation
    AnswersGrounded
    GuardIsStable
    RefusedForQuotationOnly
CHECK_DEADLOCK FALSE
