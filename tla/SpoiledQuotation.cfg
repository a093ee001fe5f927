SPECIFICATION Spec
CONSTANTS
    bnss = bnss
    bns = bns
    n3 = n3
    n35 = n35
    sch = sch
    Acts <- TwoActs
    DefaultAct = bnss
    Numbers <- TwoNumbers
    Within <- OneWithin
    Schedules = {sch}
    Vocabulary <- QuotedReferences
    MaxSpans = 1
    MaxRequests = 1
    Contexts <- AnsweringContext
INVARIANTS
    HonestQuotesPass
CHECK_DEADLOCK FALSE
