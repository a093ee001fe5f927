SPECIFICATION Spec
CONSTANTS
    bnss = bnss
    bns = bns
    n3 = n3
    n35 = n35
    sch = sch
    Acts <- TwoActs
    DefaultAct = bnss
    Numbers <- TwoNumbers
    Within <- OneWithin
    Schedules = {sch}
    Vocabulary <- FewSpans
    MaxSpans = 1
    MaxRequests = 2
    Contexts <- FewContexts
INVARIANTS
    TypeOK
    ReaderOwnsLastTurn
    ShowsOwnAnswer
    NoSilentTurn
    UnvalidatedIsExplained
PROPERTIES
    QuestionEnds
    ImplementsBoard
CHECK_DEADLOCK FALSE
