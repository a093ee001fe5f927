SPECIFICATION Spec
CONSTANTS
    bnss = bnss
    bns = bns
    bsa = bsa
    n35 = n35
    n103 = n103
    me = me
    other = other
    Acts <- ThreeActs
    Numbers = {n35, n103}
    DefaultAct = bnss
    Asked <- EveryQuestion
    KnownActs <- OneOrTwoActs
    Corpus <- TwoLaws
    Sessions = {me, other}
    Scores <- FourScores
    Low = 5
    High = 70
INVARIANTS
    TypeOK
    EvidencePassed
    ExactIsExact
    RefusalIsEarned
CHECK_DEADLOCK FALSE
