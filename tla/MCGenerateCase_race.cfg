CONSTANTS
    r1 = r1
    r2 = r2
    Requests = {r1, r2}
    MaxAttempts = 2
    SuccessCap = 1
    AttemptCap = 3
    LastDay = 2
SPECIFICATION FairSpec
CHECK_DEADLOCK FALSE
INVARIANTS
    BudgetsHold
    OneFlawlessCaseEach
    OutcomesAreHonest
PROPERTIES
    ImplementsGenerationPath
    EveryRequestEnds
