CONSTANTS
    old = old
    new = new
    flawed = flawed
    live = live
    none = none
    w1 = w1
    w2 = w2
    Curated <- CatalogCurated
    Generated = {live}
    Sound <- CatalogSound
    Age <- CatalogAge
    NoCase = none
    Callers = {w1, w2}
    LastDay = 2
    MaxCrashes = 1
    MaxRetries = 3
    NoCaller = none
    MaxSlips = 1
    MaxEdits = 2
SPECIFICATION ScheduleSpec
CHECK_DEADLOCK FALSE
INVARIANTS
    DailyCaseIsVisible
    SchedulerChoosesWell
    ReplacedOnlyAfterASlip
PROPERTIES
    FiringPublishes
    LifecycleUnlessOverlapped
    RotatesAwayFromToday
