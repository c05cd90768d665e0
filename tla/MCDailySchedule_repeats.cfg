CONSTANTS
    old = old
    new = new
    flawed = flawed
    live = live
    none = none
    w1 = w1
    w2 = w2
    Curated <- CatalogCurated
    Generated = {live}
    Sound <- CatalogSound
    Age <- CatalogAge
    NoCase = none
    Callers = {w1, w2}
    LastDay = 2
    MaxCrashes = 0
    MaxRetries = 3
    NoCaller = none
    MaxSlips = 0
    MaxEdits = 0
SPECIFICATION ScheduleSpec
CHECK_DEADLOCK FALSE
PROPERTIES
    NoRepeatOnceMoreExist
