CONSTANTS
    p1 = p1
    c1 = c1
    c2 = c2
    w1 = w1
    w2 = w2
    Players = {p1}
    Cases = {c1, c2}
    Workers = {w1, w2}
    MaxHints = 2
    MaxScore = 100
    HintPenalty = 60
    MinScore = 10
    MaxCrashes = 1
    MaxExpiries = 1
SPECIFICATION Spec
SYMMETRY Symmetry
VIEW Live
CONSTRAINT OneDisturbance
INVARIANTS
    HintOvershootBounded
    DeliveredHintsAreCharged
    PointsAreNeverInvented
    RescoredOnlyForCause
    HintLevelsEscalate
    SerialProfileIsExact
