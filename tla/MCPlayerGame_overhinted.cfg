CONSTANTS
    p1 = p1
    c1 = c1
    w1 = w1
    w2 = w2
    Players = {p1}
    Cases = {c1}
    Workers = {w1, w2}
    MaxHints = 1
    MaxScore = 100
    HintPenalty = 15
    MinScore = 10
    MaxCrashes = 0
    MaxExpiries = 0
SPECIFICATION Spec
INVARIANTS
    HintCapIsClusterWide
