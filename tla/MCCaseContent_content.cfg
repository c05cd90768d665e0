CONSTANTS
    table = table
    door = door
    box = box
    ledger = ledger
    stack = stack
    book = book
    ann = ann
    bob = bob
    cyd = cyd
    golden = golden
    subtle = subtle
    loud = loud
    None = None
    Nothing = Nothing
    c1 = c1
    c2 = c2
    Locations = {table, door, box}
    Items = {ledger, stack, book}
    Templates <- MCTemplates
    Callers = {c1, c2}
    Draws <- MCDraws
    MaxCalls = 4
    Names = {ann, bob, cyd}
    Raws <- MCRaws
    Count = 2
    Ids = {1, 2, 3, 4}
    MaxRuns = 2
    Golden = {golden}
    Invalid = {subtle, loud}
    Content <- MCContent
    Repeats = 4
    guard = guard
    clerk = clerk
    NoBoard = NoBoard
    Fallback = Fallback
    SuspectIds = {"s1", "S1", "s2", "s3", "s4"}
    Key <- MCKey
    ClueIds = {"k1", "k2", "k3", "k4"}
    Words = {ann, bob, cyd, guard, clerk}
    Catalog <- MCCatalog
SPECIFICATION Spec
CHECK_DEADLOCK FALSE
INVARIANTS
    CandidatesShowCulprit
    DraftsAreUnambiguous
    DoneIsHonest
    ReportIsHonest
    BoardsAreFair
PROPERTIES
    EscapesOnlyUntyped
    UsageIsNotStale
    DraftsAreKept
