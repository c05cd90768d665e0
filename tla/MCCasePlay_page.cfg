CONSTANTS
    Daily = Daily
    None = None
    s1 = s1
    s2 = s2
    s3 = s3
    Streams = {s1, s2, s3}
    HintCap = 2
SPECIFICATION FairSpec
CONSTRAINT HintsStayFew
CHECK_DEADLOCK FALSE
INVARIANTS
    PageFitsCase
    AlreadySolvedOnlyAfterLoss
    ProgressIsReal
PROPERTIES
    ReplacedOnlyIfMasked
    SpinnersStop
