CONSTANTS
    Daily = Daily
    None = None
    Streams = {}
    HintCap = 1
SPECIFICATION Spec
CHECK_DEADLOCK FALSE
PROPERTIES
    FailureIsReported
