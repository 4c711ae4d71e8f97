CONSTANTS
    Requests = {r1, r2}
    None = None
SPECIFICATION FairSpec
CHECK_DEADLOCK FALSE
PROPERTY
    WaitersWoken
