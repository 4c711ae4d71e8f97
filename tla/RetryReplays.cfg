SPECIFICATION ClientSpec
CONSTANTS
    Foci = {"request"}
    siteA = siteA
    siteB = siteB
    Sites = {siteA, siteB}
    Calls <- CallsMade
    MaxRedirects = 2
    MaxRetries = 1
    Statuses = {"ok", "503", "303", "307", "304"}
    Limit = 2
    Plans <- StreamingCalls
    Body <- BodyChunks
    Residue <- LastUnits
    MaxDecoded = 4
    ChannelSize = 2
    N = 2
    Response <- ShortResponses
    Frames = {0, 1, 2}
    Local = 2
    ConnInitial = 3
    DefaultWindow = 1
    InitialSizes = {4, 6}
    Policy = "threshold"
CHECK_DEADLOCK FALSE
INVARIANT
    RetriesAreSafe
