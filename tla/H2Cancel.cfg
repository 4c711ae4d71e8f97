CONSTANTS
    r1 = r1
    r2 = r2
    None = None
    Req = {r1, r2}
    First = r1
    Uploads = {}
    Limits = {1}
    MaxPending = 1
    CmdCap = 1
    FrameKinds = {"settings", "headers"}
SPECIFICATION Spec
SYMMETRY Symmetry
CHECK_DEADLOCK FALSE
INVARIANT
    CancelReleasesPermit
