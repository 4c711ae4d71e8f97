CONSTANTS
    None = None
    Key = {k1}
    Conn = {c1, c2, c3}
    MaxTotal = 2
    MaxPerKey = 1
    UseLegacy = TRUE
SPECIFICATION FairSpec
CHECK_DEADLOCK TRUE
INVARIANTS
    Accounting
    Exclusivity
PROPERTIES
    SlotsReturn
    ReserveAnswers
