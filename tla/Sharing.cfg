SPECIFICATION SharingSpec
CONSTANTS
    Requests = {r1, r2, r3, r4}
    None = None
    Callers = {c1, c2}
    Names = {n1, n2}
    MaxFlights = 3
    MaxEntries = 1
    CanStop = TRUE
CHECK_DEADLOCK FALSE
INVARIANTS
    MarkerSound
    EntryHasTask
PROPERTIES
    ListenersWoken
    LookupSpec
    CallersAnswered
