SPECIFICATION FairSpec
CONSTANTS
    Certs = {1, 2, 3}
    Requests = {1, 2}
    Casts <- RegisterOrAlone
    Scans = {p1}
    Horizon = 2
    Window = 1
INVARIANTS
    LedgerTypeOK
    CoverageKept
    OneLiveRecord
    LoneRequestFitsIndex
PROPERTIES
    ReplacedIsTerminal
    LaterReplacesEarlier
    ExpiryIsNoticed
\* Without a new request or another day the ledger rests.
CHECK_DEADLOCK FALSE
