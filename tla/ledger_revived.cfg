SPECIFICATION Spec
CONSTANTS
    Certs = {1, 2}
    Requests = {1, 2}
    Casts <- TwoEditors
    Scans = {}
    Horizon = 1
    Window = 1
PROPERTIES
    ReplacedIsTerminal
\* Without a new request or another day the ledger rests.
CHECK_DEADLOCK FALSE
