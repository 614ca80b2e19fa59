SPECIFICATION FairSpec
CONSTANTS
    Employees = {1, 2, 3}
    Types = {1, 2}
    Requests = {1, 2, 3}
    Casts <- AllCasts
INVARIANTS
    MasterTypeOK
    TwoDefaultsNeedAnIdleType
PROPERTIES
    ImportIsAWhole
    LeaverCaseClosed
    EveryRequestEnds
\* When every request has ended the process rests.
CHECK_DEADLOCK FALSE
