SPECIFICATION Spec
CONSTANTS
    Certs = {c1}
    ValidTos = {1, 2}
    Requests = {s1}
    Scans = {p1}
    Daily = {p1}
    HrActions = {"valid_to"}
    Channels = {"email"}
    Window = 1
    SecondAfter = 1
    EscalateAfter = 1
    Horizon = 2
INVARIANTS
    OpenCaseIsCurrent
\* Without requests and scans the cases rest.
CHECK_DEADLOCK FALSE
