SPECIFICATION Spec
CONSTANTS
    Certs = {c1}
    ValidTos = {1, 3}
    Requests = {s1, s2}
    Scans = {p1}
    Daily = {}
    HrActions = {"valid_to", "replace", "dispatch", "process", "renewed"}
    Channels = {email, wecom}
    Window = 1
    SecondAfter = 1
    EscalateAfter = 1
    Horizon = 2
SYMMETRY Symmetry
INVARIANTS
    ReminderTypeOK
    OneNoticePerStage
    NoticesAreSpaced
PROPERTIES
    ClosedCaseStaysClosed
\* Without requests and scans the cases rest.
CHECK_DEADLOCK FALSE
