SPECIFICATION FairSpec
CONSTANTS
    Certs = {c1}
    ValidTos = {1, 2}
    Requests = {s1}
    Scans = {p1}
    Daily = {p1}
    HrActions = {"archive", "replace", "leave", "return", "process", "renewed", "no_action", "dispatch"}
    Channels = {"email"}
    Window = 1
    SecondAfter = 1
    EscalateAfter = 1
    Horizon = 2
PROPERTIES
    CasesAreOpened
    StagesComeUp
    StaleCasesEnd
\* Without requests and scans the cases rest.
CHECK_DEADLOCK FALSE
