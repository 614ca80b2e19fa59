SPECIFICATION Spec
CONSTANTS
    Employees = {1, 2}
    Documents = {1}
    Certificates = {1, 2}
    Types = {1, 2}
    Months = {1, 2}
    Tries = {1, 2}
    Departments = {"ops", "devops"}
    Unset = "unset"
    PartOf <- Contains
    Starts <- FourStarts
    Offices <- Names
    Facts <- ThreeFacts
    Derived <- NowFound
    Selections <- Lines
    MaxCommits = 2
    MaxLate = 1
INVARIANTS
    ConsoleTypeOK
    DrilldownAgrees
    ReportAddsUp
    QuietVerdict
    
\* The script is run once.
CHECK_DEADLOCK FALSE
