SPECIFICATION Spec
CONSTANTS
    Threads = {t1, t2}
    Wifis = {w1}
    Cells = {c1}
    Radios = {gsm, lte}
    Fields = 2
    MaxReports = 2
    MaxChanges = 3
CHECK_DEADLOCK FALSE
INVARIANTS
    RequestsAreClean
    WorkerFollowsSetting
PROPERTIES
    PostedIsSubmitted
