SPECIFICATION Spec
CONSTANTS
    Providers = {p1}
    NoProvider = none
    Sessions = {s1, s2}
    Accuracies = {1}
    Cutoff = 1
    Limit = 2
    Lag = 0
    Satellites = {}
    Readings = {}
    MaxTime = 1
    MaxReports = 1
CHECK_DEADLOCK FALSE
PROPERTIES
    DisabledGetsNothing
