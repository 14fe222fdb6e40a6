SPECIFICATION Spec
CONSTANTS
    Providers = {p1, p2}
    NoProvider = none
    Sessions = {s1}
    Accuracies = {1, 2}
    Cutoff = 1
    Limit = 2
    Lag = 1
    Satellites <- OneVehicle
    Readings <- ThreeReadings
    MaxTime = 4
    MaxReports = 3
SYMMETRY ProviderSymmetry
CHECK_DEADLOCK FALSE
INVARIANTS
    ReferenceIsRecent
    NeverPublishesDefault
    SelectionIsRecent
    ClientConverges
    SatellitesConverge
