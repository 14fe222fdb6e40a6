SPECIFICATION Spec
CONSTANTS
    gps = gps
    net = net
    s1 = s1
    s2 = s2
    ProviderOrder <- OneProvider
    SatelliteProviders = {gps}
    KindOrder <- TwoKinds
    Sessions = {s1}
    MaxStarts = 2
INVARIANTS
    StoppedWithLastObserver
