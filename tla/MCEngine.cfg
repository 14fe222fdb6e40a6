SPECIFICATION Spec
CONSTANTS
    gps = gps
    net = net
    s1 = s1
    s2 = s2
    ProviderOrder <- TwoProviders
    SatelliteProviders = {gps}
    KindOrder <- TwoKinds
    Sessions = {s1, s2}
    MaxStarts = 2
INVARIANTS
    ServiceMirrorsEngine
    OffDisablesProviders
    SatellitesOffDisablesProviders
    ImplCountsRight
    RunsIffRequested
PROPERTIES
    RequestsEnd
