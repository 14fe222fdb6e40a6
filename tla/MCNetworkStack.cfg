SPECIFICATION Spec
CONSTANTS
    Wifis = {"wlan0"}
    Wwans = {"wwan0"}
    Others = {}
    APs = {"ap1"}
    DeviceOf <- OneWifi
    MaxEvents = 4
    Statuses = {"registered", "error"}
CHECK_DEADLOCK FALSE
INVARIANTS
    VisibleNetworksAreCached
    CharacteristicsAreRight
PROPERTIES
    ComesToRest
