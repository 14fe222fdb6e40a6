SPECIFICATION Spec
CONSTANTS
    Clients = {c1, c2}
    App <- OneApp
    Kinds = {"position"}
    MaxCalls = 4
    MaxRestarts = 1
CHECK_DEADLOCK FALSE
INVARIANTS
    StatusAgrees
    ListedAppsHaveSessions
PROPERTIES
    ImplementsLeases
    SessionsEnd
