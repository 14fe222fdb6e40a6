SPECIFICATION Spec
CONSTANTS
    Kinds = {"position", "heading"}
    MaxCalls = 4
    MaxUpdates = 1
    MaxServiceDown = 2
    MaxProviderDown = 1
CHECK_DEADLOCK FALSE
INVARIANTS
    DeliversWhatIsWanted
    RequestsLeftBehind
PROPERTIES
    WantedIsDelivered
