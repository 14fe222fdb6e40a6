SPECIFICATION QtSpec
CONSTANTS
    MaxCalls = 8
    MaxUpdates = 4
CHECK_DEADLOCK FALSE
INVARIANTS
    WantedUpdatesRun
PROPERTIES
    RequestIsAnswered
