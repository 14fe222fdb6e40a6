SPECIFICATION CellSpec
CONSTANTS
    Needed = TRUE
    AlsoGsm = FALSE
    MaxChanges = 6
CHECK_DEADLOCK FALSE
INVARIANTS
    CompleteOnceTouched
PROPERTIES
    SilentCellExpires
