SPECIFICATION FairSpec
CONSTANTS
    m1 = m1
    Modems = {m1}
    MaxEvents = 4
    MaxStarts = 2
CHECK_DEADLOCK FALSE
INVARIANTS
    TypeOK
    CellsHaveModems
PROPERTIES
    Settles
    KnownModemGetsCell
