SPECIFICATION FairSpec
CONSTANTS
    Handles = {a1, a2}
    NoHandle = null
    NoThread = nobody
    Callers = {c1}
    Recoveries = {r1}
    HalThreads = {k1}
    NewMayFail = TRUE
INVARIANTS
    OneRegistrar
    NoOrphanHandle
    HandleNeverDangles
PROPERTIES
    SharedSectionIsStable
    RegistrationEnds
    SilenceReclaimed
    StartHonoured
