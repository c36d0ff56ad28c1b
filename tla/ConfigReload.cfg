SPECIFICATION FairSpec
CONSTANTS
    t1 = t1
    t2 = t2
    p1 = p1
    Texts = {t1, t2}
    None = None
    PortFlag = None
    Port <- PortDef
    MaxTime = 2
INVARIANTS
    TypeOK
    StartupBound
PROPERTIES
    NewerIsApplied
CHECK_DEADLOCK FALSE
