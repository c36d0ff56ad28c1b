SPECIFICATION FairSpec
CONSTANTS
    Msgs = {m1, m2}
    m1 = m1
    m2 = m2
    NoMsg = NoMsg
    MaxErrors = 2
INVARIANTS
    TypeOK
    InFlightRecorded
    NoCircularWait
PROPERTIES
    StopReturns
    CallerIsAnswered
    DeadShowsOffline
    WorkingShowsOnline
    ImplementsCalls
CHECK_DEADLOCK FALSE
