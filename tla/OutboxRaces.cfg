SPECIFICATION FairSpec
CONSTANTS
    Msgs = {m1}
    Packets = {p1, p2}
    NoMsg = NoMsg
    NoPacket = NoPacket
    NoReason = NoReason
    MaxRetries = 1
    MaxFaults = 1
    Deletable <- AnyState
    Links = {TRUE}
    Timely = FALSE
INVARIANTS
    TypeOK
    AckNotLost
    SettledOnce
    AckedImpliesConfirmed
    RetryBudget
PROPERTIES
    SentIsSettled
CHECK_DEADLOCK FALSE
