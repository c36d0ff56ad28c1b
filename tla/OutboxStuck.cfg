SPECIFICATION FairSpec
CONSTANTS
    Msgs = {m1}
    Packets = {p1, p2}
    NoMsg = NoMsg
    NoPacket = NoPacket
    NoReason = NoReason
    MaxRetries = 1
    MaxFaults = 0
    Deletable <- AnyState
    Links = {TRUE}
    Timely = FALSE
PROPERTIES
    SentIsRetransmitted
CHECK_DEADLOCK FALSE
