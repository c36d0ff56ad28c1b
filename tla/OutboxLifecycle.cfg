SPECIFICATION FairSpec
CONSTANTS
    Msgs = {m1}
    Packets = {p1, p2}
    NoMsg = NoMsg
    NoPacket = NoPacket
    NoReason = NoReason
    MaxRetries = 1
    MaxFaults = 2
    Deletable <- Settled
    Links = {TRUE, FALSE}
    Timely = TRUE
INVARIANTS
    BooksAgree
PROPERTIES
    ImplementsLifecycle
    QueuedIsSettled
CHECK_DEADLOCK FALSE
