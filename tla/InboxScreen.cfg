SPECIFICATION FairSpec
CONSTANTS
    Ids <- IdsDef
    Inbound <- InboundDef
    Limit = 2
    HistoryLimit = 2
    MaxFailures = 1
INVARIANTS
    TypeOK
    CursorInTable
    SeenIsShown
PROPERTIES
    DeletesWhatWasShown
    NewArrivalShown
    UnreadFollows
