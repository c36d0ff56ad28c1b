SPECIFICATION FairSpec
CONSTANTS
    Handles = {h1, h2, h3}
    h1 = h1
    h2 = h2
    h3 = h3
    NoHandle = NoHandle
    QueueLimit = 2
    MaxUnplugs = 1
INVARIANTS
    TypeOK
    ConnectedMeansWorking
    NoLeakedPort
PROPERTIES
    ControlServed
    EjectReleases
    EjectedReconnects
