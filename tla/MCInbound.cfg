SPECIFICATION FairSpec
CONSTANTS
    m1 = m1
    m2 = m2
    n1 = n1
    n2 = n2
    c1 = c1
    c2 = c2
    Msgs = {m1, m2}
    Nodes = {n1, n2}
    Clients = {c1, c2}
    None = None
    From <- FromDef
    Toml <- TomlDef
    TTLs <- TTLsDef
    GlobalTTL = 1
    MaxTime = 2
INVARIANTS
    TypeOK
PROPERTIES
    ImplementsRetention
    ExpiredIsDeleted
CHECK_DEADLOCK FALSE
