SPECIFICATION FairSpec
CONSTANTS
    m1 = m1
    m2 = m2
    n1 = n1
    n2 = n2
    c1 = c1
    c2 = c2
    Msgs = {m1, m2}
    Nodes = {n1, n2}
    Clients = {c1}
    None = None
    From <- FromOneDef
    Toml <- TomlDef
    TTLs <- TTLsDef
    GlobalTTL = 1
    MaxTime = 2
PROPERTIES
    HeardIsStored
CHECK_DEADLOCK FALSE
