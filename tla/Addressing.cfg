SPECIFICATION Spec
CONSTANTS
    n1 = n1
    emma = emma
    Emma = Emma
    bob = bob
    u1 = u1
    u2 = u2
    Nodes = {n1}
    Names = {emma, Emma, bob}
    Typed = {n1, emma, bob}
    Fold <- FoldDef
    TTLs = {60}
    None = None
    Shells = {u1}
    Screens = {u2}
INVARIANTS
    TypeOK
    
PROPERTIES
    ImplementsTable
    TTLByCommandOnly
CHECK_DEADLOCK FALSE
