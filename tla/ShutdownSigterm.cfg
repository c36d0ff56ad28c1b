SPECIFICATION Spec
CONSTANTS
    Msgs = {m1, m2}
    m1 = m1
    m2 = m2
    NoMsg = NoMsg
    MaxErrors = 0
INVARIANTS
    NothingUnrecorded
CHECK_DEADLOCK FALSE
