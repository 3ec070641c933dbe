CONSTANTS
    Msg = {m1, m2, m3}
    NoMsg = NoMsg
    Capacity = 3
    Width = 3
SPECIFICATION Spec
INVARIANTS
    TypeOK
PROPERTIES
    FifoSpec
