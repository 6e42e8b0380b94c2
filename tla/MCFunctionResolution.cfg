CONSTANTS
    None = None
    InArchive = FALSE
    MaxDepth = 3
    Node <- Topology
    Uses <- PlainUses
SPECIFICATION Spec
INVARIANTS ActualValues OutputsDeclared
CHECK_DEADLOCK FALSE
