CONSTANTS
    None = None
    Word <- Words
    Lower <- Lowers
    Vnfs <- PlainVnfs
SPECIFICATION Spec
INVARIANTS MainClosed
CHECK_DEADLOCK FALSE
