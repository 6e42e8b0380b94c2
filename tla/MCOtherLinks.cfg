CONSTANTS
    None = None
    Word <- Words
    Lower <- Lowers
    Vnfs <- OtherLinks
SPECIFICATION Spec
INVARIANTS MainClosed
CHECK_DEADLOCK FALSE
