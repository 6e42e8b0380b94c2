CONSTANTS
    None = None
    Word <- Words
    Lower <- Lowers
    Vnfs <- ScaledAffinity
SPECIFICATION Spec
INVARIANTS AffinityHolds
CHECK_DEADLOCK FALSE
