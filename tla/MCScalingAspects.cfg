CONSTANTS
    None = None
    Word <- Words
    Lower <- Lowers
    Vnfs <- PlainVnfs
SPECIFICATION Spec
INVARIANTS EachOnce TemplatesClosed LevelsReachSizes AffinityHolds
CHECK_DEADLOCK FALSE
