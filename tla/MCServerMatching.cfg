CONSTANTS
    None = None
    Queries <- AllQueries
    Hosts <- PlainHosts
SPECIFICATION Spec
INVARIANTS MoreForMore ChoiceFits
CHECK_DEADLOCK FALSE
