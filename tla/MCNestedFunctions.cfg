CONSTANTS
    Word <- Words
    Topologies <- PlainTopologies
SPECIFICATION Spec
INVARIANT FunctionsResolved
CHECK_DEADLOCK FALSE
