CONSTANTS
    Word <- Words
    Topologies <- PlainTopologies
SPECIFICATION Spec
INVARIANTS OutputClosed PoliciesKept MergesAlike
CHECK_DEADLOCK FALSE
