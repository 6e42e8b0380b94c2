CONSTANTS
    NumNodes = 5
    MaxRequirements = 2
    NoResource = NoResource
    Absent = Absent
    Templates <- Networks
SPECIFICATION PassSpec
INVARIANTS
    PortsSorted
    ServersKeepPorts
    OutputAcyclic
    OutputClosed
PROPERTIES
    DependenciesHandledFirst
CHECK_DEADLOCK FALSE
