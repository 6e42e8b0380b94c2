CONSTANTS
    NumNodes = 4
    MaxRequirements = 2
    NoResource = NoResource
    Absent = Absent
    Templates <- BusyServer
SPECIFICATION PassSpec
INVARIANT OutputAcyclic
CHECK_DEADLOCK FALSE
