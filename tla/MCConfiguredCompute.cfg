CONSTANTS
    NumNodes = 3
    MaxRequirements = 2
    NoResource = NoResource
    Absent = Absent
    Templates <- ComputeEnds
SPECIFICATION Spec
INVARIANT ConnectRunsOnEnd
CHECK_DEADLOCK FALSE
