CONSTANTS
    NumNodes = 3
    MaxRequirements = 2
    NoResource = NoResource
    Absent = Absent
    Templates <- AnyTemplates
SPECIFICATION Spec
INVARIANTS
    TypeOK
    NoCircularDependency
    NoDanglingReference
PROPERTY Terminates
CHECK_DEADLOCK FALSE
