CONSTANTS
    NumNodes = 3
    MaxRequirements = 2
    NoResource = NoResource
    Absent = Absent
    Templates <- AnyTemplates
SPECIFICATION Spec
INVARIANT RolesBeforeClassicDeploys
CHECK_DEADLOCK FALSE
