CONSTANTS
    NumNodes = 4
    MaxRequirements = 2
    NoResource = NoResource
    Absent = Absent
    Templates <- Stacks
SPECIFICATION StackSpec
INVARIANTS
    DeployedOnHost
    ConnectRunsOnEnd
    RolesBeforeFirstDeploy
PROPERTIES
    HostIsStable
    ImplementsOrchestration
    StackCompletes
CHECK_DEADLOCK FALSE
