CONSTANTS
    None = None
    Unbounded = Unbounded
    NoNode = NoNode
    Volumes = {"disk", "tape"}
    TypeOf <- TemplateTypes
    Topologies <- AllTopologies
    Declarations <- AllDeclarations
    Commands <- PlainCommands
    Tried = {0, 1, 2, 3, 4, 5, 6, 7, 8}
    Runs <- PlainRuns
SPECIFICATION CommandSpec
INVARIANTS
    ParametersFaithful
    DeployedWithValues
    VolumesAttached
    OwnRelationship
    NamesDistinct
    DeployedIsWritten
PROPERTIES
    StackThenOutput
CHECK_DEADLOCK FALSE
