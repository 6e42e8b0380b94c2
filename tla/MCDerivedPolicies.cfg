CONSTANTS
    Type <- Types
    Ancestors <- Lineage
    Module <- Modules
    Location <- Place
    Contents <- AnyFault
    ToscaType <- Own
    Templates <- Usual
    BasePolicy <- BasePolicies
    Scaling <- ScalingTypes
    Cluster = "Cluster"
    MaxTranslations = 3
SPECIFICATION Spec
INVARIANTS ParametersGiven
CHECK_DEADLOCK FALSE
