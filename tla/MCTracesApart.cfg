CONSTANTS
    None = None
    Jobs <- TracesAlone
    Stack <- SixLayers
    Materials <- AllMaterials
    Clocks = {"ck"}
    Reach = 3
SPECIFICATION Spec
\* The check ends.
CHECK_DEADLOCK FALSE
INVARIANT
    TracesApart
