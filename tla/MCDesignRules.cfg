CONSTANTS
    None = None
    Jobs <- AllSpaces
    Stack <- SixLayers
    Materials <- AllMaterials
    Clocks = {"ck"}
    Reach = 3
SPECIFICATION Spec
\* The check ends.
CHECK_DEADLOCK FALSE
INVARIANTS
    PoursKept
    HolesKept
    PairRulesKept
    JunctionsRated
    SoundIsNotRefused
