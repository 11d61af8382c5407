CONSTANTS
    None = None
    Conductive = {"cu", "al", "w"}
    Enclosure = 1
    Jobs <- MetalAlone
SPECIFICATION Spec
\* The command ends.
CHECK_DEADLOCK FALSE
INVARIANT PassMeansContinuous
