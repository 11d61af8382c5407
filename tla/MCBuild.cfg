CONSTANTS
    None = None
    Conductive = {"cu", "al", "w"}
    Enclosure = 1
    Jobs <- AllJobs
SPECIFICATION Spec
\* The command ends.
CHECK_DEADLOCK FALSE
INVARIANTS
    ParsedAsWritten
    VerdictIsRight
    OnlyLetThrough
    WholeSpaces
    NoFalseAlarm
    PassMeansContinuousWhenTight
PROPERTY TurnsAdvance
