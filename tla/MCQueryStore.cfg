SPECIFICATION FairSpec
CONSTANTS
    File = {f1}
    GCell = {c1, c2}
    c1 = c1
    Query <- Queries
    Edge <- StageEdge
    MaxTime = 4
INVARIANTS FreshMemo AnswersAgree
PROPERTIES MarkStaleReturns ImplementsMemo
CHECK_DEADLOCK FALSE
