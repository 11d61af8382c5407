SPECIFICATION FairSpec
CONSTANTS
    File = {main, a, b, c}
    Main = main
    a = a
    b = b
    c = c
    NoFile = nofile
    Name = {x, y, m}
    m = m
    x = x
    y = y
    Kind = {"function", "device", "space"}
    Disks <- SomeDisks
INVARIANTS BuiltIsAcyclic FirstCycleIsReal ImportedNamesResolve TablesAgree
PROPERTY ResolutionEnds
CHECK_DEADLOCK FALSE
