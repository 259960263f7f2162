SPECIFICATION MCSpec
CONSTANTS
    a = a
    b = b
    p1 = p1
    p2 = p2
    Port = {p1, p2}
    Nowhere = Nowhere
    Pid = {1, 2, 3, 4, 5, 6}
    Runs <- MCRuns
    Serves <- MCServes
    Name = {a, b}
    Depth = 2
    Bases <- MCBases
    NChild = 2
    MaxOps = 3
    MaxEdits = 1
INVARIANTS MergedWhole LastActShown
PROPERTIES ToolsTruthful
CHECK_DEADLOCK FALSE
