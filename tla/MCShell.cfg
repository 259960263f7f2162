SPECIFICATION MCSpec
CONSTANTS
    None = None
    l1 = l1
    Line = {l1}
    MaxPid = 4
    MAX_SETTLED_RECORDS = 1
    MaxChunks = 2
    Program <- MCProgram
    Reading <- MCReading
    Hanging <- MCHanging
    Script <- MCScript
    Signal = {"SIGTERM"}
    RESERVED = {"tmp"}
    Executions = {1, 2}
    Files <- MCFiles
    AppFiles <- MCAppFiles
    Data = {"x", "y"}
    Bundled = {"wheel"}
    Prebuilt = {"prebuilt", "micropip"}
    Pure = {"pure"}
    Requirements <- MCRequirements
    MaxEdits = 2
    MaxRequests = 2
INVARIANTS Retention NoOrphan OutputKept PythonTrue
PROPERTIES SettledForGood KeepsContract LineEnds PythonRuns
