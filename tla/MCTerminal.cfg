SPECIFICATION MCSpec
CONSTANTS
    Cols = 3
    Prompt <- MCPrompt
    Glyph = {"a", "W", " "}
    Wide = {"W"}
    Space = " "
    Slash = "/"
    Candidates <- MCCandidates
    Pastes <- MCPastes
    Submitted <- MCSubmitted
    MaxLine = 3
    MaxHistory = 2
    MaxAhead = 3
    MaxTyped = 5
    Counted = {"a", "enter", "left", "tab"}
    t1 = t1
    t2 = t2
    Terminal = {t1, t2}
    Ports = {1, 2}
    None = None
    RingSlots = 1
    ChunkKeys = 1
    MaxKeys = 3
    MaxOutput = 1
INVARIANTS LineTrue PtyTrue
PROPERTY Settles
CHECK_DEADLOCK FALSE
