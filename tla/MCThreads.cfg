SPECIFICATION MCSpec
CONSTANTS
    A = A
    B = B
    r1 = r1
    r2 = r2
    r3 = r3
    RunId = {r1, r2, r3}
    Folder = {A, B}
    None = None
    MaxRuns = 3
    Histories <- MCHistories
    MaxOps = 2
    Replies <- MCReplies
    Calls <- MCCalls
    maxSteps = 2
    MaxTurns = 3
INVARIANTS HistoryTrue NothingForgotten RequestsTrue
PROPERTIES DrivenKept
CHECK_DEADLOCK FALSE
