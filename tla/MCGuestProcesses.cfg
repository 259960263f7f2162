SPECIFICATION Spec
CONSTANTS
    c1 = c1
    q1 = q1
    q2 = q2
    NoCall = NoCall
    Call = {c1}
    Control = {q1, q2}
    Stream = {"out", "err"}
    MaxChunks = 1
INVARIANTS OutputComplete ListedTruly NothingPending
PROPERTIES AllSettle
CHECK_DEADLOCK FALSE
