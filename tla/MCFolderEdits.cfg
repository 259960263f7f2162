SPECIFICATION MCSpec
CONSTANTS
    A = A
    B = B
    a1 = a1
    a2 = a2
    b1 = b1
    Folder = {A, B}
    File = {f1}
    DataOf <- MCDataOf
    NoFile = NoFile
    NoFolder = NoFolder
    Empty = Empty
    f1 = f1
    Op = {1, 2}
    MaxTime = 20
    MaxEvents = 4
INVARIANT EditsKept
CHECK_DEADLOCK FALSE
