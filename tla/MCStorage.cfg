SPECIFICATION Spec
CONSTANTS
    None = None
    Malformed = Malformed
INVARIANTS TreesKept FilesTrue PagesReached ReviewTrue
CHECK_DEADLOCK FALSE
