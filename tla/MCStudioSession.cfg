SPECIFICATION Spec
CONSTANTS
    t1 = t1
    Turn = {t1}
    NoTurn = NoTurn
    Profile = {"base", "node"}
    MaxGuests = 2
    MaxServers = 2
    MaxEvents = 3
INVARIANTS TurnsFollowed KernelsTracked
PROPERTIES StopEnds
CHECK_DEADLOCK FALSE
