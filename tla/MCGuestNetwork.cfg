SPECIFICATION MCSpec
CONSTANTS
    r1 = r1
    w1 = w1
    Req = {r1}
    Sock = {w1}
    MaxBody = 2
    MaxFrames = 2
INVARIANTS StreamsDeliver SocketsDeliver CodecsExact WordsTrue
PROPERTIES Settles Redirected
CHECK_DEADLOCK FALSE
