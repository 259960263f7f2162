SPECIFICATION MCSpec
CONSTANTS
    p1 = p1
    p2 = p2
    q1 = q1
    q2 = q2
    Page = {p1, p2}
    Req = {q1, q2}
    Tunnel = {t1}
    t1 = t1
    None = None
    Urls <- MCUrls
    Contexts <- MCContexts
    Lines <- MCLines
    MaxPerPort = 1
    MaxKernels = 2
    MaxFrames = 2
INVARIANT Delivery
PROPERTY Settles
CHECK_DEADLOCK FALSE
