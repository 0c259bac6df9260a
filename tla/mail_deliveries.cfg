SPECIFICATION MCSpec
CONSTANTS
    m1 = m1
    m2 = m2
    d1 = d1
    d2 = d2
    q1 = q1
    q2 = q2
    Messages = {m1, m2}
    Requests = {q1, q2}
    Digests = {d1, d2}
    MaxNow = 2
    MaxDeliveries = 3
    MaxFailures = 1
    None = None
INVARIANTS
    AckedIsKept
    ReadAsWhatItIs
    TokensAreUsedOnce
CHECK_DEADLOCK FALSE
