SPECIFICATION Spec
CONSTANTS
    Threads = {t1, t2}
    Keys = {k1, k2}
    Limit = 1
    TicksPerSec = 2
    MinuteSec = 2
    TtlSec = 4
    MaxTime = 12
    MaxRequests = 3
SYMMETRY Symmetry
CHECK_DEADLOCK FALSE
INVARIANT TypeOK
INVARIANT WindowLimit
INVARIANT RefusedOnlyBeyondLimit
INVARIANT BucketsLapse
PROPERTY RetryAfterSuffices
