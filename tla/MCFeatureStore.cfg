SPECIFICATION Spec
CONSTANTS
    t1 = t1
    t2 = t2
    u1 = u1
    d1 = d1
    d2 = d2
    Tx = {t1, t2}
    Users = {u1, u2}
    DeviceIds = {d1, d2}
    UserOf <- MCUserOf
    DeviceOf <- MCDeviceOf
    HistoryLen = 2
    Windows <- MCWindows
    Workers = {w1, w2}
    NoTx = NoTx
    TtlSec = 2
INVARIANT TypeOK
INVARIANT NotInOwnHistory
INVARIANT ReadsFitTogether
INVARIANT KeysExpireTogether
PROPERTY UnracedMatchesReplay
PROPERTY ImplementsReplay
