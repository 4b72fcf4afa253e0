SPECIFICATION Spec
CONSTANTS
    Tokens = {t1, t2}
    NoToken = NoToken
    Reqs = {r1, r2}
    MaxAddresses = 2
    MaxPending = 1
SYMMETRY Symmetry
INVARIANTS
    NeverWindowless
PROPERTIES
    OnlyTimerOutlivesLogin
