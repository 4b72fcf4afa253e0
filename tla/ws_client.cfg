SPECIFICATION Spec
CONSTANTS
    Conns = {c1, c2, c3, c4}
    NoConn = NoConn
INVARIANTS
    NothingPendingWhenStopped
    OnlineIsBacked
PROPERTIES
    ImplementsLink
    OnlyLateCallbackDoubles
