SPECIFICATION Spec
CONSTANTS
    Tokens = {t1, t2}
    NoToken = NoToken
    Reqs = {r1}
    MaxAddresses = 2
    MaxPending = 1
PROPERTIES
    ImplementsWindows
    WsFollowsLogin
