SPECIFICATION Spec
CONSTANTS
    Sessions = {s1, s2}
    NoSession = NoSession
    MaxConnTry = 2
INVARIANTS
    NoEarlyReturn
PROPERTIES
    ImplementsWindows
    DisconnectFollowsConnect
    AbortEndsSession
