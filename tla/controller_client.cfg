CONSTANTS
    Slots = {s1, s2}
    MaxLogins = 2
    Protocols = {"direct", "rdp"}
SPECIFICATION Spec
INVARIANTS
    OnlyEscapedStartShowsSelector
    ListBelongsToLogin
PROPERTIES
    StartBelongsToLogin
    StartMatchesClick
    ImplementsWindows
