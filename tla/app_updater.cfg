CONSTANTS
    Checks = {c1, c2}
    Updates = {u1, u2}
    MaxIdles = 2
    MaxBoxes = 1
SPECIFICATION UpdaterSpec
INVARIANTS
    UpdaterTypeOK
    PasswordForgotten
    ButtonFollowsUpdate
PROPERTIES
    WindowIsTold
