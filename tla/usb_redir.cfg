SPECIFICATION Spec
CONSTANTS
    Devices = {d1, d2}
INVARIANTS
    DialogShowsTasks
    WorkerReleasesAll
PROPERTIES
    LoweredFlagEnds
    QuitEnds
