SPECIFICATION Spec
CONSTANTS
    Devices = {d1}
PROPERTIES
    CancellingEnds
