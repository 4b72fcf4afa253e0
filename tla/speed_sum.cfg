CONSTANTS
    Addresses = {a1}
    NoAddress = NoAddress
    MaxBytes = 12
    MaxChannels = 2
    Chunks = {6}
    MaxArrived = 12
    Modulus = 64
SPECIFICATION Spec
INVARIANT ChannelsAreSummed
