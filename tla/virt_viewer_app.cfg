CONSTANTS
    Vms = {v1, v2}
    NoVm = NoVm
    MaxConnTry = 3
    MaxChannels = 3
SPECIFICATION Spec
INVARIANTS
    OnlyPendingTryOutlivesLogin
    ShowsRequestedVm
    BrokerKnowsConnection
PROPERTIES
    ImplementsWindows
    EveryStartTakes
    StartSettles
    BrokenSessionEnds
