CONSTANTS
    Formats = {txt, img}
    Images = {img}
    Windows = 1
    GuestToClient = TRUE
    ClientToGuest = TRUE
    MaxPaste = 2
    MaxAsk = 2
    MaxCopy = 1
SPECIFICATION Spec
PROPERTIES
    WaitEndsByOwnAnswer
    OnlyNestingCrossesAnswers
    MainThreadReturns
    EveryAskAnswered
