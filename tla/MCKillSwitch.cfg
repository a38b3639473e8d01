CONSTANTS
    Equities <- Levels
    Drags <- OneFee
    WarnAt = 80
    HaltAt = 75
    ConfirmReads = 2
    Gap = 1
    Window = 1
    Keep = 2
    Delay = 1
    Life = 1
SPECIFICATION Spec
CHECK_DEADLOCK FALSE
PROPERTIES
    OnlyResumeReleases
    HaltsWhenConfirmed
    OffersSuitTheSwitch
