CONSTANTS
    Legs <- ExitLegs
    Kind <- ExitKind
    Swing <- ExitSwing
    Stock <- ExitStock
    Deps <- ExitDeps
    MaxAttempts = 3
    CancelVerified = TRUE
    NoLeg = NoLeg
SPECIFICATION FairSpec
CHECK_DEADLOCK FALSE
INVARIANTS
    CoreStoppedByCoreOrHeldClose
PROPERTIES
    EveryRunEnds
    ImplementsOrderBook
