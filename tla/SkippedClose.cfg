CONSTANTS
    Legs <- ExitLegs
    Kind <- ExitKind
    Swing <- ExitSwing
    Stock <- ExitStock
    Deps <- ExitDeps
    MaxAttempts = 1
    CancelVerified = TRUE
    NoLeg = NoLeg
SPECIFICATION Spec
CHECK_DEADLOCK FALSE
INVARIANTS
    SkippedCloseNotExecuted
