CONSTANTS
    Legs <- MixedLegs
    Kind <- MixedKind
    Swing <- MixedSwing
    Stock <- MixedStock
    Deps <- MixedDeps
    MaxAttempts = 2
    CancelVerified = TRUE
    NoLeg = NoLeg
SPECIFICATION Spec
CHECK_DEADLOCK FALSE
INVARIANTS
    LedgerAdmitsOrders
    FundedOpens
    FreshFinalMeansResolved
    HoldsItsBook
PROPERTIES
    NothingSentInDoubt
