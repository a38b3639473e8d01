CONSTANTS
    Legs <- TwoLegs
    Opens <- CloseAndStock
    Swing <- NoFlag
    Stock <- SecondFlag
SPECIFICATION AnsweredSpec
INVARIANTS
    HeldHoldsItsBook
    
    BrokenFillBlocksAtOnce
PROPERTIES
    EveryHoldEnds
CHECK_DEADLOCK FALSE
