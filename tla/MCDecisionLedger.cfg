CONSTANTS
    Decisions = {d1, d2}
    None = None
    MaxTime = 1
SPECIFICATION Spec
SYMMETRY Symmetry
CHECK_DEADLOCK FALSE
INVARIANTS
    AtMostOnePending
PROPERTIES
    NoRevisit
    ImplementsSlot
