CONSTANTS
    Lines = {core}
    Satellite = {}
    LastSlot = 2
    Tickers = {a, b}
    Pauses = {s15}
    MaxOpen = 1
    MaxNew = 1
    Week = 2
SPECIFICATION BookSpec
SYMMETRY Symmetry
CHECK_DEADLOCK FALSE
INVARIANTS
    OfferIsComplete
    BookFits
    NoOfferUnderPause
PROPERTIES
    EvidenceWaits
