CONSTANTS
    LastReport = 3
SPECIFICATION FairSpec
CHECK_DEADLOCK FALSE
INVARIANTS
    RiskAfterCommitment
    
    TicketRowCommitted
PROPERTIES
    ListedIsPublished
