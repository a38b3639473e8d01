CONSTANTS
  Core = {1, 2, 3}
  Swing = {4, 5}
  MaxLegs = 4
  MaxLegsTotal = 5
  MaxSwingOpens = 1
  MaxTranches = 3
  SwingLive = TRUE
  DriftMax = 1
  GrossMax = 9
  Moves = 2
  Books <- SomeBooks
  Wants <- SomeWants
SPECIFICATION ApprovalSpec
CHECK_DEADLOCK FALSE
INVARIANTS
  ReductionsFirst
  TrimStaysTrim
  NoLineOvershoots
  GrossInside
