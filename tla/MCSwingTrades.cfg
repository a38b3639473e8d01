\* Two positions, two decisions: an entry and an exit, or an open trade and its close.
CONSTANTS
  Positions = {1, 2}
  Fills <- OnePosition
  Begun <- Beginnings
  MaxDecisions = 2
SPECIFICATION Spec
CHECK_DEADLOCK FALSE
INVARIANTS
  
  OverExitSettles
PROPERTIES
  ClosesWhenGone
  
