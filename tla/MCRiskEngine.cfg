CONSTANTS
  N = 6
  Locked = {4}
  Swing = {5, 6}
  Levered = {1, 2}
  Stocks = {3}
  GrossMax = 14
  HardMax = 16
  DeriskTo = 12
  NetMin <- FloorOfNet
  NetMax = 9
  ShortMax = 5
  MarginMax = 21
  VolMax = 17
  MaxDeviations = 2
  MinShare = 3
  Floor = 2
  IncreaseMax = 6
  TurnoverLeft = 8
  CycleCost = 12
  MonthLeft = 10
  MonthVarLeft = 8
  CarryMax = 8
  MaxLegs = 2
  MaxLegsTotal = 3
  Unit <- ThreeUnits
  Groups <- TwoGroups
  LineCap <- Caps
  Sigma <- Sigmas
  PerSide <- Sides
  Fee <- Fees
  Carried <- Carries
  Step <- Steps
  Cases <- SomeCases
SPECIFICATION RiskSpec
CHECK_DEADLOCK FALSE
INVARIANTS
  EveryCheckPasses
  EntriesCostNothing
  OnlyDerisks
