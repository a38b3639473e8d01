CONSTANTS
  Universe = {"a", "b"}
  Replicates = {1, 2, 3}
  MaxDeviations = 3
  Ladder = 2
  Retries = 1
  Markets <- SomeMarkets
  NewsReplies <- SomeNews
  MacroReplies <- SomeMacro
  Decisions <- SomeDecisions
SPECIFICATION CouncilSpec
CHECK_DEADLOCK FALSE
INVARIANTS
  AnswersFitBudget
  CutNeedsShock
  NoLoneMove
