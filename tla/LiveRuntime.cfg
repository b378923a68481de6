SPECIFICATION FairSpec
CONSTANTS
  c1 = c1
  Calls = {c1}
  MaxTexts = 2
  SkillTexts = {2}
  Capacity = 1
  MaxSteps = 2
  MaxSummaries = 1
  Faulty = TRUE
  Races = {}
INVARIANTS  StartsDurable TurnOwned   CleanShutdown
PROPERTIES StopHolds  ShutdownEnds
CHECK_DEADLOCK FALSE
