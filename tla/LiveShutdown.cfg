\* The instance of LiveRuntime.cfg: shutdown over a request that is still being recorded.
SPECIFICATION Spec
CONSTANTS
  c1 = c1
  Calls = {c1}
  MaxTexts = 2
  SkillTexts = {2}
  Capacity = 1
  MaxSteps = 2
  MaxSummaries = 1
  Faulty = TRUE
  Races = {}
INVARIANT ShutdownSettles
CHECK_DEADLOCK FALSE
