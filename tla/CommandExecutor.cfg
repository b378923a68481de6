SPECIFICATION FairSpec
CONSTANTS
  shell = shell
  child = child
  Procs <- MCProcs
  Root = shell
  MaxFailures = 1
INVARIANTS
  NothingLeft
  CauseHolds
PROPERTIES
  Returns
CHECK_DEADLOCK FALSE
