SPECIFICATION Spec
CONSTANTS
  a = a
  b = b
  Workers <- MCWorkers
  Mailed <- MCOne
  Addressed <- MCOne
  MaxMail = 2
  MaxStops = 1
  MaxInputs = 2
  MaxHandoffs = 1
  MaxDrops = 1
  Failing <- MCOne
  Races = {}
INVARIANTS
  HandoffQuiescent
  StopHolds
  AuthorityHeld
  InputsReported
PROPERTIES
  UserWorkSpared
  Settles
