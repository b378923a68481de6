SPECIFICATION Spec
CONSTANTS
  a = a
  b = b
  Workers <- MCOne
  Mailed <- MCOne
  Addressed = {}
  MaxMail = 1
  MaxStops = 1
  MaxInputs = 0
  MaxHandoffs = 0
  MaxDrops = 0
  Failing <- MCOne
  Races <- MCRaces
PROPERTY ShutdownJoins
CHECK_DEADLOCK FALSE
