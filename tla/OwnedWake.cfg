SPECIFICATION Spec
CONSTANTS
  a = a
  b = b
  Workers <- MCOne
  Mailed <- MCOne
  Addressed = {}
  MaxMail = 2
  MaxStops = 0
  MaxInputs = 0
  MaxHandoffs = 0
  MaxDrops = 0
  Failing = {}
  Races = {}
INVARIANT ObligationKept
