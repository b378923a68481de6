SPECIFICATION Spec
CONSTANTS
  p = p
  q = q
  t = t
  Processes <- MCProcesses
  Tools <- MCTools
  Configs <- MCConfigs
  Rule <- MCRule
  MaxRecords = 3
  MaxGrants = 2
  MaxEdits = 1
  MaxDeaths = 1
  MaxDeletes = 1
INVARIANTS
  AckedKept
  ReviewedOnly
  OfferedFits
PROPERTIES
  StartsAuthorized
