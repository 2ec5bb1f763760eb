SPECIFICATION FairSpec
CONSTANTS
  Requests = {r1}
  Accounts = {a1, a2}
  Keys = {}
  NoKey = NoKey
  Workers = {w1}
  NoJob = NoJob
  MaxRetries = 1
  MaxBoots = 2
  MaxFaults = 0
  MaxPanics = 0
PROPERTY JobsSettle
PROPERTY ShutdownEnds
CHECK_DEADLOCK FALSE
