SPECIFICATION Spec
CONSTANTS
  Requests = {r1}
  Accounts = {a1, a2}
  Keys = {}
  NoKey = NoKey
  Workers = {w1}
  NoJob = NoJob
  MaxRetries = 1
  MaxBoots = 2
  MaxFaults = 0
  MaxPanics = 0
SYMMETRY Symmetry
PROPERTY Drained
CHECK_DEADLOCK FALSE
