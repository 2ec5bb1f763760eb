SPECIFICATION Spec
CONSTANTS
  Requests = {r1, r2}
  Accounts = {a1}
  Keys = {k1}
  NoKey = NoKey
  Workers = {w1}
  NoJob = NoJob
  MaxRetries = 0
  MaxBoots = 2
  MaxFaults = 1
  MaxPanics = 0
SYMMETRY Symmetry
INVARIANT OneJobPerKey
PROPERTY ImplementsDelivery
CHECK_DEADLOCK FALSE
