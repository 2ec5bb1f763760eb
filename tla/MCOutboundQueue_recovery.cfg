SPECIFICATION Spec
CONSTANTS
  Requests = {r1}
  Accounts = {a1}
  Keys = {}
  NoKey = NoKey
  Workers = {w1, w2}
  NoJob = NoJob
  MaxRetries = 1
  MaxBoots = 3
  MaxFaults = 1
  MaxPanics = 1
SYMMETRY Symmetry
INVARIANT SingleHolder
INVARIANT AttemptsAccounted
INVARIANT DeadLetterExhausted
INVARIANT DuplicatesExplained
INVARIANT EventsTruthful
PROPERTY FinalStays
CHECK_DEADLOCK FALSE
