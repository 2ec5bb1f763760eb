SPECIFICATION Spec
CONSTANTS
  q1 = q1
  v1 = v1
  e1 = e1
  e2 = e2
  message = message
  Asks = {q1}
  Receives = {v1}
  Limit <- Single
  Events = {e1, e2}
  NoEvent = NoEvent
  Types = {message}
  TypeOf <- TypeTable
  Matches <- Filters
  Cause <- CauseTable
  Echo <- Echoes
  NoHandle = NoHandle
  Capacity = 2
  MaxBoots = 1
  MaxFaults = 0
INVARIANTS NothingMissed FirstMatchWins OutcomeAgrees
PROPERTY ImplementsWaiting
CHECK_DEADLOCK FALSE
