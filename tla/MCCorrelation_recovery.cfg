SPECIFICATION FairSpec
CONSTANTS
  q1 = q1
  v1 = v1
  e1 = e1
  e2 = e2
  message = message
  Asks = {}
  Receives = {v1}
  Limit <- Bounded
  Events = {e1, e2}
  NoEvent = NoEvent
  Types = {message}
  TypeOf <- TypeTable
  Matches <- Filters
  Cause <- CauseTable
  Echo <- Echoes
  NoHandle = NoHandle
  Capacity = 1
  MaxBoots = 2
  MaxFaults = 1
PROPERTIES ImplementsWaiting CallsReturn HandlesReleased RowsSettle
CHECK_DEADLOCK FALSE
