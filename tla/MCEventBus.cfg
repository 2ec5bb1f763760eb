SPECIFICATION FairSpec
CONSTANTS
  p1 = p1
  p2 = p2
  s1 = s1
  s2 = s2
  t1 = t1
  Publishers = {p1, p2}
  Subs = {s1, s2}
  Types = {t1}
  TypeOf <- TypeTable
  NoEvent = NoEvent
  NoSub = NoSub
  Capacity = 2
  MaxPublishes <- Calls
INVARIANTS NoSendOnClosed PublisherOrder
PROPERTIES ImplementsChannels CallersReturn
CHECK_DEADLOCK FALSE
