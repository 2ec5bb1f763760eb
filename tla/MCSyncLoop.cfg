SPECIFICATION FairSpec
CONSTANTS
  r1 = r1
  r2 = r2
  Count = 5
  Rooms = {r1, r2}
  NoRoom = NoRoom
  RoomOf <- Placed
  Kind <- Kinded
  Window = 1
  MaxBoots = 2
  MaxFaults = 1
INVARIANTS NoneLost DuplicatesExplained RoomOrder
PROPERTIES EventsDispatched ImplementsFeed
CHECK_DEADLOCK FALSE
