SPECIFICATION Spec
CONSTANTS
  Calls <- MCCalls
  Users <- MCUsers
  For <- MCFor
  NoRoom = NoRoom
  MaxFaults = 2
INVARIANTS RoomsOfUser LossExplained FirstRoomStays
CHECK_DEADLOCK FALSE
