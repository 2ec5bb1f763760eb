SPECIFICATION Spec
CONSTANTS
  a1 = a1
  a2 = a2
  room1 = room1
  room2 = room2
  alice = alice
  bob = bob
  bot = bot
  hello = hello
  bye = bye
  origin = origin
  NoCall = NoCall
  Unset = Unset
  BadRegex = BadRegex
  Operators = {o1, o2}
  Clients = {c1}
  Calls <- ManyCalls
  Permissions <- SomePermissions
  Users <- People
  Bot <- Bots
  DefaultRPS = 1
  Inbound <- SomeEvents
  MaxKeys = 2
INVARIANTS RevokedRefused KeysAccounted RateBounded RefusedUntouched DeliveredAsDocumented
SYMMETRY Symmetry
CHECK_DEADLOCK FALSE
