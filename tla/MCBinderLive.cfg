SPECIFICATION LiveSpec
CONSTANTS
  t1 = t1
  t2 = t2
  t3 = t3
  t4 = t4
  Procs = {1, 2}
  Uid <- Users
  Threads <- LiveThreads
  Pointers = {2}
  Handles = {0, 1}
  Cookies = {0}
  Parcels <- Plain
  Enabled <- LiveEnabled
  TokenLimit = 2
  NodeLimit = 2
  TxnLimit = 1
  EndpointLimit = 2
  ThreadLimit = 2
  PacketLimit = 2
  ClaimLimit = 3
  BufferLimit = 2
  CountMax = 1
INVARIANT DeathSlots
PROPERTIES ClearAfterDone PeersLearn
CHECK_DEADLOCK FALSE
