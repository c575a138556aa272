SPECIFICATION OneWaySpec
CONSTANTS
  t1 = t1
  t2 = t2
  t3 = t3
  t4 = t4
  Procs = {1, 2}
  Uid <- Users
  Threads <- OneWayThreads
  Pointers = {1}
  Handles = {1, 2}
  Cookies = {0}
  Parcels <- Plain
  Enabled <- OneWayEnabled
  TokenLimit = 2
  NodeLimit = 3
  TxnLimit = 1
  EndpointLimit = 2
  ThreadLimit = 2
  PacketLimit = 3
  ClaimLimit = 3
  BufferLimit = 3
  CountMax = 2
SYMMETRY TidSymmetry
INVARIANT OneWayInTurn
PROPERTY OneWayKept
CHECK_DEADLOCK FALSE
