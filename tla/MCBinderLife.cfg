SPECIFICATION Spec
CONSTANTS
  t1 = t1
  t2 = t2
  t3 = t3
  t4 = t4
  Procs = {1, 2}
  Uid <- Users
  Threads <- LifeThreads
  Pointers = {1}
  Handles = {0}
  Cookies = {1}
  Parcels <- Plain
  Enabled <- LifeEnabled
  TokenLimit = 3
  NodeLimit = 2
  TxnLimit = 1
  EndpointLimit = 2
  ThreadLimit = 1
  PacketLimit = 2
  ClaimLimit = 3
  BufferLimit = 1
  CountMax = 1
INVARIANT OneManager
CHECK_DEADLOCK FALSE
