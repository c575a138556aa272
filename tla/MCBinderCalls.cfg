SPECIFICATION CallsSpec
CONSTANTS
  t1 = t1
  t2 = t2
  t3 = t3
  t4 = t4
  Procs = {1, 2}
  Uid <- Users
  Threads <- CallsThreads
  Pointers = {1}
  Handles = {0}
  Cookies = {0}
  Parcels <- Plain
  Enabled <- CallsEnabled
  TokenLimit = 2
  NodeLimit = 1
  TxnLimit = 2
  EndpointLimit = 2
  ThreadLimit = 2
  PacketLimit = 2
  ClaimLimit = 1
  BufferLimit = 2
  CountMax = 2
SYMMETRY TidSymmetry
INVARIANTS CallsPaired BuffersOwned
CHECK_DEADLOCK FALSE
