SPECIFICATION ObjectSpec
CONSTANTS
  t1 = t1
  t2 = t2
  t3 = t3
  t4 = t4
  Procs = {1, 2}
  Uid <- Users
  Threads <- ObjectThreads
  Pointers = {2}
  Handles = {0, 1}
  Cookies = {0}
  Parcels <- ObjectParcels
  Enabled <- ObjectEnabled
  TokenLimit = 2
  NodeLimit = 3
  TxnLimit = 1
  EndpointLimit = 2
  ThreadLimit = 2
  PacketLimit = 2
  ClaimLimit = 3
  BufferLimit = 2
  CountMax = 2
INVARIANTS TypeOK ClaimsCounted OwnerCallbacks
CHECK_DEADLOCK FALSE
