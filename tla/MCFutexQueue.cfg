CONSTANTS
  Threads = {t1, t2, t3}
  Interruptible = {t1}
  Addresses = {"A", "B"}
  BadAddresses = {"Odd", "High"}
  Values = {0, 1}
  Bits = {1, 2}
  Requests <- QueueRequests
  WaiterLimit = 2
  ClockLimit = 0
  TimeMax = 3
SPECIFICATION Spec
INVARIANTS QueueExact WakeAccounting NoStaleSleeper
PROPERTY ServesOldestFirst
