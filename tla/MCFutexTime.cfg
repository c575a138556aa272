CONSTANTS
  Threads = {t1, t2}
  Interruptible = {t1}
  Addresses = {"A"}
  BadAddresses = {"Odd", "High"}
  Values = {0}
  Bits = {1}
  Requests <- TimeRequests
  WaiterLimit = 2
  ClockLimit = 2
  TimeMax = 3
SPECIFICATION FairSpec
PROPERTIES NoEarlyTimeout DueReturns
