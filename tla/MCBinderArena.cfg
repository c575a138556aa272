CONSTANTS
  Align = 2
  Capacity = 6
  Limit = 2
  Word = 16
  Requests <- MCRequests
  Writes <- MCWrites
  Addresses = {0, 1, 2, 4}
SPECIFICATION MCSpec
PROPERTY KeepsPromise
