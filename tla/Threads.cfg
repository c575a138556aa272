SPECIFICATION FairSpec
CONSTANTS
  Stacks = {s1, s2}
  FirstTid = 1
  LastTid = 3
  Limit = 2
  Faults = {"start", "exit", "bound", "clear", "join", "vm"}
INVARIANTS Accounted Lifetimes
PROPERTY Finishes
CHECK_DEADLOCK FALSE
