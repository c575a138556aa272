SPECIFICATION FairSpec
CONSTANTS
  t1 = t1
  t2 = t2
  Threads = {t1, t2}
  Standard = {1, 9}
  Unmaskable = {9}
  Interrupt = 34
  Faults = {1}
  Capacity = 1
  DrainLimit = 2
  ActionMask = {1}
  Masks <- BothKinds
  Waits <- OneOrBoth
  May <- Roles
  WaitUnblocked = FALSE
INVARIANTS SendsKept Reachable WakesBound
PROPERTIES MaskRestored InterruptTaken WaitReturns
CHECK_DEADLOCK FALSE
