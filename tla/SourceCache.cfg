CONSTANTS
  Processes = {p1, p2}
  Kinds = {"sources", "selection", "raw", "jdk", "ndk", "reference", "aidl"}
  Blocks = 3
  TroubleLimit = 3
SPECIFICATION FairSpec
INVARIANTS ArchivePinned InstalledPinned ReturnedPinned
PROPERTY EveryoneObtains
CHECK_DEADLOCK FALSE
