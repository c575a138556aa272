CONSTANTS
 Chains = {"guest", "suite", "service", "linux", "parser"}
 AgainLimit = 1
 EditLimit = 1
 CommitLimit = 2
 StopLimit = 1
 TroubleLimit = 2
SPECIFICATION Spec
INVARIANTS StagedFromRevision LinkedTogether ShippedExecuted ArchiveHonest RecordMeansWhole ServiceFromRevision LinuxTogether ParserReferenced
PROPERTY UntroubledPasses
CHECK_DEADLOCK FALSE
