SPECIFICATION Spec
CONSTANTS
  Binary = {1, 2, 3}
  Knows <- MCKnows
  Healthy = {1, 2}
  Key = {"key1", "key2", "short", "odd"}
  BoxKey = "key1"
  Long = {"key1", "key2", "odd"}
  Plain = {"key1", "key2", "short"}
  NoFile = NoFile
  Torn = Torn
  NoKey = NoKey
  MaxUploads = 3
  MaxDeploys = 3
  MaxWrites = 2
  MaxCrashes = 2
INVARIANTS TypeOK RollbackRestores EnvAlwaysStarts OldWritesKept
CHECK_DEADLOCK FALSE
