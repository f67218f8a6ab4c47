SPECIFICATION Spec
CONSTANTS
  Names = {1, 2}
  Classes = {1, 2}
  Versions = {1, 2}
  Configs <- SecondFixed
  Profiles = {"default", "dedicated"}
  NoProfile = NoProfile
  DefaultProfile <- ByClass
  MappedProfile <- OneMapping
  Source <- OneTarget
  Verdicts = {"accepted", "rejected"}
  Commands = {"adopt", "create", "update", "migrate", "delete"}
  MaxBatch = 2
  MaxCommands = 3
  MaxCrashes = 1
  MaxDrift = 1
INVARIANTS ManagedUnique NoDoubleRun RerunRepairs
PROPERTIES SyncKeepsAdopted OnlyUpdateReplaces NothingLost
CHECK_DEADLOCK FALSE
