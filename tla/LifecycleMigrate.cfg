SPECIFICATION Spec
CONSTANTS
  Names = {1, 2}
  Classes = {1, 2}
  Versions = {1}
  Configs <- Everything
  Profiles = {"default", "dedicated"}
  NoProfile = NoProfile
  DefaultProfile <- ByClass
  MappedProfile <- NoMapping
  Source <- TwoTargets
  Verdicts = {"accepted", "rejected"}
  Commands = {"migrate"}
  MaxBatch = 1
  MaxCommands = 2
  MaxCrashes = 0
  MaxDrift = 0
INVARIANT UniqueInGit
CHECK_DEADLOCK FALSE
