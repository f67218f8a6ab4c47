SPECIFICATION Spec
CONSTANTS
  Names = {1}
  Classes = {1, 2}
  Versions = {1}
  Configs <- Everything
  Profiles = {"default", "dedicated"}
  NoProfile = NoProfile
  DefaultProfile <- ByClass
  MappedProfile <- NoMapping
  Source = {}
  Verdicts = {"accepted", "rejected", "unreachable"}
  Commands = {"adopt"}
  MaxBatch = 1
  MaxCommands = 1
  MaxCrashes = 0
  MaxDrift = 0
INVARIANT WrittenWasAccepted
CHECK_DEADLOCK FALSE
