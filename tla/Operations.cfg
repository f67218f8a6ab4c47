SPECIFICATION Spec
CONSTANTS
  Names = {1, 2}
  Env = {1}
  Profiles = {"a", "b"}
  Sources = {"a", "b"}
  DefaultProfile = "a"
  NoProfile = NoProfile
  MaxEvents = 2
  CRs = {1, 2}
  CrName <- SameName
  NoLabel = NoLabel
  OtherLabel = OtherLabel
  Refs = {"fieldsA", "fieldsB"}
  Ref <- OwnRef
  InitialGit <- Trees
  InitialLive <- Running
  InitialHealth <- AllRun
  Allowed = {"status", "restart"}
  MaxCommands = 2
INVARIANTS ListingFaithful InventoryHonest NewManifestAlone VerifyTruthful OpsOncePerRun
PROPERTY CommandEnds
CHECK_DEADLOCK FALSE
