SPECIFICATION Spec
CONSTANTS
  Things <- MCThings
  Bundles <- MCBundles
  MappingSets <- MCMappingSets
  ByHand <- MCByHand
  Live <- MCLive
  Installed <- MCInstalled
  ShortName <- MCShortName
  Inputs <- MCInputs
  Plans <- MCPlans
  Explicit <- MCExplicit
  NoName <- MCNoName
  Tickets <- MCTickets
  InvalidKeys <- MCInvalidKeys
  MaxCommands = 2
  MaxEdits = 1
INVARIANTS
  PassMeansRebuildable
  MappingsResolve
PROPERTIES
  WrittenValidates
  MigrateRepoints
  AdoptKeepsRunning
CHECK_DEADLOCK FALSE
