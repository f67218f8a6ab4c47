SPECIFICATION FairSpec
CONSTANTS
  N = 3
  Concurrency = 2
  RollbackFails = TRUE
  NoWorker = NoWorker
INVARIANTS ExactlyOnce BatchAllOrNothing ReportTruthful ExitTruthful
PROPERTY Terminates
