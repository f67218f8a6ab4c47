SPECIFICATION FairSweep
CONSTANTS
  Names = {1, 2, 3, 4}
  Env = {1, 2, 4}
  AllowWholeEnv = TRUE
  DefaultBatch = 1
  MaxBatch = 2
  Sizes <- SweepSizes
  MaxChanges = 1
INVARIANTS BlastRadius SweepCovers
PROPERTIES NoneTwice SweepEnds
CHECK_DEADLOCK FALSE
