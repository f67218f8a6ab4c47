SPECIFICATION SweepSpec
CONSTANTS
  Names = {1, 2, 3}
  Env = {1, 2}
  AllowWholeEnv = FALSE
  DefaultBatch = 1
  MaxBatch = 2
  Sizes = {0, 2}
  MaxChanges = 0
INVARIANT PolicyAsDocumented
CHECK_DEADLOCK FALSE
