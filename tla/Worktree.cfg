SPECIFICATION Spec
CONSTANTS
  Contents = {c1, c2}
  Modes = {m644, m600}
  DefaultMode = m644
  Absent = Absent
  Directory = Directory
  NoBackup = NoBackup
  Paths = {1, 2, 3}
  Batches <- SomeBatches
  Faults = {"io", "rollback", "crash"}
  MaxEdits = 1
INVARIANTS AllOrNothing OldOrNew MoveNeverLoses CrashRestartable
PROPERTY AbsSpec
