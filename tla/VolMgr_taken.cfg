\* A drive found idle is taken into use before it is unloaded.
SPECIFICATION Spec
CONSTANTS
  NoJob = NoJob
  NoDrive = NoDrive
  Drives = {d1, d2}
  Volumes = {1, 2}
  Jobs = {j1, j2, j3}
  Readers = {}
  Bsr <- NoReader
  Kinds = {"tape"}
  MaxAttempts = 4
  MaxFull = 1
INVARIANTS TakenNotInUse
CHECK_DEADLOCK FALSE
SYMMETRY Symmetry
