\* A full disk volume is still written after its entry is freed (see README).
SPECIFICATION Spec
CONSTANTS
  NoJob = NoJob
  NoDrive = NoDrive
  Drives = {d1, d2}
  Volumes = {1, 2}
  Jobs = {j1, j2, j3, j4}
  Readers = {}
  Bsr <- NoReader
  Kinds = {"file"}
  MaxAttempts = 4
  MaxFull = 1
INVARIANTS WriterOwnsVolume
CHECK_DEADLOCK FALSE
SYMMETRY Symmetry
