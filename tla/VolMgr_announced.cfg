\* A restore announces a volume between a job's search and its reservation.
SPECIFICATION Spec
CONSTANTS
  NoJob = NoJob
  NoDrive = NoDrive
  Drives = {d1, d2}
  Volumes = {1, 2}
  Jobs = {j1}
  Readers = {1}
  Bsr <- OneReader
  Kinds = {"tape"}
  MaxAttempts = 2
  MaxFull = 1
PROPERTIES ReadNeverReserved
CHECK_DEADLOCK FALSE
SYMMETRY Symmetry
