\* Two drives, two volumes, three jobs that append and one restore of one volume.
SPECIFICATION Spec
CONSTANTS
  NoJob = NoJob
  NoDrive = NoDrive
  Drives = {d1, d2}
  Volumes = {1, 2}
  Jobs = {j1, j2, j3}
  Readers = {1}
  Bsr <- OneReader
  Kinds = {"tape", "file"}
  MaxAttempts = 3
  MaxFull = 1
INVARIANTS OneDriveWrites OwnedOrSwapping DiskWriterOwns
PROPERTIES ReadNotReserved
CHECK_DEADLOCK FALSE
SYMMETRY Symmetry
