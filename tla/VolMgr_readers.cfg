\* Two restores: a volume to be read is missed in the read list (see README).
SPECIFICATION Spec
CONSTANTS
  NoJob = NoJob
  NoDrive = NoDrive
  Drives = {d1, d2}
  Volumes = {1, 2, 3}
  Jobs = {j1}
  Readers = {1, 2}
  Bsr <- TwoReaders
  Kinds = {"tape"}
  MaxAttempts = 4
  MaxFull = 1
PROPERTIES AnnouncedNotReserved
CHECK_DEADLOCK FALSE
SYMMETRY Symmetry
