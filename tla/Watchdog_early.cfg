\* A timer is started long after the last walk.
SPECIFICATION Spec
CONSTANTS
  th = th
  ch = ch
  pe = pe
  NoTimer = NoTimer
  Timers = {th, ch, pe}
  Kind <- Kinds
  Wait <- Waits
  SleepTime = 3
  KillDelay = 2
  MaxTime = 8
INVARIANTS NotEarly
CHECK_DEADLOCK FALSE
