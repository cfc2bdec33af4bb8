\* Three timers, a sleep of at most three, eight seconds.
SPECIFICATION Spec
CONSTANTS
  th = th
  ch = ch
  pe = pe
  NoTimer = NoTimer
  Timers = {th, ch, pe}
  Kind <- Kinds
  Wait <- Waits
  SleepTime = 3
  KillDelay = 2
  MaxTime = 8
INVARIANTS CallbackRegistered Punctual
CHECK_DEADLOCK FALSE
