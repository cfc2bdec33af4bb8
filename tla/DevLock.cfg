\* One drive, two jobs that append (one spools), two console commands.
SPECIFICATION Spec
CONSTANTS
  NoThread = "none"
  Jobs = {"j1", "j2"}
  Commands = {"c1", "c2"}
  MaxAsks = 2
  Spooling = {"j1"}
  MaxErrors = 1
  MaxDespools = 2
  OperatorCareful = TRUE
INVARIANTS DriveOwned BlockHasHolder NoSleeperForgotten NoAbort
PROPERTIES JobsEnd
CHECK_DEADLOCK FALSE
