\* An operator may label while the drive is unmounted and jobs wait.
SPECIFICATION Spec
CONSTANTS
  NoThread = "none"
  Jobs = {"j1", "j2"}
  Commands = {"c1", "c2"}
  MaxAsks = 1
  Spooling = {"j1"}
  MaxErrors = 1
  MaxDespools = 2
  OperatorCareful = FALSE
INVARIANTS LabelKeepsBlock
CHECK_DEADLOCK FALSE
