\* What the clean-up of border0 run leaves behind
SPECIFICATION Spec
CONSTANTS
  MaxIds = 6
  KeyFileAtFirst = "written"
  FaultKinds = {"drop", "userDelete"}
  MaxFaults = 2
INVARIANTS
  TypeOK
  CleanupLeavesOnlyLater
\* The process ends.
CHECK_DEADLOCK FALSE
