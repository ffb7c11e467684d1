\* The clean-up is not finished, or came too early
SPECIFICATION Spec
CONSTANTS
  MaxIds = 2
  KeyFileAtFirst = "written"
  FaultKinds = {}
  MaxFaults = 0
INVARIANT NoOrphans
\* The process ends.
CHECK_DEADLOCK FALSE
