\* border0 run keeps its tunnels up, and ends after its child
SPECIFICATION ExitSpec
CONSTANTS
  MaxIds = 4
  KeyFileAtFirst = "missing"
  FaultKinds = {"api", "lost", "token", "config", "torn", "drop"}
  MaxFaults = 1
PROPERTIES
  EventuallyExits
  EventuallyServes
\* The process ends.
CHECK_DEADLOCK FALSE
