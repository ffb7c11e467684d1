\* A Find of each plugin; a policy manager and two users' policy commands
SPECIFICATION Spec
CONSTANTS
  None = None
  n1 = n1
  n2 = n2
  ours = ours
  theirs = theirs
  home = home
  away = away
  inHome = inHome
  inAway = inAway
  gateway = gateway
  a = a
  b = b
  g = g
  Scenarios <- AllScenarios
  Bits = 3
  Workers = {w1, w2}
  Names = {n1, n2}
  MaxId = 2
  Wishes <- AllWishes
  Users = {u1, u2}
  Starts <- AllStarts
  FaultKinds = {"world", "dial", "list", "lookup", "api", "lost", "editor", "kill"}
  MaxFaults = 1
INVARIANTS TypeOK FindExact OutcomesHold UndisturbedEdit
PROPERTIES FindReturns NeverBare PoliciesConverge
\* A Find that never ends, or crashes; commands are done.
CHECK_DEADLOCK FALSE
