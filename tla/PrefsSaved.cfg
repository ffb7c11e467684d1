\* psql saves its preference although its client has failed
SPECIFICATION Spec
CONSTANTS
  p1 = p1
  p2 = p2
  o1 = o1
  o2 = o2
  None = None
  Torn = Torn
  Procs = {p1}
  Orgs = {o1, o2}
  FirstTokens <- ApiOnly
  Plans <- PsqlAlone
  MaxPairs = 3
  FaultKinds = {"api"}
  MaxFaults = 1
PROPERTY SavedOnSuccess
\* The command ends.
CHECK_DEADLOCK FALSE
