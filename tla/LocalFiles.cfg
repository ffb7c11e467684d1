\* Two commands on the files of one user
SPECIFICATION FairSpec
CONSTANTS
  p1 = p1
  p2 = p2
  o1 = o1
  o2 = o2
  None = None
  Torn = Torn
  Procs = {p1, p2}
  Orgs = {o1, o2}
  FirstTokens <- ApiOnly
  Plans <- TwoCommands
  MaxPairs = 4
  FaultKinds = {"api", "login", "kill", "interrupt", "expire"}
  MaxFaults = 1
INVARIANTS TypeOK CertOfItsOrg UndisturbedFilesRight
PROPERTY KeepsConnecting
\* Commands that are not repeated end.
CHECK_DEADLOCK FALSE
