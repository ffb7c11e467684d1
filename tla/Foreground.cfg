\* The commands in the foreground of a terminal, each alone
SPECIFICATION Spec
CONSTANTS
  Clients = {1, 2, 3}
  MaxMisses = 2
  MaxSaid = 2
  Jobs <- AllJobs
  FaultKinds = {"api", "lost", "token", "dial", "setup", "drop", "silent", "slow", "interrupt", "service", "userDelete"}
  MaxFaults = 3
INVARIANTS TypeOK DeliveredToQuiet
PROPERTIES ExitZeroMeansGone StaysConnected EventuallyTidy
\* The commands end.
CHECK_DEADLOCK FALSE
