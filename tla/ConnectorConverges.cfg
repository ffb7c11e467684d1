\* The API comes to mirror the discovered world
SPECIFICATION FairSpec
CONSTANTS
  k1 = k1
  k2 = k2
  d1 = d1
  d2 = d2
  username = username
  t1 = t1
  t2 = t2
  p1 = p1
  other = other
  None = None
  Foreign = other
  UpstreamType = upstreamType
  Fields = {username, upstreamType}
  Blank = blank
  Texts = {t1, t2, blank}
  Data = {d1, d2}
  Keys = {k1}
  Policies = {p1}
  Ids = {i1, i2}
  Sessions = {s1, s2}
  Discoveries <- FieldWorlds
  InitialApis <- Empty
  ChanCap = 1
  NumOfRetry = 0
  FaultKinds = {"api", "lost", "world", "userDelete", "userEdit", "crash"}
  MaxFaults = 1
PROPERTY EventuallyMirrors
CHECK_DEADLOCK TRUE
