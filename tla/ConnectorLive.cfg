\* A discovered socket gets its tunnel back
SPECIFICATION FairSpec
CONSTANTS
  k1 = k1
  k2 = k2
  d1 = d1
  d2 = d2
  username = username
  t1 = t1
  t2 = t2
  p1 = p1
  other = other
  None = None
  Foreign = other
  UpstreamType = upstreamType
  Fields = {username, upstreamType}
  Blank = blank
  Texts = {t1, t2, blank}
  Data = {d1, d2}
  Keys = {k1}
  Policies = {}
  Ids = {i1}
  Sessions = {s1, s2, s3}
  Discoveries <- SteadyWorld
  InitialApis <- Empty
  ChanCap = 1
  NumOfRetry = 1
  FaultKinds = {"drop", "dial", "silent"}
  MaxFaults = 2
PROPERTY EventuallyLive
CHECK_DEADLOCK TRUE
