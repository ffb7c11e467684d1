\* Two keys whose sockets come and go, one of them outdated at first
SPECIFICATION Spec
CONSTANTS
  k1 = k1
  k2 = k2
  d1 = d1
  d2 = d2
  username = username
  t1 = t1
  t2 = t2
  p1 = p1
  other = other
  None = None
  Foreign = other
  UpstreamType = upstreamType
  Fields = {username, upstreamType}
  Blank = blank
  Texts = {t1, t2, blank}
  Data = {d1, d2}
  Keys = {k1, k2}
  Policies = {}
  Ids = {i1, i2, i3, i4}
  Sessions = {s1, s2, s3}
  Discoveries <- TwoKeyWorlds
  InitialApis <- NoneOrOutdated
  ChanCap = 1
  NumOfRetry = 0
  FaultKinds = {"world"}
  MaxFaults = 1
INVARIANTS TrackedUnderOwnKey TunnelsServeTheirKey
PROPERTIES ImplementsMirror
SYMMETRY Symm
CHECK_DEADLOCK TRUE
