\* Two hosts that replace each other and a device that comes on either route,
\* with revocation and shutdown at any point.
SPECIFICATION FairSpec
CONSTANTS
  s1 = s1
  s2 = s2
  s3 = s3
  Sockets = {s1, s2, s3}
  Routes <- TwoRoutes
  Granted <- HostsAndDevice
  Null = Null
INVARIANTS
  RegisteredIsActive
  EvictedIsClosing
  DeviceHearsOneHost
  FramesStayOnKey
PROPERTIES
  EvictionIsFinal
  EvictionsComplete
