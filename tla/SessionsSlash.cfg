\* A host and a device on two routes of which an id contains a slash.
SPECIFICATION Spec
CONSTANTS
  s1 = s1
  s2 = s2
  s3 = s3
  Sockets = {s1, s2}
  Routes <- SlashRoutes
  Granted <- HostAndOtherDevice
  Null = Null
INVARIANT
  FramesStayOnRoute
