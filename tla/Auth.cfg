\* Two requests racing for the same challenges and tickets, of two scopes.
SPECIFICATION Spec
CONSTANTS
  Tenants = {t1}
  Hosts = {h1}
  Devices = {d1}
  NoDevice = NoDevice
  Asked = {"websocket_device", "device_list"}
  hostKey = hostKey
  deviceKey = deviceKey
  SigningKeys = {hostKey, deviceKey}
  KeyOf <- RoleKeys
  ChallengeIds = {c1, c2}
  TicketIds = {k1, k2}
  Requests = {r1, r2}
  Lifetime = 1
  MaxLag = 1
  MaxTime = 3
  Null = Null
SYMMETRY IdSymmetry
INVARIANTS
  GrantsAreEarned
PROPERTIES
  GrantedInTime
  ImplementsTickets
