\* Claims of two devices, and two host requests with three tickets.
SPECIFICATION RelaySpec
CONSTANTS
  Tenants = {t1}
  Hosts = {h1}
  InviteIds = {i1}
  ClaimIds = {c1, c2}
  DeviceIds = {d1, d2}
  Keys = {k1, k2}
  Payloads = {p1}
  Null = Null
  Paddings = {FALSE}
  MaxKeyVersion = 1
  MaxBinding = 1
  MaxLifetime = 1
  MaxLag = 0
  MaxTime = 0
  MaxCreating = 2
  MaxInvites = 1
  Asked = {"pairing_invite_create", "pairing_claim_approve",
           "pairing_claim_reject", "device_revoke"}
  Requests = {r1, r2}
  TicketIds = {x1, x2, x3}
  NoDevice = NoDevice
SYMMETRY IdSymmetry
INVARIANTS EffectsAreAuthorised
PROPERTIES DisabledRunsDry ImplementsPairing
