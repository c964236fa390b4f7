\* Two hosts that use the same ids: a device bound, revoked and bound again
\* through two invites of a host, or bound by both.
SPECIFICATION Spec
CONSTANTS
  Tenants = {t1}
  Hosts = {h1, h2}
  InviteIds = {i1, i2}
  ClaimIds = {c1, c2}
  DeviceIds = {d1}
  Keys = {k1, k2, k3}
  Payloads = {p1}
  Null = Null
  Paddings = {TRUE, FALSE}
  MaxKeyVersion = 1
  MaxBinding = 2
  MaxLifetime = 1
  MaxLag = 1
  MaxTime = 1
  MaxCreating = 1
  MaxInvites = 2
SYMMETRY IdSymmetry
INVARIANTS DevicesMatchApprovals
PROPERTIES DeviceChangesAreAuthorised OneScopePerStep
