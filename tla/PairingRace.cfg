\* One invite, three claims racing for it on behalf of two devices.
SPECIFICATION Spec
CONSTANTS
  Tenants = {t1}
  Hosts = {h1}
  InviteIds = {i1}
  ClaimIds = {c1, c2, c3}
  DeviceIds = {d1, d2}
  Keys = {k1, k2}
  Payloads = {p1}
  Null = Null
  Paddings = {FALSE}
  MaxKeyVersion = 1
  MaxBinding = 1
  MaxLifetime = 2
  MaxLag = 1
  MaxTime = 3
  MaxCreating = 2
  MaxInvites = 1
SYMMETRY IdSymmetry
INVARIANTS PendingClaimHasOpenInvite OneWinner
PROPERTIES SettledStaysSettled ApprovedInTime ImplementsInvitation
