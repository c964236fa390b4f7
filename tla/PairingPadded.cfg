\* One invite, one claim, and a host that pads the id of the invite it cancels.
SPECIFICATION Spec
CONSTANTS
  Tenants = {t1}
  Hosts = {h1}
  InviteIds = {i1}
  ClaimIds = {c1}
  DeviceIds = {d1}
  Keys = {k1, k2}
  Payloads = {p1}
  Null = Null
  Paddings = {TRUE, FALSE}
  MaxKeyVersion = 1
  MaxBinding = 1
  MaxLifetime = 2
  MaxLag = 1
  MaxTime = 3
  MaxCreating = 2
  MaxInvites = 1
SYMMETRY IdSymmetry
INVARIANT CancelledInviteSettles
