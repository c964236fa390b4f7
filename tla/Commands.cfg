\* Two commands at a time on one state directory: "local init", "configure" and
\* "serve" on the files, with the listener flags that the checks tell apart, and
\* the tenant commands on the tables, beside two enrolments with different
\* identities that race for a host id.
SPECIFICATION MCSpec
CONSTANTS
  Processes = {p1, p2}
  Generations = {t1, t2}
  Hosts = {"", "blank", "loopback", "public"}
  Ports = {0, 1}
  Crashes = TRUE
  Absent = Absent
  Partial = Partial
  TenantIds = {t1, t2}
  HostIds = {h1}
  Identities = {i1, i2}
  Requests = {r1, r2}
  Commands = {p1, p2}
  MaxSecret = 2
  Null = Null
SYMMETRY MCSymmetry
INVARIANTS
  SavedConfigStarts
  ReportedIsPresented
  NoHalfPairLeft
  CommandsTypeOK
  StoredSecretIsKnown
  ConfirmedIsStored
PROPERTY
  EnrolmentsRunDry
