\* Three processes that start at any time on an old or a new state path, crash
\* and lose power.
SPECIFICATION StartupSpec
CONSTANTS
  Processes = {p1, p2, p3}
  IdentityKeys = {k1, k2, k3}
  Legacy = {l1}
  Rows = {r1, r2}
  Absent = Absent
  Torn = Torn
SYMMETRY StartupSymmetry
INVARIANTS
  StartupTypeOK
  NeverTorn
  IdentityIsStable
  LegacyIsKept
  CurrentRowsSurvive
