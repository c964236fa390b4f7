\* Challenges of two sources for one place, two per window, in windows of three
\* ticks; and every kind of message under every kind of quota, at the bounds of
\* each.
SPECIFICATION MCSpec
CONSTANTS
  Sources = {a1, a2}
  Limit = 2
  MaxSources = 1
  Window = 3
  MaxLag = 1
  MaxTime = 10
  Null = Null
  MaxEncryptedSequence = 7
  Configured <- MCConfigured
  Rests <- MCRests
SYMMETRY SourceSymmetry
INVARIANTS
  TableBounded
  BurstBound
  RoutedIsSpoken
  LimitAdmitsFrames
