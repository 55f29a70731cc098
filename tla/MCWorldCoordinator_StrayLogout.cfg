CONSTANTS
  Maps = {m1, m2}
  Sessions = {s1, s2}
  Channels = {c1, c2}
  Askers = {a1}
  NoMap = NoMap
  NoChannel = NoChannel
  InboxCapacity = 1
  MapCapacity = 1

SPECIFICATION Spec
SYMMETRY Symmetry
INVARIANTS
  CountsExact
