CONSTANTS
  Maps = {m1}
  Sessions = {s1}
  Channels = {c1, c2, c3}
  Askers = {h1, h2}
  NoMap = NoMap
  NoChannel = NoChannel
  NoHandler = NoHandler
  InboxCapacity = 2
  MapCapacity = 1

SPECIFICATION RTSpec
SYMMETRY Symmetry
PROPERTIES
  StopsOnlyEmptyMaps
