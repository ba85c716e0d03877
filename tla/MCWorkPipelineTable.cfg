\* Two channels, one connection each: the pending table against its caches.
CONSTANTS
  NumChannels = 2
  NumSlots = 3
  MaxInflight = 2
  QueueDepth = 2
  Fd = {f1, f2}
  NoFd = NoFd
  PassLimit = 1
  MaxBlocks = 3
  MaxCycles = 1
  MaxDials = 1
SPECIFICATION Spec
INVARIANTS TypeOK InFlightExact CapRespected InflightBounded Conservation
PROPERTY ImplementsFlow
SYMMETRY Descriptors
