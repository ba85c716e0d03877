\* One channel is enough for a handler to close it under a dispatch.
CONSTANTS
  NumChannels = 1
  NumSlots = 2
  MaxInflight = 2
  QueueDepth = 2
  Fd = {f1}
  NoFd = NoFd
  PassLimit = 1
  MaxBlocks = 2
  MaxCycles = 2
  MaxDials = 2
  Word = 16
SPECIFICATION TasksSpec
INVARIANT ExactAtRest
