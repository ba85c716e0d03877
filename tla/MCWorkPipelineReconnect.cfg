\* One channel closed and connected again: frames, results and loss notices
\* of the old connection meet the new one.
CONSTANTS
  NumChannels = 1
  NumSlots = 2
  MaxInflight = 2
  QueueDepth = 2
  Fd = {f1}
  NoFd = NoFd
  PassLimit = 1
  MaxBlocks = 2
  MaxCycles = 2
  MaxDials = 2
SPECIFICATION FairSpec
INVARIANTS KeysUnique PendingOnItsWay
PROPERTIES StaleResultIgnored SlotFreed
