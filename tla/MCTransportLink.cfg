\* Handlers of the channel run one at a time; the host may run out of memory.
CONSTANTS
  MaxDials = 2
  NumFds = 1
  MaxBlocks = 2
  Elsewhere = 1
  Overlap = {}
  Backlog = 1
  MaxFrames = 1
  HostFails = {"args", "matrices"}
SPECIFICATION LinkSpec
INVARIANTS LinkTypeOK NothingLeaked OnlyActiveHolds SenderHasItsOwn RestoredOnce
PROPERTIES SocketFollows HostReleases ItemsServedOrConnectionOver ImplementsAtomic
