\* Two nodes that may each ask the other, one of which may crash.  Of a peer that
\* is busy no more is to be seen than of a pass that does not get the mutex.
CONSTANTS
  Node = {n1, n2}
  NoNode = NoNode
  Stressed = {n1, n2}
  Heard <- AllPairs
  Laden = {}
  NumChannels = 2
  Blocks = 1
  ReqLimit = 1
  Settings <- NoSettings
  MaxMsgs = 2
  Fragile = {n2}
  MaxCrashes = 1
SPECIFICATION FairSpec
INVARIANT ActiveIsHosted
PROPERTY FailoverCompletes
