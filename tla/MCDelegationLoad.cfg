\* One stressed node and one host.
CONSTANTS
  Node = {n1, n2}
  NoNode = NoNode
  Stressed = {n1}
  Heard <- AllPairs
  Laden <- AllPairs
  NumChannels = 1
  Blocks = 2
  ReqLimit = 1
  Settings <- NoSettings
  MaxMsgs = 2
  Fragile = {}
  MaxCrashes = 0
SPECIFICATION Spec
INVARIANT LoadShared
