\* One stressed node and two hosts: several channels of one delegator at once.
\* A pass finds every request expired; those that outlive a pass are in Pair.
CONSTANTS
  Node = {n1, n2, n3}
  NoNode = NoNode
  Stressed = {n1}
  Heard <- StarPairs
  Laden <- StarLaden
  NumChannels = 2
  Blocks = 2
  ReqLimit = 0
  Settings <- HalfLoad
  MaxMsgs = 2
  Fragile = {}
  MaxCrashes = 0
SYMMETRY HostSymmetry
SPECIFICATION Spec
INVARIANTS TypeOK BlocksCovered OneChannelPerPeer ActiveIsHosted
