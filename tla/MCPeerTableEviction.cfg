\* One peer is enough; its telemetry races the manager's pass.
CONSTANTS
  Node = {n1}
  NoId = NoId
  NumPeers = 1
  PeerTimeout = 2
  Wrap = 8
SPECIFICATION Spec
PROPERTY EvictedWasSilent
