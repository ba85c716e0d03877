\* More nodes than entries, so that entries are replaced; a clock that wraps.
CONSTANTS
  Node = {n1, n2, n3}
  NoId = NoId
  NumPeers = 2
  PeerTimeout = 1
  Wrap = 5
SYMMETRY NodeSymmetry
SPECIFICATION Spec
INVARIANTS TypeOK FirstMatchIsLive ShunnedUntilHeard
