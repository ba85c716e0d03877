\* Handlers begin while a connect is under way, as in the code.
CONSTANTS
  MaxDials = 2
  NumFds = 2
  MaxBlocks = 2
  Elsewhere = 1
  Overlap = {"connect"}
SPECIFICATION Spec
INVARIANT NothingLeaked
