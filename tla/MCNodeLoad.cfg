\* One load is sustainable, two are not; 9 is 1 in a word of eight.
CONSTANTS
  LoadMin = 1
  LoadMax = 3
  LoadStep = 1
  LoadStart = 1
  Sustainable = 1
  Values <- MCValues
  Word = 8
  WindowCycles = 2
  LowWindows = 2
  BaselineSamples = 1
  MaxLag = 2
  MaxSets = 1
SPECIFICATION FairSpec
INVARIANT TypeOK
INVARIANT BaselineUnloaded
PROPERTY OverloadAnswered
