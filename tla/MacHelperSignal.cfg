SPECIFICATION FairSpec
CONSTANTS
  f1 = f1
  f2 = f2
  Files <- MCFiles
  NumSubs = 2
  ReaderLeaves = FALSE
PROPERTY SignalEnds
