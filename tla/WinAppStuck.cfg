SPECIFICATION FairSpec
CONSTANTS
  f1 = f1
  f2 = f2
  Files <- MCFiles
  SubErrors = TRUE
  ThreadFails = FALSE
PROPERTY CloseEnds
