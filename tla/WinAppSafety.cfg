SPECIFICATION FairSpec
CONSTANTS
  f1 = f1
  f2 = f2
  Files <- MCFiles
  SubErrors = TRUE
  ThreadFails = TRUE
INVARIANT TypeOK
INVARIANT ExitUnloads
INVARIANT CallerUnloads
INVARIANT LoaderNotShared
INVARIANT CancelIsNoError
PROPERTY CloseEndsOrFailed
PROPERTY WorkEnds
