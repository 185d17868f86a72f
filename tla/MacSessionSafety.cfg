SPECIFICATION FairSpec
CONSTANTS
  MaxLoads = 2
INVARIANT TypeOK
INVARIANT OneHelper
INVARIANT LoadedIsLatest
INVARIANT ShowsReport
PROPERTY ResultStays
PROPERTY OldLinesEnd
PROPERTY LoadEnds
PROPERTY UnloadReturns
