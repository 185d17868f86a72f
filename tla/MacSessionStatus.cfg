SPECIFICATION Spec
CONSTANTS
  MaxLoads = 1
INVARIANT LoadedMeansReported
