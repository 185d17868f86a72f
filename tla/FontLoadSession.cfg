SPECIFICATION FairSpec
CONSTANTS
  f1 = f1
  f2 = f2
  f3 = f3
  f4 = f4
  none = none
  h1 = h1
  h3 = h3
  h4 = h4
  junk = junk
  NumFaces = 3
  Files <- MCFiles
  NoFile = none
  Digest <- MCDigest
  NoHash = junk
  PathLen <- MCPathLen
  Rank <- MCRank
  FaceRank <- MCFaceRank
  Indexes <- MCIndexes
  LoadCap = 1
  Refcounted = TRUE
  Shared <- MCShared
INVARIANT TypeOK
INVARIANT RegisteredIffRecorded
INVARIANT NoContentTwice
INVARIANT CountersMatch
INVARIANT ListRight
PROPERTY StopsSoon
PROPERTY LeaseSpec
PROPERTY CallsReturn
