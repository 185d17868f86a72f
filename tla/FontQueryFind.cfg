SPECIFICATION FairSpec
CONSTANTS
  Faces <- MCFaces
  FoldRank <- MCFoldRank
  Prefix <- MCPrefix
  Tags = {t1, t2}
  Formats <- MCFormats
  Versions <- MCVersions
  VerRank <- MCVerRank
  MaxFaces = 3
INVARIANT TypeOK
INVARIANT FirstIsRight
INVARIANT BuildExact
PROPERTY QueryEnds
