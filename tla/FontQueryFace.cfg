SPECIFICATION Spec
CONSTANTS
  Faces <- MCFaces
  FoldRank <- MCFoldRank
  Prefix <- MCPrefix
  Tags = {t1, t2}
  Formats <- MCFormats
  Versions <- MCVersions
  VerRank <- MCVerRank
  MaxFaces = 2
INVARIANT FoundByFace
