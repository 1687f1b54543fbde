SPECIFICATION Spec
CONSTANTS
  short = short
  long = long
  Store = {w1, w2}
  Writer = {w1, w2}
  Doc = {short, long}
  Length <- Lengths
  Default = default
  Torn = torn
  Inode = {i1, i2, i3, i4}
  NoInode = noinode
  None = none
SYMMETRY InodeSymmetry
INVARIANT TornOnlyByOverlap
PROPERTY FailsOnlyByOverlap
PROPERTY ImplementsAtomicFile
