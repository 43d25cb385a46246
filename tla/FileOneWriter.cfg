SPECIFICATION FileSpec
CONSTANTS
  w1 = w1
  w2 = w2
  r1 = r1
  Old = Old
  Writers = {w1, w2}
  Readers = {r1}
  Inodes = {i1, i2, i3, i4}
  Overlap = FALSE
SYMMETRY InodeSymmetry
INVARIANTS PathWhole
PROPERTY ActsAsRegister
