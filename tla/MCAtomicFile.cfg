SPECIFICATION Spec
CONSTANTS
  Writers = {w1, w2}
  Readers = {r1}
  Values = {v1, v2}
  Blank = Blank
  Garbled = Garbled
  Absent = Absent
  Inodes = {i1, i2, i3, i4}
  NoInode = NoInode
  TakeTurns = TRUE
SYMMETRY FileSymmetry
INVARIANTS IInv NoLitter
PROPERTY ImplementsRegister
