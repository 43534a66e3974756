SPECIFICATION SfsSpec
CONSTANTS
  File = {f, g}
  NBLOCK = 5
  NDIRECT = 1
  NENTRY = 3
  BLKSIZE = 2
  MAXLEN = 10
  Position = {3, 7, 9}
INVARIANTS BlocksExact DiskExact NoHoles
CHECK_DEADLOCK FALSE
SYMMETRY Files
