SPECIFICATION SfsSpec
CONSTANTS
  File = {f, g}
  NBLOCK = 4
  NDIRECT = 1
  NENTRY = 2
  BLKSIZE = 2
  MAXLEN = 8
  Position = {1, 2, 5, 7}
INVARIANT TruncAsserts
CHECK_DEADLOCK FALSE
