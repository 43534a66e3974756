SPECIFICATION Spec
CONSTANTS
  Proc = {initproc, p1, p2}
  initproc = initproc
  File = {f}
  Dir = {root, d}
  root = root
  Dev = {stdin}
  NFD = 3
  Flag = {"write", "O_TRUNC", "O_CREAT"}
INVARIANTS RefsExact InMemoryExact SavedWhenClosed
SYMMETRY Users
