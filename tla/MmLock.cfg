SPECIFICATION LockSpec
CONSTANTS
  Thread = {t1, t2, t3, t4}
  InitValue = 1
  MaxSurplus = 0
INVARIANTS NoIdlePermit LockExact
PROPERTIES NoBarging PermitSpec NoLockout
