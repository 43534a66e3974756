SPECIFICATION Spec
CONSTANTS
  Proc = {idle, init, 0, 1, 2}
  idleproc = idle
  initproc = init
  WaitReason = {"WT_CHILD", "WT_TIMER", "WT_KSEM"}
  MAX_TIME_SLICE = 1
  mutex = mutex
  N = 3
  TIMES = 2
  SLEEP_TIME = 2
INVARIANTS ForksExclusive HungryForAReason
PROPERTIES DinnerEnds
