SPECIFICATION Spec
CONSTANTS
  Proc = {idle, init, u1, u2}
  idleproc = idle
  initproc = init
  WaitReason = {"WT_CHILD", "WT_TIMER"}
  MAX_TIME_SLICE = 1
  MAX_SLEEP = 1
PROPERTIES KilledAsleepDies SleepEnds InitKeepsReaping
