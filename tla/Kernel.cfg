SPECIFICATION Spec
SYMMETRY UserSymmetry
CONSTANTS
  Proc = {idle, init, u1, u2, u3}
  idleproc = idle
  initproc = init
  WaitReason = {"WT_CHILD", "WT_TIMER"}
  MAX_TIME_SLICE = 1
  MAX_SLEEP = 2
INVARIANTS NoLostWakeup TimersInFrames FamilyTree InitAsserts
PROPERTIES SchedSafe CountdownSpec
