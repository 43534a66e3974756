SPECIFICATION Spec
CONSTANTS
  Proc = {idle, p1, p2, p3}
  idleproc = idle
  WaitReason = {"WT_CHILD"}
  MAX_TIME_SLICE = 2
INVARIANTS RunQueueExact
PROPERTIES NoOvertaking NoStarvation
