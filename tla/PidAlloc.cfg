SPECIFICATION Spec
CONSTANTS
  MAX_PROCESS = 5
  MAX_PID = 7
PROPERTIES FreshPid GetPidReturns
