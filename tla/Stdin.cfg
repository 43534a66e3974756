SPECIFICATION Spec
CONSTANTS
  Reader = {r1,r2}
  STDIN_BUFSIZE = 2
  CONSBUFSIZE = 3
  MaxLen = 2
  MaxTyped = 4
  MaxHeld = 2
INVARIANTS NobodySleepsOnInput TypedOnce
PROPERTIES InputSpec InputIsRead
CHECK_DEADLOCK FALSE
