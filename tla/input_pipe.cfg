\* The same buffer fed by a pipe.
CONSTANTS
  Chars = {a, b}
  NL = NL
  NUL = NUL
  Size = 6
  None = None
SPECIFICATION PipeSpec
INVARIANT OnlyArrived
CHECK_DEADLOCK FALSE
