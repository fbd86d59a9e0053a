\* A buffer of six bytes: lines longer than it, lines of more than half of
\* it, and several short lines in one read.
CONSTANTS
  Chars = {a, b}
  NL = NL
  NUL = NUL
  Size = 6
  None = None
SPECIFICATION Spec
INVARIANTS Terminated TypeOK RoomToRead
PROPERTIES ImplementsLines
