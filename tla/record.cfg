\* A record that doubles twice, read by two readers.
CONSTANTS
  Bytes = {1, 2}
  NUL = 0
  Commands <- SmallCommands
  Readers = {r1, r2}
  None = None
  InitAlloc = 3
  WordSize = 16
  MaxBytes = 8
SPECIFICATION Spec
INVARIANTS TypeOK Fits CopyReplays
PROPERTIES ImplementsLog
