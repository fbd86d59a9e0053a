\* A socket to the server that holds one message and a byte, so that writes are
\* sent whole, cut short or find it full; buffers just large enough for one
\* message, so that reads split anywhere.  The longest command is too long for
\* the console's buffer.  The player quits at any time.
CONSTANTS
  Commands <- SmallCommands
  UpCap = 5
  DownCap = 2
  ServerMax = 4
  ClientMax = 5
  MaxSent = 3
SPECIFICATION FairSpec
INVARIANTS TypeOK KilledInFlight
PROPERTIES ImplementsEcho EchoDelivers TermCompletes
CHECK_DEADLOCK FALSE
