\* Two consoles of different frame rates and the game host: joining players, a
\* reload, players who type simulation commands for the same and for different
\* turns, and sockets that are full after one message and then lose the next.
CONSTANTS
  NumClients = 2
  Framerate <- FramerateMixed
  Goals = {1, 9}
  Others = {}
  Empty = Empty
  SockCap = 1
  Leavers = {}
  MaxTurns = 2
  MaxInput = 1
  ReloadRuns <- ReloadJoined
SPECIFICATION Spec
INVARIANTS TypeOK InputConservation TurnCount NeverAhead NeverCorrupt Agreement
PROPERTIES ImplementsTurnLog
CHECK_DEADLOCK FALSE
