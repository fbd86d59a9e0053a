\* Two consoles that may stay, or one of them leaves or loses its connection.
CONSTANTS
  NumClients = 2
  Framerate <- Framerate1
  Goals = {}
  Others = {}
  Empty = Empty
  SockCap = 2
  Leavers = {1}
  MaxTurns = 2
  MaxInput = 0
  ReloadRuns <- ReloadJoined
SPECIFICATION FairSpec
PROPERTIES Progress LeaveCompletes
CHECK_DEADLOCK FALSE
