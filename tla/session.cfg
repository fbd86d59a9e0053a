\* Two players and a number beyond the array; a receive buffer that holds
\* a message of the second length but not of the longest; a command buffer
\* that just holds two of the shortest commands.
CONSTANTS
  Players = {0, 1, 2}
  Lengths = {1, 2, 3}
  MaxPlayer = 2
  Header = 1
  ClientMax = 4
  FrameMax = 4
  Queue = 2
  MaxStream = 2
  MaxTurns = 2
SPECIFICATION FairSpec
INVARIANTS TypeOK OnlyAllocated FrameFits
PROPERTIES Delivered LossNoticed InitEnds
CHECK_DEADLOCK FALSE
