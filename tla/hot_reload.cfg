\* Two rebuilds and a buffer of two events.
CONSTANTS
  SymTab <- MCSymTab
  MaxSymbols = 2
  BufEvents = 2
  Closed = Closed
  MaxOther = 2
  MaxReload = 2
SPECIFICATION Spec
INVARIANTS TypeOK TablesOfLoaded NoBuildMissed
PROPERTY BuildLoaded
CHECK_DEADLOCK FALSE
