\* Scripts of three commands, and a console that starts over at any point.
CONSTANTS
  Consoles = {c1}
  Tokens <- MCTokens
  Names <- MCNames
  Stored <- MCStored
  Literal <- MCLiteral
  NumFns = 2
  ParamCount = 2
  MaxVariable = 2
  MaxFunc = 4
  WordSize = 4
  Call <- MCCall
  DoubleOp <- MCDoubleOp
  Opcodes <- MCOpcodes
  Garbage <- MCGarbage
  Magnitudes = 2
  MaxScript = 3
  MayReload = TRUE
  Typed <- AllCommands
SPECIFICATION Spec
INVARIANTS TypeOK UniqueNames LoadHandles
PROPERTIES StoredResults CrashCauses
CHECK_DEADLOCK FALSE
