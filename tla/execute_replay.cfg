\* Two consoles with a variable that counts frames; either may start over.
CONSTANTS
  Consoles = {c1, c2}
  Tokens <- MCTokens
  Names <- MCNames
  Stored <- MCStored
  Literal <- MCLiteral
  NumFns = 2
  ParamCount = 2
  MaxVariable = 2
  MaxFunc = 20
  WordSize = 4
  Call <- MCCall
  DoubleOp <- MCDoubleOp
  Opcodes <- MCOpcodes
  Garbage <- MCGarbage
  Magnitudes = 2
  MaxScript = 4
  MayReload = TRUE
  Typed <- CountCommands
SPECIFICATION Spec
INVARIANT Synchronized
CHECK_DEADLOCK FALSE
