\* A result command and a console that starts over.
CONSTANTS
  Consoles = {c1}
  Tokens <- MCTokens
  Names <- MCNames
  Stored <- MCStored
  Literal <- MCLiteral
  NumFns = 2
  ParamCount = 2
  MaxVariable = 2
  MaxFunc = 20
  WordSize = 4
  Call <- MCCall
  DoubleOp <- MCDoubleOp
  Opcodes <- MCOpcodes
  Garbage <- MCGarbage
  Magnitudes = 2
  MaxScript = 4
  MayReload = TRUE
  Typed <- ResultCommands
SPECIFICATION Spec
INVARIANT NoCrash
CHECK_DEADLOCK FALSE
