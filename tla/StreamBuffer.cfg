SPECIFICATION ReaderSpec
CONSTANTS
  Byte <- MCByte
  Space <- MCSpace
  HighByte = "xFF"
  NUL = "nul"
  TrueCh = "T"
  FalseCh = "F"
  IntTokens <- MCIntTokens
  RealTokens <- MCRealTokens
  EOF = EOF
  BufLen = 4
  MaxInput = 5
INVARIANTS TypeOK WindowInv NeverPastEnd
PROPERTIES ImplementsAbstractInput TakesIffRead EndIsFinal ReaderReachesEnd
CHECK_DEADLOCK FALSE
