\* Keys may be pressed before keyboard_init.
SPECIFICATION Spec
CONSTANTS
  Lines <- MCLines
  Exceptions <- MCExceptions
  TssBases <- MCTssBases
  EarlyIRQs = FALSE
  EarlyKeys = TRUE
  MaxRaise = 2
PROPERTY KeysRead
