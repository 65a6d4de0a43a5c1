\* Lines may rise between pic_remap and lidt.
SPECIFICATION Spec
CONSTANTS
  Lines <- MCLines
  Exceptions <- MCExceptions
  TssBases <- MCTssBases
  EarlyIRQs = TRUE
  EarlyKeys = FALSE
  MaxRaise = 4
PROPERTY ReachesOwnStub
