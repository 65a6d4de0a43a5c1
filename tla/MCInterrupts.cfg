\* No line rises between pic_remap and lidt, no key before keyboard_init.
SPECIFICATION Spec
CONSTANTS
  Lines <- MCLines
  Exceptions <- MCExceptions
  TssBases <- MCTssBases
  EarlyIRQs = FALSE
  EarlyKeys = FALSE
  MaxRaise = 4
INVARIANTS NothingBlocked SelectorsMatch
PROPERTIES ReachesOwnStub LineServed
