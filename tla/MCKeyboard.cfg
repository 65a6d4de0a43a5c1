\* A ring of four slots wraps several times; two keys tell characters apart.
CONSTANTS
  KBD_BUF_SIZE = 4
  Keys = {"a", "b"}
SPECIFICATION FairSpec
PROPERTIES ImplementsFifo ReaderWakes
