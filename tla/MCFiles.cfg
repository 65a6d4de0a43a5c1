\* Every directory of up to three entries; with a shell among them, the calls
\* of two processes that have one descriptor each for files of two bytes.
CONSTANTS
  MAX_FILES = 3
  Header = 1
  EntrySize = 2
  Cut <- MCCut
  RAMFS_MAX_FILES = 3
  RAMFS_MAX_FILE_SIZE = 2
  MAX_FDS = 4
  Names <- MCNames
  Bytes = {0, 1}
  Hello <- MCHello
  HelloMsg <- MCHelloMsg
  Shell <- MCShell
  Modules <- MCModules
  MaxLen = 2
  Maxes = {1, 2}
  Shells = {"shell"}
  CatLen = 1
  LsMax = 2
SPECIFICATION ShellSpec
INVARIANTS OffsetsInside UniqueNames PackedLoaded
PROPERTIES ImplementsFileStore CatEnds
