\* A line that wraps.
CONSTANTS
  VGA_COLS = 4
  VGA_ROWS = 3
  TabStop = 2
  CMD_BUF_SIZE = 5
  Prompt <- MCPrompt
  Glyphs = {" ", "$", "c", "x"}
  Keys = {"c", "x", "BS", "LF"}
  Clear <- MCClear
  Exit <- MCExit
  Outputs <- MCOutputs
  MaxLog = 1
SPECIFICATION Spec
\* The shell waits for a key when nobody types, and stops after exit.
CHECK_DEADLOCK FALSE
INVARIANT EraseShown
