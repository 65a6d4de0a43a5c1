------------------------------ MODULE Console ------------------------------
(***************************************************************************)
(* The text screen, drivers/vga.c, and the loop of the shell that reads a  *)
(* line with echo and runs a command, userspace/shell/shell.c.             *)
(*                                                                         *)
(* sys_write to stdout puts one character after the other on the screen:   *)
(* an action for each.  What the commands other than clear, echo and exit  *)
(* print depends on the other components; here it is any of Outputs.       *)
(***************************************************************************)
EXTENDS Integers, Sequences

CONSTANTS
  VGA_COLS, VGA_ROWS,   \* 80 and 25
  TabStop,              \* 8
  CMD_BUF_SIZE,         \* 256
  Prompt,               \* what print_prompt writes
  Glyphs,               \* printable characters, the blank among them
  Keys,                 \* characters the keyboard delivers
  Clear, Exit,          \* the lines that name these commands
  Outputs,              \* what the other commands may print
  MaxLog                \* bound: rows that may scroll off before keys stop

Blank == " "
Controls == {"LF", "CR", "TAB", "BS"}
Chars == Glyphs \cup Controls
Cells == 0..(VGA_ROWS * VGA_COLS - 1)
Row == [0..(VGA_COLS - 1) -> Glyphs]

ASSUME ConsoleAssumption ==
  /\ VGA_COLS \in Nat \ {0} /\ VGA_ROWS \in Nat \ {0}
  /\ TabStop \in Nat \ {0} /\ MaxLog \in Nat
  /\ CMD_BUF_SIZE \in Nat /\ CMD_BUF_SIZE > 1
  /\ Blank \in Glyphs /\ Glyphs \cap Controls = {}
  /\ Prompt \in Seq(Chars) /\ Clear \in Seq(Chars) /\ Exit \in Seq(Chars)
  /\ Keys \subseteq Chars
  /\ Outputs \subseteq Seq(Chars)

VARIABLES
  vga_buf, vga_row, vga_col,   \* the driver's state
  pc,      \* where the shell is: "prompt", "read", "exit"
  line,    \* cmd[0 .. pos - 1]
  out,     \* what sys_write still has to put on the screen
  log,     \* auxiliary: the rows that scrolled off
  home,    \* auxiliary: where the line began, counted in cells of the paper
  far,     \* auxiliary: the farthest the cursor has been since, counted alike
  torn     \* auxiliary: has a TAB been taken from the line?

vars == <<vga_buf, vga_row, vga_col, pc, line, out, log, home, far, torn>>

Init ==
  /\ vga_buf = [i \in Cells |-> Blank]
  /\ vga_row = 0
  /\ vga_col = 0
  /\ pc = "prompt"
  /\ line = <<>>
  /\ out = <<>>
  /\ log = <<>>
  /\ home = 0
  /\ far = 0
  /\ torn = FALSE

-----------------------------------------------------------------------------
(* drivers/vga.c *)

TopRow(buf) == [c \in 0..(VGA_COLS - 1) |-> buf[c]]

\* Mutant: the last row is not blanked.
vga_scrollKeep(buf) ==
  [i \in Cells |-> IF i + VGA_COLS \in Cells THEN buf[i + VGA_COLS] ELSE buf[i]]

\* The cells after the rows moved up by one and the last was blanked.
vga_scroll(buf) ==
  [i \in Cells |-> IF i + VGA_COLS \in Cells THEN buf[i + VGA_COLS] ELSE Blank]

\* Moves the cursor after buf was written, scrolling when the row is past the
\* last one.
Place(buf, row, col) ==
  /\ vga_col' = col
  /\ IF row >= VGA_ROWS
     THEN /\ vga_buf' = vga_scroll(buf)
          /\ vga_row' = VGA_ROWS - 1
          /\ log' = Append(log, TopRow(buf))
     ELSE vga_buf' = buf /\ vga_row' = row /\ log' = log

\* The same from a column that may be past the last one.
Wrap(buf, col) ==
  IF col >= VGA_COLS THEN Place(buf, vga_row + 1, 0) ELSE Place(buf, vga_row, col)

Cursor == vga_row * VGA_COLS + vga_col

putchar_glyph(c) ==
  /\ c \in Glyphs
  /\ Wrap([vga_buf EXCEPT ![Cursor] = c], vga_col + 1)

putchar_newline(c) == c = "LF" /\ Place(vga_buf, vga_row + 1, 0)

putchar_return(c) == c = "CR" /\ Place(vga_buf, vga_row, 0)

putchar_tab(c) ==
  LET next == vga_col + TabStop
  IN c = "TAB" /\ Wrap(vga_buf, next - (next % TabStop))

putchar_backspace(c) ==
  /\ c = "BS"
  /\ IF vga_col > 0
     THEN Place([vga_buf EXCEPT ![Cursor - 1] = Blank], vga_row, vga_col - 1)
     ELSE Place(vga_buf, vga_row, vga_col)

\* An iteration of the loop of sys_write.
vga_putchar ==
  /\ out # <<>>
  /\ LET c == Head(out)
     IN \/ putchar_glyph(c)
        \/ putchar_newline(c)
        \/ putchar_return(c)
        \/ putchar_tab(c)
        \/ putchar_backspace(c)
  /\ out' = Tail(out)
  /\ UNCHANGED <<pc, line, home, far, torn>>

-----------------------------------------------------------------------------
(* shell.c *)

Screen == <<vga_buf, vga_row, vga_col, log>>

\* The cell under the cursor, on the paper.
Here == Len(log) * VGA_COLS + Cursor

\* The loop of _start: the prompt.
print_prompt ==
  /\ pc = "prompt" /\ out = <<>>
  /\ out' = Prompt
  /\ pc' = "shown"
  /\ UNCHANGED <<Screen, line, home, far, torn>>

\* readline is called.
readline ==
  /\ pc = "shown" /\ out = <<>>
  /\ pc' = "read"
  /\ line' = <<>>
  /\ home' = Here
  /\ far' = Here
  /\ torn' = FALSE
  /\ UNCHANGED <<Screen, out>>

\* What the command named by a line prints; no command for an empty line.
\* The loop of cmd_clear and the Goodbye of exit are among them.
cmd(l) ==
  IF l = <<>> THEN {<<>>}
  ELSE IF l = Clear THEN {[i \in 1..(VGA_COLS * VGA_ROWS) |-> Blank] \o <<"CR">>}
  ELSE Outputs

\* readline returns l after writing echo, and the command of l runs.
Run(l, echo) ==
  /\ \E text \in cmd(l) : out' = echo \o text
  /\ pc' = IF l = Exit THEN "exit" ELSE "prompt"
  /\ line' = l

\* An iteration of the loop of readline, for a character c.
readline_enter(c) == c \in {"LF", "CR"} /\ Run(line, <<"LF">>)

\* Mutant: the second backspace is missing.
readline_eraseOnce(c) ==
  /\ c = "BS"
  /\ IF line # <<>> THEN line' = SubSeq(line, 1, Len(line) - 1) /\ out' = <<"BS", Blank>>
     ELSE UNCHANGED <<line, out>>
  /\ pc' = pc

readline_erase(c) ==
  /\ c = "BS"
  /\ IF line # <<>> THEN line' = SubSeq(line, 1, Len(line) - 1) /\ out' = <<"BS", Blank, "BS">>
     ELSE UNCHANGED <<line, out>>
  /\ pc' = pc

readline_store(c) ==
  /\ c \notin {"LF", "CR", "BS"}
  /\ LET l == Append(line, c)
     IN IF Len(l) < CMD_BUF_SIZE - 1
        THEN line' = l /\ out' = <<c>> /\ pc' = pc
        ELSE Run(l, <<c>>)

readline_key ==
  /\ pc = "read" /\ out = <<>>
  /\ Len(log) < MaxLog
  /\ \E c \in Keys : readline_enter(c) \/ readline_erase(c) \/ readline_store(c)
  /\ far' = IF Here > far THEN Here ELSE far
  /\ torn' = (torn \/ (Len(line') < Len(line) /\ line[Len(line)] = "TAB"))
  /\ UNCHANGED <<Screen, home>>

Next == vga_putchar \/ print_prompt \/ readline \/ readline_key

Spec == Init /\ [][Next]_vars

-----------------------------------------------------------------------------
(* Properties *)

\* The cursor stays on the screen, whatever is written, and the line stays in
\* the buffer with room for its terminating zero.
TypeOK ==
  /\ vga_buf \in [Cells -> Glyphs]
  /\ vga_row \in 0..(VGA_ROWS - 1)
  /\ vga_col \in 0..(VGA_COLS - 1)
  /\ pc \in {"prompt", "shown", "read", "exit"}
  /\ line \in Seq(Chars) /\ Len(line) < CMD_BUF_SIZE
  /\ out \in Seq(Chars)
  /\ log \in Seq(Row)
  /\ home \in Nat /\ far \in Nat /\ torn \in BOOLEAN

\* The cell i of the paper: scrolled off, or still on the screen.
PaperCell(i) ==
  IF i < Len(log) * VGA_COLS THEN log[(i \div VGA_COLS) + 1][i % VGA_COLS]
  ELSE vga_buf[i - Len(log) * VGA_COLS]

\* The cell behind a character that stands at cell i of the paper: a TAB reaches
\* to the next stop, at most to the end of the row.
Behind(i, c) ==
  LET next == (i % VGA_COLS) + TabStop
      stop == next - (next % TabStop)
  IN IF c # "TAB" THEN i + 1
     ELSE i - (i % VGA_COLS) + (IF stop < VGA_COLS THEN stop ELSE VGA_COLS)

\* From home on the paper shows the line, the cursor is behind its last character,
\* and there are blanks where characters were erased.
LineShown ==
  LET End[k \in 0..Len(line)] == IF k = 0 THEN home ELSE Behind(End[k - 1], line[k])
  IN /\ Here = End[Len(line)]
     /\ \A k \in 1..Len(line) : line[k] # "TAB" => PaperCell(End[k - 1]) = line[k]
     /\ \A i \in Here..(far - 1) : PaperCell(i) = Blank

\* While the cursor is in the row the line began in and no TAB has been taken from
\* the line, the screen shows the line that readline has: every echo, tabs
\* included, and every "\b \b", however they follow on each other and however
\* often the screen has scrolled.  An erased TAB is left out because "\b \b"
\* takes back one column of it, whatever its width.
EchoExact ==
  /\ pc = "read" /\ out = <<>>
  /\ Here \div VGA_COLS = home \div VGA_COLS /\ ~torn
  => LineShown

\* Backspace erases on the screen what it takes from the line, as readline's
\* comment and the test plan say.  In a line that has wrapped it does not:
\* vga_putchar takes no '\b' past column 0.
EraseShown == pc = "read" /\ out = <<>> => LineShown

\* The screen as the end of a roll of paper.
Sheet ==
  log \o [r \in 1..VGA_ROWS |-> [c \in 0..(VGA_COLS - 1) |-> vga_buf[(r - 1) * VGA_COLS + c]]]

Roll == INSTANCE Paper
  WITH Cols <- VGA_COLS, Tab <- TabStop, Rows <- VGA_ROWS, Printable <- Glyphs,
       Blank <- Blank, paper <- Sheet, row <- Len(log) + vga_row + 1, col <- vga_col

\* Wrapping, tabs, backspaces and scrolling in a fixed array of cells show the
\* end of what a teletype would have printed: no row is lost, repeated or
\* overwritten by a scroll.
ImplementsPaper == Roll!Spec
=============================================================================
