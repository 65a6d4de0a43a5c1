--------------------------- MODULE ConsoleProofs ---------------------------
(***************************************************************************)
(* Proofs about Console, for every screen size, tab stop, buffer size,     *)
(* prompt, command output and sequence of keys.                            *)
(***************************************************************************)
EXTENDS Console, SequenceTheorems, TLAPS

Buffer == [Cells -> Glyphs]

\* The first row is on the screen.
LEMMA FirstRow == 0..(VGA_COLS - 1) \subseteq Cells
<1>1. VGA_COLS \in Nat /\ VGA_ROWS \in Nat /\ VGA_ROWS >= 1
  BY ConsoleAssumption
<1>2. VGA_ROWS * VGA_COLS >= VGA_COLS
  BY ONLY <1>1
<1>3. VGA_ROWS * VGA_COLS \in Nat
  BY ONLY <1>1
<1> QED
  BY <1>1, <1>2, <1>3 DEF Cells

\* A tab goes to a column, perhaps past the last one.
LEMMA TabColumn ==
  ASSUME NEW next \in Nat
  PROVE  next - (next % TabStop) \in Nat
<1>1. TabStop \in Nat /\ TabStop > 0
  BY ConsoleAssumption
<1>2. next % TabStop \in 0..(TabStop - 1) /\ next = TabStop * (next \div TabStop) + (next % TabStop)
  BY <1>1
<1>3. next \div TabStop \in Nat
  BY <1>1
<1>4. TabStop * (next \div TabStop) \in Nat
  BY ONLY <1>1, <1>3
<1> QED
  BY <1>2, <1>4

ScreenOK ==
  /\ vga_buf \in Buffer
  /\ vga_row \in 0..(VGA_ROWS - 1)
  /\ vga_col \in 0..(VGA_COLS - 1)
  /\ log \in Seq(Row)

\* Placing the cursor at most one row below keeps it on the screen.
LEMMA PlaceStep ==
  ASSUME ScreenOK, NEW buf \in Buffer, NEW row \in Nat, NEW col \in 0..(VGA_COLS - 1),
         Place(buf, row, col)
  PROVE  ScreenOK'
<1>1. VGA_COLS \in Nat /\ VGA_ROWS \in Nat /\ VGA_ROWS >= 1 /\ Blank \in Glyphs
  BY ConsoleAssumption
<1>2. CASE row >= VGA_ROWS
  <2>1. vga_scroll(buf) \in Buffer
    BY <1>1 DEF vga_scroll, Buffer
  <2>2. TopRow(buf) \in Row
    BY FirstRow DEF TopRow, Row, Buffer
  <2>3. vga_buf' = vga_scroll(buf) /\ vga_row' = VGA_ROWS - 1 /\ log' = Append(log, TopRow(buf))
    BY <1>2 DEF Place
  <2>4. log' \in Seq(Row)
    <3> HIDE DEF Row
    <3> QED
      BY <2>2, <2>3 DEF ScreenOK
  <2> QED
    BY <1>1, <2>1, <2>3, <2>4 DEF ScreenOK, Place
<1>3. CASE ~(row >= VGA_ROWS)
  <2>1. vga_buf' = buf /\ vga_row' = row /\ log' = log /\ vga_col' = col
    BY <1>3 DEF Place
  <2> QED
    BY <1>1, <1>3, <2>1 DEF ScreenOK
<1> QED
  BY <1>2, <1>3

LEMMA WrapStep ==
  ASSUME ScreenOK, NEW buf \in Buffer, NEW col \in Nat, Wrap(buf, col)
  PROVE  ScreenOK'
<1>1. VGA_COLS \in Nat \ {0} /\ VGA_ROWS \in Nat \ {0} /\ vga_row \in Nat /\ vga_row + 1 \in Nat
  BY ConsoleAssumption DEF ScreenOK
<1>2. CASE col >= VGA_COLS
  <2>1. Place(buf, vga_row + 1, 0) /\ 0 \in 0..(VGA_COLS - 1)
    BY <1>1, <1>2 DEF Wrap
  <2> QED
    BY <1>1, <2>1, PlaceStep
<1>3. CASE ~(col >= VGA_COLS)
  <2>1. Place(buf, vga_row, col) /\ col \in 0..(VGA_COLS - 1)
    BY <1>1, <1>3 DEF Wrap
  <2> QED
    BY <1>1, <2>1, PlaceStep
<1> QED
  BY <1>2, <1>3

\* vga_putchar keeps the cursor on the screen and the cells printable.
LEMMA PutcharStep ==
  ASSUME ScreenOK, NEW c,
         \/ putchar_glyph(c) \/ putchar_newline(c) \/ putchar_return(c)
         \/ putchar_tab(c) \/ putchar_backspace(c)
  PROVE  ScreenOK'
<1>1. /\ VGA_COLS \in Nat \ {0} /\ VGA_ROWS \in Nat \ {0} /\ TabStop \in Nat \ {0}
      /\ Blank \in Glyphs
  BY ConsoleAssumption
<1>2. vga_buf \in Buffer /\ vga_row \in Nat /\ vga_col \in 0..(VGA_COLS - 1)
  BY <1>1 DEF ScreenOK
<1>3. \A i, g : g \in Glyphs => [vga_buf EXCEPT ![i] = g] \in Buffer
  BY <1>2, Zenon DEF Buffer
<1>4. CASE putchar_glyph(c)
  <2>1. [vga_buf EXCEPT ![Cursor] = c] \in Buffer /\ vga_col + 1 \in Nat
    BY <1>1, <1>2, <1>3, <1>4 DEF putchar_glyph
  <2> QED
    BY <1>4, <2>1, WrapStep DEF putchar_glyph
<1>5. CASE putchar_newline(c)
  <2>1. vga_row + 1 \in Nat /\ 0 \in 0..(VGA_COLS - 1)
    BY <1>1, <1>2
  <2> QED
    BY <1>2, <1>5, <2>1, PlaceStep DEF putchar_newline
<1>6. CASE putchar_return(c)
  <2>1. 0 \in 0..(VGA_COLS - 1)
    BY <1>1
  <2> QED
    BY <1>2, <1>6, <2>1, PlaceStep DEF putchar_return
<1>7. CASE putchar_tab(c)
  <2> DEFINE next == vga_col + TabStop
  <2>1. next \in Nat
    BY <1>1, <1>2
  <2>2. next - (next % TabStop) \in Nat
    <3> HIDE DEF next
    <3> QED
      BY <2>1, TabColumn
  <2>3. Wrap(vga_buf, next - (next % TabStop))
    BY <1>7 DEF putchar_tab
  <2> HIDE DEF next
  <2> QED
    BY <1>2, <2>2, <2>3, WrapStep
<1>8. CASE putchar_backspace(c)
  <2>1. CASE vga_col > 0
    <3>0. vga_col - 1 \in 0..(VGA_COLS - 1)
      BY <1>1, <1>2, <2>1
    <3>1. [vga_buf EXCEPT ![Cursor - 1] = Blank] \in Buffer
      BY <1>1, <1>3, Zenon
    <3>2. Place([vga_buf EXCEPT ![Cursor - 1] = Blank], vga_row, vga_col - 1)
      BY <1>8, <2>1 DEF putchar_backspace
    <3> QED
      BY <1>2, <3>0, <3>1, <3>2, PlaceStep
  <2>2. CASE ~(vga_col > 0)
    <3>1. Place(vga_buf, vga_row, vga_col)
      BY <1>8, <2>2 DEF putchar_backspace
    <3> QED
      BY <1>2, <3>1, PlaceStep
  <2> QED
    BY <2>1, <2>2
<1> QED
  BY <1>4, <1>5, <1>6, <1>7, <1>8

-----------------------------------------------------------------------------
(* The line.  While readline reads there is room for one more character    *)
(* and for the terminating zero.                                           *)

ShellOK ==
  /\ pc \in {"prompt", "shown", "read", "exit"}
  /\ line \in Seq(Chars) /\ Len(line) < CMD_BUF_SIZE
  /\ pc = "read" => Len(line) < CMD_BUF_SIZE - 1
  /\ out \in Seq(Chars)
  /\ home \in Nat /\ far \in Nat /\ torn \in BOOLEAN

Inv == ScreenOK /\ ShellOK

LEMMA HereNat == ScreenOK => Here \in Nat
<1> SUFFICES ASSUME ScreenOK PROVE Here \in Nat
  OBVIOUS
<1>1. VGA_COLS \in Nat /\ VGA_ROWS \in Nat
  BY ConsoleAssumption
<1>2. vga_row \in Nat /\ vga_col \in Nat
  BY <1>1 DEF ScreenOK
<1>3. Len(log) \in Nat
  <2> HIDE DEF Row
  <2> QED
    BY DEF ScreenOK
<1>4. vga_row * VGA_COLS \in Nat /\ Len(log) * VGA_COLS \in Nat
  BY ONLY <1>1, <1>2, <1>3
<1> QED
  BY <1>2, <1>4 DEF Here, Cursor

LEMMA Controls4 == {"LF", "CR", "TAB", "BS"} \subseteq Chars /\ Blank \in Chars
  BY ConsoleAssumption DEF Chars, Controls

\* What a command prints is a sequence of characters.
LEMMA CmdChars ==
  ASSUME NEW l, NEW text \in cmd(l)
  PROVE  text \in Seq(Chars)
<1>1. CASE l = <<>>
  <2>1. text = <<>>
    BY <1>1 DEF cmd
  <2> QED
    BY <2>1
<1>2. CASE l # <<>> /\ l = Clear
  <2> DEFINE n == VGA_COLS * VGA_ROWS
             blanks == [i \in 1..n |-> Blank]
             ret == <<"CR">>
  <2>1. n \in Nat
    <3>1. VGA_COLS \in Nat /\ VGA_ROWS \in Nat
      BY ConsoleAssumption
    <3> QED
      BY ONLY <3>1
  <2>2. text = blanks \o ret
    BY <1>2, Zenon DEF cmd
  <2> HIDE DEF n
  <2>3. blanks \in Seq(Chars)
    <3> HIDE DEF Chars, Blank
    <3> QED
      BY <2>1, Controls4
  <2>4. ret \in Seq(Chars)
    <3>1. "CR" \in Chars
      BY Controls4
    <3> QED
      BY <3>1
  <2> HIDE DEF blanks, ret
  <2> QED
    BY <2>2, <2>3, <2>4
<1>3. CASE l # <<>> /\ l # Clear
  BY <1>3, ConsoleAssumption DEF cmd
<1> QED
  BY <1>1, <1>2, <1>3

LEMMA InitInv == Init => Inv
<1> SUFFICES ASSUME Init PROVE Inv
  OBVIOUS
<1>1. VGA_COLS \in Nat \ {0} /\ VGA_ROWS \in Nat \ {0} /\ Blank \in Glyphs
      /\ CMD_BUF_SIZE \in Nat /\ CMD_BUF_SIZE > 1
  BY ConsoleAssumption
<1>2. ScreenOK
  BY <1>1 DEF Init, ScreenOK, Buffer
<1>3. torn \in BOOLEAN
  BY Zenon DEF Init
<1>4. ShellOK
  BY <1>1, <1>3 DEF Init, ShellOK
<1> QED
  BY <1>2, <1>4 DEF Inv

\* readline returns l.
LEMMA RunStep ==
  ASSUME ShellOK, NEW l \in Seq(Chars), Len(l) < CMD_BUF_SIZE, NEW echo \in Seq(Chars),
         Run(l, echo)
  PROVE  /\ out' \in Seq(Chars)
         /\ line' \in Seq(Chars) /\ Len(line') < CMD_BUF_SIZE
         /\ pc' \in {"prompt", "exit"}
<1>1. PICK text \in cmd(l) : out' = echo \o text
  BY DEF Run
<1>2. text \in Seq(Chars)
  BY CmdChars
<1>3. out' \in Seq(Chars)
  <2> HIDE DEF Chars
  <2> QED
    BY <1>1, <1>2
<1> QED
  BY <1>3 DEF Run

LEMMA KeyStep ==
  ASSUME Inv, readline_key
  PROVE  Inv'
<1>0. /\ CMD_BUF_SIZE \in Nat /\ CMD_BUF_SIZE > 1
      /\ pc = "read"
      /\ line \in Seq(Chars) /\ Len(line) < CMD_BUF_SIZE - 1 /\ Len(line) \in Nat
      /\ far \in Nat /\ home \in Nat
  BY ConsoleAssumption DEF Inv, ShellOK, readline_key
<1>1. UNCHANGED <<vga_buf, vga_row, vga_col, log>> /\ home' = home /\ out = <<>>
  BY DEF readline_key, Screen
<1>2. ScreenOK' /\ far' \in Nat /\ torn' \in BOOLEAN
  <2>1. ScreenOK'
    BY <1>1 DEF Inv, ScreenOK
  <2>2. far' \in Nat
    BY <1>0, HereNat DEF Inv, readline_key
  <2>3. torn' \in BOOLEAN
    BY Zenon DEF Inv, ShellOK, readline_key
  <2> QED
    BY <2>1, <2>2, <2>3
<1>3. PICK c \in Keys : readline_enter(c) \/ readline_erase(c) \/ readline_store(c)
  BY DEF readline_key
<1>4. c \in Chars
  BY ConsoleAssumption
<1>5. CASE readline_enter(c)
  <2>1. <<"LF">> \in Seq(Chars)
    <3>1. "LF" \in Chars
      BY Controls4
    <3> QED
      BY <3>1
  <2>2. Run(line, <<"LF">>)
    BY <1>5 DEF readline_enter
  <2>3. Len(line) < CMD_BUF_SIZE
    BY <1>0
  <2>4. /\ out' \in Seq(Chars)
        /\ line' \in Seq(Chars) /\ Len(line') < CMD_BUF_SIZE
        /\ pc' \in {"prompt", "exit"}
    BY <1>0, <2>1, <2>2, <2>3, RunStep, Zenon DEF Inv
  <2> QED
    BY <1>0, <1>1, <1>2, <2>4 DEF Inv, ShellOK
<1>6. CASE readline_erase(c)
  <2>1. pc' = "read"
    BY <1>0, <1>6 DEF readline_erase
  <2>2. CASE line # <<>>
    <3> DEFINE n == Len(line)
               front == SubSeq(line, 1, n - 1)
    <3>1. line' = front /\ out' = <<"BS", Blank, "BS">>
      BY <1>6, <2>2 DEF readline_erase
    <3>2. front \in Seq(Chars) /\ Len(front) = n - 1
      <4> HIDE DEF Chars
      <4>1. n >= 1 /\ n \in Nat /\ n - 1 \in Int
        BY <1>0, <2>2, EmptySeq
      <4>2. \A i \in 1..(n - 1) : line[i] \in Chars
        BY <1>0, <4>1
      <4>3. /\ front \in Seq(Chars)
            /\ Len(front) = IF 1 <= n - 1 THEN n - 1 - 1 + 1 ELSE 0
        BY <4>1, <4>2, SubSeqProperties
      <4> HIDE DEF n, front
      <4> QED
        BY ONLY <4>1, <4>3
    <3>3. <<"BS", Blank, "BS">> \in Seq(Chars)
      <4>1. "BS" \in Chars /\ Blank \in Chars
        BY Controls4
      <4> HIDE DEF Chars
      <4> QED
        BY <4>1
    <3>4. out' \in Seq(Chars) /\ line' \in Seq(Chars) /\ Len(line') = Len(line) - 1
      BY <3>1, <3>2, <3>3
    <3>5. Len(line') < CMD_BUF_SIZE - 1 /\ Len(line') < CMD_BUF_SIZE
      BY <1>0, <3>4
    <3> QED
      BY <1>0, <1>1, <1>2, <2>1, <3>4, <3>5 DEF Inv, ShellOK
  <2>3. CASE line = <<>>
    <3>1. line' = line /\ out' = out
      BY <1>6, <2>3 DEF readline_erase
    <3> QED
      BY <1>0, <1>1, <1>2, <2>1, <3>1 DEF Inv, ShellOK
  <2> QED
    BY <2>2, <2>3
<1>7. CASE readline_store(c)
  <2> DEFINE l == Append(line, c)
  <2>1. l \in Seq(Chars) /\ Len(l) = Len(line) + 1 /\ <<c>> \in Seq(Chars)
    <3> HIDE DEF Chars
    <3> QED
      BY <1>0, <1>4
  <2>2. Len(l) < CMD_BUF_SIZE
    BY <1>0, <2>1
  <2>3. CASE Len(l) < CMD_BUF_SIZE - 1
    <3>1. line' = l /\ out' = <<c>> /\ pc' = pc
      BY <1>7, <2>3 DEF readline_store
    <3> QED
      BY <1>0, <1>1, <1>2, <2>1, <2>2, <2>3, <3>1 DEF Inv, ShellOK
  <2>4. CASE ~(Len(l) < CMD_BUF_SIZE - 1)
    <3>1. Run(l, <<c>>)
      BY <1>7, <2>4 DEF readline_store
    <3> HIDE DEF l
    <3>2. /\ out' \in Seq(Chars)
          /\ line' \in Seq(Chars) /\ Len(line') < CMD_BUF_SIZE
          /\ pc' \in {"prompt", "exit"}
      BY <2>1, <2>2, <3>1, RunStep, Zenon DEF Inv
    <3> QED
      BY <1>0, <1>1, <1>2, <3>2 DEF Inv, ShellOK
  <2> QED
    BY <2>3, <2>4
<1> QED
  BY <1>3, <1>5, <1>6, <1>7

LEMMA NextInv == Inv /\ [Next]_vars => Inv'
<1> SUFFICES ASSUME Inv, [Next]_vars PROVE Inv'
  OBVIOUS
<1>1. CASE vga_putchar
  <2>1. PICK c : \/ putchar_glyph(c) \/ putchar_newline(c) \/ putchar_return(c)
                 \/ putchar_tab(c) \/ putchar_backspace(c)
    BY <1>1 DEF vga_putchar
  <2>2. ScreenOK'
    BY <2>1, PutcharStep DEF Inv
  <2>3. out # <<>> /\ out' = Tail(out) /\ UNCHANGED <<pc, line, home, far, torn>>
    BY <1>1 DEF vga_putchar
  <2>4. out' \in Seq(Chars)
    <3> HIDE DEF Chars
    <3> QED
      BY <2>3 DEF Inv, ShellOK
  <2> QED
    BY <2>2, <2>3, <2>4 DEF Inv, ShellOK
<1>2. CASE print_prompt
  <2>1. Prompt \in Seq(Chars)
    BY ConsoleAssumption
  <2> QED
    BY <1>2, <2>1 DEF print_prompt, Screen, Inv, ScreenOK, ShellOK
<1>3. CASE readline
  <2>1. /\ CMD_BUF_SIZE \in Nat /\ CMD_BUF_SIZE > 1
        /\ UNCHANGED <<vga_buf, vga_row, vga_col, log, out>>
        /\ pc' = "read" /\ line' = <<>> /\ home' = Here /\ far' = Here
    BY <1>3, ConsoleAssumption DEF readline, Screen
  <2>2. home' \in Nat /\ far' \in Nat
    BY <2>1, HereNat DEF Inv
  <2>3. ScreenOK'
    BY <2>1 DEF Inv, ScreenOK
  <2>4. line' \in Seq(Chars) /\ Len(line') = 0
    BY <2>1
  <2>5. torn' \in BOOLEAN
    BY <1>3, Zenon DEF readline
  <2> QED
    BY <2>1, <2>2, <2>3, <2>4, <2>5 DEF Inv, ShellOK
<1>4. CASE readline_key
  BY <1>4, KeyStep
<1>5. CASE UNCHANGED vars
  BY <1>5 DEF vars, Inv, ScreenOK, ShellOK
<1> QED
  BY <1>1, <1>2, <1>3, <1>4, <1>5 DEF Next

\* Whatever is typed and printed, the cursor and so every store of the driver
\* stays inside the screen, and readline stays inside its buffer.
THEOREM TypeCorrect == Spec => []TypeOK
<1>1. Init => Inv
  BY InitInv
<1>2. Inv /\ [Next]_vars => Inv'
  BY NextInv
<1>3. Inv => TypeOK
  BY DEF Inv, ScreenOK, ShellOK, TypeOK, Buffer
<1> QED
  BY <1>1, <1>2, <1>3, PTL DEF Spec
=============================================================================
