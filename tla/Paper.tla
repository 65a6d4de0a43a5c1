------------------------------- MODULE Paper -------------------------------
(***************************************************************************)
(* A teletype: rows of paper that are never lost, and a print head.  What  *)
(* the text screen promises, with the rows that scrolled off kept.         *)
(***************************************************************************)
EXTENDS Integers, Sequences

CONSTANTS Cols, Tab, Rows, Printable, Blank

VARIABLES
  paper,   \* the rows, from the first on
  row,     \* the row under the print head
  col      \* the column under the print head

vars == <<paper, row, col>>

BlankRow == [c \in 0..(Cols - 1) |-> Blank]

Init ==
  /\ paper = [r \in 1..Rows |-> BlankRow]
  /\ row = 1
  /\ col = 0

\* The head moves to the row below, and paper is fed when there is none.
Feed(p) ==
  /\ col' = 0
  /\ row' = row + 1
  /\ paper' = IF row = Len(p) THEN Append(p, BlankRow) ELSE p

Strike(c) ==
  LET p == [paper EXCEPT ![row][col] = c]
  IN IF col = Cols - 1 THEN Feed(p)
     ELSE paper' = p /\ col' = col + 1 /\ row' = row

LineFeed == Feed(paper)

CarriageReturn == col' = 0 /\ UNCHANGED <<paper, row>>

NextStop ==
  LET stop == Tab * (col \div Tab + 1)
  IN IF stop >= Cols THEN Feed(paper)
     ELSE col' = stop /\ UNCHANGED <<paper, row>>

Rubout ==
  /\ col > 0
  /\ col' = col - 1
  /\ paper' = [paper EXCEPT ![row][col - 1] = Blank]
  /\ row' = row

Next ==
  \/ \E c \in Printable : Strike(c)
  \/ LineFeed
  \/ CarriageReturn
  \/ NextStop
  \/ Rubout

Spec == Init /\ [][Next]_vars
=============================================================================
