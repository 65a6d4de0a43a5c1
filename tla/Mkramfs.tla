------------------------------ MODULE Mkramfs ------------------------------
(***************************************************************************)
(* tools/mkramfs.c: a directory packed into the image that initramfs_load  *)
(* reads.  The header and the entry table take HeaderSize bytes; the data  *)
(* of the files follow at the offsets the table gives.                     *)
(***************************************************************************)
EXTENDS Integers, Sequences, FiniteSetsExt

CONSTANTS
  MAX_FILES,     \* 64
  Header,        \* 8: magic and count
  EntrySize,     \* 72: name, offset, size
  Cut            \* name -> its first 63 characters

\* An entry of the directory: [name, hidden, regular, data], regular if it is a
\* regular file that stat, fopen and malloc accept.  The others and the hidden
\* ones are passed over; the first MAX_FILES are packed.
Packed(dir) ==
  LET files == SelectSeq(dir, LAMBDA e : ~e.hidden /\ e.regular)
  IN SubSeq(files, 1, IF Len(files) > MAX_FILES THEN MAX_FILES ELSE Len(files))

HeaderSize(files) == Header + EntrySize * Len(files)

\* The bytes of the files before file k.
Before(files, k) == MapThenSumSet(LAMBDA j : Len(files[j].data), 1..(k - 1))

\* Mutant: the entry table is not counted.
DataOffsetNoTable(files, k) == Header + Before(files, k)

\* The offset the table gives for file k: the table and the files before it.
DataOffset(files, k) == HeaderSize(files) + Before(files, k)

\* What is at position p after the table, where the data of the files are
\* written one after the other.
DataAt(files, p) ==
  LET k == CHOOSE j \in 1..Len(files) : Before(files, j) <= p /\ p < Before(files, j + 1)
  IN files[k].data[p - Before(files, k) + 1]

\* The image: the table, and the byte at each address.
mkramfs(dir) ==
  LET files == Packed(dir)
      size == HeaderSize(files) + Before(files, Len(files) + 1)
  IN [entries |-> [k \in 1..Len(files) |-> [name |-> Cut[files[k].name],
                                           offset |-> DataOffset(files, k),
                                           size |-> Len(files[k].data)]],
      bytes |-> [a \in 0..(size - 1) |->
                   IF a < HeaderSize(files) THEN 0 ELSE DataAt(files, a - HeaderSize(files))]]
=============================================================================
