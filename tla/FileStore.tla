----------------------------- MODULE FileStore -----------------------------
(***************************************************************************)
(* What the file system calls promise: a set of named byte strings that    *)
(* never shrink, and descriptors that read and write them at an offset of  *)
(* their own.                                                              *)
(***************************************************************************)
EXTENDS Integers, Sequences

CONSTANTS Owners, Names, Strings, Closed

VARIABLES
  content,   \* name -> the bytes of the file
  desc,      \* owner and descriptor -> what is open there, and where
  out,       \* the bytes the last call delivered
  listing    \* name -> size, the files the last call listed

vars == <<content, desc, out, listing>>

None == [n \in {} |-> 0]

Init ==
  /\ content = [n \in {} |-> <<>>]
  /\ desc = [o \in Owners |-> Closed]
  /\ out = <<>>
  /\ listing = None

\* s, laid over the bytes of old from offset on.
Overlay(old, offset, s) ==
  LET end == offset + Len(s)
  IN [i \in 1..(IF end > Len(old) THEN end ELSE Len(old)) |->
        IF offset < i /\ i <= end THEN s[i - offset] ELSE old[i]]

\* A file of a name that is not in use.
Create(n, s) ==
  /\ content' = [m \in DOMAIN content \cup {n} |-> IF m = n THEN s ELSE content[m]]
  /\ out' = <<>>
  /\ listing' = None
  /\ UNCHANGED desc

Open(o, n) ==
  /\ desc[o] = Closed
  /\ n \in DOMAIN content
  /\ desc' = [desc EXCEPT ![o] = [name |-> n, offset |-> 0]]
  /\ out' = <<>>
  /\ listing' = None
  /\ UNCHANGED content

Close(o) ==
  /\ desc[o] # Closed
  /\ desc' = [desc EXCEPT ![o] = Closed]
  /\ out' = <<>>
  /\ listing' = None
  /\ UNCHANGED content

Write(o, s) ==
  /\ desc[o] # Closed
  /\ desc' = [desc EXCEPT ![o].offset = @ + Len(s)]
  /\ content' = [content EXCEPT ![desc[o].name] = Overlay(@, desc[o].offset, s)]
  /\ out' = <<>>
  /\ listing' = None

Read(o) ==
  /\ desc[o] # Closed
  /\ listing' = None
  /\ LET d == desc[o]
         bytes == content[d.name]
     IN \E k \in 0..(Len(bytes) - d.offset) :
          /\ out' = SubSeq(bytes, d.offset + 1, d.offset + k)
          /\ desc' = [desc EXCEPT ![o].offset = @ + k]
  /\ UNCHANGED content

\* The first files of the directory, or all of them.
List ==
  /\ \E shown \in SUBSET DOMAIN content :
       listing' = [n \in shown |-> Len(content[n])]
  /\ out' = <<>>
  /\ UNCHANGED <<content, desc>>

Fail ==
  /\ out' = <<>>
  /\ listing' = None
  /\ UNCHANGED <<desc, content>>

Next ==
  \/ Fail
  \/ \E o \in Owners : Close(o) \/ Read(o)
  \/ \E o \in Owners, n \in Names : Open(o, n)
  \/ \E o \in Owners, s \in Strings : Write(o, s)
  \/ List
  \/ \E n \in Names \ DOMAIN content, s \in Strings : Create(n, s)

Spec == Init /\ [][Next]_vars
=============================================================================
