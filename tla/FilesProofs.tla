---------------------------- MODULE FilesProofs ----------------------------
(***************************************************************************)
(* Proofs about Files, for every number of slots, size limit, number of    *)
(* descriptors, set of images and order of calls.                          *)
(***************************************************************************)
EXTENDS ShellCommands, FiniteSetTheorems, WellFoundedInduction, TLAPS

LEMMA LeastExists ==
  ASSUME NEW S \in SUBSET Nat, S # {}
  PROVE  Min(S) \in S
<1> DEFINE Less == {ss \in Nat \X Nat : ss[1] < ss[2]}
<1>0. Less = OpToRel(<, Nat)
  BY Zenon DEF OpToRel
<1>1. IsWellFoundedOn(Less, Nat)
  BY <1>0, NatLessThanWellFounded, Zenon
<1>2. PICK x \in S : \A y \in S : ~(<<y, x>> \in Less)
  <2> HIDE DEF Less
  <2> QED  BY <1>1, WFMin, Zenon
<1>3. \A y \in S : x <= y
  <2> TAKE y \in S
  <2>1. x \in Nat /\ y \in Nat /\ (y < x => <<y, x>> \in Less)
    OBVIOUS
  <2> QED
    BY <1>2, <2>1
<1> QED
  BY <1>3, Zenon DEF Min

\* A search over slots or descriptors finds one, or says there is none.
LEMMA LowestResult ==
  ASSUME NEW S \in SUBSET Nat
  PROVE  \/ S = {} /\ Lowest(S) = -1
         \/ Lowest(S) \in S /\ Lowest(S) >= 0
<1>1. CASE S = {}
  BY <1>1 DEF Lowest
<1>2. CASE S # {}
  <2>1. Min(S) \in S
    BY <1>2, LeastExists
  <2>2. Lowest(S) = Min(S)
    BY <1>2, Zenon DEF Lowest
  <2> HIDE DEF Min
  <2>3. Lowest(S) \in S /\ Lowest(S) \in Nat
    BY <2>1, <2>2, Zenon
  <2> QED
    BY <2>3
<1> QED
  BY <1>1, <1>2

Slot == [name : Names \cup {NoName}, data : [Offsets -> Bytes],
         size : 0..RAMFS_MAX_FILE_SIZE, used : BOOLEAN]

Fd == [file_idx : Slots \cup {-1}, offset : 0..RAMFS_MAX_FILE_SIZE, in_use : BOOLEAN]

\* A descriptor that is not negative names a slot.
LEMMA FdSlot ==
  ASSUME NEW d \in Fd, d.file_idx >= 0
  PROVE  d.file_idx \in Slots
<1>1. d.file_idx \in Slots \cup {-1}
  BY Zenon DEF Fd
<1>2. ~(-1 >= 0)
  OBVIOUS
<1>3. d.file_idx # -1
  BY <1>2, Zenon
<1> QED
  BY <1>1, <1>3, Zenon

\* find_file finds the name, or no used slot has it.
LEMMA FindFile ==
  ASSUME NEW name
  PROVE  \/ /\ find_file(name) = -1
            /\ \A i \in Slots : files[i].used => files[i].name # name
         \/ /\ find_file(name) \in Slots
            /\ find_file(name) >= 0
            /\ files[find_file(name)].used
            /\ files[find_file(name)].name = name
<1> DEFINE S == {i \in Slots : files[i].used /\ files[i].name = name}
<1>1. S \in SUBSET Nat
  BY FilesAssumption DEF Slots
<1>2. find_file(name) = Lowest(S)
  BY DEF find_file
<1>3. \/ S = {} /\ Lowest(S) = -1
      \/ Lowest(S) \in S /\ Lowest(S) >= 0
  BY <1>1, LowestResult
<1> QED
  BY <1>2, <1>3

\* A slot that ramfs_create gives is free, and its name is new.
LEMMA CreateSlot ==
  ASSUME NEW name, ramfs_create(name) >= 0
  PROVE  /\ ramfs_create(name) \in Slots
         /\ ~files[ramfs_create(name)].used
         /\ \A i \in Slots : files[i].used => files[i].name # name
<1> DEFINE S == {i \in Slots : ~files[i].used}
<1>1. S \in SUBSET Nat
  BY FilesAssumption DEF Slots
<1>2. find_file(name) = -1 \/ find_file(name) >= 0
  BY FindFile
<1>3. ~(find_file(name) >= 0)
  BY DEF ramfs_create
<1>4. ramfs_create(name) = Lowest(S)
  BY <1>3 DEF ramfs_create, find_free_slot
<1>5. \/ S = {} /\ Lowest(S) = -1
      \/ Lowest(S) \in S /\ Lowest(S) >= 0
  BY <1>1, LowestResult
<1> HIDE DEF S
<1>6. Lowest(S) \in S
  BY <1>4, <1>5
<1>7. \A i \in Slots : files[i].used => files[i].name # name
  BY <1>3, FindFile
<1> QED
  BY <1>4, <1>6, <1>7 DEF S

\* What a write takes of a buffer stays inside the array.
LEMMA RoomBounds ==
  ASSUME NEW offset \in 0..RAMFS_MAX_FILE_SIZE, NEW len \in Nat
  PROVE  /\ Room(offset, len) \in 0..len
         /\ offset + Room(offset, len) \in 0..RAMFS_MAX_FILE_SIZE
  BY FilesAssumption DEF Room

\* A write keeps the shape of a slot, its name and its being used; the size
\* does not shrink and covers what was written.
LEMMA WriteSlot ==
  ASSUME NEW f \in Slot, NEW buf \in Seq(Bytes), NEW offset \in 0..RAMFS_MAX_FILE_SIZE
  PROVE  LET g == ramfs_write(f, buf, offset)
         IN /\ g \in Slot
            /\ g.name = f.name /\ g.used = f.used
            /\ g.size >= f.size
            /\ g.size >= offset + Room(offset, Len(buf))
<1> DEFINE end == offset + Room(offset, Len(buf))
           data == [o \in Offsets |->
                      IF offset <= o /\ o < end THEN buf[o - offset + 1] ELSE f.data[o]]
           size == IF end > f.size THEN end ELSE f.size
<1>1. /\ Room(offset, Len(buf)) \in 0..Len(buf)
      /\ end \in 0..RAMFS_MAX_FILE_SIZE
  BY RoomBounds
<1>2. f.size \in 0..RAMFS_MAX_FILE_SIZE /\ f.data \in [Offsets -> Bytes]
  BY DEF Slot
<1>3. data \in [Offsets -> Bytes]
  <2>1. ASSUME NEW o \in Offsets, offset <= o, o < end
        PROVE  buf[o - offset + 1] \in Bytes
    <3>1. o - offset + 1 \in 1..Len(buf)
      BY <2>1, <1>1, FilesAssumption DEF Offsets
    <3> QED
      BY <3>1
  <2> QED
    BY <2>1, <1>2
<1>4. size \in 0..RAMFS_MAX_FILE_SIZE /\ size >= f.size /\ size >= end
  BY <1>1, <1>2, FilesAssumption
<1>5. ramfs_write(f, buf, offset) = [f EXCEPT !.data = data, !.size = size]
  BY DEF ramfs_write
<1> HIDE DEF data, size, end
<1>6. [f EXCEPT !.data = data, !.size = size] \in Slot
  BY <1>3, <1>4, Zenon DEF Slot
<1> QED
  BY <1>4, <1>5, <1>6 DEF Slot, end

\* A file just made has its stored name and is used.
LEMMA FreshSlot ==
  ASSUME NEW f \in Slot, NEW name \in Names, NEW bytes \in Seq(Bytes)
  PROVE  /\ Fresh(f, name, bytes) \in Slot
         /\ Fresh(f, name, bytes).used
         /\ Fresh(f, name, bytes).name = Cut[name]
<1> DEFINE g == [f EXCEPT !.name = Cut[name], !.size = 0, !.used = TRUE]
<1>1. g \in Slot /\ g.used /\ g.name = Cut[name]
  <2>0. Cut \in [Names -> Names] /\ RAMFS_MAX_FILE_SIZE \in Nat
    BY FilesAssumption
  <2>1. Cut[name] \in Names \cup {NoName} /\ 0 \in 0..RAMFS_MAX_FILE_SIZE
    BY <2>0
  <2>4. g.used
    BY DEF Slot
  <2>5. g.name = Cut[name]
    BY DEF Slot
  <2>6. g \in Slot
    BY <2>1, Zenon DEF Slot
  <2> QED
    BY <2>4, <2>5, <2>6
<1>2. 0 \in 0..RAMFS_MAX_FILE_SIZE
  BY FilesAssumption
<1> HIDE DEF g
<1>3. /\ ramfs_write(g, bytes, 0) \in Slot
      /\ ramfs_write(g, bytes, 0).name = g.name
      /\ ramfs_write(g, bytes, 0).used = g.used
  BY <1>1, <1>2, WriteSlot, Zenon
<1> QED
  BY <1>1, <1>3, Zenon DEF Fresh, g

\* What a read delivers lies between the offset and the end of the file.
LEMMA ReadBounds ==
  ASSUME NEW f \in Slot, NEW offset \in 0..RAMFS_MAX_FILE_SIZE, NEW len \in Nat,
         offset <= f.size
  PROVE  /\ ramfs_read(f, offset, len) \in Seq(Bytes)
         /\ offset + Len(ramfs_read(f, offset, len)) \in 0..f.size
<1> DEFINE n == IF offset >= f.size THEN 0
                ELSE IF len > f.size - offset THEN f.size - offset ELSE len
<1>1. f.size \in 0..RAMFS_MAX_FILE_SIZE /\ f.data \in [Offsets -> Bytes]
  BY DEF Slot
<1>2. n \in Nat /\ offset + n \in 0..f.size
  BY <1>1, FilesAssumption
<1>3. ramfs_read(f, offset, len) = [k \in 1..n |-> f.data[offset + k - 1]]
  BY DEF ramfs_read
<1> HIDE DEF n
<1>4. ASSUME NEW k \in 1..n PROVE f.data[offset + k - 1] \in Bytes
  <2>1. offset + k - 1 \in Offsets
    BY <1>1, <1>2, FilesAssumption DEF Offsets
  <2> QED
    BY <1>1, <2>1
<1>5. [k \in 1..n |-> f.data[offset + k - 1]] \in Seq(Bytes)
  BY <1>2, <1>4
<1>6. Len([k \in 1..n |-> f.data[offset + k - 1]]) = n
  BY <1>2
<1> QED
  BY <1>2, <1>3, <1>5, <1>6

-----------------------------------------------------------------------------
(* The inductive invariant *)

Inv == TypeOK /\ OffsetsInside /\ UniqueNames

LEMMA SlotsAndFds ==
  ASSUME TypeOK
  PROVE  files \in [Slots -> Slot] /\ fd_table \in [Procs -> [Fds -> Fd]]
  BY DEF TypeOK, Slot, Fd

\* Making a file in the slot ramfs_create gives, or none when it gives none.
LEMMA NewFile ==
  ASSUME Inv, NEW name \in Names, Cut[name] = name, NEW bytes \in Seq(Bytes),
         files' = IF ramfs_create(name) >= 0
                  THEN [files EXCEPT ![ramfs_create(name)] = Fresh(@, name, bytes)]
                  ELSE files,
         UNCHANGED fd_table
  PROVE  files' \in [Slots -> Slot] /\ OffsetsInside' /\ UniqueNames'
<1> DEFINE i == ramfs_create(name)
<1>0. files \in [Slots -> Slot] /\ fd_table \in [Procs -> [Fds -> Fd]]
  BY SlotsAndFds DEF Inv
<1>1. CASE ~(i >= 0)
  <2>1. files' = files
    BY <1>1
  <2> QED
    BY <1>0, <2>1, Zenon DEF Inv, OffsetsInside, UniqueNames, OnFile
<1>2. CASE i >= 0
  <2>1. /\ i \in Slots /\ ~files[i].used
        /\ \A j \in Slots : files[j].used => files[j].name # name
    BY <1>2, CreateSlot
  <2> DEFINE g == Fresh(files[i], name, bytes)
  <2>2. g \in Slot /\ g.used /\ g.name = name
    BY <1>0, <2>1, FreshSlot
  <2>3. files' = [files EXCEPT ![i] = g]
    BY <1>2
  <2> HIDE DEF i, g
  <2>4. /\ files' \in [Slots -> Slot]
        /\ files'[i] = g
        /\ \A j \in Slots : j # i => files'[j] = files[j]
    BY <1>0, <2>1, <2>2, <2>3
  <2>5. UniqueNames'
    <3> SUFFICES ASSUME NEW j \in Slots, NEW k \in Slots,
                        files'[j].used, files'[k].used, files'[j].name = files'[k].name
                 PROVE  j = k
      BY DEF UniqueNames
    <3>1. CASE j = i
      BY <3>1, <2>1, <2>2, <2>4
    <3>2. CASE k = i
      BY <3>2, <2>1, <2>2, <2>4
    <3>3. CASE j # i /\ k # i
      BY <3>3, <2>4 DEF Inv, UniqueNames
    <3> QED
      BY <3>1, <3>2, <3>3
  <2>6. OffsetsInside'
    <3> SUFFICES ASSUME NEW p \in Procs, NEW fd \in Fds, OnFile(p, fd)
                 PROVE  LET d == fd_table[p][fd]
                        IN fd >= 3 /\ files'[d.file_idx].used /\ d.offset <= files'[d.file_idx].size
      BY DEF OffsetsInside, OnFile
    <3> DEFINE d == fd_table[p][fd]
    <3>1. fd >= 3 /\ files[d.file_idx].used /\ d.offset <= files[d.file_idx].size
      BY DEF Inv, OffsetsInside
    <3>2. d.file_idx \in Slots
      BY <1>0, FilesAssumption DEF OnFile, Fd, Slots
    <3>3. files'[d.file_idx] = files[d.file_idx]
      BY <2>1, <2>4, <3>1, <3>2
    <3> QED
      BY <3>1, <3>3
  <2> QED
    BY <2>4, <2>5, <2>6
<1> QED
  BY <1>1, <1>2

\* A new table has no descriptor on a file.
LEMMA StdFdsClosed ==
  StdFds \in [Fds -> Fd] /\ \A fd \in Fds : StdFds[fd].file_idx = -1
<1>1. \A fd \in Fds : StdFds[fd] \in Fd
  <2> TAKE fd \in Fds
  <2>0. 0 \in 0..RAMFS_MAX_FILE_SIZE /\ -1 \in Slots \cup {-1}
    BY FilesAssumption
  <2>1. StdFds[fd] = ClosedFd \/ StdFds[fd] = OpenStd
    BY DEF StdFds
  <2>2. ClosedFd \in Fd
    BY <2>0 DEF ClosedFd, Fd
  <2>3. OpenStd \in Fd
    BY <2>0 DEF OpenStd, Fd
  <2> QED
    BY <2>1, <2>2, <2>3
<1>2. StdFds = [fd \in Fds |-> StdFds[fd]]
  BY DEF StdFds
<1>3. StdFds \in [Fds -> Fd]
  BY <1>1, <1>2
<1> QED
  BY <1>3 DEF StdFds, ClosedFd, OpenStd

LEMMA InitInv == Init => Inv
<1> SUFFICES ASSUME Init PROVE Inv
  OBVIOUS
<1>1. \A i \in Slots : ~files[i].used
  BY DEF Init, FreeSlot
<1>2. \A p \in Procs, fd \in Fds : fd_table[p][fd].file_idx = -1
  BY DEF Init, StdFds, ClosedFd, OpenStd
<1>3. FreeSlot \in Slot
  BY FilesAssumption DEF FreeSlot, Slot, Offsets
<1>5. files \in [Slots -> Slot] /\ fd_table \in [Procs -> [Fds -> Fd]]
  BY <1>3, StdFdsClosed DEF Init
<1>6. TypeOK
  BY <1>5 DEF TypeOK, Slot, Fd, Init, Procs
<1>7. OffsetsInside
  <2>1. \A p \in Procs, fd \in Fds : ~OnFile(p, fd)
    BY <1>2 DEF OnFile
  <2> QED
    BY <2>1 DEF OffsetsInside
<1> QED
  BY <1>1, <1>6, <1>7 DEF Inv, UniqueNames

\* The variables the file calls leave alone.
Rest == <<phase, module, entry, procs, code>>

\* Type correctness after a step, from its parts.
LEMMA CallTypes ==
  ASSUME TypeOK, files' \in [Slots -> Slot], fd_table' \in [Procs -> [Fds -> Fd]],
         ret' \in Int, UNCHANGED Rest
  PROVE  TypeOK'
  BY DEF TypeOK, Slot, Fd, Rest

\* Changing one descriptor and leaving the files alone.
LEMMA OneFd ==
  ASSUME Inv, NEW p \in Procs, NEW fd \in Fds, NEW d \in Fd,
         UNCHANGED files,
         fd_table' = [fd_table EXCEPT ![p][fd] = d],
         d.in_use /\ d.file_idx >= 0 =>
           fd >= 3 /\ files[d.file_idx].used /\ d.offset <= files[d.file_idx].size
  PROVE  fd_table' \in [Procs -> [Fds -> Fd]] /\ OffsetsInside' /\ UniqueNames'
<1>1. files \in [Slots -> Slot] /\ fd_table \in [Procs -> [Fds -> Fd]]
  BY SlotsAndFds DEF Inv
<1>2. /\ fd_table' \in [Procs -> [Fds -> Fd]]
      /\ fd_table'[p][fd] = d
      /\ \A q \in Procs, e \in Fds : q # p \/ e # fd => fd_table'[q][e] = fd_table[q][e]
  BY <1>1
<1>3. OffsetsInside'
  <2> SUFFICES ASSUME NEW q \in Procs, NEW e \in Fds, OnFile(q, e)'
               PROVE  LET x == fd_table'[q][e]
                      IN e >= 3 /\ files[x.file_idx].used /\ x.offset <= files[x.file_idx].size
    BY DEF OffsetsInside
  <2>1. CASE q = p /\ e = fd
    BY <1>2, <2>1 DEF OnFile
  <2>2. CASE q # p \/ e # fd
    <3>1. fd_table'[q][e] = fd_table[q][e]
      BY <1>2, <2>2
    <3>2. OnFile(q, e)
      BY <3>1 DEF OnFile
    <3> QED
      BY <3>1, <3>2 DEF Inv, OffsetsInside
  <2> QED
    BY <2>1, <2>2
<1>4. UniqueNames'
  BY DEF Inv, UniqueNames
<1> QED
  BY <1>2, <1>3, <1>4

\* A call that changes neither files nor descriptors.
LEMMA NoChange ==
  ASSUME Inv, UNCHANGED <<files, fd_table>>, ret' \in Int, UNCHANGED Rest
  PROVE  Inv'
<1>1. files' \in [Slots -> Slot] /\ fd_table' \in [Procs -> [Fds -> Fd]]
  BY SlotsAndFds DEF Inv
<1>2. TypeOK'
  BY <1>1, CallTypes DEF Inv
<1> QED
  BY <1>2 DEF Inv, OffsetsInside, UniqueNames, OnFile

LEMMA OpenStep ==
  ASSUME Inv, NEW p \in Procs, NEW path \in Names, sys_open(p, path), UNCHANGED Rest
  PROVE  Inv'
<1> DEFINE S == {d \in Fds : d >= 3 /\ ~fd_table[p][d].in_use}
           fd == Lowest(S)
           i == ramfs_open(path)
           d0 == [file_idx |-> i, offset |-> 0, in_use |-> TRUE]
<1>1. S \in SUBSET Nat
  BY FilesAssumption DEF Fds
<1>2. (S = {} /\ fd = -1) \/ (fd \in S /\ fd >= 0)
  BY <1>1, LowestResult
<1>3. i = -1 \/ (i \in Slots /\ files[i].used)
  BY FindFile DEF ramfs_open
<1>4. CASE fd >= 0 /\ i >= 0
  <2>1. fd \in Fds /\ fd >= 3 /\ i \in Slots /\ files[i].used
    BY <1>2, <1>3, <1>4, SMTT(30)
  <2>2. fd_table' = [fd_table EXCEPT ![p][fd] = d0] /\ ret' = fd /\ files' = files
    BY <1>4 DEF sys_open, Answer
  <2> HIDE DEF fd, i
  <2>3. d0 \in Fd
    BY <2>1, FilesAssumption DEF Fd
  <2>4. 0 <= files[i].size
    BY <2>1, SlotsAndFds DEF Inv, Slot
  <2>5. d0.file_idx = i /\ d0.offset = 0
    OBVIOUS
  <2> HIDE DEF d0
  <2>6. fd_table' \in [Procs -> [Fds -> Fd]] /\ OffsetsInside' /\ UniqueNames'
    BY <2>1, <2>2, <2>3, <2>4, <2>5, OneFd, Zenon
  <2>7. files' \in [Slots -> Slot] /\ ret' \in Int
    BY <2>1, <2>2, SlotsAndFds DEF Inv, Fds
  <2> QED
    BY <2>6, <2>7, CallTypes DEF Inv
<1>5. CASE ~(fd >= 0 /\ i >= 0)
  <2>1. UNCHANGED <<files, fd_table>> /\ ret' = -1
    BY <1>5 DEF sys_open, Answer
  <2> QED
    BY <2>1, NoChange
<1> QED
  BY <1>4, <1>5

LEMMA CloseStep ==
  ASSUME Inv, NEW p \in Procs, NEW fd \in 0..MAX_FDS, sys_close(p, fd), UNCHANGED Rest
  PROVE  Inv'
<1>1. CASE fd >= 3 /\ fd < MAX_FDS /\ fd_table[p][fd].in_use
  <2>1. fd_table' = [fd_table EXCEPT ![p][fd] = ClosedFd] /\ ret' = 0 /\ files' = files
    BY <1>1 DEF sys_close, Answer
  <2>2. fd \in Fds
    BY <1>1, FilesAssumption DEF Fds
  <2>3. ClosedFd \in Fd /\ ~(ClosedFd.file_idx >= 0)
    BY FilesAssumption DEF ClosedFd, Fd
  <2>4. fd_table' \in [Procs -> [Fds -> Fd]] /\ OffsetsInside' /\ UniqueNames'
    BY <2>1, <2>2, <2>3, OneFd, Zenon
  <2>5. files' \in [Slots -> Slot] /\ ret' \in Int
    BY <2>1, SlotsAndFds DEF Inv
  <2> QED
    BY <2>4, <2>5, CallTypes DEF Inv
<1>2. CASE ~(fd >= 3 /\ fd < MAX_FDS /\ fd_table[p][fd].in_use)
  <2>1. UNCHANGED <<files, fd_table>> /\ ret' = -1
    BY <1>2 DEF sys_close, Answer
  <2> QED
    BY <2>1, NoChange
<1> QED
  BY <1>1, <1>2

LEMMA ReadStep ==
  ASSUME Inv, NEW p \in Procs, NEW fd \in 0..MAX_FDS, NEW len \in Nat,
         sys_read(p, fd, len), UNCHANGED Rest
  PROVE  Inv'
<1>0. files \in [Slots -> Slot] /\ fd_table \in [Procs -> [Fds -> Fd]]
  BY SlotsAndFds DEF Inv
<1>1. CASE OnFile(p, fd)
  <2> DEFINE d == fd_table[p][fd]
             f == files[d.file_idx]
             n == Len(ramfs_read(f, d.offset, len))
             d1 == [d EXCEPT !.offset = @ + n]
  <2>1. fd \in Fds
    BY <1>1, FilesAssumption DEF OnFile, Fds
  <2>2. d \in Fd /\ d.in_use /\ d.file_idx >= 0
    BY <1>0, <1>1, <2>1 DEF OnFile
  <2>3. d.file_idx \in Slots
    BY <2>2, FdSlot, Zenon
  <2>4. f \in Slot /\ f.used /\ fd >= 3 /\ d.offset <= f.size
    BY <1>0, <1>1, <2>1, <2>3 DEF Inv, OffsetsInside
  <2>5. fd_table' = [fd_table EXCEPT ![p][fd].offset = @ + n] /\ ret' = n /\ files' = files
    BY <1>1 DEF sys_read
  <2>6. fd_table' = [fd_table EXCEPT ![p][fd] = d1]
    BY <1>0, <2>1, <2>5
  <2>7. d.offset \in 0..RAMFS_MAX_FILE_SIZE /\ f.size \in 0..RAMFS_MAX_FILE_SIZE
    BY <2>2, <2>4 DEF Fd, Slot
  <2> HIDE DEF f, d
  <2>8. ramfs_read(f, d.offset, len) \in Seq(Bytes) /\ d.offset + n \in 0..f.size
    BY <2>4, <2>7, ReadBounds, Zenon
  <2>9. n \in Nat
    BY <2>8
  <2> HIDE DEF n
  <2>10. d.offset + n \in 0..RAMFS_MAX_FILE_SIZE /\ d.offset + n <= f.size
    BY <2>7, <2>8, FilesAssumption
  <2>11. d1 \in Fd
    BY <2>2, <2>10 DEF Fd
  <2>12. d1.file_idx = d.file_idx /\ d1.offset = d.offset + n
    BY <2>2 DEF Fd
  <2> HIDE DEF d1
  <2>13. files[d1.file_idx].used /\ d1.offset <= files[d1.file_idx].size
    BY <2>4, <2>10, <2>12 DEF f
  <2>14. fd_table' \in [Procs -> [Fds -> Fd]] /\ OffsetsInside' /\ UniqueNames'
    BY <2>1, <2>4, <2>5, <2>6, <2>11, <2>13, OneFd, Zenon
  <2>15. files' \in [Slots -> Slot] /\ ret' \in Int
    BY <1>0, <2>5, <2>9
  <2> QED
    BY <2>14, <2>15, CallTypes DEF Inv
<1>2. CASE ~OnFile(p, fd)
  <2>1. UNCHANGED <<files, fd_table>> /\ ret' = -1
    BY <1>2 DEF sys_read, Answer
  <2> QED
    BY <2>1, NoChange
<1> QED
  BY <1>1, <1>2

LEMMA WriteStep ==
  ASSUME Inv, NEW p \in Procs, NEW fd \in 0..MAX_FDS, NEW buf \in Seq(Bytes),
         sys_write(p, fd, buf), UNCHANGED Rest
  PROVE  Inv'
<1>0. files \in [Slots -> Slot] /\ fd_table \in [Procs -> [Fds -> Fd]]
  BY SlotsAndFds DEF Inv
<1>1. CASE fd \notin {1, 2} /\ OnFile(p, fd)
  <2> DEFINE d == fd_table[p][fd]
             f == files[d.file_idx]
             n == Room(d.offset, Len(buf))
             d1 == [d EXCEPT !.offset = @ + n]
             g == ramfs_write(f, buf, d.offset)
  <2>1. fd \in Fds
    BY <1>1, FilesAssumption DEF OnFile, Fds
  <2>2. d \in Fd /\ d.in_use /\ d.file_idx >= 0
    BY <1>0, <1>1, <2>1 DEF OnFile
  <2>3. d.file_idx \in Slots
    BY <2>2, FdSlot, Zenon
  <2>4. f \in Slot /\ f.used /\ fd >= 3 /\ d.offset <= f.size
    BY <1>0, <1>1, <2>1, <2>3 DEF Inv, OffsetsInside
  <2>5. /\ fd_table' = [fd_table EXCEPT ![p][fd].offset = @ + n]
        /\ files' = [files EXCEPT ![d.file_idx] = g]
        /\ ret' = n
    BY <1>1 DEF sys_write, Answer
  <2>6. fd_table' = [fd_table EXCEPT ![p][fd] = d1]
    BY <1>0, <2>1, <2>5
  <2>7. d.offset \in 0..RAMFS_MAX_FILE_SIZE /\ Len(buf) \in Nat
    BY <2>2 DEF Fd
  <2>8. n \in 0..Len(buf) /\ d.offset + n \in 0..RAMFS_MAX_FILE_SIZE
    BY <2>7, RoomBounds, Zenon
  <2>9. g \in Slot /\ g.name = f.name /\ g.used = f.used /\ g.size >= f.size /\ g.size >= d.offset + n
    <3> HIDE DEF f, d
    <3> QED
      BY <2>4, <2>7, WriteSlot, Zenon
  <2> HIDE DEF g, n
  <2>10. d1 \in Fd
    BY <2>2, <2>8 DEF Fd
  <2>11. d1.file_idx = d.file_idx /\ d1.offset = d.offset + n
    BY <2>2 DEF Fd
  <2> HIDE DEF d1
  <2>12. /\ fd_table' \in [Procs -> [Fds -> Fd]]
         /\ fd_table'[p][fd] = d1
         /\ \A q \in Procs, e \in Fds : q # p \/ e # fd => fd_table'[q][e] = fd_table[q][e]
    BY <1>0, <2>1, <2>6, <2>10
  <2>13. /\ files' \in [Slots -> Slot]
         /\ files'[d.file_idx] = g
         /\ \A i \in Slots : i # d.file_idx => files'[i] = files[i]
    <3> HIDE DEF d
    <3> QED
      BY <1>0, <2>3, <2>5, <2>9
  <2>14. \A i \in Slots : /\ files'[i].name = files[i].name
                          /\ files'[i].used = files[i].used
                          /\ files'[i].size >= files[i].size
    <3> TAKE i \in Slots
    <3>1. files[i].size \in Int
      BY <1>0 DEF Slot
    <3>2. CASE i = d.file_idx
      BY <2>9, <2>13, <3>2
    <3>3. CASE i # d.file_idx
      BY <2>13, <3>1, <3>3, SMTT(30)
    <3> QED
      BY <3>2, <3>3
  <2>15. UniqueNames'
    BY <2>14 DEF Inv, UniqueNames
  <2>16. OffsetsInside'
    <3> SUFFICES ASSUME NEW q \in Procs, NEW e \in Fds, OnFile(q, e)'
                 PROVE  LET x == fd_table'[q][e]
                        IN e >= 3 /\ files'[x.file_idx].used /\ x.offset <= files'[x.file_idx].size
      BY DEF OffsetsInside
    <3>1. CASE q = p /\ e = fd
      BY <2>4, <2>9, <2>11, <2>12, <2>13, <3>1, Zenon
    <3>2. CASE q # p \/ e # fd
      <4> DEFINE x == fd_table[q][e]
      <4>1. fd_table'[q][e] = x
        BY <2>12, <3>2
      <4>2. OnFile(q, e)
        BY <4>1 DEF OnFile
      <4>3. e >= 3 /\ files[x.file_idx].used /\ x.offset <= files[x.file_idx].size
        BY <4>2 DEF Inv, OffsetsInside
      <4>4. x \in Fd /\ x.file_idx >= 0
        BY <1>0, <4>2 DEF OnFile
      <4>5. x.file_idx \in Slots /\ x.offset \in Int
        <5>1. x.file_idx \in Slots
          BY <4>4, FdSlot, Zenon
        <5>2. x.offset \in 0..RAMFS_MAX_FILE_SIZE
          BY <4>4, Zenon DEF Fd
        <5> QED  BY <5>1, <5>2
      <4> HIDE DEF x
      <4>6. files[x.file_idx].size \in Int /\ files'[x.file_idx].size \in Int
        BY <1>0, <2>13, <4>5, SMTT(30) DEF Slot
      <4>7. files'[x.file_idx].used /\ files'[x.file_idx].size >= files[x.file_idx].size
        BY <2>14, <4>3, <4>5
      <4>8. x.offset <= files'[x.file_idx].size
        BY <4>3, <4>5, <4>6, <4>7
      <4> QED
        BY <4>1, <4>3, <4>7, <4>8
    <3> QED
      BY <3>1, <3>2
  <2>17. ret' \in Int
    BY <2>5, <2>8, <2>7
  <2> QED
    BY <2>12, <2>13, <2>15, <2>16, <2>17, CallTypes DEF Inv
<1>2. CASE ~(fd \notin {1, 2} /\ OnFile(p, fd))
  <2>1. UNCHANGED <<files, fd_table>> /\ (ret' = -1 \/ ret' = Len(buf))
    BY <1>2 DEF sys_write, Answer
  <2>2. Len(buf) \in Int
    OBVIOUS
  <2> QED
    BY <2>1, <2>2, NoChange
<1> QED
  BY <1>1, <1>2

LEMMA ReaddirStep ==
  ASSUME Inv, NEW max \in Nat, sys_readdir(max), UNCHANGED Rest
  PROVE  Inv'
<1> DEFINE shown == {i \in Slots : files[i].used /\
                       Cardinality({j \in Slots : files[j].used /\ j < i}) < max}
<1>1. UNCHANGED <<files, fd_table>> /\ ret' = Cardinality(shown)
  BY DEF sys_readdir
<1>2. IsFiniteSet(Slots)
  BY FS_Interval, FilesAssumption DEF Slots
<1>3. shown \subseteq Slots
  OBVIOUS
<1> HIDE DEF shown
<1>4. Cardinality(shown) \in Nat
  BY <1>2, <1>3, FS_Subset, FS_CardinalityType
<1> QED
  BY <1>1, <1>4, NoChange

LEMMA SyscallStep ==
  ASSUME Inv, NEW p \in Procs, syscall_handler(p)
  PROVE  Inv'
<1>1. UNCHANGED Rest
  BY DEF syscall_handler, Rest
<1>2. \/ \E path \in Names : sys_open(p, path)
      \/ \E fd \in 0..MAX_FDS : sys_close(p, fd)
      \/ \E fd \in 0..MAX_FDS, len \in 0..MaxLen : sys_read(p, fd, len)
      \/ \E fd \in 0..MAX_FDS, buf \in Buffers : sys_write(p, fd, buf)
      \/ \E max \in Maxes : sys_readdir(max)
  BY DEF syscall_handler
<1>4. ASSUME NEW path \in Names, sys_open(p, path) PROVE Inv'
  BY <1>1, <1>4, OpenStep
<1>5. ASSUME NEW fd \in 0..MAX_FDS, sys_close(p, fd) PROVE Inv'
  BY <1>1, <1>5, CloseStep
<1>6. ASSUME NEW fd \in 0..MAX_FDS, NEW len \in 0..MaxLen, sys_read(p, fd, len) PROVE Inv'
  <2>1. len \in Nat
    BY FilesAssumption
  <2> QED
    BY <1>1, <1>6, <2>1, ReadStep
<1>7. ASSUME NEW fd \in 0..MAX_FDS, NEW buf \in Buffers, sys_write(p, fd, buf) PROVE Inv'
  <2>1. PICK k \in 0..MaxLen : buf \in [1..k -> Bytes]
    BY DEF Buffers
  <2>2. buf \in Seq(Bytes)
    BY <2>1, FilesAssumption
  <2> QED
    BY <1>1, <1>7, <2>2, WriteStep
<1>8. ASSUME NEW max \in Maxes, sys_readdir(max) PROVE Inv'
  <2>1. max \in Nat
    BY FilesAssumption
  <2> QED
    BY <1>1, <1>8, <2>1, ReaddirStep
<1> QED
  BY <1>2, <1>4, <1>5, <1>6, <1>7, <1>8

LEMMA TestStep ==
  ASSUME Inv, kmain_test
  PROVE  Inv'
<1>1. Hello \in Names /\ Cut[Hello] = Hello /\ HelloMsg \in Seq(Bytes)
  BY FilesAssumption
<1>2. /\ files' = IF ramfs_create(Hello) >= 0
                  THEN [files EXCEPT ![ramfs_create(Hello)] = Fresh(@, Hello, HelloMsg)]
                  ELSE files
      /\ UNCHANGED <<fd_table, module, entry, procs, code>>
      /\ phase' \in {"idle", "exec", "load"}
      /\ ret' = 0
  BY DEF kmain_test, Answer
<1>3. files' \in [Slots -> Slot] /\ OffsetsInside' /\ UniqueNames'
  BY <1>1, <1>2, NewFile
<1>4. TypeOK'
  BY <1>2, <1>3, SMTT(30) DEF Inv, TypeOK, Slot
<1> QED
  BY <1>3, <1>4 DEF Inv

\* What an entry of a packed image gives initramfs_load.
LEMMA LoadFacts ==
  ASSUME ImagesWellFormed, Inv, initramfs_load
  PROVE  \E name \in Names, bytes \in Seq(Bytes) :
           /\ Cut[name] = name
           /\ files' = IF ramfs_create(name) >= 0
                       THEN [files EXCEPT ![ramfs_create(name)] = Fresh(@, name, bytes)]
                       ELSE files
           /\ UNCHANGED <<fd_table, phase, module, procs, code>>
           /\ entry' = entry + 1 /\ ret' = 0 /\ out' = <<>> /\ dirents' = None
<1> DEFINE image == mkramfs(module.dir)
           e == image.entries[entry]
           len == IF e.size > RAMFS_MAX_FILE_SIZE THEN RAMFS_MAX_FILE_SIZE ELSE e.size
           bytes == [k \in 1..len |-> image.bytes[e.offset + k - 1]]
<1>1. module \in Modules /\ entry \in Nat \ {0}
  BY DEF Inv, TypeOK
<1>2. /\ entry <= Len(image.entries)
      /\ files' = IF ramfs_create(e.name) < 0 THEN files
                  ELSE [files EXCEPT ![ramfs_create(e.name)] = Fresh(@, e.name, bytes)]
      /\ entry' = entry + 1
      /\ ret' = 0 /\ out' = <<>> /\ dirents' = None
      /\ UNCHANGED <<fd_table, phase, module, procs, code>>
  BY DEF initramfs_load, Answer
<1>3. /\ image.entries \in Seq([name : Names, offset : Nat, size : Nat])
      /\ \A x \in {image.entries[k] : k \in 1..Len(image.entries)} :
           /\ Cut[x.name] = x.name
           /\ \A k \in 1..x.size : image.bytes[x.offset + k - 1] \in Bytes
  BY <1>1, Zenon DEF ImagesWellFormed
<1> HIDE DEF image
<1>4. entry \in 1..Len(image.entries)
  BY <1>1, <1>2, <1>3, SMTT(30)
<1>5. /\ e \in [name : Names, offset : Nat, size : Nat]
      /\ Cut[e.name] = e.name
      /\ \A k \in 1..e.size : image.bytes[e.offset + k - 1] \in Bytes
  <2>1. e \in {image.entries[k] : k \in 1..Len(image.entries)}
    BY <1>4
  <2>2. e \in [name : Names, offset : Nat, size : Nat]
    <3> DEFINE R == [name : Names, offset : Nat, size : Nat]
               entries == image.entries
    <3>1. entries \in Seq(R) /\ entry \in 1..Len(entries)
      BY <1>3, <1>4
    <3> HIDE DEF R, entries
    <3>2. entries[entry] \in R
      BY <3>1
    <3> QED
      BY <3>2 DEF R, entries
  <2> HIDE DEF e
  <2> QED
    BY <1>3, <2>1, <2>2, Zenon
<1> HIDE DEF e
<1>6. bytes \in Seq(Bytes)
  <2>1. len \in 0..e.size
    BY <1>5, FilesAssumption, SMTT(30)
  <2> HIDE DEF len
  <2>2. \A k \in 1..len : image.bytes[e.offset + k - 1] \in Bytes
    BY <1>5, <2>1
  <2> QED
    BY <1>5, <2>1, <2>2
<1>7. e.name \in Names
  BY <1>5
<1>8. ramfs_create(e.name) \in Int
  <2>1. {j \in Slots : ~files[j].used} \in SUBSET Nat
    BY FilesAssumption DEF Slots
  <2>2. find_free_slot \in Int
    BY <2>1, LowestResult DEF find_free_slot
  <2> QED
    BY <2>2 DEF ramfs_create
<1> HIDE DEF bytes
<1>9. files' = IF ramfs_create(e.name) >= 0
               THEN [files EXCEPT ![ramfs_create(e.name)] = Fresh(@, e.name, bytes)]
               ELSE files
  BY <1>2, <1>8
<1> QED
  BY <1>2, <1>5, <1>6, <1>7, <1>9, Zenon

LEMMA LoadStep ==
  ASSUME ImagesWellFormed, Inv, initramfs_load
  PROVE  Inv'
<1>1. module \in Modules /\ entry \in Nat \ {0}
  BY DEF Inv, TypeOK
<1>2. PICK name \in Names, bytes \in Seq(Bytes) :
        /\ Cut[name] = name
        /\ files' = IF ramfs_create(name) >= 0
                    THEN [files EXCEPT ![ramfs_create(name)] = Fresh(@, name, bytes)]
                    ELSE files
        /\ UNCHANGED <<fd_table, phase, module, procs, code>>
        /\ entry' = entry + 1 /\ ret' = 0
  BY LoadFacts, Zenon
<1>3. files' \in [Slots -> Slot] /\ OffsetsInside' /\ UniqueNames'
  BY <1>2, NewFile
<1>4. TypeOK'
  BY <1>1, <1>2, <1>3, SMTT(30) DEF Inv, TypeOK, Slot
<1> QED
  BY <1>3, <1>4 DEF Inv

LEMMA ExecStep ==
  ASSUME Inv, exec
  PROVE  Inv'
<1>0. files \in [Slots -> Slot] /\ fd_table \in [Procs -> [Fds -> Fd]]
  BY SlotsAndFds DEF Inv
<1> DEFINE i == ramfs_open(Shell)
           bytes == IF i >= 0 THEN ramfs_read(files[i], 0, RAMFS_MAX_FILE_SIZE) ELSE <<>>
<1>1. bytes \in Seq(Bytes)
  <2>1. i = -1 \/ i \in Slots
    BY FindFile DEF ramfs_open
  <2>2. CASE i >= 0
    <3>1. i \in Slots
      BY <2>1, <2>2
    <3> HIDE DEF i
    <3>2. files[i] \in Slot /\ 0 <= files[i].size
      BY <1>0, <3>1 DEF Slot
    <3>3. 0 \in 0..RAMFS_MAX_FILE_SIZE /\ RAMFS_MAX_FILE_SIZE \in Nat
      BY FilesAssumption
    <3>4. ramfs_read(files[i], 0, RAMFS_MAX_FILE_SIZE) \in Seq(Bytes)
      BY <3>2, <3>3, ReadBounds
    <3> QED
      BY <2>2, <3>4
  <2>3. CASE ~(i >= 0)
    BY <2>3
  <2> QED
    BY <2>2, <2>3
<1>2. /\ code' = code \/ code' = bytes
      /\ procs' = procs \/ procs' = procs \cup {"shell"}
      /\ phase' \in {"run", "undefined"}
      /\ fd_table' = [fd_table EXCEPT !["shell"] = StdFds]
      /\ ret' = 0
      /\ UNCHANGED <<files, module, entry>>
  BY DEF exec, Answer
<1> HIDE DEF bytes
<1>3. StdFds \in [Fds -> Fd] /\ \A fd \in Fds : StdFds[fd].file_idx = -1
  BY StdFdsClosed
<1>4. /\ fd_table' \in [Procs -> [Fds -> Fd]]
      /\ fd_table'["shell"] = StdFds
      /\ \A p \in Procs : p # "shell" => fd_table'[p] = fd_table[p]
  BY <1>0, <1>2, <1>3 DEF Procs
<1>5. TypeOK'
  <2>1. code' \in Seq(Bytes)
    BY <1>1, <1>2 DEF Inv, TypeOK
  <2>2. procs' \subseteq Procs
    BY <1>2, Zenon DEF Inv, TypeOK, Procs
  <2>3. phase' \in {"test", "load", "exec", "run", "idle", "undefined"} /\ ret' \in Int
    BY <1>2
  <2>4. UNCHANGED <<files, module, entry>>
    BY <1>2
  <2> QED
    BY <1>4, <2>1, <2>2, <2>3, <2>4 DEF Inv, TypeOK, Fd
<1>6. OffsetsInside'
  <2> SUFFICES ASSUME NEW q \in Procs, NEW e \in Fds, OnFile(q, e)'
               PROVE  LET x == fd_table'[q][e]
                      IN e >= 3 /\ files[x.file_idx].used /\ x.offset <= files[x.file_idx].size
    BY <1>2 DEF OffsetsInside
  <2>1. q # "shell"
    BY <1>3, <1>4 DEF OnFile
  <2>2. fd_table'[q][e] = fd_table[q][e]
    BY <1>4, <2>1
  <2>3. OnFile(q, e)
    BY <2>2 DEF OnFile
  <2> QED
    BY <2>2, <2>3 DEF Inv, OffsetsInside
<1>7. UniqueNames'
  BY <1>2 DEF Inv, UniqueNames
<1> QED
  BY <1>5, <1>6, <1>7 DEF Inv

LEMMA NextInv ==
  ASSUME ImagesWellFormed, Inv, [Next]_vars
  PROVE  Inv'
<1>1. CASE kmain_test
  BY <1>1, TestStep
<1>2. CASE initramfs_load
  BY <1>2, LoadStep
<1>3. CASE initramfs_loaded
  <2>1. UNCHANGED <<files, fd_table, module, entry, procs, code>> /\ phase' = "exec" /\ ret' = 0
    BY <1>3 DEF initramfs_loaded, Answer
  <2> QED
    BY <2>1, SMTT(30) DEF Inv, TypeOK, OffsetsInside, UniqueNames, OnFile
<1>4. CASE exec
  BY <1>4, ExecStep
<1>5. CASE \E p \in Procs : syscall_handler(p)
  BY <1>5, SyscallStep
<1>6. CASE UNCHANGED vars
  BY <1>6 DEF vars, Inv, TypeOK, OffsetsInside, UniqueNames, OnFile
<1>7. CASE Stopped
  BY <1>6, <1>7 DEF Stopped
<1> QED
  BY <1>1, <1>2, <1>3, <1>4, <1>5, <1>6, <1>7 DEF Next

LEMMA SpecInv ==
  ASSUME ImagesWellFormed
  PROVE  Spec => []Inv
<1>1. Init => Inv
  BY InitInv
<1>2. Inv /\ [Next]_vars => Inv'
  BY NextInv
<1> QED
  BY <1>1, <1>2, PTL DEF Spec

\* Slots, descriptors and results keep their shape through boot and every
\* sequence of system calls: no size or offset passes RAMFS_MAX_FILE_SIZE.
THEOREM TypeCorrect ==
  ASSUME ImagesWellFormed
  PROVE  Spec => []TypeOK
<1>1. Inv => TypeOK
  BY DEF Inv
<1> QED
  BY <1>1, SpecInv, PTL

\* A descriptor open on a file is one of sys_open's, on a file that exists, at
\* an offset inside it, so ramfs never reads or writes beyond what was written.
THEOREM OffsetsStayInside ==
  ASSUME ImagesWellFormed
  PROVE  Spec => []OffsetsInside
<1>1. Inv => OffsetsInside
  BY DEF Inv
<1> QED
  BY <1>1, SpecInv, PTL

\* ramfs never holds two files of one name.
THEOREM NamesStayUnique ==
  ASSUME ImagesWellFormed
  PROVE  Spec => []UniqueNames
<1>1. Inv => UniqueNames
  BY DEF Inv
<1> QED
  BY <1>1, SpecInv, PTL

-----------------------------------------------------------------------------
(* Refinement: what the slots and tables stand for, as functions of them.  *)

Data(f) == [k \in 1..f.size |-> f.data[k - 1]]
UsedIn(fs) == {j \in Slots : fs[j].used}
FindIn(fs, name) == CHOOSE i \in Slots : fs[i].used /\ fs[i].name = name
ContentsIn(fs) == [n \in {fs[i].name : i \in UsedIn(fs)} |-> Data(fs[FindIn(fs, n)])]

Shut == [name |-> NoName, offset |-> -1]
DescIn(fs, d) ==
  IF d.in_use /\ d.file_idx >= 0
  THEN [name |-> fs[d.file_idx].name, offset |-> d.offset]
  ELSE Shut
Strings == UNION {[1..k -> Bytes] : k \in 0..RAMFS_MAX_FILE_SIZE}

Distinct(fs) ==
  \A i, j \in Slots : fs[i].used /\ fs[j].used /\ fs[i].name = fs[j].name => i = j

\* The fields of a descriptor's abstract view.
LEMMA DescFields ==
  ASSUME NEW r, NEW x, NEW k, r = [name |-> x, offset |-> k]
  PROVE  r.name = x /\ r.offset = k
  OBVIOUS

LEMMA ContentsView == Contents = ContentsIn(files) /\ Contents' = ContentsIn(files')
  BY Zenon DEF Contents, Content, ContentsIn, UsedIn, FindIn, Data

LEMMA DescriptorsView ==
  /\ Descriptors = [o \in Owners |-> DescIn(files, fd_table[o[1]][o[2]])]
  /\ Descriptors' = [o \in Owners |-> DescIn(files', fd_table'[o[1]][o[2]])]
<1>1. \A o \in Owners : o[2] < MAX_FDS
  BY FilesAssumption DEF Owners
<1> QED
  BY <1>1, Zenon DEF Descriptors, DescIn, Shut, OnFile

\* A used slot is the one its name finds.
LEMMA NameFound ==
  ASSUME NEW fs, Distinct(fs), NEW i \in Slots, fs[i].used
  PROVE  FindIn(fs, fs[i].name) = i
<1>1. PICK j \in Slots : fs[j].used /\ fs[j].name = fs[i].name /\ FindIn(fs, fs[i].name) = j
  BY Zenon DEF FindIn
<1> QED
  BY <1>1 DEF Distinct

LEMMA ContentAt ==
  ASSUME NEW fs, Distinct(fs), NEW i \in Slots, fs[i].used
  PROVE  fs[i].name \in DOMAIN ContentsIn(fs) /\ ContentsIn(fs)[fs[i].name] = Data(fs[i])
<1>1. fs[i].name \in {fs[j].name : j \in UsedIn(fs)}
  BY DEF UsedIn
<1>2. FindIn(fs, fs[i].name) = i
  BY NameFound
<1> QED
  BY <1>1, <1>2, Zenon DEF ContentsIn

LEMMA ContentName ==
  ASSUME NEW fs, NEW n \in DOMAIN ContentsIn(fs)
  PROVE  \E i \in Slots : fs[i].used /\ fs[i].name = n
  BY DEF ContentsIn, UsedIn

\* A call that changes neither files nor descriptors.
LEMMA FailStep ==
  ASSUME UNCHANGED <<files, fd_table>>, out' = <<>>, dirents' = None
  PROVE  Store!Fail
<1>1. Contents' = Contents
  BY ContentsView
<1>2. Descriptors' = Descriptors
  BY DescriptorsView
<1> QED
  BY <1>1, <1>2, Zenon DEF Store!Fail, Store!None, None

LEMMA StutterStep ==
  ASSUME UNCHANGED vars
  PROVE  UNCHANGED Store!vars
<1>1. UNCHANGED <<files, fd_table, out, dirents>>
  BY DEF vars
<1>2. Contents' = Contents
  BY <1>1, ContentsView
<1>3. Descriptors' = Descriptors
  BY <1>1, DescriptorsView
<1> QED
  BY <1>1, <1>2, <1>3 DEF Store!vars

\* Changing one table entry changes one descriptor.
LEMMA OneDescriptor ==
  ASSUME Inv, NEW p \in Procs, NEW fd \in Fds, fd >= 3, NEW d, UNCHANGED files,
         fd_table' = [fd_table EXCEPT ![p][fd] = d]
  PROVE  /\ <<p, fd>> \in Owners
         /\ Descriptors[<<p, fd>>] = DescIn(files, fd_table[p][fd])
         /\ Descriptors' = [Descriptors EXCEPT ![<<p, fd>>] = DescIn(files, d)]
         /\ Contents' = Contents
<1>0. fd_table \in [Procs -> [Fds -> Fd]]
  BY SlotsAndFds DEF Inv
<1>1. <<p, fd>> \in Owners
  BY FilesAssumption DEF Owners, Fds
<1>2. \A o \in Owners : o[1] \in Procs /\ o[2] \in Fds /\ o = <<o[1], o[2]>>
  BY FilesAssumption DEF Owners, Fds
<1>3. \A q \in Procs, e \in Fds :
        fd_table'[q][e] = IF q = p /\ e = fd THEN d ELSE fd_table[q][e]
  BY <1>0
<1>4. \A o \in Owners : DescIn(files', fd_table'[o[1]][o[2]])
                          = IF o = <<p, fd>> THEN DescIn(files, d)
                            ELSE DescIn(files, fd_table[o[1]][o[2]])
  BY <1>2, <1>3
<1>5. Descriptors[<<p, fd>>] = DescIn(files, fd_table[p][fd])
  BY <1>1, DescriptorsView
<1>6. Descriptors' = [Descriptors EXCEPT ![<<p, fd>>] = DescIn(files, d)]
  BY <1>1, <1>4, DescriptorsView
<1>7. Contents' = Contents
  BY ContentsView
<1> QED
  BY <1>1, <1>5, <1>6, <1>7

\* The names in use are names of files; kmain's tables are as it made them.
Named == \A i \in Slots : files[i].used => files[i].name \in Names
Untouched == phase \in {"test", "load", "exec"} => fd_table = [p \in Procs |-> StdFds]

LEMMA OpenRef ==
  ASSUME Inv, Named, NEW p \in Procs, NEW path \in Names, sys_open(p, path)
  PROVE  Store!Next
<1> DEFINE S == {d \in Fds : d >= 3 /\ ~fd_table[p][d].in_use}
           fd == Lowest(S)
           i == ramfs_open(path)
           d0 == [file_idx |-> i, offset |-> 0, in_use |-> TRUE]
<1>1. S \in SUBSET Nat
  BY FilesAssumption DEF Fds
<1>2. (S = {} /\ fd = -1) \/ (fd \in S /\ fd >= 0)
  BY <1>1, LowestResult
<1>3. i = -1 \/ (i \in Slots /\ files[i].used)
  BY FindFile DEF ramfs_open
<1>4. CASE fd >= 0 /\ i >= 0
  <2>1. fd \in Fds /\ fd >= 3 /\ ~fd_table[p][fd].in_use /\ i \in Slots /\ files[i].used
    BY <1>2, <1>3, <1>4, SMTT(30)
  <2>2. /\ fd_table' = [fd_table EXCEPT ![p][fd] = d0] /\ files' = files
        /\ out' = <<>> /\ dirents' = None
    BY <1>4 DEF sys_open, Answer
  <2> HIDE DEF fd, i
  <2> DEFINE o == <<p, fd>>
             n == files[i].name
  <2>3. DescIn(files, d0) = [name |-> n, offset |-> 0]
    BY <2>1, FilesAssumption DEF DescIn, Slots
  <2> HIDE DEF d0
  <2>4. /\ o \in Owners /\ Descriptors[o] = Shut
        /\ Descriptors' = [Descriptors EXCEPT ![o] = [name |-> n, offset |-> 0]]
        /\ Contents' = Contents
    <3>1. Descriptors[o] = DescIn(files, fd_table[p][fd])
      BY <2>1, <2>2, OneDescriptor, Zenon
    <3>2. DescIn(files, fd_table[p][fd]) = Shut
      BY <2>1 DEF DescIn
    <3> QED
      BY <2>1, <2>2, <2>3, <3>1, <3>2, OneDescriptor, Zenon
  <2>5. n \in Names /\ n \in DOMAIN Contents
    BY <2>1, ContentAt, ContentsView DEF Named, Inv, UniqueNames, Distinct
  <2> HIDE DEF o, n
  <2>6. Store!Open(o, n)
    BY <2>2, <2>4, <2>5, Zenon DEF Store!Open, Store!None, None, Shut
  <2> QED
    BY <2>4, <2>5, <2>6, Zenon DEF Store!Next
<1>5. CASE ~(fd >= 0 /\ i >= 0)
  <2>1. UNCHANGED <<files, fd_table>> /\ out' = <<>> /\ dirents' = None
    BY <1>5 DEF sys_open, Answer
  <2> QED
    BY <2>1, FailStep, Zenon DEF Store!Next
<1> QED
  BY <1>4, <1>5

LEMMA CloseRef ==
  ASSUME Inv, NEW p \in Procs, NEW fd \in 0..MAX_FDS, sys_close(p, fd)
  PROVE  Store!Next
<1>1. CASE fd >= 3 /\ fd < MAX_FDS /\ fd_table[p][fd].in_use
  <2>1. /\ fd_table' = [fd_table EXCEPT ![p][fd] = ClosedFd] /\ files' = files
        /\ out' = <<>> /\ dirents' = None
    BY <1>1 DEF sys_close, Answer
  <2>2. fd \in Fds
    BY <1>1, FilesAssumption DEF Fds
  <2> DEFINE o == <<p, fd>>
  <2>3. DescIn(files, ClosedFd) = Shut
    BY DEF DescIn, ClosedFd
  <2>4. o \in Owners /\ Descriptors' = [Descriptors EXCEPT ![o] = Shut] /\ Contents' = Contents
    <3>1. fd >= 3 /\ UNCHANGED files
      BY <1>1, <2>1
    <3>2. /\ o \in Owners /\ Contents' = Contents
          /\ Descriptors' = [Descriptors EXCEPT ![o] = DescIn(files, ClosedFd)]
      BY <2>1, <2>2, <3>1, OneDescriptor, Zenon
    <3> QED  BY <2>3, <3>2
  <2> HIDE DEF o
  <2>5. CASE Descriptors[o] # Shut
    <3>1. Store!Close(o)
      BY <2>1, <2>4, <2>5, Zenon DEF Store!Close, Store!None, None, Shut
    <3> QED
      BY <2>4, <3>1, Zenon DEF Store!Next
  <2>6. CASE Descriptors[o] = Shut
    <3>1. Descriptors' = Descriptors
      BY <2>4, <2>6, DescriptorsView
    <3>2. Store!Fail
      BY <2>1, <2>4, <3>1, Zenon DEF Store!Fail, Store!None, None
    <3> QED
      BY <3>2, Zenon DEF Store!Next
  <2> QED
    BY <2>5, <2>6
<1>2. CASE ~(fd >= 3 /\ fd < MAX_FDS /\ fd_table[p][fd].in_use)
  <2>1. UNCHANGED <<files, fd_table>> /\ out' = <<>> /\ dirents' = None
    BY <1>2 DEF sys_close, Answer
  <2> QED
    BY <2>1, FailStep, Zenon DEF Store!Next
<1> QED
  BY <1>1, <1>2

\* What an open descriptor stands for.
LEMMA OpenFacts ==
  ASSUME Inv, NEW p \in Procs, NEW fd \in 0..MAX_FDS, OnFile(p, fd)
  PROVE  LET d == fd_table[p][fd]
             f == files[d.file_idx]
         IN /\ fd \in Fds /\ fd >= 3 /\ <<p, fd>> \in Owners
            /\ d \in Fd /\ d.in_use /\ d.file_idx >= 0 /\ d.file_idx \in Slots
            /\ d.offset \in Nat /\ d.offset <= f.size /\ f \in Slot /\ f.used
            /\ f.size \in 0..RAMFS_MAX_FILE_SIZE
            /\ Descriptors[<<p, fd>>] = [name |-> f.name, offset |-> d.offset]
            /\ Descriptors[<<p, fd>>] # Shut
            /\ Contents[f.name] = Data(f) /\ f.name \in DOMAIN Contents
<1> DEFINE d == fd_table[p][fd]
           f == files[d.file_idx]
<1>0. files \in [Slots -> Slot] /\ fd_table \in [Procs -> [Fds -> Fd]]
  BY SlotsAndFds DEF Inv
<1>1. fd \in Fds
  BY FilesAssumption DEF OnFile, Fds
<1>2. d \in Fd /\ d.in_use /\ d.file_idx >= 0
  BY <1>0, <1>1 DEF OnFile
<1>3. d.file_idx \in Slots
  BY <1>2, FdSlot, Zenon
<1>4. f \in Slot /\ f.used /\ fd >= 3 /\ d.offset <= f.size
  BY <1>0, <1>1, <1>3 DEF Inv, OffsetsInside
<1>5. d.offset \in Nat /\ f.size \in 0..RAMFS_MAX_FILE_SIZE
  BY <1>2, <1>4 DEF Fd, Slot
<1>6. <<p, fd>> \in Owners
  BY <1>1, <1>4, FilesAssumption DEF Owners, Fds
<1>7. Descriptors[<<p, fd>>] = [name |-> f.name, offset |-> d.offset]
  BY <1>2, <1>6, DescriptorsView DEF DescIn
<1>8. [name |-> f.name, offset |-> d.offset] # Shut
  <2>1. d.offset # -1
    BY <1>5
  <2> QED
    BY <2>1 DEF Shut
<1>9. Contents[f.name] = Data(f) /\ f.name \in DOMAIN Contents
  BY <1>3, <1>4, ContentAt, ContentsView DEF Inv, UniqueNames, Distinct
<1> QED
  BY <1>1, <1>2, <1>3, <1>4, <1>5, <1>6, <1>7, <1>8, <1>9, Zenon

\* A read delivers a stretch of the file.
LEMMA ReadIsSubSeq ==
  ASSUME NEW f \in Slot, NEW offset \in Nat, NEW len \in Nat, offset <= f.size
  PROVE  LET n == Len(ramfs_read(f, offset, len))
         IN /\ n \in 0..(Len(Data(f)) - offset)
            /\ ramfs_read(f, offset, len) = SubSeq(Data(f), offset + 1, offset + n)
<1> DEFINE m == IF offset >= f.size THEN 0
                ELSE IF len > f.size - offset THEN f.size - offset ELSE len
<1>1. f.size \in 0..RAMFS_MAX_FILE_SIZE /\ f.data \in [Offsets -> Bytes]
  BY DEF Slot
<1>2. m \in Nat /\ offset + m <= f.size /\ f.size \in Nat
  BY <1>1, FilesAssumption
<1>3. ramfs_read(f, offset, len) = [k \in 1..m |-> f.data[offset + k - 1]]
  BY DEF ramfs_read
<1> HIDE DEF m
<1>4. Len([k \in 1..m |-> f.data[offset + k - 1]]) = m
  BY <1>2
<1>5. \A k \in 1..f.size : f.data[k - 1] \in Bytes
  <2> TAKE k \in 1..f.size
  <2>1. k - 1 \in Offsets
    BY <1>1, FilesAssumption DEF Offsets
  <2> QED
    BY <1>1, <2>1
<1>6. Data(f) \in Seq(Bytes) /\ Len(Data(f)) = f.size
      /\ \A k \in 1..f.size : Data(f)[k] = f.data[k - 1]
  BY <1>2, <1>5 DEF Data
<1>7. SubSeq(Data(f), offset + 1, offset + m)
        = [k \in 1..m |-> Data(f)[offset + k]]
  BY <1>2, <1>6
<1>8. \A k \in 1..m : Data(f)[offset + k] = f.data[offset + k - 1]
  BY <1>2, <1>6
<1> QED
  BY <1>2, <1>3, <1>4, <1>6, <1>7, <1>8

LEMMA ReadRef ==
  ASSUME Inv, NEW p \in Procs, NEW fd \in 0..MAX_FDS, NEW len \in Nat, sys_read(p, fd, len)
  PROVE  Store!Next
<1>1. CASE OnFile(p, fd)
  <2> DEFINE d == fd_table[p][fd]
             f == files[d.file_idx]
             bytes == ramfs_read(f, d.offset, len)
             n == Len(bytes)
             d1 == [d EXCEPT !.offset = @ + n]
             o == <<p, fd>>
  <2>0. /\ fd \in Fds /\ fd >= 3 /\ o \in Owners /\ d \in Fd /\ d.in_use /\ d.file_idx >= 0
        /\ d.offset \in Nat /\ d.offset <= f.size /\ f \in Slot
        /\ Descriptors[o] = [name |-> f.name, offset |-> d.offset]
        /\ Descriptors[o] # Shut /\ Contents[f.name] = Data(f)
    BY <1>1, OpenFacts, Zenon
  <2>1. /\ fd_table' = [fd_table EXCEPT ![p][fd].offset = @ + n] /\ files' = files
        /\ out' = bytes /\ dirents' = None
    BY <1>1 DEF sys_read
  <2>2. fd_table' = [fd_table EXCEPT ![p][fd] = d1]
    BY <2>0, <2>1, SlotsAndFds DEF Inv
  <2>3. n \in 0..(Len(Data(f)) - d.offset) /\ bytes = SubSeq(Data(f), d.offset + 1, d.offset + n)
    BY <2>0, ReadIsSubSeq, Zenon
  <2>4. DescIn(files, d1) = [name |-> f.name, offset |-> d.offset + n]
    BY <2>0 DEF DescIn, Fd
  <2>5. /\ Descriptors' = [Descriptors EXCEPT ![o] = DescIn(files, d1)]
        /\ Contents' = Contents
    <3>1. fd >= 3 /\ fd \in Fds /\ UNCHANGED files
      BY <2>0, <2>1
    <3> HIDE DEF d1
    <3> QED  BY <2>2, <3>1, OneDescriptor, Zenon
  <2> HIDE DEF d1, n, bytes, f, d, o
  <2>6. Descriptors' = [Descriptors EXCEPT ![o].offset = @ + n]
    <3>0. Descriptors[o] = [name |-> f.name, offset |-> d.offset]
      BY <2>0, Zenon
    <3>1. [Descriptors[o] EXCEPT !.offset = @ + n] = [name |-> f.name, offset |-> d.offset + n]
      BY <3>0
    <3> QED  BY <2>4, <2>5, <3>1, Zenon
  <2>7. Descriptors[o].name = f.name /\ Descriptors[o].offset = d.offset
    <3>1. Descriptors[o] = [name |-> f.name, offset |-> d.offset]
      BY <2>0, Zenon
    <3> QED  BY <3>1, DescFields, Zenon
  <2>8. Store!Read(o)
    BY <2>0, <2>1, <2>3, <2>5, <2>6, <2>7, Zenon DEF Store!Read, Store!None, None, Shut
  <2> QED
    BY <2>0, <2>8, Zenon DEF Store!Next
<1>2. CASE ~OnFile(p, fd)
  <2>1. UNCHANGED <<files, fd_table>> /\ out' = <<>> /\ dirents' = None
    BY <1>2 DEF sys_read, Answer
  <2> QED
    BY <2>1, FailStep, Zenon DEF Store!Next
<1> QED
  BY <1>1, <1>2

\* Rewriting a used slot rewrites the file of its name.
LEMMA WrittenContents ==
  ASSUME NEW fs \in [Slots -> Slot], Distinct(fs), NEW i \in Slots, fs[i].used,
         NEW g \in Slot, g.used, g.name = fs[i].name
  PROVE  ContentsIn([fs EXCEPT ![i] = g]) = [ContentsIn(fs) EXCEPT ![fs[i].name] = Data(g)]
<1> DEFINE gs == [fs EXCEPT ![i] = g]
           C == ContentsIn(fs)
           n0 == fs[i].name
<1>1. gs[i] = g /\ \A j \in Slots : j # i => gs[j] = fs[j]
  OBVIOUS
<1> HIDE DEF gs
<1>2. \A j \in Slots : gs[j].name = fs[j].name /\ (gs[j].used <=> fs[j].used)
  <2> TAKE j \in Slots
  <2>1. CASE j = i
    BY <1>1, <2>1
  <2>2. CASE j # i
    BY <1>1, <2>2
  <2> QED
    BY <2>1, <2>2
<1>3. Distinct(gs)
  BY <1>2, Zenon DEF Distinct
<1>4. DOMAIN ContentsIn(gs) = DOMAIN C
  <2>1. UsedIn(gs) = UsedIn(fs)
    BY <1>2 DEF UsedIn
  <2>2. {gs[j].name : j \in UsedIn(gs)} = {fs[j].name : j \in UsedIn(fs)}
    BY <1>2, <2>1 DEF UsedIn
  <2> QED
    BY <2>2, Zenon DEF ContentsIn
<1>5. ASSUME NEW n \in DOMAIN C
      PROVE  ContentsIn(gs)[n] = IF n = n0 THEN Data(g) ELSE C[n]
  <2>1. PICK j \in Slots : fs[j].used /\ fs[j].name = n
    BY ContentName
  <2>2. ContentsIn(gs)[n] = Data(gs[j]) /\ C[n] = Data(fs[j])
    BY <1>2, <1>3, <2>1, ContentAt
  <2>3. CASE j = i
    BY <1>1, <2>1, <2>2, <2>3
  <2>4. CASE j # i
    <3>1. n # n0
      BY <2>1, <2>4 DEF Distinct
    <3> QED
      BY <1>1, <2>2, <2>4, <3>1
  <2> QED
    BY <2>3, <2>4
<1>6. ContentsIn(gs) = [n \in DOMAIN C |-> IF n = n0 THEN Data(g) ELSE C[n]]
  <2>1. ContentsIn(gs) = [n \in DOMAIN ContentsIn(gs) |-> ContentsIn(gs)[n]]
    BY Zenon DEF ContentsIn
  <2> HIDE DEF C, n0
  <2> QED
    BY <1>4, <1>5, <2>1
<1>7. C = [n \in DOMAIN C |-> C[n]] /\ n0 \in DOMAIN C
  <2>1. n0 \in DOMAIN C
    BY ContentAt
  <2> QED
    BY <2>1, Zenon DEF ContentsIn
<1> HIDE DEF C, n0
<1>8. [C EXCEPT ![n0] = Data(g)] = [n \in DOMAIN C |-> IF n = n0 THEN Data(g) ELSE C[n]]
  BY <1>7
<1> QED
  BY <1>6, <1>8 DEF gs, C, n0

\* Filling a free slot under a new name adds the file.
LEMMA CreatedContents ==
  ASSUME NEW fs \in [Slots -> Slot], Distinct(fs), NEW i \in Slots, ~fs[i].used,
         NEW g \in Slot, g.used, \A j \in Slots : fs[j].used => fs[j].name # g.name
  PROVE  /\ g.name \notin DOMAIN ContentsIn(fs)
         /\ ContentsIn([fs EXCEPT ![i] = g]) =
              [m \in DOMAIN ContentsIn(fs) \cup {g.name} |->
                 IF m = g.name THEN Data(g) ELSE ContentsIn(fs)[m]]
<1> DEFINE gs == [fs EXCEPT ![i] = g]
           C == ContentsIn(fs)
<1>1. gs[i] = g /\ \A j \in Slots : j # i => gs[j] = fs[j]
  OBVIOUS
<1> HIDE DEF gs
<1>2. g.name \notin DOMAIN C
  BY ContentName
<1>3. Distinct(gs)
  <2> SUFFICES ASSUME NEW j \in Slots, NEW k \in Slots, gs[j].used, gs[k].used,
                      gs[j].name = gs[k].name
               PROVE  j = k
    BY Zenon DEF Distinct
  <2>1. CASE j = i /\ k # i
    BY <1>1, <2>1
  <2>2. CASE k = i /\ j # i
    BY <1>1, <2>2
  <2>3. CASE j # i /\ k # i
    BY <1>1, <2>3 DEF Distinct
  <2> QED
    BY <2>1, <2>2, <2>3
<1>4. DOMAIN ContentsIn(gs) = DOMAIN C \cup {g.name}
  <2>1. UsedIn(gs) = UsedIn(fs) \cup {i}
    BY <1>1 DEF UsedIn
  <2>2. i \notin UsedIn(fs) /\ UsedIn(fs) \subseteq Slots
    BY DEF UsedIn
  <2>3. {gs[j].name : j \in UsedIn(gs)} = {fs[j].name : j \in UsedIn(fs)} \cup {g.name}
    BY <1>1, <2>1, <2>2
  <2> QED
    BY <2>3, Zenon DEF ContentsIn
<1>5. ASSUME NEW m \in DOMAIN C \cup {g.name}
      PROVE  ContentsIn(gs)[m] = IF m = g.name THEN Data(g) ELSE C[m]
  <2>1. CASE m = g.name
    BY <1>1, <1>3, <2>1, ContentAt
  <2>2. CASE m # g.name
    <3>1. PICK j \in Slots : fs[j].used /\ fs[j].name = m
      BY <2>2, ContentName
    <3>2. j # i
      BY <3>1
    <3>3. gs[j] = fs[j]
      BY <1>1, <3>2
    <3> QED
      BY <1>3, <2>2, <3>1, <3>3, ContentAt
  <2> QED
    BY <2>1, <2>2
<1>6. ContentsIn(gs) = [m \in DOMAIN ContentsIn(gs) |-> ContentsIn(gs)[m]]
  BY Zenon DEF ContentsIn
<1> HIDE DEF C
<1>7. ContentsIn(gs) = [m \in DOMAIN C \cup {g.name} |-> IF m = g.name THEN Data(g) ELSE C[m]]
  BY <1>4, <1>5, <1>6
<1> QED
  BY <1>2, <1>7 DEF gs, C

\* A write lays what it takes of the buffer over the file.
LEMMA WriteIsOverlay ==
  ASSUME NEW f \in Slot, NEW buf \in Seq(Bytes), NEW offset \in Nat, offset <= f.size
  PROVE  LET n == Room(offset, Len(buf))
             s == [j \in 1..n |-> buf[j]]
         IN /\ s \in Strings /\ Len(s) = n
            /\ Data(ramfs_write(f, buf, offset)) = Store!Overlay(Data(f), offset, s)
<1> DEFINE n == Room(offset, Len(buf))
           s == [j \in 1..n |-> buf[j]]
           end == offset + n
           data == [o \in Offsets |->
                      IF offset <= o /\ o < end THEN buf[o - offset + 1] ELSE f.data[o]]
           size == IF end > f.size THEN end ELSE f.size
           g == ramfs_write(f, buf, offset)
<1>1. f.size \in 0..RAMFS_MAX_FILE_SIZE /\ f.data \in [Offsets -> Bytes] /\ Len(buf) \in Nat
  BY DEF Slot
<1>2. offset \in 0..RAMFS_MAX_FILE_SIZE
  BY <1>1, FilesAssumption
<1>3. n \in 0..Len(buf) /\ end \in 0..RAMFS_MAX_FILE_SIZE
  BY <1>1, <1>2, RoomBounds, Zenon
<1>4. g.data = data /\ g.size = size
  BY DEF ramfs_write, Slot
<1> HIDE DEF n, g
<1>5. n \in Nat /\ n \in 0..RAMFS_MAX_FILE_SIZE /\ size \in 0..RAMFS_MAX_FILE_SIZE
  BY <1>1, <1>2, <1>3, FilesAssumption
<1>6. \A j \in 1..n : buf[j] \in Bytes
  <2> TAKE j \in 1..n
  <2>1. j \in 1..Len(buf)
    BY <1>1, <1>3
  <2> QED
    BY <2>1
<1>7. s \in [1..n -> Bytes] /\ Len(s) = n
  BY <1>5, <1>6
<1>8. s \in Strings
  BY <1>5, <1>7 DEF Strings
<1>9. \A k \in 1..f.size : f.data[k - 1] \in Bytes
  <2> TAKE k \in 1..f.size
  <2>1. k - 1 \in Offsets
    BY <1>1, FilesAssumption DEF Offsets
  <2> QED
    BY <1>1, <2>1
<1>10. Len(Data(f)) = f.size /\ \A k \in 1..f.size : Data(f)[k] = f.data[k - 1]
  BY <1>1, <1>9 DEF Data
<1>11. Store!Overlay(Data(f), offset, s) =
         [i \in 1..size |-> IF offset < i /\ i <= end THEN s[i - offset] ELSE Data(f)[i]]
  <2> HIDE DEF s
  <2>1. offset + Len(s) = end /\ Len(Data(f)) = f.size
    BY <1>7, <1>10
  <2> HIDE DEF end
  <2> QED
    BY <2>1 DEF Store!Overlay
<1>12. ASSUME NEW i \in 1..size
       PROVE  data[i - 1] = IF offset < i /\ i <= end THEN s[i - offset] ELSE Data(f)[i]
  <2>1. i \in Nat /\ i >= 1 /\ i <= size /\ i - 1 \in Offsets
    BY <1>5, FilesAssumption DEF Offsets
  <2>2. data[i - 1] = IF offset <= i - 1 /\ i - 1 < end THEN buf[(i - 1) - offset + 1]
                      ELSE f.data[i - 1]
    BY <2>1
  <2>3. CASE offset < i /\ i <= end
    <3>1. i - offset \in 1..n /\ (i - 1) - offset + 1 = i - offset
      BY <1>2, <1>5, <2>1, <2>3
    <3>2. offset <= i - 1 /\ i - 1 < end
      BY <1>2, <1>5, <2>1, <2>3
    <3> HIDE DEF data, end
    <3> QED
      BY <2>2, <2>3, <3>1, <3>2
  <2>4. CASE ~(offset < i /\ i <= end)
    <3>1. ~(offset <= i - 1 /\ i - 1 < end) /\ i \in 1..f.size
      BY <1>1, <1>2, <1>5, <2>1, <2>4
    <3> HIDE DEF data, end
    <3> QED
      BY <1>10, <2>2, <2>4, <3>1
  <2> QED
    BY <2>3, <2>4
<1>13. Data(g) = [i \in 1..size |-> data[i - 1]]
  BY <1>4, Zenon DEF Data
<1> HIDE DEF data, size, end, s
<1>14. Data(g) = Store!Overlay(Data(f), offset, s)
  BY <1>11, <1>12, <1>13
<1> QED
  BY <1>7, <1>8, <1>14, Zenon DEF g, s, n

LEMMA WriteRef ==
  ASSUME Inv, NEW p \in Procs, NEW fd \in 0..MAX_FDS, NEW buf \in Seq(Bytes),
         sys_write(p, fd, buf)
  PROVE  Store!Next
<1>0. files \in [Slots -> Slot] /\ fd_table \in [Procs -> [Fds -> Fd]]
  BY SlotsAndFds DEF Inv
<1>1. CASE fd \notin {1, 2} /\ OnFile(p, fd)
  <2> DEFINE d == fd_table[p][fd]
             i == d.file_idx
             f == files[i]
             n == Room(d.offset, Len(buf))
             s == [j \in 1..n |-> buf[j]]
             d1 == [d EXCEPT !.offset = @ + n]
             g == ramfs_write(f, buf, d.offset)
             o == <<p, fd>>
  <2>0. /\ fd \in Fds /\ fd >= 3 /\ o \in Owners /\ d \in Fd /\ d.in_use /\ d.file_idx >= 0
        /\ i \in Slots /\ d.offset \in Nat /\ d.offset <= f.size /\ f \in Slot /\ f.used
        /\ Descriptors[o] = [name |-> f.name, offset |-> d.offset]
        /\ Descriptors[o] # Shut /\ Contents[f.name] = Data(f) /\ f.name \in DOMAIN Contents
    BY <1>1, OpenFacts, Zenon
  <2>1. /\ fd_table' = [fd_table EXCEPT ![p][fd].offset = @ + n]
        /\ files' = [files EXCEPT ![i] = g]
        /\ out' = <<>> /\ dirents' = None
    BY <1>1 DEF sys_write, Answer
  <2>2. fd_table' = [fd_table EXCEPT ![p][fd] = d1]
    BY <1>0, <2>0, <2>1
  <2>3. s \in Strings /\ Len(s) = n /\ Data(g) = Store!Overlay(Data(f), d.offset, s)
    <3> HIDE DEF f, d
    <3> QED  BY <2>0, WriteIsOverlay, Zenon
  <2>4. g \in Slot /\ g.name = f.name /\ g.used
    <3>1. d.offset \in 0..RAMFS_MAX_FILE_SIZE
      BY <2>0, Zenon DEF Fd
    <3>2. g \in Slot /\ g.name = f.name /\ g.used = f.used
      <4> HIDE DEF f, d
      <4> QED  BY <2>0, <3>1, WriteSlot, Zenon
    <3> QED  BY <2>0, <3>2, Zenon
  <2> HIDE DEF g, s, n
  <2>5. Contents' = [Contents EXCEPT ![f.name] = Data(g)]
    <3>1. Distinct(files)
      BY Zenon DEF Inv, UniqueNames, Distinct
    <3>2. ContentsIn([files EXCEPT ![i] = g]) = [ContentsIn(files) EXCEPT ![f.name] = Data(g)]
      <4> HIDE DEF d
      <4> QED  BY <1>0, <2>0, <2>4, <3>1, WrittenContents, Zenon
    <3> QED  BY <2>1, <3>2, ContentsView, Zenon
  <2>6. Contents' = [Contents EXCEPT ![f.name] = Store!Overlay(@, d.offset, s)]
    BY <2>0, <2>3, <2>5, Zenon
  <2>7. \A x \in Slots : files'[x].name = files[x].name
    <3> HIDE DEF d
    <3> QED  BY <1>0, <2>0, <2>1, <2>4
  <2>8. \A x \in Fd : DescIn(files', x) = DescIn(files, x)
    <3> TAKE x \in Fd
    <3>1. CASE x.in_use /\ x.file_idx >= 0
      <4>1. x.file_idx \in Slots
        BY <3>1, FdSlot, Zenon
      <4> QED  BY <2>7, <3>1, <4>1 DEF DescIn
    <3>2. CASE ~(x.in_use /\ x.file_idx >= 0)
      BY <3>2 DEF DescIn
    <3> QED  BY <3>1, <3>2
  <2>9. DescIn(files, d1) = [name |-> f.name, offset |-> d.offset + n] /\ d1.file_idx = i
    BY <2>0 DEF DescIn, Fd
  <2>10. DescIn(files', d1) = DescIn(files, d1)
    <3>1. d1.in_use /\ d1.file_idx >= 0 /\ d1.file_idx \in Slots
      BY <2>0 DEF Fd
    <3> HIDE DEF d1
    <3> QED  BY <2>7, <3>1 DEF DescIn
  <2> HIDE DEF d1
  <2>11. \A q \in Procs, e \in Fds :
           fd_table'[q][e] = IF q = p /\ e = fd THEN d1 ELSE fd_table[q][e]
    <3> HIDE DEF d
    <3> QED  BY <1>0, <2>0, <2>2
  <2>12. \A x \in Owners : x[1] \in Procs /\ x[2] \in Fds /\ x = <<x[1], x[2]>>
    BY FilesAssumption DEF Owners, Fds
  <2>13. \A x \in Owners : DescIn(files', fd_table'[x[1]][x[2]])
                             = IF x = o THEN DescIn(files, d1)
                               ELSE DescIn(files, fd_table[x[1]][x[2]])
    <3> TAKE x \in Owners
    <3>1. x[1] \in Procs /\ x[2] \in Fds /\ x = <<x[1], x[2]>> /\ fd_table[x[1]][x[2]] \in Fd
      BY <1>0, <2>12
    <3>2. CASE x = o
      <4>1. x[1] = p /\ x[2] = fd
        BY <3>2
      <4>2. fd_table'[x[1]][x[2]] = d1
        BY <2>0, <2>11, <4>1, Zenon
      <4> QED  BY <2>10, <3>2, <4>2, Zenon
    <3>3. CASE x # o
      <4>1. fd_table'[x[1]][x[2]] = fd_table[x[1]][x[2]]
        BY <2>11, <3>1, <3>3, Zenon
      <4> QED  BY <2>8, <3>1, <3>3, <4>1, Zenon
    <3> QED  BY <3>2, <3>3
  <2> HIDE DEF f, d, o
  <2>14. Descriptors' = [Descriptors EXCEPT ![o] = DescIn(files, d1)]
    BY <2>0, <2>13, DescriptorsView
  <2>15. Descriptors' = [Descriptors EXCEPT ![o].offset = @ + Len(s)]
    <3>0. Descriptors[o] = [name |-> f.name, offset |-> d.offset]
      BY <2>0, Zenon
    <3>1. [Descriptors[o] EXCEPT !.offset = @ + n] = [name |-> f.name, offset |-> d.offset + n]
      BY <3>0
    <3> QED  BY <2>3, <2>9, <2>14, <3>1, Zenon
  <2>16. Descriptors[o].name = f.name /\ Descriptors[o].offset = d.offset
    <3>1. Descriptors[o] = [name |-> f.name, offset |-> d.offset]
      BY <2>0, Zenon
    <3> QED  BY <3>1, DescFields, Zenon
  <2>17. Store!Write(o, s)
    BY <2>0, <2>1, <2>6, <2>15, <2>16, Zenon DEF Store!Write, Store!None, None, Shut
  <2> QED
    BY <2>0, <2>3, <2>17, Zenon DEF Store!Next, Strings
<1>2. CASE ~(fd \notin {1, 2} /\ OnFile(p, fd))
  <2>1. UNCHANGED <<files, fd_table>> /\ out' = <<>> /\ dirents' = None
    BY <1>2 DEF sys_write, Answer
  <2> QED
    BY <2>1, FailStep, Zenon DEF Store!Next
<1> QED
  BY <1>1, <1>2

LEMMA ReaddirRef ==
  ASSUME Inv, NEW max \in Nat, sys_readdir(max)
  PROVE  Store!Next
<1> DEFINE shown == {i \in Slots : files[i].used /\
                       Cardinality({j \in Slots : files[j].used /\ j < i}) < max}
           names == {files[i].name : i \in shown}
<1>0. files \in [Slots -> Slot] /\ Distinct(files)
  BY SlotsAndFds, Zenon DEF Inv, UniqueNames, Distinct
<1>1. /\ dirents' = [n \in names |-> files[find_file(n)].size]
      /\ out' = <<>> /\ UNCHANGED <<files, fd_table>>
  BY Zenon DEF sys_readdir
<1>2. \A i \in shown : i \in Slots /\ files[i].used
  OBVIOUS
<1> HIDE DEF shown
<1>3. ASSUME NEW n \in names
      PROVE  n \in DOMAIN Contents /\ files[find_file(n)].size = Len(Contents[n])
  <2>1. PICK i \in shown : n = files[i].name
    OBVIOUS
  <2>2. i \in Slots /\ files[i].used
    BY <1>2
  <2>3. find_file(n) = i
    <3> DEFINE S == {j \in Slots : files[j].used /\ files[j].name = n}
    <3>1. S \in SUBSET Nat
      BY FilesAssumption DEF Slots
    <3>2. i \in S
      BY <2>1, <2>2
    <3>3. Lowest(S) \in S
      BY <3>1, <3>2, LowestResult
    <3> QED  BY <1>0, <3>2, <3>3 DEF find_file, Distinct
  <2>4. n \in DOMAIN Contents /\ Contents[n] = Data(files[i])
    BY <1>0, <2>1, <2>2, ContentAt, ContentsView
  <2>5. files[i].size \in Nat
    BY <1>0, <2>2, FilesAssumption DEF Slot
  <2>6. Len(Data(files[i])) = files[i].size
    BY <2>5 DEF Data
  <2> QED
    BY <2>3, <2>4, <2>6
<1> HIDE DEF names
<1>4. names \in SUBSET DOMAIN Contents /\ dirents' = [n \in names |-> Len(Contents[n])]
  BY <1>1, <1>3
<1>5. Contents' = Contents /\ Descriptors' = Descriptors
  BY <1>1, ContentsView, DescriptorsView
<1>6. Store!List
  BY <1>1, <1>4, <1>5, Zenon DEF Store!List
<1> QED
  BY <1>6, Zenon DEF Store!Next

\* A file made in a free slot is new to every descriptor.
LEMMA CreateRef ==
  ASSUME Inv, NEW name \in Names, Cut[name] = name, NEW bytes \in Seq(Bytes),
         files' = IF ramfs_create(name) >= 0
                  THEN [files EXCEPT ![ramfs_create(name)] = Fresh(@, name, bytes)]
                  ELSE files,
         UNCHANGED fd_table, out' = <<>>, dirents' = None
  PROVE  Store!Next
<1> DEFINE i == ramfs_create(name)
<1>0. files \in [Slots -> Slot] /\ fd_table \in [Procs -> [Fds -> Fd]] /\ Distinct(files)
  BY SlotsAndFds, Zenon DEF Inv, UniqueNames, Distinct
<1>1. CASE ~(i >= 0)
  BY <1>1, FailStep, Zenon DEF Store!Next
<1>2. CASE i >= 0
  <2>1. /\ i \in Slots /\ ~files[i].used
        /\ \A j \in Slots : files[j].used => files[j].name # name
    BY <1>2, CreateSlot
  <2> DEFINE g == Fresh(files[i], name, bytes)
  <2>2. g \in Slot /\ g.used /\ g.name = name
    BY <1>0, <2>1, FreshSlot
  <2>3. files' = [files EXCEPT ![i] = g]
    BY <1>2
  <2> HIDE DEF i, g
  <2>4. /\ name \notin DOMAIN Contents
        /\ Contents' = [m \in DOMAIN Contents \cup {name} |->
                          IF m = name THEN Data(g) ELSE Contents[m]]
    <3>0. \A j \in Slots : files[j].used => files[j].name # g.name
      BY <2>1, <2>2, Zenon
    <3>1. /\ g.name \notin DOMAIN ContentsIn(files)
          /\ ContentsIn([files EXCEPT ![i] = g]) =
               [m \in DOMAIN ContentsIn(files) \cup {g.name} |->
                  IF m = g.name THEN Data(g) ELSE ContentsIn(files)[m]]
      BY <1>0, <2>1, <2>2, <3>0, CreatedContents, Zenon
    <3>2. ContentsIn(files') = [m \in DOMAIN ContentsIn(files) \cup {name} |->
                                  IF m = name THEN Data(g) ELSE ContentsIn(files)[m]]
      BY <2>2, <2>3, <3>1, Zenon
    <3>3. name \notin DOMAIN ContentsIn(files)
      BY <2>2, <3>1, Zenon
    <3> QED  BY <3>2, <3>3, ContentsView
  <2>5. Data(g) \in Strings
    <3>1. g.size \in 0..RAMFS_MAX_FILE_SIZE /\ g.data \in [Offsets -> Bytes]
      BY <2>2 DEF Slot
    <3>2. \A k \in 1..g.size : g.data[k - 1] \in Bytes
      <4> TAKE k \in 1..g.size
      <4>1. k - 1 \in Offsets
        BY <3>1, FilesAssumption DEF Offsets
      <4> QED  BY <3>1, <4>1
    <3>3. Data(g) \in [1..g.size -> Bytes]
      BY <3>1, <3>2 DEF Data
    <3> QED  BY <3>1, <3>3 DEF Strings
  <2>6. \A x \in Slots : files[x].used => files'[x] = files[x]
    BY <1>0, <2>1, <2>3
  <2>7. \A x \in Owners : DescIn(files', fd_table[x[1]][x[2]]) = DescIn(files, fd_table[x[1]][x[2]])
    <3> TAKE x \in Owners
    <3> DEFINE d == fd_table[x[1]][x[2]]
    <3>1. x[1] \in Procs /\ x[2] \in Fds /\ x[2] < MAX_FDS
      BY FilesAssumption DEF Owners, Fds
    <3>2. CASE d.in_use /\ d.file_idx >= 0
      <4>1. d \in Fd /\ files[d.file_idx].used
        BY <1>0, <3>1, <3>2 DEF Inv, OffsetsInside, OnFile
      <4>2. d.file_idx \in Slots
        BY <3>2, <4>1, FdSlot, Zenon
      <4>3. files'[d.file_idx] = files[d.file_idx]
        BY <2>6, <4>1, <4>2, Zenon
      <4> QED  BY <3>2, <4>3, Zenon DEF DescIn
    <3>3. CASE ~(d.in_use /\ d.file_idx >= 0)
      BY <3>3, Zenon DEF DescIn
    <3> QED  BY <3>2, <3>3
  <2>8. Descriptors' = Descriptors
    BY <2>7, DescriptorsView, Zenon
  <2>9. Store!Create(name, Data(g))
    BY <2>4, <2>8, Zenon DEF Store!Create, Store!None, None
  <2> QED
    BY <2>4, <2>5, <2>9, Zenon DEF Store!Next, Strings
<1> QED
  BY <1>1, <1>2

-----------------------------------------------------------------------------
(* Every step of the code is a step of FileStore. *)

LEMMA NamedNew ==
  ASSUME Inv, Named, NEW name \in Names, Cut[name] = name, NEW bytes \in Seq(Bytes),
         files' = IF ramfs_create(name) >= 0
                  THEN [files EXCEPT ![ramfs_create(name)] = Fresh(@, name, bytes)]
                  ELSE files
  PROVE  Named'
<1>0. files \in [Slots -> Slot]
  BY SlotsAndFds DEF Inv
<1> DEFINE i == ramfs_create(name)
<1>1. CASE i >= 0
  <2>1. i \in Slots
    BY <1>1, CreateSlot
  <2>2. Fresh(files[i], name, bytes).name = name
    BY <1>0, <2>1, FreshSlot
  <2>3. files' = [files EXCEPT ![i] = Fresh(files[i], name, bytes)]
    BY <1>1
  <2> HIDE DEF i
  <2> QED  BY <1>0, <2>1, <2>2, <2>3 DEF Named
<1>2. CASE ~(i >= 0)
  BY <1>2 DEF Named
<1> QED
  BY <1>1, <1>2

LEMMA NamedWrite ==
  ASSUME Inv, Named, NEW p \in Procs, NEW fd \in 0..MAX_FDS, NEW buf \in Seq(Bytes),
         sys_write(p, fd, buf)
  PROVE  Named'
<1>0. files \in [Slots -> Slot]
  BY SlotsAndFds DEF Inv
<1>1. CASE fd \notin {1, 2} /\ OnFile(p, fd)
  <2> DEFINE d == fd_table[p][fd]
             i == d.file_idx
             g == ramfs_write(files[i], buf, d.offset)
  <2>1. i \in Slots /\ d.offset <= files[i].size /\ files[i] \in Slot /\ d \in Fd
    BY <1>1, OpenFacts, Zenon
  <2>2. files' = [files EXCEPT ![i] = g]
    BY <1>1 DEF sys_write
  <2>3. d.offset \in 0..RAMFS_MAX_FILE_SIZE
    BY <2>1 DEF Fd
  <2>4. g.name = files[i].name /\ g.used = files[i].used
    <3> HIDE DEF d
    <3> QED  BY <2>1, <2>3, WriteSlot, Zenon
  <2> HIDE DEF g, i
  <2> QED  BY <1>0, <2>1, <2>2, <2>4 DEF Named
<1>2. CASE ~(fd \notin {1, 2} /\ OnFile(p, fd))
  BY <1>2 DEF sys_write, Named
<1> QED
  BY <1>1, <1>2

LEMMA SyscallRef ==
  ASSUME Inv, Named, NEW p \in Procs, syscall_handler(p)
  PROVE  Store!Next /\ Named'
<1>2. \/ \E path \in Names : sys_open(p, path)
      \/ \E fd \in 0..MAX_FDS : sys_close(p, fd)
      \/ \E fd \in 0..MAX_FDS, len \in 0..MaxLen : sys_read(p, fd, len)
      \/ \E fd \in 0..MAX_FDS, buf \in Buffers : sys_write(p, fd, buf)
      \/ \E max \in Maxes : sys_readdir(max)
  BY DEF syscall_handler
<1>4. ASSUME UNCHANGED files PROVE Named'
  BY <1>4 DEF Named
<1>5. ASSUME NEW path \in Names, sys_open(p, path) PROVE Store!Next /\ Named'
  <2>1. UNCHANGED files
    BY <1>5, Zenon DEF sys_open
  <2> QED  BY <1>4, <1>5, <2>1, OpenRef
<1>6. ASSUME NEW fd \in 0..MAX_FDS, sys_close(p, fd) PROVE Store!Next /\ Named'
  <2>1. UNCHANGED files
    BY <1>6, Zenon DEF sys_close
  <2> QED  BY <1>4, <1>6, <2>1, CloseRef
<1>7. ASSUME NEW fd \in 0..MAX_FDS, NEW len \in 0..MaxLen, sys_read(p, fd, len)
      PROVE  Store!Next /\ Named'
  <2>1. UNCHANGED files
    BY <1>7, Zenon DEF sys_read
  <2>2. len \in Nat
    BY FilesAssumption
  <2> QED  BY <1>4, <1>7, <2>1, <2>2, ReadRef
<1>8. ASSUME NEW fd \in 0..MAX_FDS, NEW buf \in Buffers, sys_write(p, fd, buf)
      PROVE  Store!Next /\ Named'
  <2>1. PICK k \in 0..MaxLen : buf \in [1..k -> Bytes]
    BY DEF Buffers
  <2>2. buf \in Seq(Bytes)
    BY <2>1, FilesAssumption
  <2> QED  BY <1>8, <2>2, WriteRef, NamedWrite
<1>9. ASSUME NEW max \in Maxes, sys_readdir(max) PROVE Store!Next /\ Named'
  <2>1. UNCHANGED files
    BY <1>9, Zenon DEF sys_readdir
  <2>2. max \in Nat
    BY FilesAssumption
  <2> QED  BY <1>4, <1>9, <2>1, <2>2, ReaddirRef
<1> QED
  BY <1>2, <1>5, <1>6, <1>7, <1>8, <1>9

LEMMA ExecRef ==
  ASSUME Untouched, exec
  PROVE  Store!Next /\ phase' \in {"run", "undefined"} /\ UNCHANGED files
<1>1. /\ fd_table' = [fd_table EXCEPT !["shell"] = StdFds]
      /\ phase = "exec" /\ phase' \in {"run", "undefined"}
      /\ out' = <<>> /\ dirents' = None /\ UNCHANGED files
  BY DEF exec, Answer
<1>2. fd_table = [p \in Procs |-> StdFds]
  BY <1>1 DEF Untouched
<1>3. UNCHANGED fd_table
  BY <1>1, <1>2, Zenon DEF Procs
<1> QED
  BY <1>1, <1>3, FailStep, Zenon DEF Store!Next

RefInv == Inv /\ Named /\ Untouched

LEMMA RefStep ==
  ASSUME ImagesWellFormed, RefInv, [Next]_vars
  PROVE  [Store!Next]_Store!vars /\ Named' /\ Untouched'
<1>0. Inv /\ Named /\ Untouched
  BY DEF RefInv
<1>1. CASE kmain_test
  <2>1. Hello \in Names /\ Cut[Hello] = Hello /\ HelloMsg \in Seq(Bytes)
    BY FilesAssumption
  <2>2. /\ files' = IF ramfs_create(Hello) >= 0
                    THEN [files EXCEPT ![ramfs_create(Hello)] = Fresh(@, Hello, HelloMsg)]
                    ELSE files
        /\ UNCHANGED fd_table /\ phase = "test"
        /\ out' = <<>> /\ dirents' = None
    BY <1>1, Zenon DEF kmain_test, Answer
  <2>3. Store!Next /\ Named'
    BY <1>0, <2>1, <2>2, CreateRef, NamedNew, Zenon
  <2> QED  BY <1>0, <2>2, <2>3 DEF Untouched
<1>2. CASE initramfs_load
  <2>1. PICK name \in Names, bytes \in Seq(Bytes) :
          /\ Cut[name] = name
          /\ files' = IF ramfs_create(name) >= 0
                      THEN [files EXCEPT ![ramfs_create(name)] = Fresh(@, name, bytes)]
                      ELSE files
          /\ UNCHANGED <<fd_table, phase, module, procs, code>>
          /\ entry' = entry + 1 /\ ret' = 0 /\ out' = <<>> /\ dirents' = None
    BY <1>0, <1>2, LoadFacts, Zenon
  <2>2. Store!Next /\ Named'
    BY <1>0, <2>1, CreateRef, NamedNew, Zenon
  <2> QED  BY <1>0, <2>1, <2>2 DEF Untouched
<1>3. CASE initramfs_loaded
  <2>1. UNCHANGED <<files, fd_table>> /\ phase = "load" /\ out' = <<>> /\ dirents' = None
    BY <1>3 DEF initramfs_loaded, Answer
  <2>2. Store!Next
    BY <2>1, FailStep, Zenon DEF Store!Next
  <2> QED  BY <1>0, <2>1, <2>2 DEF Untouched, Named
<1>4. CASE exec
  <2>1. Store!Next /\ phase' \in {"run", "undefined"} /\ UNCHANGED files
    BY <1>0, <1>4, ExecRef
  <2> QED  BY <1>0, <2>1 DEF Untouched, Named
<1>5. CASE \E p \in Procs : syscall_handler(p)
  <2>1. phase' = "run"
    BY <1>5 DEF syscall_handler
  <2>2. Store!Next /\ Named'
    BY <1>0, <1>5, SyscallRef
  <2> QED  BY <2>1, <2>2 DEF Untouched
<1>6. CASE UNCHANGED vars
  <2>1. UNCHANGED Store!vars
    BY <1>6, StutterStep
  <2> QED  BY <1>0, <1>6, <2>1 DEF Untouched, Named, vars
<1>7. CASE Stopped
  BY <1>6, <1>7 DEF Stopped
<1> QED
  BY <1>1, <1>2, <1>3, <1>4, <1>5, <1>6, <1>7 DEF Next

LEMMA RefInit ==
  ASSUME Init
  PROVE  Store!Init /\ RefInv
<1>1. \A i \in Slots : ~files[i].used
  BY DEF Init, FreeSlot
<1>2. Contents = [n \in {} |-> <<>>]
  <2>1. {files[i].name : i \in UsedIn(files)} = {}
    BY <1>1 DEF UsedIn
  <2> QED  BY <2>1, ContentsView, Zenon DEF ContentsIn
<1>3. \A o \in Owners : DescIn(files, fd_table[o[1]][o[2]]) = Shut
  <2> TAKE o \in Owners
  <2>1. o[1] \in Procs /\ o[2] \in Fds
    BY FilesAssumption DEF Owners, Fds
  <2>2. fd_table[o[1]][o[2]].file_idx = -1
    BY <2>1, StdFdsClosed DEF Init
  <2> QED  BY <2>2 DEF DescIn
<1>4. Descriptors = [o \in Owners |-> Shut]
  BY <1>3, DescriptorsView
<1>5. Store!Init
  BY <1>2, <1>4, Zenon DEF Store!Init, Store!None, None, Init, Shut
<1>6. Named /\ Untouched
  BY <1>1 DEF Named, Untouched, Init
<1> QED
  BY <1>5, <1>6, InitInv DEF RefInv

\* Through boot and every sequence of file calls, the slots and descriptor
\* tables implement FileStore: named byte strings, and descriptors that read and
\* write them at an offset of their own.
THEOREM Refinement ==
  ASSUME ImagesWellFormed
  PROVE  Spec => ImplementsFileStore
<1>1. Init => Store!Init /\ RefInv
  BY RefInit
<1>2. RefInv /\ [Next]_vars => RefInv'
  BY RefStep, NextInv DEF RefInv
<1>3. RefInv /\ [Next]_vars => [Store!Next]_Store!vars
  BY RefStep
<1> QED
  BY <1>1, <1>2, <1>3, PTL DEF Spec, ImplementsFileStore, Store!Spec

-----------------------------------------------------------------------------
(* The shell's commands are sequences of these calls. *)

CatState ==
  [pc : {"line", "read", "write", "close"}, fd : Fds \cup {-1}, buf : Buffers,
   shown : Seq(Bytes), file : Slots \cup {-1}, clean : BOOLEAN]

CatOK ==
  /\ cat \in [Shells -> CatState]
  /\ \A p \in Shells : cat[p].pc # "line" => cat[p].fd \in Fds

LEMMA BuffersAreSequences == Buffers \subseteq Seq(Bytes) /\ <<>> \in Buffers
<1>1. MaxLen \in Nat
  BY FilesAssumption
<1>2. ASSUME NEW b \in Buffers PROVE b \in Seq(Bytes)
  <2>1. PICK k \in 0..MaxLen : b \in [1..k -> Bytes]
    BY DEF Buffers
  <2> QED  BY <1>1, <2>1
<1>3. <<>> \in [1..0 -> Bytes] /\ 0 \in 0..MaxLen
  BY <1>1
<1>4. <<>> \in Buffers
  BY <1>3, Zenon DEF Buffers
<1> QED
  BY <1>2, <1>4

LEMMA PromptState == AtPrompt \in CatState /\ AtPrompt.pc = "line"
<1>1. <<>> \in Buffers /\ <<>> \in Seq(Bytes)
  BY BuffersAreSequences
<1> QED
  BY <1>1 DEF AtPrompt, CatState

\* What a read delivers fits the buffer it was given.
LEMMA ReadFits ==
  ASSUME Inv, NEW p \in Procs, NEW fd \in Fds, NEW len \in 0..MaxLen, sys_read(p, fd, len)
  PROVE  out' \in Buffers
<1>0. fd \in 0..MAX_FDS /\ len \in Nat /\ MaxLen \in Nat
  BY FilesAssumption DEF Fds
<1>1. CASE OnFile(p, fd)
  <2> DEFINE d == fd_table[p][fd]
             f == files[d.file_idx]
             b == ramfs_read(f, d.offset, len)
  <2>1. f \in Slot /\ d.offset \in Nat /\ d.offset <= f.size /\ d \in Fd
    BY <1>0, <1>1, OpenFacts, Zenon
  <2>2. d.offset \in 0..RAMFS_MAX_FILE_SIZE /\ f.size \in 0..RAMFS_MAX_FILE_SIZE
    BY <2>1, Zenon DEF Fd, Slot
  <2>3. out' = b
    BY <1>1 DEF sys_read
  <2> HIDE DEF f, d
  <2>4. b \in Seq(Bytes)
    BY <1>0, <2>1, <2>2, ReadBounds, Zenon
  <2>5. Len(b) \in 0..len
    <3> DEFINE n == IF d.offset >= f.size THEN 0
                    ELSE IF len > f.size - d.offset THEN f.size - d.offset ELSE len
    <3>1. n \in 0..len
      BY <1>0, <2>1, <2>2
    <3>2. b = [k \in 1..n |-> f.data[d.offset + k - 1]]
      BY Zenon DEF ramfs_read
    <3> HIDE DEF n, b
    <3> QED  BY <1>0, <3>1, <3>2
  <2> HIDE DEF b
  <2>6. Len(b) \in 0..MaxLen /\ b \in [1..Len(b) -> Bytes]
    BY <1>0, <2>4, <2>5
  <2> QED
    BY <2>3, <2>6, Zenon DEF Buffers
<1>2. CASE ~OnFile(p, fd)
  <2>1. out' = <<>>
    BY <1>2 DEF sys_read, Answer
  <2> QED
    BY <2>1, BuffersAreSequences
<1> QED
  BY <1>1, <1>2

\* A descriptor that sys_open returns is one of the table.
LEMMA OpenReturns ==
  ASSUME NEW p \in Procs, NEW path \in Names, sys_open(p, path), ~(ret' < 0)
  PROVE  ret' \in Fds /\ ramfs_open(path) \in Slots \cup {-1}
<1> DEFINE S == {d \in Fds : d >= 3 /\ ~fd_table[p][d].in_use}
           fd == Lowest(S)
           i == ramfs_open(path)
<1>1. S \in SUBSET Nat
  BY FilesAssumption DEF Fds
<1>2. (S = {} /\ fd = -1) \/ (fd \in S /\ fd >= 0)
  BY <1>1, LowestResult
<1>3. i = -1 \/ i \in Slots
  BY FindFile DEF ramfs_open
<1>4. CASE fd >= 0 /\ i >= 0
  <2>1. ret' = fd
    BY <1>4 DEF sys_open, Answer
  <2> QED  BY <1>2, <1>3, <1>4, <2>1
<1>5. CASE ~(fd >= 0 /\ i >= 0)
  <2>1. ret' = -1
    BY <1>5 DEF sys_open, Answer
  <2> QED  BY <2>1
<1> QED
  BY <1>4, <1>5

LEMMA CatStep ==
  ASSUME Inv, CatOK, NEW p \in Shells,
         \/ cmd_ls(p)
         \/ Cat(p)
         \/ \E filename \in Names : cmd_cat(p, filename)
  PROVE  syscall_handler(p) /\ CatOK'
<1>0. /\ p \in Procs /\ CatLen \in 0..MaxLen /\ LsMax \in Maxes
      /\ cat[p] \in CatState /\ cat[p].buf \in Buffers /\ cat[p].shown \in Seq(Bytes)
  BY ShellAssumption DEF CatOK, CatState
<1>1. Fds \subseteq 0..MAX_FDS /\ 1 \in 0..MAX_FDS
  BY FilesAssumption DEF Fds
<1>2. ASSUME NEW c \in CatState, c.pc # "line" => c.fd \in Fds, cat' = [cat EXCEPT ![p] = c]
      PROVE  CatOK'
  BY <1>2 DEF CatOK
<1>3. CASE cmd_ls(p)
  BY <1>0, <1>3 DEF cmd_ls, Call, syscall_handler, CatOK
<1>4. CASE cat_read(p)
  <2> DEFINE c == [cat[p] EXCEPT !.pc = IF ret' > 0 THEN "write" ELSE "close", !.buf = out']
  <2>1. cat[p].fd \in Fds /\ Call(p) /\ sys_read(p, cat[p].fd, CatLen) /\ cat' = [cat EXCEPT ![p] = c]
    BY <1>0, <1>4, Zenon DEF cat_read, CatOK
  <2>2. out' \in Buffers
    BY <1>0, <2>1, ReadFits
  <2>3. c \in CatState /\ c.fd \in Fds
    BY <1>0, <2>1, <2>2, Zenon DEF CatState
  <2>4. CatOK'
    <3> HIDE DEF c
    <3> QED  BY <1>2, <2>1, <2>3, Zenon
  <2>5. syscall_handler(p)
    BY <1>0, <1>1, <2>1 DEF Call, syscall_handler
  <2> QED  BY <2>4, <2>5
<1>5. CASE cat_write(p)
  <2> DEFINE shown == IF cat[p].clean THEN cat[p].shown \o cat[p].buf ELSE <<>>
             c == [cat[p] EXCEPT !.pc = "read", !.buf = <<>>, !.shown = shown]
  <2>1. /\ cat[p].fd \in Fds /\ Call(p) /\ sys_write(p, 1, cat[p].buf)
        /\ cat' = [cat EXCEPT ![p] = c]
    BY <1>0, <1>5, Zenon DEF cat_write, CatOK
  <2>2. shown \in Seq(Bytes) /\ <<>> \in Buffers
    BY <1>0, BuffersAreSequences
  <2> HIDE DEF shown
  <2>3. c \in CatState /\ c.fd \in Fds
    BY <1>0, <2>1, <2>2, Zenon DEF CatState
  <2>4. CatOK'
    <3> HIDE DEF c
    <3> QED  BY <1>2, <2>1, <2>3, Zenon
  <2>5. syscall_handler(p)
    BY <1>0, <1>1, <2>1 DEF Call, syscall_handler
  <2> QED  BY <2>4, <2>5
<1>6. CASE cat_close(p)
  <2>1. /\ cat[p].fd \in Fds /\ Call(p) /\ sys_close(p, cat[p].fd)
        /\ cat' = [cat EXCEPT ![p] = AtPrompt]
    BY <1>6 DEF cat_close, CatOK
  <2>2. CatOK'
    BY <1>2, <2>1, PromptState, Zenon
  <2>3. syscall_handler(p)
    BY <1>0, <1>1, <2>1, Zenon DEF Call, syscall_handler
  <2> QED  BY <2>2, <2>3
<1>7. ASSUME NEW filename \in Names, cmd_cat(p, filename)
      PROVE  syscall_handler(p) /\ CatOK'
  <2> DEFINE c == [AtPrompt EXCEPT !.pc = "read", !.fd = ret', !.clean = TRUE,
                                   !.file = ramfs_open(filename)]
  <2>1. /\ Call(p) /\ sys_open(p, filename)
        /\ cat' = IF ret' < 0 THEN cat ELSE [cat EXCEPT ![p] = c]
    BY <1>7, Zenon DEF cmd_cat
  <2>2. syscall_handler(p)
    BY <1>0, <2>1 DEF Call, syscall_handler
  <2>3. CASE ret' < 0
    BY <2>1, <2>2, <2>3 DEF CatOK
  <2>4. CASE ~(ret' < 0)
    <3>1. ret' \in Fds /\ ramfs_open(filename) \in Slots \cup {-1}
      BY <1>0, <2>1, <2>4, OpenReturns
    <3>2. c \in CatState /\ c.fd \in Fds
      BY <3>1, PromptState, Zenon DEF CatState
    <3> HIDE DEF c
    <3>3. cat' = [cat EXCEPT ![p] = c]
      BY <2>1, <2>4, Zenon
    <3> QED  BY <1>2, <2>2, <3>2, <3>3, Zenon
  <2> QED  BY <2>3, <2>4
<1> QED
  BY <1>3, <1>4, <1>5, <1>6, <1>7 DEF Cat

LEMMA OthersStep ==
  ASSUME CatOK, Others
  PROVE  Next /\ CatOK'
<1>1. Next
  BY DEF Others, Next
<1> DEFINE Changed(c) == [c EXCEPT !.clean = FALSE, !.file = -1, !.shown = <<>>]
<1>2. cat' = cat \/ cat' = [p \in Shells |-> Changed(cat[p])]
  BY Zenon DEF Others
<1>3. ASSUME NEW p \in Shells
      PROVE  /\ Changed(cat[p]) \in CatState
             /\ Changed(cat[p]).pc = cat[p].pc /\ Changed(cat[p]).fd = cat[p].fd
  <2>1. cat[p] \in CatState /\ <<>> \in Seq(Bytes)
    BY DEF CatOK
  <2> QED  BY <2>1, Zenon DEF CatState
<1> HIDE DEF Changed
<1>4. CatOK'
  BY <1>2, <1>3, Zenon DEF CatOK
<1> QED
  BY <1>1, <1>4

\* ls and cat are made of file calls only: whatever holds of every sequence of
\* calls holds while shells run their commands.
THEOREM ShellUsesCalls ==
  ASSUME ImagesWellFormed
  PROVE  ShellSpec => Spec
<1>1. ShellInit => Init /\ Inv /\ CatOK
  <2>1. ShellInit => CatOK
    BY PromptState DEF ShellInit, CatOK
  <2> QED  BY <2>1, InitInv DEF ShellInit
<1>2. Inv /\ CatOK /\ [ShellNext]_shell_vars => [Next]_vars /\ CatOK'
  <2> SUFFICES ASSUME Inv, CatOK, [ShellNext]_shell_vars
               PROVE  [Next]_vars /\ CatOK'
    OBVIOUS
  <2>1. CASE Others
    BY <2>1, OthersStep
  <2>2. CASE \E p \in Shells : cmd_ls(p) \/ Cat(p)
    BY <2>2, CatStep, ShellAssumption DEF Next
  <2>3. CASE \E p \in Shells, filename \in Names : cmd_cat(p, filename)
    BY <2>3, CatStep, ShellAssumption DEF Next
  <2>4. CASE UNCHANGED shell_vars
    BY <2>4 DEF shell_vars, CatOK
  <2> QED  BY <2>1, <2>2, <2>3, <2>4 DEF ShellNext
<1>3. Inv /\ [Next]_vars => Inv'
  BY NextInv
<1> QED
  BY <1>1, <1>2, <1>3, PTL DEF ShellSpec, Spec

=============================================================================
