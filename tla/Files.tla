------------------------------- MODULE Files -------------------------------
(***************************************************************************)
(* The file system as the shell meets it: fs/ramfs.c behind fs/vfs.c, the  *)
(* descriptor calls of syscall/syscall.c, and the part of kmain that fills *)
(* ramfs before the shell starts (its self test, initramfs_load, exec).    *)
(*                                                                         *)
(* System calls enter through an interrupt gate, so each one is a step;    *)
(* which process is running is the matter of module Scheduler, and here    *)
(* any process that exists may make the next call.                         *)
(***************************************************************************)
EXTENDS Mkramfs, FiniteSets, FiniteSetsExt

CONSTANTS
  RAMFS_MAX_FILES, RAMFS_MAX_FILE_SIZE, MAX_FDS,
  Names,         \* <<leading slashes, the rest>>
  Bytes,         \* what a byte of a file can be; 0 is among them
  Hello, HelloMsg,   \* the file the self test of kmain makes
  Shell,         \* "shell.bin"
  Modules,       \* the boot modules considered: [dir, kind], kind "ok", "bad" or "none"
  MaxLen,        \* the longest buffer a call is given
  Maxes          \* the limits sys_readdir is called with

ASSUME FilesAssumption ==
  /\ RAMFS_MAX_FILES \in Nat \ {0}
  /\ RAMFS_MAX_FILE_SIZE \in Nat \ {0}
  /\ MAX_FDS \in Nat /\ MAX_FDS > 3
  /\ MAX_FILES \in Nat /\ Header \in Nat /\ EntrySize \in Nat
  /\ MaxLen \in Nat /\ Maxes \subseteq Nat
  /\ 0 \in Bytes
  /\ HelloMsg \in Seq(Bytes) /\ Len(HelloMsg) <= RAMFS_MAX_FILE_SIZE
  /\ Hello \in Names /\ Shell \in Names /\ Hello[1] = 0 /\ Shell[1] = 0
  /\ Cut \in [Names -> Names] /\ Cut[Hello] = Hello
  /\ \A n \in Names : Cut[Cut[n]] = Cut[n]

\* The images are the ones mkramfs writes: names that fit a slot, and the bytes
\* of every file inside the image.
ImagesWellFormed ==
  \A m \in Modules :
    LET image == mkramfs(m.dir)
    IN /\ image.entries \in Seq([name : Names, offset : Nat, size : Nat])
       /\ \A e \in {image.entries[k] : k \in 1..Len(image.entries)} :
            /\ Cut[e.name] = e.name
            /\ \A k \in 1..e.size : image.bytes[e.offset + k - 1] \in Bytes

VARIABLES
  files,     \* the slots of ramfs
  fd_table,  \* process -> its descriptors
  phase,     \* where kmain is
  module,    \* what GRUB loaded beside the kernel
  entry,     \* the next entry initramfs_load takes
  procs,     \* the processes that exist
  code,      \* what is at USER_LOAD_ADDR
  ret,       \* what the last call returned
  out,       \* the bytes the last call delivered
  dirents    \* name -> size, what the last sys_readdir delivered

vars == <<files, fd_table, phase, module, entry, procs, code, ret, out, dirents>>

Slots == 0..(RAMFS_MAX_FILES - 1)
Offsets == 0..(RAMFS_MAX_FILE_SIZE - 1)
Fds == 0..(MAX_FDS - 1)
Procs == {"idle", "shell"}
Buffers == UNION {[1..k -> Bytes] : k \in 0..MaxLen}
NoModule == [dir |-> <<>>, kind |-> "none"]
None == [n \in {} |-> 0]

NoName == <<0, "">>
FreeSlot == [name |-> NoName, data |-> [o \in Offsets |-> 0], size |-> 0, used |-> FALSE]
ClosedFd == [file_idx |-> -1, offset |-> 0, in_use |-> FALSE]
OpenStd == [file_idx |-> -1, offset |-> 0, in_use |-> TRUE]

\* The table kmain and exec give a process: only stdin, stdout and stderr.
StdFds == [d \in Fds |-> IF d < 3 THEN OpenStd ELSE ClosedFd]

Init ==
  /\ files = [i \in Slots |-> FreeSlot]
  /\ fd_table = [p \in Procs |-> StdFds]
  /\ phase = "test"
  /\ module \in Modules
  /\ entry = 1
  /\ procs = {"idle"}
  /\ code = <<>>
  /\ ret = 0
  /\ out = <<>>
  /\ dirents = None

Lowest(S) == IF S = {} THEN -1 ELSE Min(S)

find_file(name) == Lowest({i \in Slots : files[i].used /\ files[i].name = name})

find_free_slot == Lowest({i \in Slots : ~files[i].used})

\* Mutant: an existing name is not looked for.
ramfs_createAlways(name) == find_free_slot

\* The slot that creating name would take, or -1.
ramfs_create(name) == IF find_file(name) >= 0 THEN -1 ELSE find_free_slot

ramfs_open(path) ==
  find_file(IF path[1] > 0 THEN <<path[1] - 1, path[2]>> ELSE path)

\* Mutant: the length is limited by the array, not by the size.
ramfs_readWhole(f, offset, len) ==
  LET n == IF offset + len > RAMFS_MAX_FILE_SIZE THEN RAMFS_MAX_FILE_SIZE - offset ELSE len
  IN [k \in 1..n |-> f.data[offset + k - 1]]

\* The bytes a read of len bytes at offset delivers.
ramfs_read(f, offset, len) ==
  LET n == IF offset >= f.size THEN 0
           ELSE IF len > f.size - offset THEN f.size - offset ELSE len
  IN [k \in 1..n |-> f.data[offset + k - 1]]

\* How much of len bytes a write at offset takes.  The code adds in 32 bits; the sum
\* wraps only for a length within RAMFS_MAX_FILE_SIZE of 2^32, and len is the
\* length of a buffer here, of which there is none that long.
Room(offset, len) ==
  IF offset + len > RAMFS_MAX_FILE_SIZE THEN RAMFS_MAX_FILE_SIZE - offset ELSE len

\* Mutant: the size is compared with the length written, not with its end.
ramfs_writeLen(f, buf, offset) ==
  LET len == Room(offset, Len(buf))
  IN [f EXCEPT !.data = [o \in Offsets |->
                           IF offset <= o /\ o < offset + len THEN buf[o - offset + 1] ELSE @[o]],
               !.size = IF len > @ THEN len ELSE @]

\* The slot after a write of buf at offset.
ramfs_write(f, buf, offset) ==
  LET end == offset + Room(offset, Len(buf))
  IN [f EXCEPT !.data = [o \in Offsets |->
                           IF offset <= o /\ o < end THEN buf[o - offset + 1] ELSE @[o]],
               !.size = IF end > @ THEN end ELSE @]

\* A slot for name, with the bytes a new file starts with.
Fresh(f, name, bytes) ==
  ramfs_write([f EXCEPT !.name = Cut[name], !.size = 0, !.used = TRUE], bytes, 0)

Answer(r) == ret' = r /\ out' = <<>> /\ dirents' = None

-----------------------------------------------------------------------------
(* kmain *)

\* The self test: hello.txt made, written and read back.
kmain_test ==
  /\ phase = "test"
  /\ LET i == ramfs_create(Hello)
     IN files' = IF i >= 0 THEN [files EXCEPT ![i] = Fresh(@, Hello, HelloMsg)] ELSE files
  /\ phase' = CASE module.kind = "none" -> "idle"
                [] module.kind = "bad" -> "exec"
                [] OTHER -> "load"
  /\ Answer(0)
  /\ UNCHANGED <<fd_table, module, entry, procs, code>>

\* An iteration of the loop of initramfs_load.
initramfs_load ==
  LET image == mkramfs(module.dir)
      e == image.entries[entry]
      i == ramfs_create(e.name)
      len == IF e.size > RAMFS_MAX_FILE_SIZE THEN RAMFS_MAX_FILE_SIZE ELSE e.size
  IN /\ phase = "load"
     /\ entry <= Len(image.entries)
     /\ files' = IF i < 0 THEN files
                 ELSE [files EXCEPT ![i] =
                         Fresh(@, e.name, [k \in 1..len |-> image.bytes[e.offset + k - 1]])]
     /\ entry' = entry + 1
     /\ Answer(0)
     /\ UNCHANGED <<fd_table, phase, module, procs, code>>

initramfs_loaded ==
  /\ phase = "load"
  /\ entry > Len(mkramfs(module.dir).entries)
  /\ phase' = "exec"
  /\ Answer(0)
  /\ UNCHANGED <<files, fd_table, module, entry, procs, code>>

\* exec("shell.bin") and the call of USER_LOAD_ADDR after it.  kmain does not
\* look at what exec returns: with nothing there, what runs is undefined.
\* Both of exec's allocations can fail.
exec ==
  /\ phase = "exec"
  /\ \E buffer, process \in BOOLEAN :
       LET i == ramfs_open(Shell)
           bytes == IF i >= 0 THEN ramfs_read(files[i], 0, RAMFS_MAX_FILE_SIZE) ELSE <<>>
           copied == buffer /\ bytes # <<>>
       IN /\ code' = IF copied THEN bytes ELSE code
          /\ procs' = IF copied /\ process THEN procs \cup {"shell"} ELSE procs
          /\ phase' = IF copied THEN "run" ELSE "undefined"
  /\ fd_table' = [fd_table EXCEPT !["shell"] = StdFds]
  /\ Answer(0)
  /\ UNCHANGED <<files, module, entry>>

\* kmain's idle loop, and execution the code does not define.
Stopped == phase \in {"idle", "undefined"} /\ UNCHANGED vars

-----------------------------------------------------------------------------
(* System calls *)

\* The descriptor is open on a file of ramfs.
OnFile(p, fd) ==
  /\ fd < MAX_FDS
  /\ fd_table[p][fd].in_use
  /\ fd_table[p][fd].file_idx >= 0

sys_open(p, path) ==
  LET fd == Lowest({d \in Fds : d >= 3 /\ ~fd_table[p][d].in_use})
      i == ramfs_open(path)
  IN /\ IF fd >= 0 /\ i >= 0
        THEN /\ fd_table' = [fd_table EXCEPT ![p][fd] =
                               [file_idx |-> i, offset |-> 0, in_use |-> TRUE]]
             /\ Answer(fd)
        ELSE Answer(-1) /\ UNCHANGED fd_table
     /\ UNCHANGED files

sys_close(p, fd) ==
  /\ IF fd >= 3 /\ fd < MAX_FDS /\ fd_table[p][fd].in_use
     THEN fd_table' = [fd_table EXCEPT ![p][fd] = ClosedFd] /\ Answer(0)
     ELSE Answer(-1) /\ UNCHANGED fd_table
  /\ UNCHANGED files

\* Reads of descriptor 0 are the matter of module Keyboard.
sys_read(p, fd, len) ==
  /\ fd # 0
  /\ IF OnFile(p, fd)
     THEN LET d == fd_table[p][fd]
              bytes == ramfs_read(files[d.file_idx], d.offset, len)
          IN /\ fd_table' = [fd_table EXCEPT ![p][fd].offset = @ + Len(bytes)]
             /\ ret' = Len(bytes)
             /\ out' = bytes
             /\ dirents' = None
     ELSE Answer(-1) /\ UNCHANGED fd_table
  /\ UNCHANGED files

sys_write(p, fd, buf) ==
  IF fd \in {1, 2}
  THEN Answer(Len(buf)) /\ UNCHANGED <<files, fd_table>>
  ELSE IF OnFile(p, fd)
  THEN LET d == fd_table[p][fd]
           written == Room(d.offset, Len(buf))
       IN /\ files' = [files EXCEPT ![d.file_idx] = ramfs_write(@, buf, d.offset)]
          /\ fd_table' = [fd_table EXCEPT ![p][fd].offset = @ + written]
          /\ Answer(written)
  ELSE Answer(-1) /\ UNCHANGED <<files, fd_table>>

\* The files in the first max used slots.
sys_readdir(max) ==
  LET shown == {i \in Slots : files[i].used /\
                  Cardinality({j \in Slots : files[j].used /\ j < i}) < max}
  IN /\ dirents' = [n \in {files[i].name : i \in shown} |-> files[find_file(n)].size]
     /\ ret' = Cardinality(shown)
     /\ out' = <<>>
     /\ UNCHANGED <<files, fd_table>>

syscall_handler(p) ==
  /\ phase = "run"
  /\ p \in procs
  /\ \/ \E path \in Names : sys_open(p, path)
     \/ \E fd \in 0..MAX_FDS : sys_close(p, fd)
     \/ \E fd \in 0..MAX_FDS, len \in 0..MaxLen : sys_read(p, fd, len)
     \/ \E fd \in 0..MAX_FDS, buf \in Buffers : sys_write(p, fd, buf)
     \/ \E max \in Maxes : sys_readdir(max)
  /\ UNCHANGED <<phase, module, entry, procs, code>>

Next ==
  \/ kmain_test
  \/ initramfs_load
  \/ initramfs_loaded
  \/ exec
  \/ \E p \in Procs : syscall_handler(p)
  \/ Stopped

Spec == Init /\ [][Next]_vars

-----------------------------------------------------------------------------
(* Properties *)

\* Slots, descriptors and results are of the shape the C types give them.
TypeOK ==
  /\ files \in [Slots -> [name : Names \cup {NoName}, data : [Offsets -> Bytes],
                         size : 0..RAMFS_MAX_FILE_SIZE, used : BOOLEAN]]
  /\ fd_table \in [Procs -> [Fds -> [file_idx : Slots \cup {-1},
                                     offset : 0..RAMFS_MAX_FILE_SIZE, in_use : BOOLEAN]]]
  /\ phase \in {"test", "load", "exec", "run", "idle", "undefined"}
  /\ module \in Modules
  /\ entry \in Nat \ {0}
  /\ procs \subseteq Procs
  /\ code \in Seq(Bytes)
  /\ ret \in Int

\* A descriptor that is open on a file is not one of the three of stdio, the
\* file exists, and the offset is inside it: the subtractions of ramfs_read and ramfs_write never
\* wrap, and a write never leaves bytes of an unwritten stretch readable.
OffsetsInside ==
  \A p \in Procs, fd \in Fds :
    OnFile(p, fd) =>
      LET d == fd_table[p][fd]
      IN fd >= 3 /\ files[d.file_idx].used /\ d.offset <= files[d.file_idx].size

\* No two files have one name, whatever names the image holds: ramfs_create
\* looks for the name it is given and stores its first 63 characters.
UniqueNames ==
  \A i, j \in Slots :
    files[i].used /\ files[j].used /\ files[i].name = files[j].name => i = j

\* What is in ramfs under name, as a sequence of bytes.
Content(name) ==
  LET i == CHOOSE j \in Slots : files[j].used /\ files[j].name = name
  IN [k \in 1..files[i].size |-> files[i].data[k - 1]]

Truncated(s) == SubSeq(s, 1, IF Len(s) > RAMFS_MAX_FILE_SIZE THEN RAMFS_MAX_FILE_SIZE ELSE Len(s))

\* initramfs_load undoes mkramfs: when exec is called, every packed file has
\* the bytes it had on the host, up to the size limit.  Left out are the name
\* the self test took, names that agree in their first 63 characters with an
\* earlier one, and files past the last slot.
PackedLoaded ==
  phase = "exec" /\ module.kind = "ok" =>
    LET packed == Packed(module.dir)
        First(k) == \A j \in 1..(k - 1) : Cut[packed[j].name] # Cut[packed[k].name]
        taken == {k \in 1..Len(packed) : First(k) /\ Cut[packed[k].name] # Hello}
    IN \A k \in taken :
         Cardinality({j \in taken : j < k}) < RAMFS_MAX_FILES - 1 =>
           /\ find_file(Cut[packed[k].name]) >= 0
           /\ Content(Cut[packed[k].name]) = Truncated(packed[k].data)

-----------------------------------------------------------------------------
(* The files and descriptors that the slots and tables stand for *)

Owners == Procs \X (3..(MAX_FDS - 1))

Contents == [n \in {files[i].name : i \in {j \in Slots : files[j].used}} |-> Content(n)]

Descriptors ==
  [o \in Owners |->
     LET d == fd_table[o[1]][o[2]]
     IN IF OnFile(o[1], o[2]) THEN [name |-> files[d.file_idx].name, offset |-> d.offset]
        ELSE [name |-> NoName, offset |-> -1]]

Store == INSTANCE FileStore
  WITH Owners <- Owners,
       Names <- Names,
       Strings <- UNION {[1..k -> Bytes] : k \in 0..RAMFS_MAX_FILE_SIZE},
       Closed <- [name |-> NoName, offset |-> -1],
       content <- Contents,
       desc <- Descriptors,
       out <- out,
       listing <- dirents

\* Slots reused, data arrays that keep old bytes, shared indices and stored
\* offsets amount to named byte strings with independent descriptors: no call
\* of one process or descriptor changes what another one has open, and a read
\* delivers exactly what was written.
ImplementsFileStore == Store!Spec
=============================================================================
