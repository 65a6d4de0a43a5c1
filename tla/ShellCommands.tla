--------------------------- MODULE ShellCommands ---------------------------
(***************************************************************************)
(* Files with the commands of userspace/shell/shell.c that use them: ls,   *)
(* and cat, which opens a file, reads it a buffer at a time, writes each   *)
(* one to stdout and closes the file.  Other programs make any calls in    *)
(* between.                                                                *)
(***************************************************************************)
EXTENDS Files

CONSTANTS
  Shells,    \* the processes that run the shell
  CatLen,    \* sizeof(buf) of cmd_cat: 512
  LsMax      \* the entries cmd_ls has room for: 32

ASSUME ShellAssumption ==
  /\ Shells \subseteq Procs
  /\ CatLen \in 0..MaxLen
  /\ LsMax \in Maxes

VARIABLE cat    \* shell -> where its cmd_cat is, and what it has

shell_vars == <<vars, cat>>

\* clean, file and shown are auxiliary: whether no file has changed since the
\* slot was opened, and as long as none has, the slot and what has been written
\* to stdout.
AtPrompt == [pc |-> "line", fd |-> -1, buf |-> <<>>, shown |-> <<>>, file |-> -1, clean |-> FALSE]

ShellInit == Init /\ cat = [p \in Shells |-> AtPrompt]

\* A system call of p, which leaves kmain's variables alone.
Call(p) == phase = "run" /\ p \in procs /\ UNCHANGED <<phase, module, entry, procs, code>>

cmd_ls(p) ==
  /\ cat[p].pc = "line"
  /\ Call(p) /\ sys_readdir(LsMax)
  /\ UNCHANGED cat

\* cmd_cat up to its loop; without a file it prints a message.
cmd_cat(p, filename) ==
  /\ cat[p].pc = "line"
  /\ Call(p) /\ sys_open(p, filename)
  /\ cat' = IF ret' < 0 THEN cat
            ELSE [cat EXCEPT ![p] = [AtPrompt EXCEPT !.pc = "read", !.fd = ret', !.clean = TRUE,
                                                     !.file = ramfs_open(filename)]]

\* The condition of the loop.
cat_read(p) ==
  /\ cat[p].pc = "read"
  /\ Call(p) /\ sys_read(p, cat[p].fd, CatLen)
  /\ cat' = [cat EXCEPT ![p].pc = IF ret' > 0 THEN "write" ELSE "close", ![p].buf = out']

cat_write(p) ==
  /\ cat[p].pc = "write"
  /\ Call(p) /\ sys_write(p, 1, cat[p].buf)
  /\ cat' = [cat EXCEPT ![p].pc = "read", ![p].buf = <<>>,
                     ![p].shown = IF cat[p].clean THEN @ \o cat[p].buf ELSE <<>>]

\* Mutant: the descriptor is not closed.
cat_close_leak(p) ==
  /\ cat[p].pc = "close"
  /\ Call(p) /\ Answer(0) /\ UNCHANGED <<files, fd_table>>
  /\ cat' = [cat EXCEPT ![p] = AtPrompt]

cat_close(p) ==
  /\ cat[p].pc = "close"
  /\ Call(p) /\ sys_close(p, cat[p].fd)
  /\ cat' = [cat EXCEPT ![p] = AtPrompt]

Cat(p) == cat_read(p) \/ cat_write(p) \/ cat_close(p)

\* What kmain does, and calls of other programs.
Others ==
  /\ \/ kmain_test \/ initramfs_load \/ initramfs_loaded \/ exec \/ Stopped
     \/ \E p \in Procs \ Shells : syscall_handler(p)
  /\ cat' = IF files' = files THEN cat
            ELSE [p \in Shells |-> [cat[p] EXCEPT !.clean = FALSE, !.file = -1, !.shown = <<>>]]

ShellNext ==
  \/ Others
  \/ \E p \in Shells : cmd_ls(p) \/ Cat(p)
  \/ \E p \in Shells, filename \in Names : cmd_cat(p, filename)

\* A command that has begun goes on: no call it makes blocks, and the scheduler
\* starves nobody.
ShellSpec ==
  /\ ShellInit /\ [][ShellNext]_shell_vars
  /\ \A p \in Shells : WF_shell_vars(Cat(p))

-----------------------------------------------------------------------------
(* Properties *)

\* cat ends, even of a file that another program keeps writing to.  The
\* shell has no descriptor left open, and if nobody wrote in between, what cat has
\* shown is the file.
CatEnds ==
  \A p \in Shells :
    /\ cat[p].pc = "read" ~>
         /\ cat[p].pc = "close"
         /\ cat[p].clean => cat[p].shown = Content(files[cat[p].file].name)
    /\ cat[p].pc = "close" ~>
         /\ cat[p].pc = "line"
         /\ \A fd \in Fds : fd >= 3 => ~fd_table[p][fd].in_use
=============================================================================
