# A TLA+ model of AnubhavOS

This directory models AnubhavOS, a 32-bit x86 operating system in C and NASM,
component by component. The modules are checked with TLC on small instances and,
where the argument is about every instance, proved with TLAPS. `PROJECT.json`
lists the components, the runs, the source lines each definition stands for, the
hazards the properties are aimed at, and the theorems.

## The system

| Part | Source | Module |
|---|---|---|
| Kernel heap | `kernel/mm/heap.c` | `Heap` (implements `Allocator`) |
| Run queue, context switch, `exit` | `kernel/proc/`, `kernel/arch/tss.c` | `Scheduler` |
| Creation and end of processes, pids, `ps` | `kernel/proc/process.c`, `kernel/syscall/` | `Processes`, on top of `Scheduler` |
| Keyboard driver, reads of stdin | `kernel/drivers/keyboard.c` | `Keyboard` (implements `BoundedFifo`) |
| Physical page allocator | `kernel/mm/pmm.c` | `PMM` |
| Virtual memory | `kernel/mm/vmm.c` | `VMM`, on top of `PMM` |
| Where the heap is put, `meminfo` | `kernel/kernel.c`, `userspace/shell/shell.c` | `Memory`, on top of `VMM` and `Text` |
| Number conversions | `kernel/kernel.c`, `userspace/lib/string.c` | `Text` |
| RAM file system, VFS, descriptors, loader, `exec` | `kernel/fs/`, `kernel/syscall/`, `kernel/proc/exec.c` | `Files` (implements `FileStore`) |
| The shell's `ls` and `cat` | `userspace/shell/shell.c` | `ShellCommands`, on top of `Files` |
| Image packer | `tools/mkramfs.c` | `Mkramfs`, extended by `Files` |
| Text screen and the shell's line editor | `kernel/drivers/vga.c`, `userspace/shell/shell.c` | `Console` (implements `Paper`) |
| Boot stages, descriptor tables, PICs, dispatcher | `kernel/kernel.c`, `kernel/arch/` | `Interrupts` |
| Format strings, other string helpers, port I/O, build | | not modelled |

GRUB loads the kernel and one module, the image `mkramfs` wrote. `kmain` sets up
GDT, TSS and IDT, remaps the PICs and turns interrupts on, initialises the page
allocator, paging and the heap, starts the timer and the scheduler, fills the
RAM file system (first from a self test, then from the image), registers the
keyboard, calls `exec("shell.bin")`, and jumps to the shell. From then on the
shell makes system calls through `int 0x80` while IRQ0 and IRQ1 arrive.

There is one processor. Handlers and system calls enter through interrupt gates
and run with IF clear, so only code that runs with IF set interleaves: `kmain`,
`scheduler_add`, and `keyboard_getchar` after its `sti`. The models split these
into one action per memory access or loop iteration and keep the others whole.

## The modules

**Heap.** Memory is a function from word addresses to words; the headers are in
it. `kmalloc` is one action per iteration (`kmalloc_skip`, `kmalloc_take`,
`kmalloc_fail`), `kfree` one action. `ALIGN4` wraps at `SizeMod`. Callers store
into their blocks, free them, free NULL, or free again what they have freed since
the last allocation. `chain` is an auxiliary set of the linked headers.

**Scheduler.** `state`, `next`, `current` and `run_queue` are the code's. The
stack pointer is abstracted to whose stack it is on, and a saved context to where
`context_switch` returns to: `kthread_entry`, an `iret` frame, the inside of a
tick, or of `sys_exit`. `scheduler_add` is two actions, because a tick may come
between its stores. `irq0_handler` is what `irq_register` was given for IRQ0: `scheduler_tick`,
as the comments of `scheduler.c` and `timer.c` say, or `timer_irq_tick`, which is
what `kmain` registers. `reap` models `scheduler_remove` and `process_destroy`, which
have no callers yet.

**Processes.** `Scheduler` with the two heap blocks of each process. Either
allocation of `process_create` may fail, and ticks come between them. `sys_ps` is
an operator: it runs with IF clear, so one state is all it sees. Its answer -1 to a
caller without a buffer is left out: `cmd_ps`, the only caller, has one.

**Keyboard.** The reader is one action per access. `kbd_buffer` is not volatile
and `kbd_tail` is, so the compiler may move the load of the character behind the
store that frees its slot; both orders are in the model. An interrupt may come
between the test and `hlt` only when IF is set.

**PMM.** `pmm_init` is one action per entry of the memory map. The bitmap is the
set of frames whose bit is 1, the scan goes by words, and address sums wrap at
`AddrMod`.

**VMM.** `mem` holds every frame as a table of entries, with junk at power-up. The
page walk, CR3 and the TLB are hardware. The kernel's own stores go through the
current translation, so one to a frame above the identity map faults and halts.
Only `vmm_init` is called today; the other functions are modelled as the documents
have them called: callers map frames they hold, into pages of `UserPages`, which may
lie below 8 MB but not over the kernel itself, and free a frame when it is no longer
mapped. The kernel reaches a frame through the page of its number, so a caller that
maps such a page turns the kernel's later stores elsewhere. `intact` is auxiliary: it
is true until a caller maps or unmaps a page of the RAM, and the invariants of
`VMM` are stated as long as it is.

**Memory and Text.** `heap_base` is where `kmain` puts the heap, `cmd_meminfo` what
the shell prints. A numeral is a sequence of digits; `print_uint`, `print_int`,
`utoa` and `itoa` compute it as the code does, from the last digit.

**Mkramfs and Files.** `mkramfs` maps a host directory to an image; `kmain`'s self
test, each iteration of `initramfs_load`, `exec` and each system call are actions.
A name is its number of leading slashes and the rest; `Cut` is truncation to 63
characters. Lengths are those of the buffers passed, so `offset + len` in
`ramfs_write` does not wrap; a length within 32 KB of 4 GB is no buffer's.

**ShellCommands.** `cmd_cat` is one action per system call, with any call of another
program between two of them; `cat` holds its local variables.

**Console.** `vga_putchar` has a disjunct per kind of character. `readline` is one
action per key; the echo goes through `out`, one `vga_putchar` at a time. `log` is
auxiliary: the rows that scrolled off; so are `home` and `far`, where the line
began and the farthest the cursor has been since, and `torn`, which says that a TAB
has been erased from the line. Commands other than `clear` and `exit` print any of
`Outputs`.

**Interrupts.** One action per stage of `kmain`, and the devices may raise a line
between any two. The 8259A pair (request, in-service and mask registers, fully
nested priority, cascade, spurious interrupts), the 8042's output buffer and the
processor's use of the IDT are hardware, modelled from how the code programs them.
The descriptors of the GDT are built field by field.
`EarlyIRQs` and `EarlyKeys` say whether lines may rise before `lidt` and keys
before `keyboard_init`.

## What the runs check

Passing runs (states are distinct states found by TLC):

| Run | States | What holds |
|---|---|---|
| `heap` | 50,461 | Blocks tile the heap, `heap_used` is exact, double frees are rejected, the search ends, payloads are kept, `Allocator` is implemented |
| `scheduler` | 180,712 | One ring, one running process, no shared stack, right `esp0` and CR3, interrupts on, zombies stay dead, no ready process is missed; no block leaks or dangles when allocations fail or processes go; `ps` lists each process once; with `scheduler_tick` on IRQ0 none starves |
| `keyboard` | 107,812 | `BoundedFifo` is implemented, a waiting reader gets its character |
| `memory` | 247,590 | Frames handed out are available RAM outside the kernel and held by nobody else, and the scan by words finds the lowest free one. Until a caller maps or unmaps a page of the RAM, the identity map is kept in every directory, the TLB is never stale, directories share only the kernel's tables, and ring 3 reaches no table or free frame; up to and including that call a page maps as asked, but for the `USER` flag below 8 MB. Without a hole in the RAM `meminfo` is exact, and every number is printed right |
| `files` | 38,431 | The loader undoes the packer, names are unique, offsets stay inside the files, `FileStore` is implemented; every `cat` ends, closes its descriptor and, if nobody writes, shows the file |
| `console` | 1,008,894 | `Paper` is implemented; in the row it began in, the screen shows the line typed, tabs included, until a TAB is erased |
| `interrupts` | 4,060 | Every interrupt reaches its own stub and is acknowledged; every pending line is served; selectors name the right descriptors |

Runs that end in a violation, each a disagreement between the code and a sentence
of the repository (quoted in `PROJECT.json`):

| Run | What the code does |
|---|---|
| `memory_private` | a page mapped below 8 MB for one directory appears in all of them |
| `memory_heap` | the page allocator hands out frames of the kernel heap |
| `console_erase` | in a wrapped line, backspace at column 0 erases nothing on the screen |
| `interrupts_window` | interrupts are on before the IDT is loaded |
| `interrupts_key` | a key pressed before `keyboard_init` silences the keyboard |

What the abstract specifications leave open: `Allocator` may refuse any request and
`FileStore` fail any call, because the code's reasons (fragmentation, slots, the size
limit) are not part of the promise. They also have no inputs: a write stores some
bytes at the descriptor's offset, `Paper` prints some character, and neither is
compared with the caller's buffer. They show that what is stored or printed goes
where it should and that nothing else changes. That the heap refuses only when
nothing fits is `FirstFit`.

Other places where code and text differ, seen while modelling. The models follow
the code; no run ends in a violation because of them:

- `kfree` merges a block with the one after it only; `heap.h:13` says "coalesces
  adjacent free blocks".
- `ALIGN4` wraps to 0 for sizes within three bytes of the largest `size_t`;
  `heap.h:24` says "at least 'size' bytes".
- The search for a ready process gives up after 64 zombies; `syscall.c:126` says
  leaving zombies in the ring is safe. It takes more than 66 processes.
- `exit` counts a tick; `timer.h:28` speaks of ticks since `timer_init`.
- A reserved region reported inside an available one is freed;
  `memory-management.md:116` says that overlaps are safe.
- Of a region that crosses 4 GB nothing is freed: its end wraps to 0. `pmm.c:107`
  says the 32-bit part is.
- `exit` resumes another ready process; `shell.md:262` says that it
  "halts".
- The TSS limit includes the base, so the I/O bitmap offset lies below it;
  `tss.c:38` says it is beyond.
- A page mapped at 0x400000 with `PAGE_USER` is out of ring 3's reach, because the
  shared directory entry lacks the bit; `memory-management.md:332` says that ring 3
  can read and write it. `MapsAsAsked` states what such a call gives.
- Erasing a TAB takes it from the line but moves the cursor back by one column;
  `shell.c:47` says "Erase character on screen". `EchoExact` leaves it out.
- The shell's process has pid 2; `gdt-tss-idt.md:261` calls it PID 1.
- The self test's `hello.txt` hides the packed one that `testing.md:105` expects.
- A write past 32 KB is shortened; `filesystem.md:162` says it returns -1.
- `\b` blanks the cell it moves to; `drivers.md:117` says "no erase".

### Bounds

- Heap: 15 words hold three minimal blocks, so a block can have a free and a used
  neighbour, be split, and be merged from either side; requests of one word and of
  two, and one of 0 bytes.
- Scheduler: the idle process and three others, so a removal, an addition and a
  zombie can all lie between two places of the ring. `SearchBound` 2 is the least
  that suffices for four processes. `PidMod` 4 lets the third pid wrap to 0, and
  `PsMax` 3 is less than a full ring.
- Keyboard: four slots, so the indices wrap; two keys and shift tell four
  characters apart.
- Memory: ten frames of four bytes in two words of five bits; maps with unaligned
  ends, overlaps, holes, RAM to the last frame and beyond, a region that crosses
  4 GB, and no map at all. Tables of four entries, so 8 MB are frames 0 to 7. Two of
  the maps are explored with paging (`PagedMaps`): both leave four frames, all below
  8 MB or one above, for two directories, their tables and data. Two pages above the
  RAM, under different directory entries, and page 7, under the second identity
  table, are mapped with two sets of rights; the CPU may cache the translation of
  one. `GoOn` is false: a behaviour ends with the first call on page 7, after which
  the properties claim nothing. Numbers are words of six bits.
- Files: three slots of two bytes. For loading, every directory of up to three
  entries, with a name that is taken, names that agree when cut, more files than
  slots and data over the limit. For the calls, a directory with a shell: two files,
  a shell and another program with one free descriptor each, buffers of up to two
  bytes. `CatLen` 1 makes `cat` go round its loop.
- Console: four columns, three rows, a prompt of one character and lines of up to
  three (four in `console_erase`), so lines wrap; tab stops every two columns, so a
  TAB is one cell or two wide or wraps. `MaxLog` stops the keys once a row has scrolled
  off; output in progress still scrolls further.
- Interrupts: lines with and without a handler on the master and without on the
  slave, line 7 with its spurious interrupt; `MaxRaise` 4 requests.

### Fairness

- Heap: a call in progress goes on.
- Scheduler: the PIT keeps firing and handlers run to their end.
- Files: a `cat` that has begun goes on. None of its calls blocks, and a process
  that is ready runs (`NoStarvation`). Nothing is assumed of the other program.
- Keyboard: the reader goes on when it can, and the PIT fires; nothing is assumed
  of the keyboard.
- Interrupts: `kmain`, handlers and system calls go on. Strong fairness for the
  acceptance of a line: the processor samples the PIC between any two instructions
  with IF set, and system calls clear IF again and again.

The console has no fairness and no deadlock check: the shell waits for a key, and
stops after `exit`. `memory` has neither: the machine halts on a page fault.

## What is proved

All theorems hold for every value of the constants that satisfies the named
assumptions of the modules.

- `HeapProofs`: types, `Tiled`, `FreedRejected`, `FirstFit` (the search passes over
  no block that fits), `PayloadKept`
  and the refinement of `Allocator`, assuming `RequestsFit` (no
  request wraps). The inductive invariant
  adds to `Tiled` that every freed pointer's header lies at or inside a free block
  of the list with its used word still 0: without it nothing is known of a header
  that was merged away.
- `SchedulerProofs`: types, `RingOK`, `OneRunning`, `StacksApart`, `TrapStack`,
  `Interruptible`, `ZombiesStay`, and `SearchComplete` for at most
  `SearchBound + 2` processes; that `Processes` implements `Scheduler`, and
  `BlocksExact`. The invariant `Handoff` ties the CPU's stack and IF
  to the mode, and each waiting process to a stack and a frame it can resume from.
  `Walk` says that the search has passed only processes that are not ready, as
  many as it has counted. `Blocks` says which heap blocks are live.
- `KeyboardProofs`: types, `UnreadKept` (no unread character is overwritten) and the refinement of `BoundedFifo`. The
  invariant says that a reader past its test has a non-empty ring, and that a
  character loaded is still the one at `kbd_tail`.
- `PMMProofs`: types, `HandedOutSafe`, `FreshFrame`, `ScanComplete`, `OnlyAvailable`
  and `UsedCount` (what `MeminfoTrue` rests on) for every memory map; `UsedCount`
  speaks of the maps without RAM above `total_pages` (`MapFits`), `OnlyAvailable` of
  those whose regions start on pages. `Kept` adds that page 0 and the kernel stay
  marked and that frames just given back are none of them; `Offered` extends
  `OnlyAvailable` to the frames that are free or have been given back.
- `VMMProofs`: `VMM` implements `PMM`, so the above holds with paging; and
  `IdentityKept`, `TLBCoherent`, `SharedOnlyKernel`, `TablesHidden` and `MapsAsAsked`
  for every set of pages that callers map outside the kernel. The invariant `VInv`
  holds while `intact` does: `Owned` says that directories
  and tables are distinct frames the allocator has handed out and below 8 MB, so
  that the kernel's stores go where they should; `Shaped` that every directory
  begins with the two identity tables and that tables hold only callers' frames.
  From the first call on a page of the RAM the identity map is lost for that page;
  in `memory_private` such a call shows in every directory.
- `FilesProofs`: types, `OffsetsInside` and `UniqueNames`, assuming that images are
  well formed (`ImagesWellFormed`, which TLC evaluates on the instances): the names
  in an image are cut already, which is what makes the test in `ramfs_create`
  sufficient. The three are inductive together. The refinement of `FileStore` adds
  that files have names a caller can pass (`Named`) and that no descriptor is open
  before `exec` (`Untouched`): then a call on a slot is the abstract call on its
  name. `ShellUsesCalls` shows that the shell's commands are such calls, so all of
  this holds while shells run; it needs that a `cat` past its `open` holds a
  descriptor (`CatOK`).
- `ConsoleProofs`: types: the cursor never leaves the screen and the line never
  fills its buffer.
- `InterruptsProofs`: types, `NothingBlocked`, `SelectorsMatch`, and `ReachesOwnStub` when no line
  rises before `lidt`. `Ordered` ties what has been set up to the stage `kmain`
  is at; `Handling` says which lines are in service inside a handler.

Only model-checked: every liveness property (`SearchEnds`, `NoStarvation`,
`ReaderWakes`, `LineServed`, `CatEnds`), which needs fairness; `HeapUsedExact`,
`PackedLoaded`, `PsExact`, `MeminfoTrue` and `FiguresPrinted`, which are about sums,
folds, walks and numerals and need induction over data; `EchoExact` and the
refinement of `Paper`, whose log of scrolled rows is a sequence of any length.

## What is not modelled

- The scan of a format string by `kprintf`, the string helpers and the shell's
  comparison of a line with command names: loops over one string with no state
  that outlives them.
- Colours, the CRT controller's cursor, the PIT divisor, port I/O: registers that
  nothing reads back.
- `uptime`, which reads a counter; the fields of an IDT gate and the register frame
  that the stubs push, which the build fixes.
- In `mkramfs`, a short `fread` and an output that cannot be written: it is a tool
  on the host, and the image is then incomplete.
- What runs after `exec` has failed: `kmain` jumps to `USER_LOAD_ADDR` all the same,
  and `Files` stops in the phase `undefined`.
- Keyboard, dispatcher and console are modelled each on its own. Between them they
  pass one interrupt number or one character at a time: what `Keyboard` assumes of
  delivery is `LineServed` and `NothingBlocked` of `Interrupts`, and `Console` takes
  any sequence of `Keys`, as `ImplementsFifo` delivers them: printable characters,
  TAB, backspace and newline. ESC, which the driver delivers too, is a printable
  character to `vga_putchar`.
