----------------------------- MODULE Interrupts -----------------------------
(***************************************************************************)
(* Interrupt delivery while the kernel boots and once the shell runs:      *)
(* kmain's stages (kernel/kernel.c), the descriptor tables (arch/gdt.c,    *)
(* arch/tss.c, arch/idt.c, arch/idt.asm), the two interrupt controllers    *)
(* and the dispatcher (arch/irq.c), and the exception handler (arch/isr.c).*)
(* The 8259A pair, the 8042 keyboard controller and the processor's own    *)
(* response to an interrupt are hardware, modelled from how the kernel     *)
(* programs them.                                                          *)
(*                                                                         *)
(* A handler entered through an interrupt gate runs with IF clear, so one  *)
(* action is a whole handler; kmain takes one action per stage, and any    *)
(* line may be raised between two of them.                                 *)
(***************************************************************************)
EXTENDS Integers, FiniteSets, FiniteSetsExt

CONSTANTS
  Lines,       \* the device lines in use; line 2 carries the slave controller
  Exceptions,  \* the processor exceptions the code can meet
  TssBases,    \* addresses the linker may give the task state segment
  EarlyIRQs,   \* may a line be raised between pic_remap and lidt?
  EarlyKeys,   \* may a key be pressed before keyboard_init?
  MaxRaise     \* bound: how often a device asks for service

IRQ_TIMER == 0
IRQ_KEYBOARD == 1
Cascade == 2
GDT_KERNEL_CODE == 8
GDT_KERNEL_DATA == 16
GDT_USER_CODE == 27
GDT_USER_DATA == 35
GDT_TSS_SEG == 40
TSS_SIZE == 104
Byte == 256
Word == 65536
Flat == 1048575   \* twenty bits of limit, in units of 4 KB: 4 GB

ASSUME InterruptsAssumption ==
  /\ {IRQ_TIMER, IRQ_KEYBOARD} \subseteq Lines
  /\ Lines \subseteq (0..15) \ {Cascade}
  /\ Exceptions \subseteq 0..31
  /\ TssBases \subseteq Nat /\ \A b \in TssBases : b \div Word < Word   \* 32 bits
  /\ EarlyIRQs \in BOOLEAN /\ EarlyKeys \in BOOLEAN
  /\ MaxRaise \in Nat

VARIABLES
  pc,         \* the stage kmain is at, then what the shell is doing
  cpu,        \* "kernel", "irq" (in a stub), "halted", or "lost" in foreign code
  IF_,         \* the processor's interrupt flag
  idtr,       \* the table the processor looks vectors up in
  idt,        \* the vectors whose gate is set; the stub of gate v pushes v
  int_no,     \* the vector of the interrupt being handled
  handlers,   \* irq_handlers
  offset,     \* the first vector of the master and of the slave
  imr,        \* masked lines
  irr,        \* requested lines
  isr,        \* lines in service, Cascade among them for the slave's
  obf,        \* a scancode waits in the keyboard controller
  gdt,        \* the six descriptors, as the kernel writes them
  raised      \* how often a device has asked

pic == <<offset, imr>>
tables == <<idtr, idt, handlers, offset, imr, gdt>>
vars == <<pc, cpu, IF_, idtr, idt, int_no, handlers, offset, imr, irr, isr, obf,
          gdt, raised>>

Stages == {"start", "gdt_init", "tss_init", "idt_init", "pic_remap",
           "irq_gates", "sti", "idt_flush", "timer_init", "keyboard_init"}
Stopped == cpu \in {"halted", "lost"}

\* The bits of two numbers below 16, or-ed.
Or4(a, b) ==
  LET Bit(i) == IF (a \div i) % 2 = 1 \/ (b \div i) % 2 = 1 THEN i ELSE 0
  IN Bit(8) + Bit(4) + Bit(2) + Bit(1)

\* Mutant: bits 16 to 23 of the base are masked like those of the limit.
gdt_set_entryMask(base, limit, access, gran) ==
  [limit_low |-> limit % Word,
   base_low |-> base % Word,
   base_mid |-> (base \div Word) % 16,
   access |-> access,
   granularity |-> 16 * (gran \div 16) + Or4((limit \div Word) % 16, gran % 16),
   base_high |-> (base \div (Byte * Word)) % Byte]

\* The base and the limit are scattered over the fields of a descriptor.
gdt_set_entry(base, limit, access, gran) ==
  [limit_low |-> limit % Word,
   base_low |-> base % Word,
   base_mid |-> (base \div Word) % Byte,
   access |-> access,
   granularity |-> 16 * (gran \div 16) + Or4((limit \div Word) % 16, gran % 16),
   base_high |-> (base \div (Byte * Word)) % Byte]

\* As GRUB leaves the machine: interrupts off, some lines masked or pending.
Init ==
  /\ pc = "start" /\ cpu = "kernel" /\ IF_ = FALSE
  /\ idtr = "grub" /\ idt = {} /\ int_no = 0
  /\ handlers = [l \in 0..15 |-> "none"]
  /\ offset = [master |-> 8, slave |-> 112]
  /\ imr \in {{}, Lines} /\ irr = {} /\ isr = {}
  /\ obf = FALSE /\ gdt = [n \in 0..5 |-> gdt_set_entry(0, 0, 0, 0)] /\ raised = 0

(***************************************************************************)
(* The devices.                                                            *)
(***************************************************************************)

\* The stages at which the line is assumed not to be raised.
Quiet(l) ==
  \/ ~EarlyIRQs /\ pc \in {"irq_gates", "sti", "idt_flush"}
  \/ ~EarlyKeys /\ l = IRQ_KEYBOARD /\ pc \in Stages

\* A line is edge triggered; the keyboard's rises when a scancode arrives in
\* an empty controller, and stays up until the scancode is read.
Raise(l) ==
  /\ raised < MaxRaise /\ ~Quiet(l)
  /\ l = IRQ_KEYBOARD => ~obf
  /\ obf' = (obf \/ l = IRQ_KEYBOARD)
  /\ irr' = irr \cup {l}
  /\ raised' = raised + 1
  /\ UNCHANGED <<pc, cpu, IF_, int_no, isr, tables>>

(***************************************************************************)
(* The controllers and the processor.                                      *)
(***************************************************************************)

Input(l) == IF l >= 8 THEN Cascade ELSE l
Vector(l) == IF l >= 8 THEN offset.slave + l - 8 ELSE offset.master + l

\* Fully nested: a line waits for the lines in service at or above it.
Unblocked(l) ==
  /\ \A i \in isr : i < 8 => Input(l) < i
  /\ l >= 8 => \A i \in isr : i >= 8 => l < i
Serviceable(l) == l \in irr \ imr /\ Unblocked(l)
Above(k, l) ==
  \/ Input(k) < Input(l)
  \/ Input(k) = Input(l) /\ k < l

\* Through a loaded gate the processor reaches its stub with IF clear.
Interrupt(v) ==
  IF idtr = "idt" /\ v \in idt
  THEN /\ IF_' = FALSE /\ int_no' = v
       /\ cpu' = IF v < 32 THEN "halted" ELSE "irq"
  ELSE cpu' = "lost" /\ UNCHANGED <<IF_, int_no>>

Accept(l) ==
  /\ cpu = "kernel" /\ IF_
  /\ Serviceable(l)
  /\ \A k \in Lines : Serviceable(k) => ~Above(k, l)
  /\ irr' = irr \ {l}
  /\ isr' = isr \cup {l, Input(l)}
  /\ Interrupt(Vector(l))
  /\ UNCHANGED <<pc, obf, raised, tables>>

\* A request withdrawn too late is answered with the lowest line of its
\* controller, which is not put in service.
Spurious(l) ==
  /\ cpu = "kernel" /\ IF_
  /\ l \in {7, 15} /\ Unblocked(l)
  /\ raised < MaxRaise /\ ~Quiet(l)
  /\ raised' = raised + 1
  /\ isr' = isr \cup ({Input(l)} \ {l})
  /\ Interrupt(Vector(l))
  /\ UNCHANGED <<pc, irr, obf, tables>>

\* An exception is handled by isr_handler, which reports it and halts.
isr_handler(v) ==
  /\ cpu = "kernel"
  /\ Interrupt(v)
  /\ UNCHANGED <<pc, irr, isr, obf, raised, tables>>

(***************************************************************************)
(* The dispatcher.                                                         *)
(***************************************************************************)

\* The command ends the most urgent line in service on the controller.
EOI(s) == IF s = {} THEN s ELSE s \ {Min(s)}

\* Mutant: the first line of the slave is taken for the master's.
pic_send_eoiLate(irq) ==
  LET master == {i \in isr : i < 8}
      slave == isr \ master
  IN isr' = EOI(master) \cup (IF irq > 8 THEN EOI(slave) ELSE slave)

pic_send_eoi(irq) ==
  LET master == {i \in isr : i < 8}
      slave == isr \ master
  IN isr' = EOI(master) \cup (IF irq >= 8 THEN EOI(slave) ELSE slave)

\* The handler runs: the timer counts a tick, the keyboard reads its scancode.
Dispatch(irq) ==
  obf' = (obf /\ ~(irq < 16 /\ handlers[irq] = "keyboard_irq_handler"))

\* Mutant: a line without a handler is left unacknowledged.
irq_handlerUnregistered ==
  LET irq == (int_no - 32) % 256
  IN /\ cpu = "irq"
     /\ IF irq < 16 /\ handlers[irq] # "none" THEN pic_send_eoi(irq)
        ELSE UNCHANGED isr
     /\ Dispatch(irq)
     /\ cpu' = "kernel" /\ IF_' = TRUE
     /\ UNCHANGED <<pc, int_no, irr, raised, tables>>

irq_handler ==
  LET irq == (int_no - 32) % 256
  IN /\ cpu = "irq"
     /\ pic_send_eoi(irq)
     /\ Dispatch(irq)
     /\ cpu' = "kernel" /\ IF_' = TRUE
     /\ UNCHANGED <<pc, int_no, irr, raised, tables>>

(***************************************************************************)
(* kmain, stage by stage.                                                  *)
(***************************************************************************)

Stage(from, to) == cpu = "kernel" /\ pc = from /\ pc' = to /\ cpu' = cpu

\* A wrong Multiboot magic number ends the boot.
kmain ==
  /\ cpu = "kernel" /\ pc = "start"
  /\ \/ pc' = "gdt_init" /\ cpu' = cpu
     \/ pc' = pc /\ cpu' = "halted"
  /\ UNCHANGED <<IF_, int_no, irr, isr, obf, raised, tables>>

\* Present, of ring 0 or 3, code or data: 9A, 92, FA, F2; flags CF.
gdt_init ==
  /\ Stage("gdt_init", "tss_init")
  /\ gdt' = [n \in 0..5 |-> CASE n = 1 -> gdt_set_entry(0, Flat, 154, 207)
                             [] n = 2 -> gdt_set_entry(0, Flat, 146, 207)
                             [] n = 3 -> gdt_set_entry(0, Flat, 250, 207)
                             [] n = 4 -> gdt_set_entry(0, Flat, 242, 207)
                             [] OTHER -> gdt_set_entry(0, 0, 0, 0)]
  /\ UNCHANGED <<IF_, idtr, idt, int_no, handlers, pic, irr, isr, obf, raised>>

\* The limit passed on is the address of the last byte; access 89, no flags.
tss_init ==
  /\ Stage("tss_init", "idt_init")
  /\ \E base \in TssBases :
       gdt' = [gdt EXCEPT ![5] = gdt_set_entry(base, base + TSS_SIZE - 1, 137, 0)]
  /\ UNCHANGED <<IF_, idtr, idt, int_no, handlers, pic, irr, isr, obf, raised>>

\* The table is cleared, then the exception and system call gates are set;
\* irq_init clears the handlers.
idt_init ==
  /\ Stage("idt_init", "pic_remap")
  /\ idt' = (0..31) \cup {128}
  /\ handlers' = [l \in 0..15 |-> "none"]
  /\ UNCHANGED <<IF_, idtr, int_no, pic, irr, isr, obf, gdt, raised>>

\* Mutant: the slave is given the base after its lines, not before them.
pic_remapSlave ==
  /\ Stage("pic_remap", "irq_gates")
  /\ offset' = [master |-> 32, slave |-> 48]
  /\ imr' = {} /\ irr' = {} /\ isr' = {}
  /\ UNCHANGED <<IF_, idtr, idt, int_no, handlers, obf, gdt, raised>>

\* The command words reset the controllers; then every line is unmasked.
pic_remap ==
  /\ Stage("pic_remap", "irq_gates")
  /\ offset' = [master |-> 32, slave |-> 40]
  /\ imr' = {} /\ irr' = {} /\ isr' = {}
  /\ UNCHANGED <<IF_, idtr, idt, int_no, handlers, obf, gdt, raised>>

irq_gates ==
  /\ Stage("irq_gates", "sti")
  /\ idt' = idt \cup 32..47
  /\ UNCHANGED <<IF_, idtr, int_no, handlers, pic, irr, isr, obf, gdt, raised>>

\* The last statement of irq_init; the table is loaded after it returns.
sti ==
  /\ Stage("sti", "idt_flush")
  /\ IF_' = TRUE
  /\ UNCHANGED <<int_no, irr, isr, obf, raised, tables>>

idt_flush ==
  /\ Stage("idt_flush", "timer_init")
  /\ idtr' = "idt"
  /\ UNCHANGED <<IF_, idt, int_no, handlers, pic, irr, isr, obf, gdt, raised>>

irq_register(irq, handler) ==
  handlers' = IF irq < 16 THEN [handlers EXCEPT ![irq] = handler] ELSE handlers

timer_init ==
  /\ Stage("timer_init", "keyboard_init")
  /\ irq_register(IRQ_TIMER, "timer_irq_tick")
  /\ UNCHANGED <<IF_, idtr, idt, int_no, pic, irr, isr, obf, gdt, raised>>

keyboard_init ==
  /\ Stage("keyboard_init", "shell")
  /\ irq_register(IRQ_KEYBOARD, "keyboard_irq_handler")
  /\ UNCHANGED <<IF_, idtr, idt, int_no, pic, irr, isr, obf, gdt, raised>>

(***************************************************************************)
(* The shell's system calls, through an interrupt gate: interrupts are off *)
(* until the handler waits for a key or returns.                           *)
(***************************************************************************)

int80 ==
  /\ Stage("shell", "syscall")
  /\ idtr = "idt" /\ 128 \in idt
  /\ IF_' = FALSE /\ int_no' = 128
  /\ UNCHANGED <<irr, isr, obf, raised, tables>>

keyboard_getchar ==
  /\ Stage("syscall", "syscall")
  /\ IF_' = TRUE
  /\ UNCHANGED <<int_no, irr, isr, obf, raised, tables>>

iret ==
  /\ Stage("syscall", "shell")
  /\ IF_' = TRUE
  /\ UNCHANGED <<int_no, irr, isr, obf, raised, tables>>

\* The shell's exit: scheduler_tick finds no process but this one and returns, and
\* khalt follows.
sys_exit ==
  /\ cpu = "kernel" /\ pc = "syscall" /\ ~IF_
  /\ cpu' = "halted"
  /\ UNCHANGED <<pc, IF_, int_no, irr, isr, obf, raised, tables>>

\* A halted processor stays halted, with interrupts off.
khalt == Stopped /\ UNCHANGED vars

Boot == \/ kmain \/ gdt_init \/ tss_init \/ idt_init \/ pic_remap \/ irq_gates
        \/ sti \/ idt_flush \/ timer_init \/ keyboard_init

Next ==
  \/ \E l \in Lines : Raise(l)
  \/ \E l \in Lines : Accept(l)
  \/ \E l \in {7, 15} : Spurious(l)
  \/ \E v \in Exceptions : isr_handler(v)
  \/ irq_handler
  \/ Boot
  \/ int80 \/ keyboard_getchar \/ iret \/ sys_exit
  \/ khalt

\* The processor keeps executing, and looks for a pending interrupt between
\* any two instructions with IF set: a request that is again and again
\* serviceable is accepted in the end.
Fairness ==
  /\ WF_vars(Boot) /\ WF_vars(irq_handler) /\ WF_vars(iret)
  /\ \A l \in Lines : SF_vars(Accept(l))

Spec == Init /\ [][Next]_vars /\ Fairness

(***************************************************************************)
(* Properties.                                                             *)
(***************************************************************************)

\* Every variable keeps its type.
TypeOK ==
  /\ pc \in Stages \cup {"shell", "syscall"}
  /\ cpu \in {"kernel", "irq", "halted", "lost"}
  /\ IF_ \in BOOLEAN /\ obf \in BOOLEAN
  /\ idtr \in {"grub", "idt"} /\ idt \subseteq 0..255 /\ int_no \in 0..255
  /\ handlers \in [0..15 -> {"none", "timer_irq_tick", "keyboard_irq_handler"}]
  /\ offset \in [master : {8, 32}, slave : {112, 40}]
  /\ imr \subseteq Lines /\ irr \subseteq Lines /\ isr \subseteq 0..15
  /\ DOMAIN gdt = 0..5 /\ raised \in 0..MaxRaise

\* irq_handler's acknowledgement (pic_send_eoi) ends exactly the lines the
\* controllers put in service, spurious ones included: whenever interrupts
\* are on, no line is left in service, so none is held back.
NothingBlocked == cpu = "kernel" => isr = {}

\* A hardware interrupt always enters the stub of its own line, never foreign
\* code, an exception handler or another line's stub: the remapped offsets,
\* the gates of irq_init and the loaded table agree when it arrives.
ReachesOwnStub ==
  [][\A l \in 0..15 :
       (l \in Lines /\ Accept(l)) \/ (l \in {7, 15} /\ Spurious(l)) =>
         cpu' = "irq" /\ int_no' = 32 + l]_vars

\* A line raised once the handlers are in place is accepted: no mask, no
\* unacknowledged line and no system call holds it back for ever.
LineServed ==
  \A l \in Lines : l \in irr /\ pc \notin Stages ~> l \notin irr \/ Stopped

\* A scancode that arrives is read by keyboard_irq_handler, so the keyboard
\* can signal the next one.
KeysRead == obf ~> ~obf \/ Stopped

\* What the processor reads back from a descriptor.
Base(d) == d.base_low + Word * d.base_mid + (Byte * Word) * d.base_high
Limit(d) == d.limit_low + Word * (d.granularity % 16)
Present(d, ring, type) == d.access = 128 + 32 * ring + type
Segment(selector, type) ==
  LET d == gdt[selector \div 8]
  IN /\ Present(d, selector % 4, type)
     /\ Base(d) = 0 /\ Limit(d) = Flat /\ d.granularity \div 16 = 12

\* Each selector the kernel loads names the descriptor it is used as
\* (gdt_flush, the gates of idt_init and irq_init, the frames of
\* process_create_user): code or data of the ring in its low bits, flat over
\* 4 GB; and once tss_init has run, the one ltr loads is a task state segment
\* whose base comes out whole.
SelectorsMatch ==
  /\ pc \notin {"start", "gdt_init"} =>
       /\ Segment(GDT_KERNEL_CODE, 26) /\ Segment(GDT_USER_CODE, 26)
       /\ Segment(GDT_KERNEL_DATA, 18) /\ Segment(GDT_USER_DATA, 18)
  /\ pc \notin {"start", "gdt_init", "tss_init"} =>
       LET d == gdt[GDT_TSS_SEG \div 8]
       IN Present(d, 0, 9) /\ d.granularity < 16 /\ Base(d) \in TssBases
=============================================================================
