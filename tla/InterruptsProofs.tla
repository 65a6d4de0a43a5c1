-------------------------- MODULE InterruptsProofs --------------------------
(***************************************************************************)
(* Proofs that interrupts are acknowledged exactly and reach the stub of   *)
(* their line, for every set of lines and every bound.                     *)
(***************************************************************************)
EXTENDS Interrupts, TLAPS

Remapped == {"irq_gates", "sti", "idt_flush"}
Loaded == {"timer_init", "keyboard_init", "shell", "syscall"}

\* What the boot order guarantees: interrupts stay off until sti, the vectors
\* move before it, the gates are set before it and loaded after it.
Ordered ==
  /\ IF_ => pc \in Loaded \cup {"idt_flush"}
  /\ idtr = "idt" <=> pc \in Loaded
  /\ pc \in Remapped \cup Loaded => offset.master = 32 /\ offset.slave = 40
  /\ pc \in Loaded \cup {"sti", "idt_flush"} => 32..47 \subseteq idt
  /\ ~EarlyIRQs /\ pc \in Remapped => irr = {}

\* The lines the controllers put in service for the interrupt at hand.
InService(l) ==
  \/ isr = {l, Input(l)}
  \/ l \in {7, 15} /\ isr = {Input(l)} \ {l}

Handling ==
  cpu = "irq" => /\ pc \in Loaded
                 /\ \E l \in 0..15 : int_no = 32 + l /\ InService(l)

IInv == TypeOK /\ NothingBlocked /\ Ordered /\ Handling

LEMMA EOISingle == ASSUME NEW x \in Int PROVE EOI({x}) = {}
<1>1. Min({x}) = x
  BY DEF Min
<1> QED BY <1>1 DEF EOI

LEMMA EOIEmpty == EOI({}) = {}
BY DEF EOI

\* The three fields of the base put together are the base.
LEMMA BaseWhole ==
  ASSUME NEW b \in Nat, b \div Word < Word, NEW limit, NEW access, NEW gran
  PROVE  Base(gdt_set_entry(b, limit, access, gran)) = b
<1> DEFINE q == b \div 65536
           h == b \div 16777216
<1>1. b = 65536 * q + (b % 65536) /\ q \in Nat /\ q < 65536
  BY DEF Word
<1>2. h \in Nat /\ h < 256 /\ h = q \div 256
  BY <1>1
<1>3. h % 256 = h /\ q = 256 * h + (q % 256)
  BY <1>1, <1>2
<1>4. Base(gdt_set_entry(b, limit, access, gran))
        = (b % 65536) + 65536 * (q % 256) + 16777216 * (h % 256)
  BY DEF Base, gdt_set_entry, Word, Byte
<1> HIDE DEF q, h
<1>5. q % 256 \in Int /\ b % 65536 \in Int
  BY <1>1
<1> QED BY <1>1, <1>2, <1>3, <1>4, <1>5

LEMMA FlatEntry ==
  ASSUME NEW access
  PROVE  gdt_set_entry(0, Flat, access, 207) =
           [limit_low |-> 65535, base_low |-> 0, base_mid |-> 0, access |-> access,
            granularity |-> 207, base_high |-> 0]
<1>1. Or4(15, 15) = 15
  BY DEF Or4
<1> QED BY <1>1 DEF gdt_set_entry, Flat, Word, Byte

LEMMA TssEntry ==
  ASSUME NEW b \in Nat
  PROVE  LET d == gdt_set_entry(b, b + TSS_SIZE - 1, 137, 0)
         IN d.access = 137 /\ d.granularity < 16
<1> DEFINE m == ((b + TSS_SIZE - 1) \div Word) % 16
<1>1. Or4(m, 0) < 16 /\ Or4(m, 0) \in Int
  BY DEF Or4
<1>2. 16 * (0 \div 16) = 0 /\ 0 % 16 = 0
  OBVIOUS
<1> QED BY <1>1, <1>2 DEF gdt_set_entry

\* The two acknowledgements of pic_send_eoi undo what was put in service.
LEMMA Acknowledged ==
  ASSUME NEW l \in 0..15, InService(l), pic_send_eoi(l)
  PROVE  isr' = {}
<1> DEFINE m == {i \in isr : i < 8}
           s == isr \ m
<1>1. isr' = EOI(m) \cup (IF l >= 8 THEN EOI(s) ELSE s)
  BY DEF pic_send_eoi
<1>2. CASE isr = {l, Input(l)} /\ l < 8
  <2>1. m = {l} /\ s = {}
    BY <1>2 DEF Input
  <2> QED BY <1>1, <1>2, <2>1, EOISingle
<1>3. CASE isr = {l, Input(l)} /\ l >= 8
  <2>1. m = {2} /\ s = {l}
    BY <1>3 DEF Input, Cascade
  <2> QED BY <1>1, <1>3, <2>1, EOISingle
<1>4. CASE l = 7 /\ isr = {Input(l)} \ {l}
  <2>1. m = {} /\ s = {}
    BY <1>4 DEF Input
  <2> QED BY <1>1, <1>4, <2>1, EOIEmpty
<1>5. CASE l = 15 /\ isr = {Input(l)} \ {l}
  <2>1. m = {2} /\ s = {}
    BY <1>5 DEF Input, Cascade
  <2> QED BY <1>1, <1>5, <2>1, EOISingle, EOIEmpty
<1> QED BY <1>2, <1>3, <1>4, <1>5 DEF InService

\* Once the table is loaded, the vector of a line is that of its own stub.
LEMMA OwnVector ==
  ASSUME IInv, idtr = "idt", NEW l \in 0..15
  PROVE  Vector(l) = 32 + l /\ Vector(l) \in idt
<1>1. offset.master = 32 /\ offset.slave = 40 /\ 32..47 \subseteq idt
  BY DEF IInv, Ordered
<1>2. Vector(l) = 32 + l
  BY <1>1 DEF Vector
<1> QED BY <1>1, <1>2

LEMMA EntersStub ==
  ASSUME IInv, idtr = "idt", NEW l \in 0..15, Interrupt(Vector(l))
  PROVE  cpu' = "irq" /\ int_no' = 32 + l /\ int_no' \in 0..255 /\ IF_' = FALSE
<1>1. Vector(l) = 32 + l /\ Vector(l) \in idt
  BY OwnVector
<1>2. 32 + l \in 0..255 /\ ~(32 + l < 32)
  OBVIOUS
<1> QED BY <1>1, <1>2 DEF Interrupt

LEMMA InitInv == Init => IInv
<1> SUFFICES ASSUME Init PROVE IInv
  OBVIOUS
<1>1. TypeOK
  <2>1. DOMAIN gdt = 0..5
    BY DEF Init
  <2>2. offset \in [master : {8, 32}, slave : {112, 40}]
    BY DEF Init
  <2>3. handlers \in [0..15 -> {"none", "timer_irq_tick", "keyboard_irq_handler"}]
    BY DEF Init
  <2>4. int_no \in 0..255 /\ raised \in 0..MaxRaise
    BY InterruptsAssumption DEF Init
  <2>5. /\ pc \in Stages \cup {"shell", "syscall"} /\ cpu \in {"kernel", "irq", "halted", "lost"}
        /\ idtr \in {"grub", "idt"} /\ idt \subseteq 0..255
        /\ imr \subseteq Lines /\ irr \subseteq Lines /\ isr \subseteq 0..15
    BY DEF Init, Stages
  <2>6. IF_ \in BOOLEAN /\ obf \in BOOLEAN
    BY Zenon DEF Init
  <2> QED BY <2>1, <2>2, <2>3, <2>4, <2>5, <2>6 DEF TypeOK
<1>2. NothingBlocked /\ Ordered /\ Handling
  BY DEF Init, NothingBlocked, Ordered, Handling, Loaded, Remapped
<1> QED BY <1>1, <1>2 DEF IInv

\* An interrupt that finds the table loaded enters its stub; the one that
\* does not leaves the kernel.
LEMMA AcceptInv ==
  ASSUME IInv, NEW l \in Lines, Accept(l)
  PROVE  IInv'
<1>0. l \in 0..15 /\ cpu = "kernel" /\ isr = {} /\ Input(l) \in 0..15
  BY InterruptsAssumption DEF Accept, IInv, NothingBlocked, Input, Cascade
<1>1. CASE idtr = "idt"
  <2>1. cpu' = "irq" /\ int_no' = 32 + l /\ int_no' \in 0..255 /\ IF_' = FALSE
    BY <1>0, <1>1, EntersStub, Zenon DEF Accept
  <2>2. isr' = {l, Input(l)} /\ isr' \subseteq 0..15
    BY <1>0 DEF Accept
  <2>3. TypeOK'
    BY <1>0, <2>1, <2>2, Zenon DEF IInv, TypeOK, Accept, tables
  <2>4. Ordered'
    BY <2>1 DEF IInv, Ordered, Accept, tables
  <2>5. pc' \in Loaded
    BY <1>1 DEF IInv, Ordered, Accept
  <2>6. InService(l)'
    BY <2>2 DEF InService, Input
  <2>7. Handling' /\ NothingBlocked'
    BY <1>0, <2>1, <2>5, <2>6 DEF Handling, NothingBlocked
  <2> QED BY <2>3, <2>4, <2>7 DEF IInv
<1>2. CASE idtr # "idt"
  <2>1. cpu' = "lost" /\ UNCHANGED <<IF_, int_no>>
    BY <1>2 DEF Accept, Interrupt
  <2>2. isr' \subseteq 0..15
    BY <1>0 DEF Accept
  <2>3. TypeOK'
    BY <2>1, <2>2 DEF IInv, TypeOK, Accept, tables
  <2>4. Ordered'
    BY <2>1 DEF IInv, Ordered, Accept, tables
  <2> QED BY <2>1, <2>3, <2>4 DEF IInv, Handling, NothingBlocked
<1> QED BY <1>1, <1>2

LEMMA SpuriousInv ==
  ASSUME IInv, NEW l \in {7, 15}, Spurious(l)
  PROVE  IInv'
<1>0. l \in 0..15 /\ cpu = "kernel" /\ isr = {} /\ Input(l) \in 0..15
  BY DEF Spurious, IInv, NothingBlocked, Input, Cascade
<1>9. raised' \in 0..MaxRaise
  BY InterruptsAssumption DEF Spurious, IInv, TypeOK
<1>1. CASE idtr = "idt"
  <2>1. cpu' = "irq" /\ int_no' = 32 + l /\ int_no' \in 0..255 /\ IF_' = FALSE
    BY <1>0, <1>1, EntersStub, Zenon DEF Spurious
  <2>2. isr' = {Input(l)} \ {l} /\ isr' \subseteq 0..15
    BY <1>0 DEF Spurious
  <2>3. TypeOK'
    BY <1>0, <1>9, <2>1, <2>2, Zenon DEF IInv, TypeOK, Spurious, tables
  <2>4. Ordered'
    BY <2>1 DEF IInv, Ordered, Spurious, tables
  <2>5. pc' \in Loaded
    BY <1>1 DEF IInv, Ordered, Spurious
  <2>6. InService(l)'
    BY <2>2 DEF InService, Input
  <2>7. Handling' /\ NothingBlocked'
    BY <1>0, <2>1, <2>5, <2>6 DEF Handling, NothingBlocked
  <2> QED BY <2>3, <2>4, <2>7 DEF IInv
<1>2. CASE idtr # "idt"
  <2>1. cpu' = "lost" /\ UNCHANGED <<IF_, int_no>>
    BY <1>2 DEF Spurious, Interrupt
  <2>2. isr' \subseteq 0..15
    BY <1>0 DEF Spurious
  <2>3. TypeOK'
    BY <1>9, <2>1, <2>2 DEF IInv, TypeOK, Spurious, tables
  <2>4. Ordered'
    BY <2>1 DEF IInv, Ordered, Spurious, tables
  <2> QED BY <2>1, <2>3, <2>4 DEF IInv, Handling, NothingBlocked
<1> QED BY <1>1, <1>2

LEMMA HandlerInv == ASSUME IInv, irq_handler PROVE IInv'
<1>1. PICK l \in 0..15 : int_no = 32 + l /\ InService(l)
  BY DEF IInv, Handling, irq_handler
<1>2. (int_no - 32) % 256 = l
  BY <1>1
<1>3. pic_send_eoi(l) /\ Dispatch(l)
  BY <1>2 DEF irq_handler
<1>4. isr' = {}
  BY <1>1, <1>3, Acknowledged
<1>5. obf' \in BOOLEAN
  BY <1>3 DEF Dispatch
<1>6. cpu' = "kernel" /\ IF_' = TRUE /\ pc \in Loaded
  BY DEF irq_handler, IInv, Handling
<1>7. TypeOK'
  BY <1>4, <1>5, <1>6 DEF IInv, TypeOK, irq_handler, tables
<1>8. Ordered'
  BY <1>6 DEF IInv, Ordered, irq_handler, tables
<1> QED BY <1>4, <1>6, <1>7, <1>8 DEF IInv, Handling, NothingBlocked

LEMMA RaiseInv == ASSUME IInv, NEW l \in Lines, Raise(l) PROVE IInv'
<1>1. raised' \in 0..MaxRaise
  BY InterruptsAssumption DEF Raise, IInv, TypeOK
<1>2. irr' \subseteq Lines /\ obf' \in BOOLEAN
  BY DEF Raise, IInv, TypeOK
<1>3. TypeOK'
  BY <1>1, <1>2 DEF IInv, TypeOK, Raise, tables
<1>4. ~(~EarlyIRQs /\ pc \in Remapped)
  BY DEF Raise, Quiet, Remapped
<1>5. Ordered'
  BY <1>4 DEF IInv, Ordered, Raise, tables
<1>6. NothingBlocked'
  BY DEF IInv, NothingBlocked, Raise
<1>7. Handling'
  BY DEF IInv, Handling, InService, Input, Raise
<1> QED BY <1>3, <1>5, <1>6, <1>7 DEF IInv

LEMMA ExceptionInv == ASSUME IInv, NEW v \in Exceptions, isr_handler(v) PROVE IInv'
<1>1. v \in 0..31
  BY InterruptsAssumption
<1>2. \/ cpu' = "halted" /\ IF_' = FALSE /\ int_no' = v
      \/ cpu' = "lost" /\ UNCHANGED <<IF_, int_no>>
  BY <1>1 DEF isr_handler, Interrupt
<1>3. TypeOK'
  <2>1. int_no' \in 0..255
    BY <1>1, <1>2 DEF IInv, TypeOK
  <2>2. IF_' \in BOOLEAN
    BY <1>2, Zenon DEF IInv, TypeOK
  <2>3. cpu' \in {"kernel", "irq", "halted", "lost"}
    BY <1>2
  <2> QED BY <2>1, <2>2, <2>3 DEF IInv, TypeOK, isr_handler, tables
<1>4. Ordered'
  BY <1>2 DEF IInv, Ordered, isr_handler, tables
<1> QED BY <1>2, <1>3, <1>4 DEF IInv, Handling, NothingBlocked

\* kmain's stages, one by one.
LEMMA BootInv == ASSUME IInv, Boot PROVE IInv'
<1> USE DEF IInv, Stages, Loaded, Remapped, tables, pic
<1>1. CASE kmain
  <2>1. TypeOK'
    BY <1>1 DEF TypeOK, kmain
  <2> QED BY <1>1, <2>1 DEF kmain, NothingBlocked, Ordered, Handling
<1>2. CASE gdt_init
  <2>1. TypeOK'
    BY <1>2 DEF TypeOK, gdt_init, Stage
  <2> QED BY <1>2, <2>1 DEF gdt_init, Stage, NothingBlocked, Ordered, Handling
<1>3. CASE tss_init
  <2>1. DOMAIN gdt' = 0..5
    BY <1>3 DEF TypeOK, tss_init
  <2>2. TypeOK'
    BY <1>3, <2>1 DEF TypeOK, tss_init, Stage
  <2> QED BY <1>3, <2>2 DEF tss_init, Stage, NothingBlocked, Ordered, Handling
<1>4. CASE idt_init
  <2>1. TypeOK'
    BY <1>4 DEF TypeOK, idt_init, Stage
  <2> QED BY <1>4, <2>1 DEF idt_init, Stage, NothingBlocked, Ordered, Handling
<1>5. CASE pic_remap
  <2>1. TypeOK'
    BY <1>5 DEF TypeOK, pic_remap, Stage
  <2> QED BY <1>5, <2>1 DEF pic_remap, Stage, NothingBlocked, Ordered, Handling
<1>6. CASE irq_gates
  <2>1. TypeOK'
    BY <1>6 DEF TypeOK, irq_gates, Stage
  <2> QED BY <1>6, <2>1 DEF irq_gates, Stage, NothingBlocked, Ordered, Handling
<1>7. CASE sti
  <2>1. TypeOK'
    BY <1>7 DEF TypeOK, sti, Stage
  <2> QED BY <1>7, <2>1 DEF sti, Stage, NothingBlocked, Ordered, Handling
<1>8. CASE idt_flush
  <2>1. TypeOK'
    BY <1>8 DEF TypeOK, idt_flush, Stage
  <2> QED BY <1>8, <2>1 DEF idt_flush, Stage, NothingBlocked, Ordered, Handling
<1>9. CASE timer_init
  <2>1. handlers' \in [0..15 -> {"none", "timer_irq_tick", "keyboard_irq_handler"}]
    BY <1>9 DEF TypeOK, timer_init, irq_register, IRQ_TIMER
  <2>2. TypeOK'
    BY <1>9, <2>1 DEF TypeOK, timer_init, Stage
  <2> QED BY <1>9, <2>2 DEF timer_init, Stage, NothingBlocked, Ordered, Handling
<1>10. CASE keyboard_init
  <2>1. handlers' \in [0..15 -> {"none", "timer_irq_tick", "keyboard_irq_handler"}]
    BY <1>10 DEF TypeOK, keyboard_init, irq_register, IRQ_KEYBOARD
  <2>2. TypeOK'
    BY <1>10, <2>1 DEF TypeOK, keyboard_init, Stage
  <2> QED BY <1>10, <2>2 DEF keyboard_init, Stage, NothingBlocked, Ordered, Handling
<1> QED BY <1>1, <1>2, <1>3, <1>4, <1>5, <1>6, <1>7, <1>8, <1>9, <1>10 DEF Boot

LEMMA SyscallInv == ASSUME IInv, int80 \/ keyboard_getchar \/ iret PROVE IInv'
<1> USE DEF IInv, Loaded, Remapped, tables
<1>1. /\ UNCHANGED <<cpu, irr, isr, obf, raised, tables>>
      /\ cpu = "kernel" /\ pc \in {"shell", "syscall"} /\ pc' \in {"shell", "syscall"}
      /\ IF_' \in BOOLEAN /\ int_no' \in 0..255
  <2>1. CASE int80
    <3>1. 128 \in 0..255
      OBVIOUS
    <3>2. IF_' \in BOOLEAN
      BY <2>1, Zenon DEF int80
    <3> QED BY <2>1, <3>1, <3>2 DEF int80, Stage
  <2>2. CASE keyboard_getchar
    BY <2>2 DEF keyboard_getchar, Stage, TypeOK
  <2>3. CASE iret
    BY <2>3 DEF iret, Stage, TypeOK
  <2> QED BY <2>1, <2>2, <2>3
<1>2. TypeOK'
  BY <1>1 DEF TypeOK
<1> QED BY <1>1, <1>2 DEF NothingBlocked, Ordered, Handling

LEMMA ExitInv == ASSUME IInv, sys_exit PROVE IInv'
<1> USE DEF IInv, Loaded, Remapped, tables
<1>1. /\ UNCHANGED <<pc, IF_, int_no, irr, isr, obf, raised, tables>>
      /\ cpu = "kernel" /\ cpu' = "halted"
  BY DEF sys_exit
<1>2. TypeOK'
  BY <1>1 DEF TypeOK
<1> QED BY <1>1, <1>2 DEF NothingBlocked, Ordered, Handling

LEMMA NextInv == IInv /\ [Next]_vars => IInv'
<1> SUFFICES ASSUME IInv, [Next]_vars PROVE IInv'
  OBVIOUS
<1>1. CASE UNCHANGED vars
  BY <1>1 DEF vars, IInv, TypeOK, NothingBlocked, Ordered, Handling, InService
<1>2. CASE Next
  BY <1>1, <1>2, RaiseInv, AcceptInv, SpuriousInv, ExceptionInv, HandlerInv, BootInv,
     SyscallInv, ExitInv DEF Next, khalt
<1> QED BY <1>1, <1>2

LEMMA FlatSegments ==
  ASSUME gdt_init
  PROVE  /\ Segment(GDT_KERNEL_CODE, 26)' /\ Segment(GDT_USER_CODE, 26)'
         /\ Segment(GDT_KERNEL_DATA, 18)' /\ Segment(GDT_USER_DATA, 18)'
<1>1. ASSUME NEW n \in 0..5, NEW access, gdt'[n] = gdt_set_entry(0, Flat, access, 207)
      PROVE  /\ gdt'[n].access = access /\ gdt'[n].granularity \div 16 = 12
             /\ Base(gdt'[n]) = 0 /\ Limit(gdt'[n]) = Flat
  BY <1>1, FlatEntry DEF Base, Limit, Flat, Word, Byte
<1>2. /\ gdt'[1] = gdt_set_entry(0, Flat, 154, 207) /\ gdt'[2] = gdt_set_entry(0, Flat, 146, 207)
      /\ gdt'[3] = gdt_set_entry(0, Flat, 250, 207) /\ gdt'[4] = gdt_set_entry(0, Flat, 242, 207)
  BY DEF gdt_init
<1>3. /\ GDT_KERNEL_CODE \div 8 = 1 /\ GDT_KERNEL_CODE % 4 = 0
      /\ GDT_KERNEL_DATA \div 8 = 2 /\ GDT_KERNEL_DATA % 4 = 0
      /\ GDT_USER_CODE \div 8 = 3 /\ GDT_USER_CODE % 4 = 3
      /\ GDT_USER_DATA \div 8 = 4 /\ GDT_USER_DATA % 4 = 3
  BY DEF GDT_KERNEL_CODE, GDT_KERNEL_DATA, GDT_USER_CODE, GDT_USER_DATA
<1>4. 154 = 128 + 32 * 0 + 26 /\ 146 = 128 + 32 * 0 + 18 /\ 250 = 128 + 32 * 3 + 26
      /\ 242 = 128 + 32 * 3 + 18
  OBVIOUS
<1>5. Segment(GDT_KERNEL_CODE, 26)'
  BY <1>1, <1>2, <1>3, <1>4 DEF Segment, Present
<1>6. Segment(GDT_USER_CODE, 26)'
  BY <1>1, <1>2, <1>3, <1>4 DEF Segment, Present
<1>7. Segment(GDT_KERNEL_DATA, 18)'
  BY <1>1, <1>2, <1>3, <1>4 DEF Segment, Present
<1>8. Segment(GDT_USER_DATA, 18)'
  BY <1>1, <1>2, <1>3, <1>4 DEF Segment, Present
<1> QED BY <1>5, <1>6, <1>7, <1>8

LEMMA SelectorsStep == IInv /\ SelectorsMatch /\ [Next]_vars => SelectorsMatch'
<1> SUFFICES ASSUME IInv, SelectorsMatch, [Next]_vars PROVE SelectorsMatch'
  OBVIOUS
<1> DEFINE Late == pc \notin {"start", "gdt_init", "tss_init"}
           Early == pc \in {"start", "gdt_init"}
<1>1. CASE gdt_init
  <2>1. pc' = "tss_init"
    BY <1>1 DEF gdt_init, Stage
  <2> QED BY <1>1, <2>1, FlatSegments, Zenon DEF SelectorsMatch
<1>2. CASE tss_init
  <2>1. PICK b \in TssBases :
           gdt' = [gdt EXCEPT ![5] = gdt_set_entry(b, b + TSS_SIZE - 1, 137, 0)]
    BY <1>2, Zenon DEF tss_init
  <2>2. pc = "tss_init" /\ DOMAIN gdt = 0..5
    BY <1>2 DEF tss_init, Stage, IInv, TypeOK
  <2>3. /\ Segment(GDT_KERNEL_CODE, 26) /\ Segment(GDT_USER_CODE, 26)
        /\ Segment(GDT_KERNEL_DATA, 18) /\ Segment(GDT_USER_DATA, 18)
    BY <2>2 DEF SelectorsMatch
  <2>4. /\ GDT_KERNEL_CODE \div 8 = 1 /\ GDT_KERNEL_DATA \div 8 = 2
        /\ GDT_USER_CODE \div 8 = 3 /\ GDT_USER_DATA \div 8 = 4 /\ GDT_TSS_SEG \div 8 = 5
    BY DEF GDT_KERNEL_CODE, GDT_KERNEL_DATA, GDT_USER_CODE, GDT_USER_DATA, GDT_TSS_SEG
  <2>5. /\ \A n \in 1..4 : gdt'[n] = gdt[n]
        /\ gdt'[5] = gdt_set_entry(b, b + TSS_SIZE - 1, 137, 0)
    BY <2>1, <2>2
  <2>6. /\ Segment(GDT_KERNEL_CODE, 26)' /\ Segment(GDT_USER_CODE, 26)'
        /\ Segment(GDT_KERNEL_DATA, 18)' /\ Segment(GDT_USER_DATA, 18)'
    <3>1. /\ gdt'[1] = gdt[1] /\ gdt'[2] = gdt[2] /\ gdt'[3] = gdt[3] /\ gdt'[4] = gdt[4]
      BY <2>5
    <3> QED BY <2>3, <2>4, <3>1, Zenon DEF Segment
  <2>7. b \in Nat /\ b \div Word < Word
    BY InterruptsAssumption
  <2>8. Base(gdt'[5]) = b /\ gdt'[5].access = 137 /\ gdt'[5].granularity < 16
    BY <2>5, <2>7, BaseWhole, TssEntry
  <2>9. 137 = 128 + 32 * 0 + 9
    OBVIOUS
  <2> QED BY <2>4, <2>6, <2>8, <2>9 DEF SelectorsMatch, Present
<1>3. CASE ~gdt_init /\ ~tss_init
  <2>1. gdt' = gdt /\ (Early => Early') /\ (~Late => ~Late')
    BY <1>3, Zenon DEF Next, vars, Raise, Accept, Spurious, isr_handler, irq_handler, Boot, kmain,
       idt_init, pic_remap, irq_gates, sti, idt_flush, timer_init, keyboard_init, int80,
       keyboard_getchar, iret, sys_exit, khalt, Stage, tables
  <2> QED BY <2>1, Zenon DEF SelectorsMatch, Segment
<1> QED BY <1>1, <1>2, <1>3

LEMMA Invariance == Spec => []IInv
BY InitInv, NextInv, PTL DEF Spec

\* Every variable keeps its type through the boot (kmain, idt_init, irq_init)
\* and every interrupt.
THEOREM TypeCorrect == Spec => []TypeOK
<1>1. IInv => TypeOK
  BY DEF IInv
<1> QED BY <1>1, Invariance, PTL

\* pic_send_eoi ends exactly what was put in service, for any lines and any
\* number of interrupts, spurious ones included.
THEOREM NeverBlocked == Spec => []NothingBlocked
<1>1. IInv => NothingBlocked
  BY DEF IInv
<1> QED BY <1>1, Invariance, PTL

\* If no line is raised between pic_remap and idt_flush, every hardware
\* interrupt enters the stub of its own line.
THEOREM OwnStub == ASSUME ~EarlyIRQs PROVE Spec => ReachesOwnStub
<1> DEFINE Own == \A l \in 0..15 :
       (l \in Lines /\ Accept(l)) \/ (l \in {7, 15} /\ Spurious(l)) =>
         cpu' = "irq" /\ int_no' = 32 + l
<1>1. IInv /\ [Next]_vars => [Own]_vars
  <2> SUFFICES ASSUME IInv, NEW l \in 0..15,
                      (l \in Lines /\ Accept(l)) \/ (l \in {7, 15} /\ Spurious(l))
               PROVE  cpu' = "irq" /\ int_no' = 32 + l
    OBVIOUS
  <2>1. IF_ /\ cpu = "kernel" /\ (l \in irr \/ ~Quiet(l)) /\ Interrupt(Vector(l))
    BY DEF Accept, Spurious, Serviceable
  <2>2. pc # "idt_flush"
    BY <2>1 DEF IInv, Ordered, Remapped, Quiet
  <2>3. idtr = "idt"
    BY <2>1, <2>2 DEF IInv, Ordered
  <2> QED BY <2>1, <2>3, EntersStub, Zenon
<1> QED BY <1>1, Invariance, PTL DEF Spec, ReachesOwnStub

\* For every address of the task state segment, the descriptors gdt_init and
\* tss_init write are those the kernel's selectors are used for.
THEOREM DescriptorsRight == Spec => []SelectorsMatch
<1>1. Init => SelectorsMatch
  BY DEF Init, SelectorsMatch
<1> QED BY <1>1, Invariance, SelectorsStep, PTL DEF Spec
=============================================================================
