\* Either handler on IRQ0, three processes beside kmain's.
CONSTANTS
  Idle = idle
  Procs = {idle, p1, p2, p3}
  NULL = null
  Boot = boot
  KernelDir = kdir
  UserDirs = {udir}
  SearchBound = 2
  TickMod = 2
  Handlers = {"scheduler_tick", "timer_irq_tick"}
  PidMod = 4
  PsMax = 3
  MaxCreated = 3
SPECIFICATION FairProcSpec
INVARIANTS RingOK OneRunning StacksApart TrapStack Interruptible BlocksExact PsExact
PROPERTIES ZombiesStay SearchComplete NoStarvation
