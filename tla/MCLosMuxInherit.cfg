CONSTANTS
  TSK_LIMIT = 3
  LOWEST = 3
  PendObj = {m1}
  WAIT_FOREVER = WAIT_FOREVER
  Isr = Isr
  Boot = Boot
  Dummy = Dummy
  NoTask = NoTask
  TIMESLICE = 1
  Calls = {"delay"}
  IsrCalls = {}
  NestedIsr = FALSE
  Misuse = {}
  DelayTicks = {1}
  TaskPrio <- OwnPrio
  MAX_LOCK = 0
  Timeouts = {1, WAIT_FOREVER}
  MuxCalls = {"create", "pend", "post"}
  Lifo = TRUE
  MAX_COUNT = 1
SPECIFICATION MuxSpec
INVARIANTS OwnerInherits
