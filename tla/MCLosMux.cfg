CONSTANTS
  TSK_LIMIT = 3
  LOWEST = 3
  PendObj = {m1, m2}
  WAIT_FOREVER = WAIT_FOREVER
  Isr = Isr
  Boot = Boot
  Dummy = Dummy
  NoTask = NoTask
  TIMESLICE = 1
  Calls = {"suspend", "delete"}
  IsrCalls = {}
  NestedIsr = FALSE
  Misuse = {}
  DelayTicks = {1}
  TaskPrio <- OwnPrio
  MAX_LOCK = 0
  Timeouts = {1, WAIT_FOREVER}
  MuxCalls = {"create", "delete", "pend", "post"}
  Lifo = TRUE
  MAX_COUNT = 2
SPECIFICATION MuxSpec
INVARIANTS MuxTypeOK HolderOwns GrantOrTimeout NoForgottenWaiter PriorityRestored
SYMMETRY MuxSymmetry
