CONSTANTS
  TSK_LIMIT = 2
  LOWEST = 2
  PendObj = {}
  WAIT_FOREVER = WAIT_FOREVER
  Isr = Isr
  Boot = Boot
  Dummy = Dummy
  NoTask = NoTask
  TIMESLICE = 2
  Calls = {"create", "delay", "suspend"}
  IsrCalls = {"resume"}
  NestedIsr = TRUE
  Misuse = {}
  DelayTicks = {1, 2}
  TaskPrio <- TwoPrios
  MAX_LOCK = 1
SPECIFICATION Spec
INVARIANTS NoTaskLost
