CONSTANTS
  TSK_LIMIT = 2
  LOWEST = 2
  PendObj = {e1}
  WAIT_FOREVER = WAIT_FOREVER
  Isr = Isr
  Boot = Boot
  Dummy = Dummy
  NoTask = NoTask
  TIMESLICE = 1
  Calls = {"delete"}
  IsrCalls = {}
  NestedIsr = FALSE
  Misuse = {"destroy used"}
  DelayTicks = {1}
  TaskPrio <- OwnPrio
  MAX_LOCK = 0
  Bit = {b1, b2}
  ErrorBit = ErrorBit
  Timeouts = {0, 1, WAIT_FOREVER}
  EventCalls = {"init", "destroy", "read", "write", "clear", "poll"}
  IsrEventCalls = {"write", "clear"}
SPECIFICATION EventSpec
INVARIANTS NoSleepingMatch ReadTold
SYMMETRY BitSymmetry
CHECK_DEADLOCK FALSE
