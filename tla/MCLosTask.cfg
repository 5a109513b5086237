CONSTANTS
  TSK_LIMIT = 2
  LOWEST = 2
  PendObj = {}
  WAIT_FOREVER = WAIT_FOREVER
  Isr = Isr
  Boot = Boot
  Dummy = Dummy
  NoTask = NoTask
  TIMESLICE = 2
  Calls <- AllCalls
  IsrCalls = {"resume", "delete"}
  NestedIsr = FALSE
  Misuse = {}
  DelayTicks = {1, 2}
  TaskPrio <- TwoPrios
  MAX_LOCK = 1
SPECIFICATION Spec
INVARIANTS TypeOK ReadyQueues ListNodes Timers NoFault NoTaskLost HighestRuns
PROPERTIES LockHolds DelayEnds SharesCpu
