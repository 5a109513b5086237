CONSTANTS
  TSK_LIMIT = 2
  LOWEST = 2
  PendObj = {s1}
  WAIT_FOREVER = WAIT_FOREVER
  Isr = Isr
  Boot = Boot
  Dummy = Dummy
  NoTask = NoTask
  TIMESLICE = 1
  Calls = {"suspend", "delete", "lock"}
  IsrCalls = {"resume"}
  NestedIsr = FALSE
  Misuse = {}
  DelayTicks = {1}
  TaskPrio <- OwnPrio
  MAX_LOCK = 1
  OS_SEM_COUNTING_MAX_COUNT = 2
  Timeouts = {1, 2, WAIT_FOREVER}
  SemCalls = {"create", "delete", "pend", "post"}
  IsrSemCalls = {"pend", "post"}
SPECIFICATION SemSpec
INVARIANTS NoTokenUntaken
PROPERTIES TokensConserved ReturnCodesTrue TimedWaitEnds
