CONSTANTS
  TSK_LIMIT = 2
  LOWEST = 2
  PendObj <- WaitLists
  WAIT_FOREVER = WAIT_FOREVER
  Isr = Isr
  Boot = Boot
  Dummy = Dummy
  NoTask = NoTask
  TIMESLICE = 1
  Calls = {"lock"}
  IsrCalls = {}
  NestedIsr = FALSE
  Misuse = {}
  DelayTicks = {1}
  TaskPrio <- OwnPrio
  MAX_LOCK = 1
  Queue = {q1}
  Msg = {m1, m2}
  NoMsg = NoMsg
  Block = {b1}
  QueueLens = {1}
  Timeouts = {1, WAIT_FOREVER}
  QueueCalls = {"create", "alloc", "free"}
  IsrQueueCalls = {}
SPECIFICATION QueueSpec
INVARIANTS MailGranted
