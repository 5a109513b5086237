CONSTANTS
  TSK_LIMIT = 2
  LOWEST = 2
  PendObj <- WaitLists
  WAIT_FOREVER = WAIT_FOREVER
  Isr = Isr
  Boot = Boot
  Dummy = Dummy
  NoTask = NoTask
  TIMESLICE = 1
  Calls = {"delete"}
  IsrCalls = {}
  NestedIsr = FALSE
  Misuse = {}
  DelayTicks = {1}
  TaskPrio <- OwnPrio
  MAX_LOCK = 0
  Queue = {q1}
  Msg = {m1, m2}
  NoMsg = NoMsg
  Block = {b1, b2}
  QueueLens = {1, 2}
  Timeouts = {1, WAIT_FOREVER}
  QueueCalls = {"create", "delete", "read", "writetail", "writehead", "alloc", "free"}
  IsrQueueCalls = {"read", "writetail", "free"}
SPECIFICATION QueueSpec
INVARIANTS ReservationsHold NobodyForgotten DeletedIdle OneOwner MailGranted
PROPERTIES BoundedFifo
SYMMETRY MsgSymmetry
